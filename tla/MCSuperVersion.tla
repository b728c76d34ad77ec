--------------------------- MODULE MCSuperVersion --------------------------
(***************************************************************************)
(* Instances of SuperVersion for TLC.                                      *)
(***************************************************************************)
EXTENDS SuperVersion, TLC

CONSTANTS r1, r2

MCReader == {r1, r2}

LatestOf(kind) == [kind |-> kind, snapshot |-> FALSE]
SnapshotOf(kind) == [kind |-> kind, snapshot |-> TRUE]

\* One reader reads a, the other b, next to two writes.
Reads(a, b, fs, snaps, fails) ==
    [reads |-> (r1 :> a @@ r2 :> b), maxSequence |-> 2, maxFiles |-> fs,
     maxSnapshots |-> snaps, maxFailures |-> fails]

\* A thread that reads twice finds its pointer in the cache; two threads race for the
\* last reference; snapshots outlive flushes and compactions; a third file lets
\* a flush and a compaction run side by side.
MCWorkloads ==
    {Reads(<<LatestOf("Get"), LatestOf("Get")>>, <<>>, 2, 0, 0),
     Reads(<<LatestOf("Get")>>, <<LatestOf("Get")>>, 2, 0, 0),
     Reads(<<LatestOf("Get")>>, <<LatestOf("NewIterator")>>, 2, 0, 0),
     Reads(<<SnapshotOf("NewIterator")>>, <<>>, 3, 1, 0),
     Reads(<<LatestOf("MultiGet")>>, <<>>, 3, 0, 1),
     Reads(<<SnapshotOf("Get"), SnapshotOf("MultiGet")>>, <<>>, 2, 1, 0)}

IteratorWorkload == {Reads(<<LatestOf("NewIterator")>>, <<>>, 2, 0, 0)}
============================================================================
