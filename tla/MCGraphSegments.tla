-------------------------- MODULE MCGraphSegments --------------------------
(***************************************************************************)
(* Model checking of GraphSegments.                                        *)
(***************************************************************************)
EXTENDS GraphSegments

\* Bounds: only checkpoints taken after the first commit are explored; two of
\* the commits are left to the incarnation after the first crash; before the last
\* crash at most one transaction fails or is cut off; and of the incarnation
\* after it only the opening is explored, since no crash follows.
UsefulCheckpoint == checkpoint # None => checkpoint.revision > 0
CommitsAfterCrash == crashes = 0 => used + 1 < MaxTxns
OneUnfinished ==
    crashes < MaxCrashes =>
        \A t, u \in 1 .. used \ CommittedIn(disk.txn, Len(disk.txn)) :
            t = u \/ (cur # None /\ cur.txn \in {t, u})
CrashAhead == crashes = MaxCrashes => status = "down"
=============================================================================
