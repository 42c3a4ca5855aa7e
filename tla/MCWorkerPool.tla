---------------------------- MODULE MCWorkerPool ----------------------------
(***************************************************************************)
(* Two workers, one of which a slow upload may hold, the gossip thread,    *)
(* and three more requests of several mixes.                               *)
(***************************************************************************)
EXTENDS WorkerPool, TLC

CONSTANTS r1, r2, r3, slow

Mix(a, b, c) == (r1 :> a) @@ (r2 :> b) @@ (r3 :> c) @@ (slow :> "merge")

MCMixes ==
    {Mix("merge", "state", "stats"), Mix("merge", "state", "metrics"),
     Mix("merge", "stats", "stats"), Mix("plain", "state", "state")}
=============================================================================
