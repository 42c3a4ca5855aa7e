---------------------------- MODULE MCSwarmNode ----------------------------
(***************************************************************************)
(* A small SwarmNode: requests that conflict, collide and are refused.     *)
(***************************************************************************)
EXTENDS SwarmNode

CONSTANTS a, b

MCAttempt == [v \in Values |-> NoAttempt]

Set(k, v, t) == [key |-> k, value |-> v, time |-> t, generation |-> Unstated]
Cell(w, writes) == [writer |-> w, writes |-> writes]
Post(cells) == [kind |-> "reconcile", cells |-> cells]
Has(k, v, g, t, w) ==
    [key |-> k, entry |-> [value |-> v, generation |-> g, time |-> t, writer |-> w]]
Send(entries) == [kind |-> "merge", entries |-> entries]

\* One cell; two cells, one of which deletes; a peer's state of two keys; a
\* request that collides in a cell, one that collides in a list, one that
\* collides with the first, one too far ahead, one at the limit of the clock.
MCRequests ==
    {Post(<<Cell(1, <<Set(1, a, 1)>>)>>),
     Post(<<Cell(1, <<Set(1, b, 2)>>), Cell(2, <<Set(1, a, 1), Set(1, Tombstone, 2)>>)>>),
     Post(<<Cell(2, <<Set(1, a, 1), Set(1, b, 1)>>)>>),
     Post(<<Cell(1, <<Set(1, b, 1)>>)>>),
     Post(<<Cell(1, <<Set(2, b, 4)>>)>>),
     Send(<<Has(1, Tombstone, 2, 3, 2), Has(2, a, 1, 1, 1)>>),
     Send(<<Has(2, a, 1, 1, 2), Has(2, b, 1, 1, 2)>>),
     Send(<<Has(2, a, 1, 5, 2)>>)}
=============================================================================
