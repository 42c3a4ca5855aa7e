------------------------------ MODULE MCSwarm ------------------------------
(***************************************************************************)
(* A small Swarm. Each write of a writer has a time of its own, the key is *)
(* written, deleted and written again, and a cell posted in part at one    *)
(* node may be posted whole at another.                                    *)
(***************************************************************************)
EXTENDS Swarm

CONSTANTS a, b, n1, n2, n3

MCAttempt == [v \in Values |-> NoAttempt]

W(k, v, t) == [key |-> k, value |-> v, time |-> t, generation |-> Unstated]
Cell(w, writes) == [writer |-> w, writes |-> writes]
Post(cells) == [kind |-> "reconcile", cells |-> cells]

MCPosts ==
    {Post(<<Cell(1, <<W(1, a, 1)>>)>>),
     Post(<<Cell(1, <<W(1, a, 1), W(1, Tombstone, 2)>>)>>),
     Post(<<Cell(2, <<W(1, b, 1)>>)>>),
     Post(<<Cell(2, <<W(1, Tombstone, 3)>>)>>),
     Post(<<Cell(1, <<W(1, a, 1), W(1, Tombstone, 2), W(1, b, 3)>>), Cell(2, <<W(2, a, 1)>>)>>)}

\* In the ring: a scenario that deletes, and a part of it; and a write with a
\* later time and a lower generation than that deletion, which only a node that
\* has taken one of the others accepts, and a node that has not is too far
\* behind for.
MCRingPosts ==
    {Post(<<Cell(1, <<W(1, a, 1), W(1, Tombstone, 2)>>), Cell(2, <<W(2, a, 1)>>)>>),
     Post(<<Cell(2, <<W(2, a, 1)>>)>>),
     Post(<<Cell(2, <<W(1, b, 3)>>)>>)}

\* The posts are what their peers ask of them, but for a key no peer takes.
ASSUME PostsAreProper == StampsAreOwn /\ (InvalidKeys = {} => PostsAreModest)

\* Two nodes that ask each other, and a ring of three.
Pair == (n1 :> <<n2>>) @@ (n2 :> <<n1>>)
Ring == (n1 :> <<n2>>) @@ (n2 :> <<n3>>) @@ (n3 :> <<n1>>)

\* In both, what one node holds reaches all others.
ASSUME PeersAreProper == AllHearOfAll
=============================================================================
