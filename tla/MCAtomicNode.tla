---------------------------- MODULE MCAtomicNode ----------------------------
(***************************************************************************)
(* A small AtomicNode: a plain key 1 and a mission 2, two writers, times   *)
(* up to the limit of the clock, and requests of every shape.              *)
(***************************************************************************)
EXTENDS AtomicNode

\* Plain values; missions of attempts 0 (two of them), 1 and the last two.
CONSTANTS a, b, m0, other0, m1, mNext, mLast

MCValues == {a, b, m0, other0, m1, mNext, mLast}
MCAttempt == [v \in MCValues |->
                 CASE v \in {m0, other0} -> 0 [] v = m1 -> 1
                   [] v = mNext -> MaxU64 - 1 [] v = mLast -> MaxU64 [] OTHER -> NoAttempt]

Set(v, t) == [key |-> 1, value |-> v, time |-> t, generation |-> Unstated]
Del(k, t) == [key |-> k, value |-> Tombstone, time |-> t, generation |-> Unstated]
Mission(v, t, g) == [key |-> 2, value |-> v, time |-> t, generation |-> g]
Cell(w, writes) == [writer |-> w, writes |-> writes]
Post(cells) == [kind |-> "reconcile", cells |-> cells]
Has(k, v, g, t, w) ==
    [key |-> k, entry |-> [value |-> v, generation |-> g, time |-> t, writer |-> w]]
Send(entries) == [kind |-> "merge", entries |-> entries]

MCRequests ==
    {Post(<<Cell(w, <<Set(v, t)>>)>>) : v \in {a, b}, t \in {1, 3}, w \in {1, 2}}
    \cup {Post(<<Cell(w, <<Del(1, t)>>)>>) : t \in {2, 3, 4}, w \in {1, 2}}
    \cup {Post(<<Cell(1, <<Set(a, 1), Del(1, 2)>>)>>),
          Post(<<Cell(1, <<Set(a, 2), Del(1, 1), Set(b, 3)>>)>>),
          Post(<<Cell(2, <<Del(1, 1), Set(b, 2)>>)>>),
          Post(<<Cell(1, <<Set(a, 1), Del(1, 2), Set(b, 3)>>), Cell(2, <<Set(a, 3)>>)>>),
          Post(<<Cell(1, <<Set(a, 1), Set(b, 1)>>)>>),
          Post(<<Cell(1, <<Set(a, 2)>>), Cell(1, <<Set(b, 2)>>)>>),
          Post(<<Cell(1, <<Mission(m0, 2, 1)>>)>>),
          Post(<<Cell(2, <<Mission(m1, 1, 2)>>)>>),
          Post(<<Cell(2, <<Mission(m1, 2, 1)>>)>>),
          Post(<<Cell(1, <<Mission(a, 1, 1)>>)>>),
          Post(<<Cell(1, <<Mission(m0, 1, 1), Del(2, 3)>>)>>),
          Post(<<Cell(1, <<Mission(mLast, 1, MaxU64), Del(2, 2)>>)>>),
          Post(<<Cell(1, <<Mission(mLast, 1, MaxU64)>>)>>),
          Post(<<Cell(2, <<Mission(mNext, 3, MaxU64)>>)>>),
          Post(<<Cell(2, <<Del(2, 2)>>)>>),
          Post(<<Cell(1, <<Mission(m0, 2, 1), Mission(other0, 2, 1)>>)>>),
          Post(<<Cell(1, <<Mission(other0, 2, 1)>>)>>),
          Post(<< >>), Send(<< >>),
          Send(<<Has(1, a, 1, 1, 1), Has(1, b, 1, 0, 1), Has(1, b, 1, 1, 1)>>),
          Send(<<Has(1, Tombstone, 2, 2, 2)>>),
          Send(<<Has(1, b, 3, 1, 1), Has(1, a, 1, 3, 1)>>),
          Send(<<Has(1, a, 1, 1, 1), Has(1, b, 1, 1, 1)>>),
          Send(<<Has(1, a, 4, 2, 2)>>),
          Send(<<Has(1, a, 1, 4, 2), Has(2, m0, 1, 1, 2)>>),
          Send(<<Has(2, m1, 2, 3, 1), Has(1, a, 0, 1, 2)>>),
          Send(<<Has(2, m1, 2, 3, 1)>>),
          Send(<<Has(1, Tombstone, 2, 1, 1), Has(2, m0, 1, 4, 1)>>)}
=============================================================================
