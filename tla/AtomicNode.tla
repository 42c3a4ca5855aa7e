----------------------------- MODULE AtomicNode -----------------------------
(***************************************************************************)
(* What a node promises about its map: it is empty when the node is first  *)
(* started, and changes only by one whole accepted request at a time.      *)
(* A refused request changes nothing, and neither does a crash.            *)
(***************************************************************************)
EXTENDS Handlers

CONSTANT Requests   \* the requests callers and peers make

\* Their fields are of the types of the code.
ASSUME RequestsAssumption == Requests \subseteq AllRequests

VARIABLE state

Init == state = Empty

Serve(r) ==
    /\ Accepts(r, state)
    /\ state' = After(r, state)

Next == \E r \in Requests : Serve(r)

Spec == Init /\ [][Next]_state

TypeOK == state \in Maps

-----------------------------------------------------------------------------
(* What must hold of it. *)

\* A caller that saw no answer may send the request again. It leaves the map as
\* the first delivery left it. It is accepted again, but for two cases: the newest
\* time fell, when it was that of an entry the request replaced by a later
\* generation, so that the limit on time fell with it; and add-wins, under which
\* entries of one stamp may have stood one behind the other.
RetryIsHarmless ==
    \A r \in Requests : Accepts(r, state) =>
        LET after == After(r, state)
        IN  /\ After(r, after) = after
            /\ ~AddWins /\ MaxTime(state) <= MaxTime(after) => Accepts(r, after)

\* Two requests accepted in either order leave the same map: what the node
\* holds does not depend on the order in which cells reconnect.
OrderDoesNotMatter ==
    \A r, s \in Requests :
        /\ Accepts(r, state) /\ Accepts(s, After(r, state))
        /\ Accepts(s, state) /\ Accepts(r, After(s, state))
        => After(s, After(r, state)) = After(r, After(s, state))

\* The full state a node answers, tombstones and stamps included, is all of its
\* map: a node that takes its entries as a request ends with the merge of the
\* two maps, and refuses them just when the map itself would be refused.
FullStateIsLossless ==
    \A m \in {Empty} \cup {After(r, Empty) : r \in {q \in Requests : Accepts(q, Empty)}} :
        LET h == Handle(StateRequest(state), m)
        IN  /\ h.ok <=> AcceptsState(state, m)
            /\ h.ok => h.map = Merge(m, state)

\* One request moves the newest time at most MaxTimeJump further, by either
\* route, so whatever it wrote the next request can still correct.
TimeStepBounded == [][MaxTime(state') <= TimeLimit(state)]_state

\* The attempt of a mission or a zone reservation is a fencing token: a record
\* is never replaced by one of an earlier attempt, by either route. Only the last
\* two attempts of 64 bits share a generation and do not fence each other.
AttemptsAreFenced ==
    [][\A k \in RecordKeys :
          LET shows(m) == m[k] # NoEntry /\ ~IsTombstone(m[k])
              old == Attempt[state[k].value]
              new == Attempt[state'[k].value]
          IN  shows(state) /\ shows(state') =>
                  new >= old \/ (old = MaxU64 /\ new + 1 = MaxU64)]_state

\* CLI_REFERENCE, --presence: "a delete beats every add of the same life, even
\* one with a later time".
DeleteBeatsItsLife ==
    [][\A k \in Keys :
          state[k] # NoEntry /\ ~IsTombstone(state[k]) /\ IsTombstone(state'[k])
          => \A t \in U64, w \in Writers :
                Covers(state'[k], [state[k] EXCEPT !.time = t, !.writer = w])]_state

\* A cell that reports, in order of time, keys the node never saw leaves each
\* of them as its last write left it: set and then deleted is gone, deleted and
\* then set again is there.
CellsEndAsWritten ==
    \A r \in {q \in Requests : q.kind = "reconcile" /\ Len(q.cells) = 1} :
        LET ws == r.cells[1].writes
            inOrder == \A j \in DOMAIN ws : /\ ws[j].generation = Unstated
                                            /\ j > 1 => ws[j - 1].time < ws[j].time
            last(k) == {j \in DOMAIN ws : /\ ws[j].key = k
                                          /\ \A l \in j + 1 .. Len(ws) : ws[l].key # k}
        IN  inOrder /\ Accepts(r, state) =>
                \A k \in Keys \ Held(state) : \A j \in last(k) :
                    After(r, state)[k].value = ws[j].value
=============================================================================
