------------------------------- MODULE Swarm -------------------------------
(***************************************************************************)
(* Several nodes that exchange their state: the gossip thread of           *)
(* src/server.rs over the client of src/gossip.rs, next to callers that    *)
(* post to any node.  A node serves one request in one step, which is what *)
(* SwarmNode is shown to implement; a pull and a push are several steps,   *)
(* so what they carry may be stale when it is merged.                      *)
(***************************************************************************)
EXTENDS Handlers

CONSTANTS
    Nodes,
    Peers,        \* for each node, its --peer list
    Push,         \* --gossip-push
    Posts,        \* the scenarios callers post
    MaxPush,      \* the most entries that fit the body of a push (MAX_BODY_BYTES)
    MaxPosts,     \* bound: how many posts there are in all
    MaxFailures   \* bound: how many exchanges fail and nodes are killed in all

ASSUME SwarmAssumption ==
    /\ Nodes # {} /\ Peers \in [Nodes -> Seq(Nodes)]
    /\ Push \in BOOLEAN
    /\ Posts \subseteq AllRequests
    /\ MaxPush \in Nat /\ MaxPosts \in Nat /\ MaxFailures \in Nat

VARIABLES
    state,     \* the map of each node
    up,        \* the nodes that run
    round,     \* where the gossip thread of each node is: peer, stage, what it pulled
    inFlight,  \* pushes sent and not yet merged; the sender awaits some of them
    failing,   \* the peers a node tells of that the last exchange with them failed
    posts, failures,
    known      \* kept by the model: the newest entry of each key any node accepted

vars == <<state, up, round, inFlight, failing, posts, failures, known>>

Stages == {"pull", "merge", "push", "await"}
AtPeer(i) == [peer |-> i, stage |-> "pull", pulled |-> Empty]

Init ==
    /\ state = [n \in Nodes |-> Empty]
    /\ up = Nodes
    /\ round = [n \in Nodes |-> AtPeer(1)]
    /\ inFlight = {}
    /\ failing = [n \in Nodes |-> {}]
    /\ posts = 0 /\ failures = 0
    /\ known = Empty

Peer(n) == Peers[n][round[n].peer]

\* Bug: the round does not start over after the last peer.
NextPeerUnwrapped(n) == AtPeer(round[n].peer + 1)

NextPeer(n) == AtPeer((round[n].peer % Len(Peers[n])) + 1)

\* The exchange of a node with a peer is over: it says how, and goes on.
Ends(n, ok) ==
    /\ failing' = [failing EXCEPT ![n] = IF ok THEN @ \ {round[n].peer}
                                              ELSE @ \cup {round[n].peer}]
    /\ round' = [round EXCEPT ![n] = NextPeer(n)]

\* The exchange fails: the peer is down, or something goes wrong.
Fails(peer) ==
    IF peer \in up THEN failures < MaxFailures /\ failures' = failures + 1
                    ELSE UNCHANGED failures

-----------------------------------------------------------------------------

\* A node merges the full state of another, or refuses it and stays as it was.
MergeState(n, map) ==
    IF AcceptsState(map, state[n])
    THEN /\ state' = [state EXCEPT ![n] = Merge(@, map)]
         /\ known' = Merge(known, map)
    ELSE UNCHANGED <<state, known>>

\* What is pushed is the body of a request.
Fits(map) == Cardinality(Held(map)) <= MaxPush

\* What a scenario brings, whatever a node holds (RequestIsOneMap in HandlersProofs).
Posted(r) == After(r, Empty)

\* A caller posts a scenario to a node: any, so also one posted elsewhere before.
PostTo(n, r) ==
    /\ n \in up /\ posts < MaxPosts
    /\ Accepts(r, state[n])
    /\ state' = [state EXCEPT ![n] = After(r, @)]
    /\ known' = Merge(known, Posted(r))
    /\ posts' = posts + 1
    /\ UNCHANGED <<up, round, inFlight, failing, failures>>

\* The answer of GET /state?full=1 arrives; no lock is held from here on.
Pull(n) ==
    /\ n \in up /\ Peers[n] # << >> /\ round[n].stage = "pull"
    /\ Peer(n) \in up
    /\ round' = [round EXCEPT ![n].stage = "merge", ![n].pulled = state[Peer(n)]]
    /\ UNCHANGED <<state, up, inFlight, failing, posts, failures, known>>

PullFails(n) ==
    /\ n \in up /\ Peers[n] # << >> /\ round[n].stage = "pull"
    /\ Fails(Peer(n))
    /\ Ends(n, FALSE)
    /\ UNCHANGED <<state, up, inFlight, posts, known>>

\* Bug: what was pulled replaces what is held.
MergePulledOver(n) ==
    /\ n \in up /\ round[n].stage = "merge"
    /\ state' = [state EXCEPT ![n] = round[n].pulled]
    /\ Ends(n, TRUE)
    /\ UNCHANGED <<up, inFlight, posts, failures, known>>

\* Bug: a refused state ends the gossip thread.
MergePulledOrStop(n) ==
    LET pulled == round[n].pulled
        refused == Held(pulled) # {} /\ ~AcceptsState(pulled, state[n])
    IN  /\ n \in up /\ round[n].stage = "merge" /\ ~refused
        /\ MergeState(n, pulled)
        /\ IF ~Push THEN Ends(n, TRUE)
           ELSE round' = [round EXCEPT ![n].stage = "push", ![n].pulled = Empty]
                /\ UNCHANGED failing
        /\ UNCHANGED <<up, inFlight, posts, failures>>

\* What was pulled is merged through the same checks as a request. A peer
\* with no entries is not merged; one that is refused is not pushed to.
MergePulled(n) ==
    LET pulled == round[n].pulled
        refused == Held(pulled) # {} /\ ~AcceptsState(pulled, state[n])
    IN  /\ n \in up /\ round[n].stage = "merge"
        /\ MergeState(n, pulled)
        /\ IF refused THEN Ends(n, FALSE)
           ELSE IF ~Push THEN Ends(n, TRUE)
           ELSE round' = [round EXCEPT ![n].stage = "push", ![n].pulled = Empty]
                /\ UNCHANGED failing
        /\ UNCHANGED <<up, inFlight, posts, failures>>

Awaited(n) == {x \in inFlight : x.from = n /\ x.awaited}

\* Our own state goes out, unless there is none, or the peer cannot be reached.
SendPush(n) ==
    /\ n \in up /\ round[n].stage = "push"
    /\ IF Held(state[n]) = {} THEN Ends(n, TRUE) /\ UNCHANGED inFlight
       ELSE IF Peer(n) \notin up THEN Ends(n, FALSE) /\ UNCHANGED inFlight
       ELSE /\ inFlight' = inFlight \cup
                   {[from |-> n, to |-> Peer(n), map |-> state[n], awaited |-> TRUE]}
            /\ round' = [round EXCEPT ![n].stage = "await"]
            /\ UNCHANGED failing
    /\ UNCHANGED <<state, up, posts, failures, known>>

\* The sender is waiting for the answer, and this is it.
Answered(x, ok) == IF x.awaited THEN Ends(x.from, ok) ELSE UNCHANGED <<failing, round>>

\* Bug: the status of the answer is not looked at.
DeliverAnyStatus(x) ==
    /\ x.to \in up
    /\ IF Fits(x.map) THEN MergeState(x.to, x.map) ELSE UNCHANGED <<state, known>>
    /\ Answered(x, TRUE)
    /\ inFlight' = inFlight \ {x}
    /\ UNCHANGED <<up, posts, failures>>

\* A push arrives, perhaps long after its sender gave it up; one that is larger
\* than a body may be is refused before it is read (413).
Deliver(x) ==
    /\ x.to \in up
    /\ IF Fits(x.map) THEN MergeState(x.to, x.map) ELSE UNCHANGED <<state, known>>
    /\ Answered(x, Fits(x.map) /\ AcceptsState(x.map, state[x.to]))
    /\ inFlight' = inFlight \ {x}
    /\ UNCHANGED <<up, posts, failures>>

Lose(x) ==
    /\ Fails(x.to)
    /\ Answered(x, FALSE)
    /\ inFlight' = inFlight \ {x}
    /\ UNCHANGED <<state, up, posts, known>>

\* The answer is waited for only so long: the push may still be merged, after
\* this node has moved on and both have changed.
Forsaken(pushes) == {[x EXCEPT !.awaited = FALSE] : x \in pushes}
GiveUp(x) ==
    /\ x.awaited /\ x.to \in up /\ Fails(x.to)
    /\ Ends(x.from, FALSE)
    /\ inFlight' = (inFlight \ {x}) \cup Forsaken({x})
    /\ UNCHANGED <<state, up, posts, known>>

\* A killed node comes back with the state it had served (SwarmNode), a gossip
\* thread at its first peer and nothing to tell.
Kill(n) ==
    /\ n \in up /\ failures < MaxFailures
    /\ up' = up \ {n}
    /\ failures' = failures + 1
    /\ round' = [round EXCEPT ![n] = AtPeer(1)]
    /\ failing' = [failing EXCEPT ![n] = {}]
    /\ inFlight' = (inFlight \ Awaited(n)) \cup Forsaken(Awaited(n))
    /\ UNCHANGED <<state, posts, known>>

Restart(n) ==
    /\ n \notin up
    /\ up' = up \cup {n}
    /\ UNCHANGED <<state, round, inFlight, failing, posts, failures, known>>

Gossip(n) == Pull(n) \/ PullFails(n) \/ MergePulled(n) \/ SendPush(n)

Next ==
    \/ \E n \in Nodes : \/ \E r \in Posts : PostTo(n, r)
                        \/ Gossip(n) \/ Kill(n) \/ Restart(n)
    \/ \E x \in inFlight : Deliver(x) \/ Lose(x) \/ GiveUp(x)

Spec == Init /\ [][Next]_vars

\* An awaited push is answered, or fails, or is given up.
PushEnds(n) == \E x \in Awaited(n) : Deliver(x) \/ Lose(x) \/ GiveUp(x)

\* The gossip thread never stops, no step of it takes for ever, and a stopped
\* service is started again. Nothing is asked of a push nobody awaits.
FairSpec ==
    /\ Spec
    /\ \A n \in Nodes : WF_vars(Gossip(n)) /\ WF_vars(PushEnds(n)) /\ WF_vars(Restart(n))

-----------------------------------------------------------------------------
(* Correctness. *)

TypeOK ==
    /\ state \in [Nodes -> Maps] /\ up \subseteq Nodes
    /\ round \in [Nodes -> [peer: Nat, stage: Stages, pulled: Maps]]
    /\ failing \in [Nodes -> SUBSET Nat]
    /\ \A n \in Nodes :
          /\ round[n].peer \in DOMAIN Peers[n] \/ (Peers[n] = << >> /\ round[n] = AtPeer(1))
          /\ round[n].stage # "merge" => round[n].pulled = Empty
          /\ failing[n] \subseteq DOMAIN Peers[n]
          /\ round[n].stage = "await" <=> Awaited(n) # {}
          /\ \A x, y \in Awaited(n) : x = y
    /\ inFlight \subseteq [from: Nodes, to: Nodes, map: Maps, awaited: BOOLEAN]
    /\ posts \in 0 .. MaxPosts /\ failures \in 0 .. MaxFailures /\ known \in Maps

\* Callers sign each write with a time of its own.
StampsAreOwn == \A r, s \in Posts : ~MergeCollides(Posted(r), Posted(s))

\* Every node asks every other, directly or through others: a set of nodes that
\* nobody else asks is all of them.
AllHearOfAll ==
    \A S \in SUBSET Nodes :
        /\ S # {}
        /\ \A n \in Nodes : \A i \in DOMAIN Peers[n] : Peers[n][i] \in S => n \in S
        => S = Nodes

\* A stamp names one value everywhere, in what nodes hold and in what is on its
\* way, when callers sign each write with a time of its own: no honest exchange
\* is ever the "impossible" collision.
StampsAgree ==
    LET maps == {state[n] : n \in Nodes} \cup {x.map : x \in inFlight}
                    \cup {round[n].pulled : n \in Nodes}
    IN  \A m, o \in maps : ~MergeCollides(m, o)

\* Of everything any node ever accepted, the newest entry of each key is still
\* held by some node, and no node holds anything newer.
NoWriteLost ==
    /\ \A k \in Keys : \E n \in Nodes : state[n][k] = known[k]
    /\ \A n \in Nodes : MapCovers(known, state[n])

\* No exchange, however stale, takes an entry of a node back, and neither does
\* a restart.
EntriesOnlyAdvance == [][\A n \in Nodes : MapCovers(state'[n], state[n])]_state

\* What is posted is what peers take: their keys, not too many of them, and no
\* generation they have to be led up to.
PostsAreModest ==
    LET written == UNION {Held(Posted(r)) : r \in Posts}
    IN  /\ written \cap InvalidKeys = {} /\ Cardinality(written) <= MaxEntries
        /\ \A r \in Posts : \A k \in Held(Posted(r)) :
              Posted(r)[k].generation <= MaxGenerationJump

\* While no node is further behind than the time jump allows, every node accepts
\* the full state of every other, when the posts are as above.
PeersAcceptEachOther ==
    \A n, p \in Nodes :
        /\ Held(state[p]) # {}
        /\ MaxTime(state[p]) <= TimeLimit(state[n])
        => AcceptsState(state[p], state[n])

\* A node tells of no error with a peer (lastError) only if it holds everything
\* it pulled and the peer holds everything it pushed: a state that is refused,
\* or too large to be pushed, is told of.
SilenceMeansExchanged ==
    [][\A n \in up' : round[n].peer \notin failing'[n] =>
          /\ round[n].stage = "merge" /\ round'[n].stage # "merge"
             => MapCovers(state'[n], round[n].pulled)
          /\ \A x \in Awaited(n) : x \in inFlight' \/ MapCovers(state'[x.to], x.map)]_vars

\* A node too far behind a peer (further than the time jump allows) refuses its
\* state, whole, in every round, until a post or another peer has moved its own
\* time. Nothing else leaves a node out: in the end each holds all of every peer
\* that is not too far ahead of it, also of one it refused while it was.
NearPeersConverge ==
    <>[](\A n \in Nodes : \A i \in DOMAIN Peers[n] :
            LET peer == Peers[n][i]
            IN  MaxTime(state[peer]) <= TimeLimit(state[n])
                    => MapCovers(state[n], state[peer]))

\* gossip.rs: nodes that ask each other "converge whatever either wrote and
\* deleted while they could not talk", on the newest entry of each key.
Convergence == <>[](\A n \in Nodes : state[n] = known)
=============================================================================
