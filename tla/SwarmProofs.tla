----------------------------- MODULE SwarmProofs -----------------------------
(***************************************************************************)
(* What the exchange of maps between nodes keeps, for any nodes, lists of  *)
(* peers and posts, and however many pushes are lost, late or refused and  *)
(* nodes are killed.                                                       *)
(***************************************************************************)
EXTENDS Swarm, HandlersProofs

ThreadRounds == [peer: Nat, stage: Stages, pulled: Maps]
Pushes == [from: Nodes, to: Nodes, map: Maps, awaited: BOOLEAN]

\* The gossip thread of a node is at a peer it has.
Placed(n) ==
    /\ round[n].peer \in DOMAIN Peers[n] \/ (Peers[n] = << >> /\ round[n] = AtPeer(1))
    /\ round[n].stage # "merge" => round[n].pulled = Empty
    /\ failing[n] \subseteq DOMAIN Peers[n]

\* It awaits one push at most, and only at the stage for it.
AwaitsOne(n) ==
    /\ round[n].stage = "await" <=> Awaited(n) # {}
    /\ \A x, y \in Awaited(n) : x = y

\* All that is said of the threads and the pushes.
Threads ==
    /\ round \in [Nodes -> ThreadRounds] /\ failing \in [Nodes -> SUBSET Nat]
    /\ inFlight \subseteq Pushes
    /\ \A n \in Nodes : Placed(n) /\ AwaitsOne(n)

\* All that is said of the rest.
Data ==
    /\ state \in [Nodes -> Maps] /\ up \subseteq Nodes /\ known \in Maps
    /\ posts \in 0 .. MaxPosts /\ failures \in 0 .. MaxFailures

\* The parts of the type invariant.
LEMMA TypeParts == TypeOK <=> Data /\ Threads
BY DEF TypeOK, Data, Threads, Placed, AwaitsOne, ThreadRounds, Pushes

\* And after a step.
LEMMA TypePartsAfter == TypeOK' <=> Data' /\ Threads'
BY TypeParts, PTL

-----------------------------------------------------------------------------
(* The threads. *)

\* A thread that has left the first stage has a peer.
LEMMA HasPeer ==
    ASSUME Threads, NEW n \in Nodes, round[n].stage # "pull" \/ Peers[n] # << >>
    PROVE  /\ round[n].peer \in DOMAIN Peers[n] /\ Peer(n) \in Nodes
           /\ Len(Peers[n]) \in Nat \ {0} /\ DOMAIN Peers[n] = 1 .. Len(Peers[n])
<1>1. Peers[n] \in Seq(Nodes)
  BY SwarmAssumption
<1>2. round[n].peer \in DOMAIN Peers[n]
  BY DEF Threads, Placed, AtPeer
<1>3. QED
  BY <1>1, <1>2 DEF Peer

\* The next peer of a thread is one it has.
LEMMA NextPeerType ==
    ASSUME Threads, NEW n \in Nodes, round[n].stage # "pull" \/ Peers[n] # << >>
    PROVE  /\ NextPeer(n) \in ThreadRounds /\ NextPeer(n).peer \in DOMAIN Peers[n]
           /\ NextPeer(n).stage = "pull" /\ NextPeer(n).pulled = Empty
<1> DEFINE len == Len(Peers[n])
           i == (round[n].peer % len) + 1
<1>1. round[n].peer \in 1 .. len /\ len \in Nat \ {0} /\ DOMAIN Peers[n] = 1 .. len
  BY HasPeer
<1>2. i \in 1 .. len
  BY <1>1
<1>3. NextPeer(n) = [peer |-> i, stage |-> "pull", pulled |-> Empty]
  BY DEF NextPeer, AtPeer
<1> HIDE DEF i
<1>4. QED
  BY <1>1, <1>2, <1>3, EmptyType DEF ThreadRounds, Stages

\* When an exchange ends, its thread is at its next peer and the others are
\* where they were; what it tells is of a peer it has.
LEMMA EndsStep ==
    ASSUME Threads, NEW n \in Nodes, NEW ok, Ends(n, ok),
           round[n].stage # "pull" \/ Peers[n] # << >>
    PROVE  /\ round' \in [Nodes -> ThreadRounds] /\ failing' \in [Nodes -> SUBSET Nat]
           /\ round'[n].stage = "pull"
           /\ \A m \in Nodes \ {n} : round'[m] = round[m] /\ failing'[m] = failing[m]
           /\ \A m \in Nodes : Placed(m)'
           /\ ~ok => round[n].peer \in failing'[n]
<1>1. /\ round[n].peer \in DOMAIN Peers[n] /\ round[n].peer \in Nat
      /\ round \in [Nodes -> ThreadRounds] /\ failing \in [Nodes -> SUBSET Nat]
      /\ \A m \in Nodes : Placed(m)
  BY HasPeer DEF Threads, ThreadRounds
<1>2. round' = [round EXCEPT ![n] = NextPeer(n)]
  BY DEF Ends
<1>3. /\ failing' \in [Nodes -> SUBSET Nat]
      /\ failing'[n] \subseteq failing[n] \cup {round[n].peer}
      /\ \A m \in Nodes \ {n} : failing'[m] = failing[m]
      /\ ~ok => round[n].peer \in failing'[n]
  BY <1>1 DEF Ends
<1>4. /\ round' \in [Nodes -> ThreadRounds] /\ round'[n] = NextPeer(n)
      /\ \A m \in Nodes \ {n} : round'[m] = round[m]
  BY <1>1, <1>2, NextPeerType
<1>5. Placed(n)'
  <2>1. /\ round'[n].peer \in DOMAIN Peers[n]
        /\ round'[n].pulled = Empty
    BY <1>4, NextPeerType
  <2>2. failing'[n] \subseteq DOMAIN Peers[n]
    BY <1>1, <1>3 DEF Placed
  <2>3. QED
    BY <2>1, <2>2 DEF Placed
<1>6. ASSUME NEW m \in Nodes \ {n} PROVE Placed(m)'
  BY <1>1, <1>3, <1>4 DEF Placed
<1>7. QED
  BY <1>3, <1>4, <1>5, <1>6, NextPeerType

\* The same for a step of a thread that stays with its peer.
LEMMA StageStep ==
    ASSUME Threads, NEW n \in Nodes, NEW r \in ThreadRounds,
           r.peer \in DOMAIN Peers[n], r.stage # "merge" => r.pulled = Empty,
           round' = [round EXCEPT ![n] = r], UNCHANGED failing
    PROVE  /\ round' \in [Nodes -> ThreadRounds] /\ failing' \in [Nodes -> SUBSET Nat]
           /\ round'[n] = r
           /\ \A m \in Nodes \ {n} : round'[m] = round[m]
           /\ \A m \in Nodes : Placed(m)'
<1>1. round \in [Nodes -> ThreadRounds] /\ failing \in [Nodes -> SUBSET Nat]
  BY DEF Threads
<1>2. /\ round' \in [Nodes -> ThreadRounds] /\ round'[n] = r
      /\ \A m \in Nodes \ {n} : round'[m] = round[m]
  BY <1>1
<1>3. \A m \in Nodes : Placed(m)
  BY DEF Threads
<1>4. Placed(n)'
  BY <1>2, <1>3 DEF Placed
<1>5. ASSUME NEW m \in Nodes \ {n} PROVE Placed(m)'
  BY <1>2, <1>3 DEF Placed
<1>6. QED
  BY <1>1, <1>2, <1>4, <1>5

\* Whoever awaits what it did before, at the stage it was, awaits one push.
LEMMA AwaitsStill ==
    ASSUME Threads, NEW m \in Nodes,
           round'[m].stage = "await" <=> round[m].stage = "await", Awaited(m)' = Awaited(m)
    PROVE  AwaitsOne(m)'
<1>1. AwaitsOne(m)
  BY DEF Threads
<1>2. QED
  BY <1>1 DEF AwaitsOne

\* So does whoever awaits nothing.
LEMMA AwaitsNothing ==
    ASSUME NEW m \in Nodes, round'[m].stage # "await", Awaited(m)' = {}
    PROVE  AwaitsOne(m)'
BY DEF AwaitsOne

\* A push that somebody awaits is the one its sender is at the stage for.
LEMMA AwaitedIsAt ==
    ASSUME Threads, NEW x \in inFlight, x.awaited
    PROVE  /\ x.from \in Nodes /\ x \in Pushes /\ round[x.from].stage = "await"
           /\ Awaited(x.from) = {x}
<1>1. x \in Pushes /\ x.from \in Nodes
  BY DEF Threads, Pushes
<1>2. x \in Awaited(x.from)
  BY DEF Awaited
<1>3. QED
  BY <1>1, <1>2 DEF Threads, AwaitsOne

\* A push is answered, fails or is given up: its sender awaits nothing more, and
\* what the others await is what it was.
LEMMA PushGone ==
    ASSUME Threads, NEW x \in inFlight, NEW ok, Answered(x, ok), inFlight' = inFlight \ {x}
    PROVE  Threads'
<1>1. x \in Pushes /\ inFlight' \subseteq Pushes
  BY DEF Threads
<1>2. CASE x.awaited
  <2>1. /\ x.from \in Nodes /\ round[x.from].stage = "await" /\ Awaited(x.from) = {x}
        /\ Ends(x.from, ok)
    BY <1>2, AwaitedIsAt DEF Answered
  <2>2. /\ round' \in [Nodes -> ThreadRounds] /\ failing' \in [Nodes -> SUBSET Nat]
        /\ round'[x.from].stage = "pull"
        /\ \A m \in Nodes \ {x.from} : round'[m] = round[m]
        /\ \A m \in Nodes : Placed(m)'
    BY <2>1, EndsStep
  <2>3. Awaited(x.from)' = {}
    BY <2>1 DEF Awaited
  <2>4. \A m \in Nodes \ {x.from} : Awaited(m)' = Awaited(m)
    BY DEF Awaited
  <2>5. \A m \in Nodes : AwaitsOne(m)'
    BY <2>2, <2>3, <2>4, AwaitsNothing, AwaitsStill
  <2>6. QED
    BY <1>1, <2>2, <2>5 DEF Threads
<1>3. CASE ~x.awaited
  <2>1. UNCHANGED <<failing, round>>
    BY <1>3 DEF Answered
  <2>2. \A m \in Nodes : Awaited(m)' = Awaited(m)
    BY <1>3 DEF Awaited
  <2>3. \A m \in Nodes : AwaitsOne(m)'
    BY <2>1, <2>2, AwaitsStill
  <2>4. \A m \in Nodes : Placed(m)'
    BY <2>1 DEF Threads, Placed
  <2>5. QED
    BY <1>1, <2>1, <2>3, <2>4 DEF Threads
<1>4. QED
  BY <1>2, <1>3

\* A thread whose node has a peer moves to its next peer, and awaited nothing.
LEMMA ThreadEnds ==
    ASSUME Threads, NEW n \in Nodes, NEW ok, Ends(n, ok), UNCHANGED inFlight,
           round[n].stage # "await", round[n].stage # "pull" \/ Peers[n] # << >>
    PROVE  Threads'
<1>1. /\ round' \in [Nodes -> ThreadRounds] /\ failing' \in [Nodes -> SUBSET Nat]
      /\ round'[n].stage = "pull"
      /\ \A m \in Nodes \ {n} : round'[m] = round[m]
      /\ \A m \in Nodes : Placed(m)'
  BY EndsStep
<1>2. \A m \in Nodes : Awaited(m)' = Awaited(m)
  BY DEF Awaited
<1>3. \A m \in Nodes : AwaitsOne(m)'
  BY <1>1, <1>2, AwaitsStill
<1>4. QED
  BY <1>1, <1>3 DEF Threads

\* A thread stays with its peer, awaiting nothing before and after.
LEMMA ThreadStays ==
    ASSUME Threads, NEW n \in Nodes, NEW r \in ThreadRounds,
           r.peer \in DOMAIN Peers[n], r.stage # "merge" => r.pulled = Empty,
           round' = [round EXCEPT ![n] = r], UNCHANGED <<failing, inFlight>>,
           round[n].stage # "await", r.stage # "await"
    PROVE  Threads'
<1>1. /\ round' \in [Nodes -> ThreadRounds] /\ failing' \in [Nodes -> SUBSET Nat]
      /\ round'[n] = r
      /\ \A m \in Nodes \ {n} : round'[m] = round[m]
      /\ \A m \in Nodes : Placed(m)'
  BY StageStep
<1>2. \A m \in Nodes : Awaited(m)' = Awaited(m)
  BY DEF Awaited
<1>3. \A m \in Nodes : AwaitsOne(m)'
  BY <1>1, <1>2, AwaitsStill
<1>4. QED
  BY <1>1, <1>3 DEF Threads

\* What a peer answers is kept, to be merged.
LEMMA PullKeepsThreads ==
    ASSUME Threads, Data, NEW n \in Nodes, Pull(n) PROVE Threads'
<1> DEFINE r == [round[n] EXCEPT !.stage = "merge", !.pulled = state[Peer(n)]]
<1>1. round[n] \in ThreadRounds /\ Peers[n] # << >> /\ round[n].stage = "pull"
  BY DEF Threads, Pull
<1>2. round[n].peer \in DOMAIN Peers[n] /\ Peer(n) \in Nodes
  BY <1>1, HasPeer
<1>3. state[Peer(n)] \in Maps
  BY <1>2 DEF Data
<1>4. r \in ThreadRounds /\ r.peer = round[n].peer /\ r.stage = "merge"
  BY <1>1, <1>3 DEF ThreadRounds, Stages
<1>5. round' = [round EXCEPT ![n] = r] /\ UNCHANGED <<failing, inFlight>>
  BY DEF Pull
<1> HIDE DEF r
<1>6. QED
  BY <1>1, <1>2, <1>4, <1>5, ThreadStays

\* What was pulled is merged: on to the push, or to the next peer.
LEMMA MergeKeepsThreads ==
    ASSUME Threads, NEW n \in Nodes, MergePulled(n) PROVE Threads'
<1> DEFINE r == [round[n] EXCEPT !.stage = "push", !.pulled = Empty]
<1>1. round[n] \in ThreadRounds /\ round[n].stage = "merge" /\ UNCHANGED inFlight
  BY DEF Threads, MergePulled
<1>2. round[n].peer \in DOMAIN Peers[n]
  BY <1>1, HasPeer
<1>3. r \in ThreadRounds /\ r.peer = round[n].peer /\ r.stage = "push" /\ r.pulled = Empty
  BY <1>1, EmptyType DEF ThreadRounds, Stages
<1>4. \/ \E ok \in BOOLEAN : Ends(n, ok)
      \/ round' = [round EXCEPT ![n] = r] /\ UNCHANGED failing
  BY Zenon DEF MergePulled
<1> HIDE DEF r
<1>5. CASE \E ok \in BOOLEAN : Ends(n, ok)
  BY <1>1, <1>5, ThreadEnds
<1>6. CASE round' = [round EXCEPT ![n] = r] /\ UNCHANGED failing
  BY <1>1, <1>2, <1>3, <1>6, ThreadStays
<1>7. QED
  BY <1>4, <1>5, <1>6

\* A push goes out, and its sender awaits it alone; or the exchange is over.
LEMMA PushKeepsThreads ==
    ASSUME Threads, Data, NEW n \in Nodes, SendPush(n) PROVE Threads'
<1> DEFINE r == [round[n] EXCEPT !.stage = "await"]
           x == [from |-> n, to |-> Peer(n), map |-> state[n], awaited |-> TRUE]
<1>1. round[n] \in ThreadRounds /\ round[n].stage = "push" /\ Placed(n) /\ AwaitsOne(n)
  BY DEF Threads, SendPush
<1>2. round[n].peer \in DOMAIN Peers[n] /\ Peer(n) \in Nodes
  BY <1>1, HasPeer
<1>3. CASE (\E ok \in BOOLEAN : Ends(n, ok)) /\ UNCHANGED inFlight
  BY <1>1, <1>3, ThreadEnds
<1>4. CASE inFlight' = inFlight \cup {x} /\ round' = [round EXCEPT ![n] = r]
           /\ UNCHANGED failing
  <2>1. x \in Pushes /\ x.from = n /\ x.awaited
    BY <1>2 DEF Pushes, Data
  <2>2. r \in ThreadRounds /\ r.peer = round[n].peer /\ r.stage = "await" /\ r.pulled = Empty
    BY <1>1 DEF ThreadRounds, Stages, Placed
  <2> HIDE DEF x, r
  <2>3. /\ round' \in [Nodes -> ThreadRounds] /\ failing' \in [Nodes -> SUBSET Nat]
        /\ round'[n] = r
        /\ \A m \in Nodes \ {n} : round'[m] = round[m]
        /\ \A m \in Nodes : Placed(m)'
    BY <1>2, <1>4, <2>2, StageStep
  <2>4. Awaited(n) = {}
    BY <1>1 DEF AwaitsOne
  <2>5. Awaited(n)' = {x}
    BY <1>4, <2>1, <2>4 DEF Awaited
  <2>6. \A m \in Nodes \ {n} : Awaited(m)' = Awaited(m)
    BY <1>4, <2>1 DEF Awaited
  <2>7. AwaitsOne(n)'
    BY <2>2, <2>3, <2>5 DEF AwaitsOne
  <2>8. \A m \in Nodes \ {n} : AwaitsOne(m)'
    BY <2>3, <2>6, AwaitsStill
  <2>9. inFlight' \subseteq Pushes
    BY <1>4, <2>1 DEF Threads
  <2>10. QED
    BY <2>3, <2>7, <2>8, <2>9 DEF Threads
<1>5. QED
  BY <1>3, <1>4, Zenon DEF SendPush

\* Nobody awaits a push that was given up.
LEMMA ForsakenType ==
    ASSUME NEW pushes \in SUBSET Pushes
    PROVE  Forsaken(pushes) \subseteq Pushes /\ \A x \in Forsaken(pushes) : ~x.awaited
BY DEF Forsaken, Pushes

\* Whose pushes are given up awaits none; the others await what they did.
LEMMA GivenUp ==
    ASSUME Threads, NEW n \in Nodes, NEW pushes \in SUBSET inFlight,
           \A x \in pushes : x.from = n, Awaited(n) \subseteq pushes,
           inFlight' = (inFlight \ pushes) \cup Forsaken(pushes)
    PROVE  /\ inFlight' \subseteq Pushes
           /\ Awaited(n)' = {} /\ \A m \in Nodes \ {n} : Awaited(m)' = Awaited(m)
<1>1. pushes \in SUBSET Pushes /\ inFlight \subseteq Pushes
  BY DEF Threads
<1>2. Forsaken(pushes) \subseteq Pushes /\ \A x \in Forsaken(pushes) : ~x.awaited
  BY <1>1, ForsakenType
<1>3. QED
  BY <1>1, <1>2 DEF Awaited

\* A sender gives up the push it awaits.
LEMMA GiveUpKeepsThreads ==
    ASSUME Threads, NEW x \in inFlight, GiveUp(x) PROVE Threads'
<1> SUFFICES ASSUME NEW n \in Nodes, n = x.from PROVE Threads'
  BY AwaitedIsAt DEF GiveUp
<1>1. /\ n \in Nodes /\ round[n].stage = "await" /\ Awaited(n) = {x}
      /\ Ends(n, FALSE) /\ inFlight' = (inFlight \ {x}) \cup Forsaken({x})
  BY AwaitedIsAt DEF GiveUp
<1>2. /\ round' \in [Nodes -> ThreadRounds] /\ failing' \in [Nodes -> SUBSET Nat]
      /\ round'[n].stage = "pull"
      /\ \A m \in Nodes \ {n} : round'[m] = round[m]
      /\ \A m \in Nodes : Placed(m)'
  BY <1>1, EndsStep
<1>3. /\ inFlight' \subseteq Pushes /\ Awaited(n)' = {}
      /\ \A m \in Nodes \ {n} : Awaited(m)' = Awaited(m)
  BY <1>1, GivenUp DEF Awaited
<1>4. AwaitsOne(n)'
  BY <1>2, <1>3, AwaitsNothing
<1>5. \A m \in Nodes \ {n} : AwaitsOne(m)'
  BY <1>2, <1>3, AwaitsStill
<1>6. QED
  BY <1>2, <1>3, <1>4, <1>5 DEF Threads

\* A node is killed: its thread starts over, and what it awaited is forsaken.
LEMMA KillKeepsThreads ==
    ASSUME Threads, NEW n \in Nodes, Kill(n) PROVE Threads'
<1>1. /\ round' = [round EXCEPT ![n] = AtPeer(1)]
      /\ failing' = [failing EXCEPT ![n] = {}]
      /\ inFlight' = (inFlight \ Awaited(n)) \cup Forsaken(Awaited(n))
  BY DEF Kill
<1>2. /\ round \in [Nodes -> ThreadRounds] /\ failing \in [Nodes -> SUBSET Nat]
      /\ \A m \in Nodes : Placed(m)
  BY DEF Threads
<1>3. AtPeer(1) = [peer |-> 1, stage |-> "pull", pulled |-> Empty] /\ AtPeer(1) \in ThreadRounds
  BY EmptyType DEF AtPeer, ThreadRounds, Stages
<1>4. /\ round' \in [Nodes -> ThreadRounds] /\ failing' \in [Nodes -> SUBSET Nat]
      /\ round'[n] = AtPeer(1) /\ failing'[n] = {}
      /\ \A m \in Nodes \ {n} : round'[m] = round[m] /\ failing'[m] = failing[m]
  BY <1>1, <1>2, <1>3
<1>5. Placed(n)'
  <2>1. Peers[n] \in Seq(Nodes)
    BY SwarmAssumption
  <2>2. 1 \in DOMAIN Peers[n] \/ Peers[n] = << >>
    BY <2>1
  <2>3. round'[n].pulled = Empty /\ round'[n].peer = 1
    BY <1>3, <1>4
  <2>4. QED
    BY <1>4, <2>2, <2>3 DEF Placed
<1>6. \A m \in Nodes \ {n} : Placed(m)'
  BY <1>2, <1>4 DEF Placed
<1>7. /\ inFlight' \subseteq Pushes /\ Awaited(n)' = {}
      /\ \A m \in Nodes \ {n} : Awaited(m)' = Awaited(m)
  BY <1>1, GivenUp DEF Awaited
<1>8. AwaitsOne(n)'
  BY <1>3, <1>4, <1>7, AwaitsNothing
<1>9. \A m \in Nodes \ {n} : AwaitsOne(m)'
  BY <1>4, <1>7, AwaitsStill
<1>10. QED
  BY <1>4, <1>5, <1>6, <1>7, <1>8, <1>9 DEF Threads

\* Nothing happens to the threads and the pushes.
LEMMA ThreadsUnchanged ==
    ASSUME Threads, UNCHANGED <<round, failing, inFlight>> PROVE Threads'
BY DEF Threads, Placed, AwaitsOne, Awaited

-----------------------------------------------------------------------------
(* The maps. *)

\* A map reaches a node.
Absorbs(n, map) ==
    /\ state' = [state EXCEPT ![n] = Merge(@, map)]
    /\ known' = Merge(known, map)

\* Whatever happens to the maps is that one reaches a node.
Reached == UNCHANGED <<state, known>> \/ \E n \in Nodes, map \in Maps : Absorbs(n, map)

\* A full state a node is given reaches it, if anything does.
LEMMA MergeReaches ==
    ASSUME NEW n \in Nodes, NEW map \in Maps, MergeState(n, map)
    PROVE  Reached
BY DEF MergeState, Reached, Absorbs

\* So does what a scenario brings: a request is one map (RequestIsOneMap).
LEMMA PostAbsorbed ==
    ASSUME Data, NEW n \in Nodes, NEW r \in Posts, PostTo(n, r)
    PROVE  Posted(r) \in Maps /\ Absorbs(n, Posted(r))
<1>1. r \in AllRequests /\ state[n] \in Maps /\ Empty \in Maps
  BY SwarmAssumption, EmptyType DEF Data
<1>2. Posted(r) \in Maps /\ After(r, state[n]) = Merge(state[n], Posted(r))
  BY <1>1, AfterType, RequestIsOneMap DEF Posted
<1>3. QED
  BY <1>2 DEF PostTo, Absorbs

\* So it is with every step.
LEMMA StepReaches ==
    ASSUME TypeOK, [Next]_vars
    PROVE  Reached
<1>1. Data /\ Threads
  BY TypeParts
<1>2. ASSUME NEW n \in Nodes, NEW r \in Posts, PostTo(n, r) PROVE Reached
  BY <1>1, <1>2, PostAbsorbed DEF Reached
<1>3. ASSUME NEW n \in Nodes, MergePulled(n) PROVE Reached
  <2>1. round[n].pulled \in Maps
    BY <1>1 DEF Threads, ThreadRounds
  <2>2. MergeState(n, round[n].pulled)
    BY <1>3, Zenon DEF MergePulled
  <2>3. QED
    BY <2>1, <2>2, MergeReaches
<1>4. ASSUME NEW n \in Nodes, Pull(n) \/ PullFails(n) \/ SendPush(n) \/ Kill(n) \/ Restart(n)
      PROVE  Reached
  BY <1>4 DEF Pull, PullFails, SendPush, Kill, Restart, Reached
<1>5. ASSUME NEW x \in inFlight, Deliver(x) PROVE Reached
  <2>1. x.to \in Nodes /\ x.map \in Maps
    BY <1>1 DEF Threads, Pushes
  <2>2. MergeState(x.to, x.map) \/ UNCHANGED <<state, known>>
    BY <1>5, Zenon DEF Deliver
  <2>3. QED
    BY <2>1, <2>2, MergeReaches DEF Reached
<1>6. ASSUME NEW x \in inFlight, Lose(x) \/ GiveUp(x) PROVE Reached
  BY <1>6 DEF Lose, GiveUp, Reached
<1>7. CASE UNCHANGED vars
  BY <1>7 DEF vars, Reached
<1>8. QED
  BY <1>2, <1>3, <1>4, <1>5, <1>6, <1>7 DEF Next, Gossip

\* A map that reaches a node is merged into what it holds, and no other holds more.
LEMMA AbsorbedState ==
    ASSUME Data, NEW n \in Nodes, NEW map \in Maps, Absorbs(n, map)
    PROVE  /\ state' \in [Nodes -> Maps] /\ known' \in Maps
           /\ state'[n] = Merge(state[n], map)
           /\ \A p \in Nodes \ {n} : state'[p] = state[p]
BY MergeType DEF Data, Absorbs

\* The maps are maps again.
LEMMA MapsType ==
    ASSUME Data, Reached
    PROVE  state' \in [Nodes -> Maps] /\ known' \in Maps
<1>1. CASE UNCHANGED <<state, known>>
  BY <1>1 DEF Data
<1>2. ASSUME NEW n \in Nodes, NEW map \in Maps, Absorbs(n, map)
      PROVE  state' \in [Nodes -> Maps] /\ known' \in Maps
  BY <1>2, AbsorbedState
<1>3. QED
  BY <1>1, <1>2 DEF Reached

\* A failure counts against the bound, or the peer was down.
LEMMA FailsType ==
    ASSUME failures \in 0 .. MaxFailures, NEW peer, Fails(peer)
    PROVE  failures' \in 0 .. MaxFailures
BY SwarmAssumption DEF Fails

-----------------------------------------------------------------------------
(* The type invariant. *)

\* It holds when all nodes start.
LEMMA InitType == Init => TypeOK
<1> SUFFICES ASSUME Init PROVE Data /\ Threads
  BY TypeParts
<1>1. Data
  BY EmptyType, SwarmAssumption DEF Init, Data
<1>2. AtPeer(1) = [peer |-> 1, stage |-> "pull", pulled |-> Empty] /\ AtPeer(1) \in ThreadRounds
  BY EmptyType DEF AtPeer, ThreadRounds, Stages
<1>3. ASSUME NEW n \in Nodes PROVE Placed(n) /\ AwaitsOne(n)
  <2>1. round[n] = AtPeer(1) /\ failing[n] = {} /\ Awaited(n) = {}
    BY DEF Init, Awaited
  <2>2. Peers[n] \in Seq(Nodes)
    BY SwarmAssumption
  <2>3. 1 \in DOMAIN Peers[n] \/ Peers[n] = << >>
    BY <2>2
  <2>4. round[n].peer = 1 /\ round[n].pulled = Empty /\ round[n].stage # "await"
    BY <1>2, <2>1
  <2>5. QED
    BY <2>1, <2>3, <2>4 DEF Placed, AwaitsOne
<1>4. Threads
  BY <1>2, <1>3 DEF Init, Threads
<1>5. QED
  BY <1>1, <1>4

\* Every step keeps it.
LEMMA StepType == TypeOK /\ [Next]_vars => TypeOK'
<1> SUFFICES ASSUME Data, Threads, [Next]_vars PROVE Data' /\ Threads'
  BY TypeParts, TypePartsAfter
<1> DEFINE Small == /\ up' \subseteq Nodes
                    /\ posts' \in 0 .. MaxPosts /\ failures' \in 0 .. MaxFailures
<1>1. state' \in [Nodes -> Maps] /\ known' \in Maps
  BY TypeParts, StepReaches, MapsType
<1>2. up \subseteq Nodes /\ posts \in 0 .. MaxPosts /\ failures \in 0 .. MaxFailures
  BY DEF Data
<1>3. ASSUME NEW n \in Nodes, NEW r \in Posts, PostTo(n, r) PROVE Small /\ Threads'
  <2>1. Small
    BY <1>2, <1>3, SwarmAssumption DEF PostTo
  <2>2. QED
    BY <1>3, <2>1, ThreadsUnchanged DEF PostTo
<1>4. ASSUME NEW n \in Nodes, Pull(n) PROVE Small /\ Threads'
  BY <1>2, <1>4, PullKeepsThreads DEF Pull
<1>5. ASSUME NEW n \in Nodes, PullFails(n) PROVE Small /\ Threads'
  <2>1. Small
    BY <1>2, <1>5, FailsType DEF PullFails
  <2>2. QED
    BY <1>5, <2>1, ThreadEnds DEF PullFails
<1>6. ASSUME NEW n \in Nodes, MergePulled(n) PROVE Small /\ Threads'
  BY <1>2, <1>6, MergeKeepsThreads DEF MergePulled
<1>7. ASSUME NEW n \in Nodes, SendPush(n) PROVE Small /\ Threads'
  BY <1>2, <1>7, PushKeepsThreads DEF SendPush
<1>8. ASSUME NEW n \in Nodes, Kill(n) PROVE Small /\ Threads'
  <2>1. Small
    BY <1>2, <1>8, SwarmAssumption DEF Kill
  <2>2. QED
    BY <1>8, <2>1, KillKeepsThreads
<1>9. ASSUME NEW n \in Nodes, Restart(n) PROVE Small /\ Threads'
  BY <1>2, <1>9, ThreadsUnchanged DEF Restart
<1>10. ASSUME NEW x \in inFlight, Deliver(x) PROVE Small /\ Threads'
  BY <1>2, <1>10, PushGone DEF Deliver
<1>11. ASSUME NEW x \in inFlight, Lose(x) PROVE Small /\ Threads'
  <2>1. Small
    BY <1>2, <1>11, FailsType DEF Lose
  <2>2. QED
    BY <1>11, <2>1, PushGone DEF Lose
<1>12. ASSUME NEW x \in inFlight, GiveUp(x) PROVE Small /\ Threads'
  <2>1. Small
    BY <1>2, <1>12, FailsType DEF GiveUp
  <2>2. QED
    BY <1>12, <2>1, GiveUpKeepsThreads
<1>13. ASSUME UNCHANGED vars PROVE Small /\ Threads'
  <2>1. Small
    BY <1>2, <1>13 DEF vars
  <2>2. UNCHANGED <<round, failing, inFlight>>
    BY <1>13 DEF vars
  <2>3. QED
    BY <2>1, <2>2, ThreadsUnchanged
<1> HIDE DEF Small
<1>14. Small /\ Threads'
  BY <1>3, <1>4, <1>5, <1>6, <1>7, <1>8, <1>9, <1>10, <1>11, <1>12, <1>13
     DEF Next, Gossip
<1>15. QED
  BY <1>1, <1>14 DEF Data, Small

\* Every thread is at a peer it has, awaits its own push and no more than one,
\* and tells only of peers it has.
THEOREM TypeCorrect == Spec => []TypeOK
BY InitType, StepType, PTL DEF Spec

-----------------------------------------------------------------------------
(* What is held. *)

\* A step takes no entry of a node back.
LEMMA StepAdvances ==
    ASSUME Data, Reached
    PROVE  \A n \in Nodes : MapCovers(state'[n], state[n])
<1>1. \A n \in Nodes : state[n] \in Maps /\ MapCovers(state[n], state[n])
  BY MapCoversReflexive DEF Data
<1>2. ASSUME NEW n \in Nodes, NEW map \in Maps, Absorbs(n, map), NEW p \in Nodes
      PROVE  MapCovers(state'[p], state[p])
  BY <1>1, <1>2, AbsorbedState, MergeIsLeastUpperBound
<1>3. QED
  BY <1>1, <1>2 DEF Reached

\* No exchange, post, failure or restart takes an entry of a node back.
THEOREM Advance == Spec => EntriesOnlyAdvance
<1>1. TypeOK /\ [Next]_vars => [\A n \in Nodes : MapCovers(state'[n], state[n])]_state
  BY TypeParts, StepReaches, StepAdvances
<1>2. QED
  BY <1>1, TypeCorrect, PTL DEF Spec, EntriesOnlyAdvance

\* No node holds what was never accepted.
LEMMA StepBounded ==
    ASSUME Data, Reached, \A n \in Nodes : MapCovers(known, state[n])
    PROVE  \A n \in Nodes : MapCovers(known', state'[n])
<1>1. known \in Maps /\ known' \in Maps /\ \A n \in Nodes : state[n] \in Maps
  BY MapsType DEF Data
<1>2. ASSUME NEW n \in Nodes, NEW map \in Maps, Absorbs(n, map), NEW p \in Nodes
      PROVE  MapCovers(known', state'[p])
  <2>1. MapCovers(known', known) /\ MapCovers(known', map)
    BY <1>1, <1>2, MergeIsLeastUpperBound DEF Absorbs
  <2>2. MapCovers(known', state[p]) /\ MapCovers(known', state[n])
    BY <1>1, <2>1, MapCoversTransitive
  <2>3. MapCovers(known', Merge(state[n], map))
    BY <1>1, <2>1, <2>2, MergeIsLeastUpperBound
  <2>4. QED
    BY <1>2, <2>2, <2>3, AbsorbedState
<1>3. QED
  BY <1>2 DEF Reached

\* Who holds the newest entry of a key keeps it, or the node that takes a newer one has it.
LEMMA StepKept ==
    ASSUME Data, NEW n \in Nodes, NEW map \in Maps, Absorbs(n, map),
           MapCovers(known, state[n]), NEW k \in Keys,
           NEW w \in Nodes, state[w][k] = known[k]
    PROVE  \E p \in Nodes : state'[p][k] = known'[k]
<1>1. known[k] \in Slots /\ map[k] \in Slots /\ state[n][k] \in Slots
  BY SlotType DEF Data
<1>2. /\ known'[k] = Join(known[k], map[k])
      /\ state'[n][k] = Join(state[n][k], map[k])
      /\ \A p \in Nodes \ {n} : state'[p] = state[p]
  BY AbsorbedState DEF Absorbs, Merge
<1>3. CASE Covers(known[k], map[k])
  BY <1>2, <1>3 DEF Join
<1>4. CASE ~Covers(known[k], map[k])
  <2>1. ~Covers(state[n][k], map[k])
    BY <1>1, <1>4, CoversTransitive DEF MapCovers
  <2>2. QED
    BY <1>2, <1>4, <2>1 DEF Join
<1>5. QED
  BY <1>3, <1>4

\* Every step keeps what was accepted.
LEMMA StepLosesNothing == TypeOK /\ NoWriteLost /\ [Next]_vars => NoWriteLost'
<1> SUFFICES ASSUME Data, NoWriteLost, Reached PROVE NoWriteLost'
  BY TypeParts, StepReaches
<1>1. \A n \in Nodes : MapCovers(known', state'[n])
  BY StepBounded DEF NoWriteLost
<1>2. ASSUME NEW n \in Nodes, NEW map \in Maps, Absorbs(n, map), NEW k \in Keys
      PROVE  \E p \in Nodes : state'[p][k] = known'[k]
  <2>1. PICK w \in Nodes : state[w][k] = known[k]
    BY DEF NoWriteLost
  <2>2. QED
    BY <1>2, <2>1, StepKept DEF NoWriteLost
<1>3. \A k \in Keys : \E p \in Nodes : state'[p][k] = known'[k]
  BY <1>2 DEF Reached, NoWriteLost
<1>4. QED
  BY <1>1, <1>3 DEF NoWriteLost

\* Of everything any node ever accepted the newest entry of each key is still
\* held somewhere, whatever was lost, late, refused or restarted.
THEOREM NothingLost == Spec => []NoWriteLost
<1>1. Init => NoWriteLost
  BY CoversEmpty, SwarmAssumption DEF Init, NoWriteLost
<1>2. QED
  BY <1>1, TypeCorrect, StepLosesNothing, PTL DEF Spec

-----------------------------------------------------------------------------
(* What a node tells. *)

\* n tells of no error with the peer it was at.
Silent(n) == n \in up' /\ round[n].peer \notin failing'[n]
Pulled(n) == round[n].stage = "merge" /\ round'[n].stage # "merge"

\* A map that a node accepts, or that holds nothing, is covered by what it holds then.
LEMMA AcceptedCovers ==
    ASSUME Data, NEW n \in Nodes, NEW map \in Maps, MergeState(n, map),
           AcceptsState(map, state[n]) \/ Held(map) = {}
    PROVE  MapCovers(state'[n], map)
<1>1. CASE Held(map) = {}
  BY <1>1 DEF Held, MapCovers, Covers
<1>2. CASE AcceptsState(map, state[n])
  <2>1. Absorbs(n, map)
    BY <1>2 DEF MergeState, Absorbs
  <2>2. state'[n] = Merge(state[n], map)
    BY <2>1, AbsorbedState
  <2>3. QED
    BY <2>2, MergeIsLeastUpperBound DEF Data
<1>3. QED
  BY <1>1, <1>2

\* A node that is silent after a merge holds what it pulled.
LEMMA PulledIsHeld ==
    ASSUME Data, Threads, NEW n \in Nodes, MergePulled(n), Silent(n)
    PROVE  MapCovers(state'[n], round[n].pulled)
<1> DEFINE pulled == round[n].pulled
           refused == Held(pulled) # {} /\ ~AcceptsState(pulled, state[n])
<1>1. pulled \in Maps /\ MergeState(n, pulled) /\ round[n].stage = "merge"
  BY DEF Threads, ThreadRounds, MergePulled
<1>2. ~refused
  <2>1. SUFFICES ASSUME refused PROVE FALSE
    OBVIOUS
  <2>2. Ends(n, FALSE)
    BY <2>1, Zenon DEF MergePulled
  <2>3. round[n].peer \in failing'[n]
    BY <1>1, <2>2, EndsStep
  <2>4. QED
    BY <2>3 DEF Silent
<1>3. AcceptsState(pulled, state[n]) \/ Held(pulled) = {}
  BY <1>2
<1> HIDE DEF pulled
<1>4. QED
  BY <1>1, <1>3, AcceptedCovers DEF pulled

\* A push that was answered in silence is held by the peer.
LEMMA PushIsHeld ==
    ASSUME Data, Threads, NEW x \in inFlight, x.awaited, Deliver(x), Silent(x.from)
    PROVE  MapCovers(state'[x.to], x.map)
<1> DEFINE ok == Fits(x.map) /\ AcceptsState(x.map, state[x.to])
<1>1. /\ x.from \in Nodes /\ round[x.from].stage = "await"
      /\ x.to \in Nodes /\ x.map \in Maps
  BY AwaitedIsAt DEF Pushes
<1>2. Ends(x.from, ok)
  BY DEF Deliver, Answered
<1>3. ok
  <2>1. ~ok => round[x.from].peer \in failing'[x.from]
    BY <1>1, <1>2, EndsStep
  <2>2. QED
    BY <2>1 DEF Silent
<1>4. MergeState(x.to, x.map)
  BY <1>3 DEF Deliver
<1>5. QED
  BY <1>1, <1>3, <1>4, AcceptedCovers

\* A thread that stays where it was, while no push is gone, has exchanged nothing.
LEMMA QuietStep ==
    ASSUME Threads, NEW n \in Nodes, round'[n] = round[n], inFlight \subseteq inFlight'
    PROVE  ~Pulled(n) /\ \A x \in Awaited(n) : x \in inFlight'
BY DEF Pulled, Awaited

\* When a thread has left the stage of the merge in silence, or an awaited push
\* is gone, what was exchanged is held.
Exchanged(n) ==
    Silent(n) => /\ Pulled(n) => MapCovers(state'[n], round[n].pulled)
                 /\ \A x \in Awaited(n) : x \in inFlight' \/ MapCovers(state'[x.to], x.map)

\* What the step of a thread says is true, and it says nothing of another.
LEMMA ThreadExchanges ==
    ASSUME Data, Threads, NEW m \in Nodes, Gossip(m), NEW n \in Nodes
    PROVE  Exchanged(n)
<1>1. inFlight \subseteq inFlight'
  BY Zenon DEF Gossip, Pull, PullFails, MergePulled, SendPush
<1>2. \A x \in Awaited(n) : x \in inFlight'
  BY <1>1 DEF Awaited
<1>3. CASE MergePulled(m)
  <2>1. \A p \in Nodes \ {m} : round'[p] = round[p]
    <3>1. \/ \E ok : Ends(m, ok)
          \/ round' = [round EXCEPT ![m].stage = "push", ![m].pulled = Empty]
      BY <1>3, Zenon DEF MergePulled
    <3>2. QED
      BY <3>1 DEF Ends, Threads
  <2>2. CASE m = n
    BY <1>2, <1>3, <2>2, PulledIsHeld DEF Exchanged
  <2>3. CASE m # n
    BY <1>1, <2>1, <2>3, QuietStep DEF Exchanged
  <2>4. QED
    BY <2>2, <2>3
<1>4. CASE Pull(m) \/ PullFails(m) \/ SendPush(m)
  <2>1. round[m].stage # "merge"
    BY <1>4 DEF Pull, PullFails, SendPush
  <2>2. \A p \in Nodes \ {m} : round'[p] = round[p]
    <3>1. \/ \E ok : Ends(m, ok)
          \/ round' = [round EXCEPT ![m].stage = "merge", ![m].pulled = state[Peer(m)]]
          \/ round' = [round EXCEPT ![m].stage = "await"]
      BY <1>4, Zenon DEF Pull, PullFails, SendPush
    <3>2. QED
      BY <3>1 DEF Ends, Threads
  <2>3. ~Pulled(n)
    BY <2>1, <2>2 DEF Pulled
  <2>4. QED
    BY <1>2, <2>3 DEF Exchanged
<1>5. QED
  BY <1>3, <1>4 DEF Gossip

\* A push that is gone was its sender's, who tells of it unless the peer holds it.
LEMMA PushExchanges ==
    ASSUME Data, Threads, NEW x \in inFlight, Deliver(x) \/ Lose(x) \/ GiveUp(x),
           NEW n \in Nodes
    PROVE  Exchanged(n)
<1>1. inFlight \ {x} \subseteq inFlight'
  BY DEF Deliver, Lose, GiveUp
<1>2. CASE ~x.awaited
  <2>1. round' = round /\ x \notin Awaited(n)
    BY <1>2 DEF Deliver, Lose, GiveUp, Answered, Awaited
  <2>2. ~Pulled(n) /\ \A y \in Awaited(n) : y \in inFlight'
    BY <1>1, <2>1 DEF Pulled, Awaited
  <2>3. QED
    BY <2>2 DEF Exchanged
<1>3. CASE x.awaited
  <2>1. x.from \in Nodes /\ round[x.from].stage = "await" /\ Awaited(x.from) = {x}
    BY <1>3, AwaitedIsAt
  <2>2. PICK ok : Ends(x.from, ok) /\ (Deliver(x) \/ ~ok)
    BY <1>3, Zenon DEF Deliver, Lose, GiveUp, Answered
  <2>3. /\ \A m \in Nodes \ {x.from} : round'[m] = round[m]
        /\ ~ok => round[x.from].peer \in failing'[x.from]
    BY <2>1, <2>2, EndsStep
  <2>4. ~Pulled(n)
    BY <2>1, <2>3 DEF Pulled
  <2>5. CASE n # x.from
    <3>1. \A y \in Awaited(n) : y \in inFlight'
      BY <1>1, <2>5 DEF Awaited
    <3>2. QED
      BY <2>4, <3>1 DEF Exchanged
  <2>6. CASE n = x.from
    <3>1. ASSUME Silent(n) PROVE MapCovers(state'[x.to], x.map)
      BY <1>3, <2>2, <2>3, <2>6, <3>1, PushIsHeld DEF Silent
    <3>2. QED
      BY <2>1, <2>4, <2>6, <3>1 DEF Exchanged
  <2>7. QED
    BY <2>5, <2>6
<1>4. QED
  BY <1>2, <1>3

\* A node that is killed says nothing.
LEMMA KillExchanges ==
    ASSUME Data, Threads, NEW m \in Nodes, Kill(m), NEW n \in Nodes
    PROVE  Exchanged(n)
<1>1. m \notin up' /\ \A p \in Nodes \ {m} : round'[p] = round[p]
  BY DEF Kill, Data, Threads
<1>2. \A x \in Awaited(n) : n = m \/ x \in inFlight'
  BY DEF Kill, Awaited
<1>3. QED
  BY <1>1, <1>2 DEF Exchanged, Silent, Pulled

\* Every step says what it exchanged.
LEMMA StepExchanges ==
    ASSUME Data, Threads, [Next]_vars, NEW n \in Nodes
    PROVE  Exchanged(n)
<1>1. ASSUME UNCHANGED <<round, inFlight>> PROVE Exchanged(n)
  BY <1>1, QuietStep DEF Exchanged
<1>2. ASSUME NEW m \in Nodes, NEW r \in Posts, PostTo(m, r) PROVE Exchanged(n)
  BY <1>1, <1>2 DEF PostTo
<1>3. ASSUME NEW m \in Nodes, Restart(m) PROVE Exchanged(n)
  BY <1>1, <1>3 DEF Restart
<1>4. CASE UNCHANGED vars
  BY <1>1, <1>4 DEF vars
<1>5. QED
  BY <1>2, <1>3, <1>4, ThreadExchanges, PushExchanges, KillExchanges DEF Next

\* A node that tells of no error with a peer holds everything it pulled from it,
\* and the peer everything it pushed.
THEOREM NoSilentLoss == Spec => SilenceMeansExchanged
<1>1. TypeOK /\ [Next]_vars =>
        [\A n \in up' : round[n].peer \notin failing'[n] =>
          /\ round[n].stage = "merge" /\ round'[n].stage # "merge"
             => MapCovers(state'[n], round[n].pulled)
          /\ \A x \in Awaited(n) : x \in inFlight' \/ MapCovers(state'[x.to], x.map)]_vars
  <2> SUFFICES ASSUME TypeOK, [Next]_vars, NEW n \in up', round[n].peer \notin failing'[n]
      PROVE  /\ round[n].stage = "merge" /\ round'[n].stage # "merge"
                => MapCovers(state'[n], round[n].pulled)
             /\ \A x \in Awaited(n) : x \in inFlight' \/ MapCovers(state'[x.to], x.map)
    OBVIOUS
  <2>1. Data /\ Threads /\ Data'
    BY TypeParts, StepType, TypePartsAfter
  <2>2. n \in Nodes
    BY <2>1 DEF Data
  <2>3. QED
    BY <2>1, <2>2, StepExchanges DEF Exchanged, Silent, Pulled
<1>2. QED
  BY <1>1, TypeCorrect, PTL DEF Spec, SilenceMeansExchanged

-----------------------------------------------------------------------------
(* What is held, was pulled, or is on its way. *)

\* All of it is of a set of maps.
AllIn(S) ==
    /\ \A n \in Nodes : state[n] \in S /\ round[n].pulled \in S
    /\ \A x \in inFlight : x.map \in S

\* Every entry of a map was posted.
Sourced(m) == \A k \in Keys : m[k] = NoEntry \/ \E r \in Posts : m[k] = Posted(r)[k]

\* A legal map leaves the clock of a node room, its entries pass every check that is
\* not of the node that makes it, and they were posted.
Legal == {m \in SoundMaps(MaxU64 - 2) : Sourced(m)}

\* Threads pull, push and keep what nodes hold.
LEMMA CarriedStays ==
    ASSUME NEW S, Empty \in S, TypeOK, AllIn(S), Next
    PROVE  /\ \A n \in Nodes : round'[n].pulled \in S
           /\ \A x \in inFlight' : x.map \in S
<1>1. Data /\ Threads /\ Threads' /\ round \in [Nodes -> ThreadRounds]
  BY TypeParts, StepType, TypePartsAfter DEF Threads
<1>2. Empty \in S
  OBVIOUS
<1>3. ASSUME NEW n \in Nodes, Pull(n)
      PROVE  /\ \A m \in Nodes : round'[m].pulled \in S
             /\ \A x \in inFlight' : x.map \in S
  <2>1. Peer(n) \in Nodes
    BY <1>1, <1>3, HasPeer DEF Pull
  <2>2. state[Peer(n)] \in S
    BY <2>1 DEF AllIn
  <2>3. \A m \in Nodes : round'[m].pulled \in {round[m].pulled, state[Peer(n)]}
    BY <1>1, <1>3 DEF Pull, ThreadRounds
  <2>4. QED
    BY <1>3, <2>2, <2>3 DEF AllIn, Pull
<1>4. ASSUME ~(\E n \in Nodes : Pull(n))
      PROVE  \A m \in Nodes : round'[m].pulled \in S
  <2>1. ASSUME NEW m \in Nodes PROVE round'[m].stage # "merge" => round'[m].pulled \in S
    BY <1>1, <1>2 DEF Threads, Placed
  <2>2. ASSUME NEW m \in Nodes, round'[m].stage = "merge"
        PROVE  round'[m] = round[m]
    <3>1. ASSUME NEW n \in Nodes, NEW ok, Ends(n, ok),
                 round[n].stage # "pull" \/ Peers[n] # << >>
          PROVE  round'[m] = round[m]
      BY <1>1, <2>2, <3>1, EndsStep
    <3>2. ASSUME NEW n \in Nodes, MergePulled(n) PROVE round'[m] = round[m]
      <4>1. \/ \E ok : Ends(n, ok)
            \/ round' = [round EXCEPT ![n].stage = "push", ![n].pulled = Empty]
        BY <3>2, Zenon DEF MergePulled
      <4>2. round[n].stage = "merge"
        BY <3>2 DEF MergePulled
      <4>3. QED
        BY <1>1, <2>2, <3>1, <4>1, <4>2 DEF ThreadRounds
    <3>3. ASSUME NEW n \in Nodes, SendPush(n) PROVE round'[m] = round[m]
      <4>1. \/ \E ok : Ends(n, ok)
            \/ round' = [round EXCEPT ![n].stage = "await"]
        BY <3>3, Zenon DEF SendPush
      <4>2. round[n].stage = "push"
        BY <3>3 DEF SendPush
      <4>3. QED
        BY <1>1, <2>2, <3>1, <4>1, <4>2 DEF ThreadRounds
    <3>4. ASSUME NEW n \in Nodes, PullFails(n) PROVE round'[m] = round[m]
      BY <3>1, <3>4 DEF PullFails
    <3>5. ASSUME NEW n \in Nodes, Kill(n) PROVE round'[m] = round[m]
      BY <1>1, <2>2, <3>5 DEF Kill, AtPeer
    <3>6. ASSUME NEW x \in inFlight, NEW ok, Answered(x, ok) PROVE round'[m] = round[m]
      <4>1. x.awaited => x.from \in Nodes /\ round[x.from].stage = "await"
        BY <1>1, AwaitedIsAt
      <4>2. QED
        BY <3>1, <3>6, <4>1 DEF Answered
    <3>7. ASSUME NEW x \in inFlight, GiveUp(x) PROVE round'[m] = round[m]
      BY <3>6, <3>7 DEF GiveUp, Answered
    <3>8. QED
      BY <1>4, <3>2, <3>3, <3>4, <3>5, <3>6, <3>7
         DEF Next, Gossip, PostTo, Restart, Deliver, Lose
  <2>3. QED
    BY <2>1, <2>2 DEF AllIn
<1>5. ASSUME ~(\E n \in Nodes : SendPush(n)), NEW x \in inFlight'
      PROVE  \E y \in inFlight : x.map = y.map
  <2>1. ASSUME NEW pushes \in SUBSET inFlight, x \in Forsaken(pushes)
        PROVE  \E y \in inFlight : x.map = y.map
    BY <1>1, <2>1 DEF Forsaken, Threads, Pushes
  <2>2. \/ x \in inFlight
        \/ \E y \in inFlight : x \in Forsaken({y})
        \/ \E n \in Nodes : x \in Forsaken(Awaited(n))
    BY <1>5 DEF Next, Gossip, PostTo, Pull, PullFails, MergePulled, Kill, Restart,
                Deliver, Lose, GiveUp
  <2>3. QED
    BY <2>1, <2>2 DEF Awaited
<1>6. ASSUME NEW n \in Nodes, SendPush(n), NEW x \in inFlight'
      PROVE  x.map \in S
  <2>1. x \in inFlight \/ x.map = state[n]
    <3>1. \/ inFlight' = inFlight
          \/ inFlight' = inFlight \cup
                {[from |-> n, to |-> Peer(n), map |-> state[n], awaited |-> TRUE]}
      BY <1>6, Zenon DEF SendPush
    <3>2. QED
      BY <3>1
  <2>2. QED
    BY <2>1 DEF AllIn
<1>7. QED
  BY <1>3, <1>4, <1>5, <1>6 DEF AllIn

\* What nodes hold is made of it by posts they accept and by merging.
LEMMA HeldStays ==
    ASSUME NEW S \in SUBSET Maps,
           \A m, o \in S : Merge(m, o) \in S,
           \A r \in Posts, m \in S : Accepts(r, m) => After(r, m) \in S,
           TypeOK, AllIn(S), Next
    PROVE  \A p \in Nodes : state'[p] \in S
<1>1. Data /\ Threads /\ state \in [Nodes -> S]
  BY TypeParts DEF AllIn, Data
<1>2. ASSUME NEW n \in Nodes, NEW r \in Posts, PostTo(n, r)
      PROVE  \A p \in Nodes : state'[p] \in S
  <2>1. After(r, state[n]) \in S /\ state' = [state EXCEPT ![n] = After(r, state[n])]
    BY <1>1, <1>2 DEF PostTo
  <2>2. QED
    BY <1>1, <2>1
<1>3. ASSUME NEW n \in Nodes, NEW map \in S, MergeState(n, map)
      PROVE  \A p \in Nodes : state'[p] \in S
  <2>1. /\ Merge(state[n], map) \in S
        /\ state' = [state EXCEPT ![n] = Merge(state[n], map)] \/ UNCHANGED state
    BY <1>1, <1>3 DEF MergeState
  <2>2. QED
    BY <1>1, <2>1
<1>4. ASSUME NEW n \in Nodes, MergePulled(n)
      PROVE  \A p \in Nodes : state'[p] \in S
  <2>1. round[n].pulled \in S /\ MergeState(n, round[n].pulled)
    BY <1>4, Zenon DEF MergePulled, AllIn
  <2>2. QED
    BY <1>3, <2>1
<1>5. ASSUME NEW x \in inFlight, Deliver(x)
      PROVE  \A p \in Nodes : state'[p] \in S
  <2>1. x.to \in Nodes /\ x.map \in S
    BY <1>1 DEF Threads, Pushes, AllIn
  <2>2. MergeState(x.to, x.map) \/ UNCHANGED state
    BY <1>5, Zenon DEF Deliver
  <2>3. QED
    BY <1>1, <1>3, <2>1, <2>2
<1>6. ASSUME UNCHANGED state PROVE \A p \in Nodes : state'[p] \in S
  BY <1>1, <1>6
<1>7. QED
  BY <1>2, <1>4, <1>5, <1>6
     DEF Next, Gossip, Pull, PullFails, SendPush, Kill, Restart, Lose, GiveUp

\* The empty map is legal, and so is the merge of two legal maps.
LEMMA MergeLegal == Empty \in Legal /\ \A m, o \in Legal : Merge(m, o) \in Legal
<1>1. Empty \in Legal
  BY EmptySound DEF Legal, Sourced, Empty
<1>2. ASSUME NEW m \in Legal, NEW o \in Legal PROVE Merge(m, o) \in Legal
  <2>1. /\ Merge(m, o) \in SoundMaps(MaxU64 - 2) /\ Sourced(m) /\ Sourced(o)
        /\ m \in Maps /\ o \in Maps
    BY MergeSound DEF Legal, SoundMaps
  <2>2. \A k \in Keys : Merge(m, o)[k] \in {m[k], o[k]}
    BY <2>1, SlotType, JoinCovers DEF Merge
  <2>3. Sourced(Merge(m, o))
    BY <2>1, <2>2 DEF Sourced
  <2>4. QED
    BY <2>1, <2>3 DEF Legal
<1>3. QED
  BY <1>1, <1>2

\* The times of the map of a node whose clock can go on leave it room.
LEMMA ClockLeavesRoom ==
    ASSUME NEW m \in Maps
    PROVE  ~ClockOverflows(m) <=> \A k \in Held(m) : m[k].time <= MaxU64 - 2
<1>1. /\ MaxTime(m) \in U64 /\ MaxU64 \in Nat /\ MaxU64 > 1
      /\ \A k \in Held(m) : m[k].time <= MaxTime(m)
      /\ MaxTime(m) = 0 \/ \E k \in Held(m) : m[k].time = MaxTime(m)
  BY MaxTimeIsNewest, MapAssumption
<1>2. \A k \in Held(m) : m[k].time \in Nat
  BY SlotType, StampType DEF Held, Slots
<1>3. MaxTime(m) \in Nat
  BY <1>1 DEF U64
<1>4. CASE Held(m) = {}
  BY <1>1, <1>4 DEF ClockOverflows, NextLocalTime
<1>5. CASE Held(m) # {}
  <2>1. ~ClockOverflows(m) <=> MaxTime(m) <= MaxU64 - 2
    BY <1>1, <1>3, <1>5 DEF ClockOverflows, NextLocalTime
  <2>2. QED
    BY <1>1, <1>2, <1>3, <2>1
<1>6. QED
  BY <1>4, <1>5

\* A post that a node with a legal map accepts leaves it with one.
LEMMA PostLegal ==
    ASSUME NEW r \in Posts, NEW m \in Legal, Accepts(r, m)
    PROVE  After(r, m) \in Legal
<1>1. r \in AllRequests /\ m \in Maps /\ m \in SoundMaps(MaxU64) /\ Sourced(m)
  <2>1. \A k \in Held(m) : m[k].time <= MaxU64
    BY SlotType DEF Legal, SoundMaps, Held, Slots, Entries, U64
  <2>2. QED
    BY <2>1, SwarmAssumption DEF Legal, SoundMaps
<1>2. /\ After(r, m) \in SoundMaps(MaxU64) /\ After(r, m) \in Maps
      /\ After(r, m) = Merge(m, Posted(r)) /\ Posted(r) \in Maps
  BY <1>1, AcceptedSound, AfterType, RequestIsOneMap, EmptyType DEF Posted
<1>3. ~ClockOverflows(After(r, m))
  BY <1>1, AfterType DEF Accepts, Handle, Attempted, After
<1>4. After(r, m) \in SoundMaps(MaxU64 - 2)
  BY <1>2, <1>3, ClockLeavesRoom DEF SoundMaps
<1>5. \A k \in Keys : After(r, m)[k] \in {m[k], Posted(r)[k]}
  BY <1>1, <1>2, SlotType, JoinCovers DEF Merge
<1>6. Sourced(After(r, m))
  BY <1>1, <1>5 DEF Sourced
<1>7. QED
  BY <1>4, <1>6 DEF Legal

\* Everything everywhere stays legal: a check that one node made need not be made again.
LEMMA StaysLegal == Spec => []AllIn(Legal)
<1>1. Init => AllIn(Legal)
  <2> SUFFICES ASSUME Init PROVE AllIn(Legal)
    OBVIOUS
  <2>1. \A n \in Nodes : state[n] = Empty /\ round[n].pulled = Empty
    BY DEF Init, AtPeer
  <2>2. QED
    BY <2>1, MergeLegal DEF Init, AllIn
<1>2. TypeOK /\ AllIn(Legal) /\ [Next]_vars => AllIn(Legal)'
  <2>1. Legal \in SUBSET Maps
    BY DEF Legal, SoundMaps
  <2>2. TypeOK /\ AllIn(Legal) /\ Next => AllIn(Legal)'
    <3>1. ASSUME TypeOK, AllIn(Legal), Next
          PROVE  /\ \A n \in Nodes : round'[n].pulled \in Legal
                 /\ \A x \in inFlight' : x.map \in Legal
      BY <3>1, MergeLegal, CarriedStays
    <3>2. ASSUME TypeOK, AllIn(Legal), Next
          PROVE  \A p \in Nodes : state'[p] \in Legal
      BY <2>1, <3>2, MergeLegal, PostLegal, HeldStays
    <3>3. QED
      BY <3>1, <3>2 DEF AllIn
  <2>3. AllIn(Legal) /\ UNCHANGED vars => AllIn(Legal)'
    BY DEF AllIn, vars
  <2>4. QED
    BY <2>2, <2>3
<1>3. QED
  BY <1>1, <1>2, TypeCorrect, PTL DEF Spec

-----------------------------------------------------------------------------
(* What peers ask of each other. *)

\* Legal maps agree on what a stamp names.
LEMMA LegalAgree ==
    ASSUME StampsAreOwn, NEW m \in Legal, NEW o \in Legal
    PROVE  ~MergeCollides(m, o)
BY DEF StampsAreOwn, Legal, Sourced, MergeCollides, Collide, SameStamp

\* When each write has a stamp of its own, no two maps anywhere disagree on one.
THEOREM Agreement == ASSUME StampsAreOwn PROVE Spec => []StampsAgree
<1>1. AllIn(Legal) => StampsAgree
  BY LegalAgree DEF AllIn, StampsAgree
<1>2. QED
  BY <1>1, StaysLegal, PTL

\* A legal map that is not too far ahead in time passes the checks of a node.
LEMMA LegalAccepted ==
    ASSUME StampsAreOwn, PostsAreModest, NEW m \in Legal, NEW o \in Legal,
           Held(o) # {}, MaxTime(o) <= TimeLimit(m)
    PROVE  AcceptsState(o, m)
<1> DEFINE written == UNION {Held(Posted(r)) : r \in Posts}
<1>1. /\ m \in Maps /\ o \in Maps /\ Sourced(o) /\ o \in SoundMaps(MaxU64 - 2)
      /\ Merge(m, o) \in Maps /\ Merge(m, o) \in SoundMaps(MaxU64 - 2)
  BY MergeLegal DEF Legal, SoundMaps
<1>2. /\ written \cap InvalidKeys = {} /\ Cardinality(written) <= MaxEntries
      /\ \A r \in Posts : \A k \in Held(Posted(r)) :
            Posted(r)[k].generation <= MaxGenerationJump
  BY DEF PostsAreModest
<1>3. ASSUME NEW k \in Held(o)
      PROVE  k \in written /\ o[k].generation <= MaxGenerationJump
  <2>1. PICK r \in Posts : k \in Keys /\ o[k] = Posted(r)[k] /\ o[k] # NoEntry
    BY <1>1 DEF Sourced, Held
  <2>2. k \in Held(Posted(r))
    BY <2>1 DEF Held
  <2>3. QED
    BY <1>2, <2>1, <2>2
<1>4. Cardinality(Held(o)) <= MaxEntries
  <2>1. written \subseteq Keys /\ IsFiniteSet(Keys) /\ Held(o) \subseteq written
    BY <1>3, MapAssumption DEF Held
  <2> HIDE DEF written
  <2>2. IsFiniteSet(written)
    BY <2>1, FS_Subset
  <2>3. /\ Cardinality(Held(o)) <= Cardinality(written) /\ IsFiniteSet(Held(o))
    BY <2>1, <2>2, FS_Subset
  <2>4. Cardinality(Held(o)) \in Nat /\ Cardinality(written) \in Nat /\ MaxEntries \in Nat
    BY <2>2, <2>3, FS_CardinalityType, RequestAssumption
  <2>5. QED
    BY <1>2, <2>3, <2>4
<1>5. ASSUME NEW k \in Held(o) PROVE CheckEntry(k, o[k], m)
  <2> DEFINE e == o[k]
             g == GenerationOf(m, k)
  <2>1. e \in Entries /\ k \in Keys /\ WellStamped(k, e)
    BY <1>1, SlotType DEF SoundMaps, Held, Slots
  <2>2. k \notin InvalidKeys /\ e.generation <= MaxGenerationJump
    BY <1>2, <1>3
  <2>3. g \in Nat /\ e.generation \in 0 .. MaxU64
    BY <1>1, <2>1, SlotType DEF GenerationOf, Slots, Entries, U64
  <2>4. e.time <= TimeLimit(m)
    <3>1. e.time <= MaxTime(o) /\ MaxTime(o) \in U64 /\ TimeLimit(m) \in U64 /\ e.time \in U64
      BY <1>1, <2>1, MaxTimeIsNewest, LimitType DEF Entries
    <3>2. QED
      BY <3>1, MapAssumption DEF U64
  <2>5. e.generation <= SaturatingAdd(g, MaxGenerationJump)
    <3> HIDE DEF e, g
    <3>1. MaxU64 \in Nat /\ MaxGenerationJump \in Nat
      BY MapAssumption, RequestAssumption
    <3>2. QED
      BY <2>2, <2>3, <3>1 DEF SaturatingAdd
  <2>6. ~IsTombstone(e) => /\ ~Malformed(k, e.value)
                           /\ k \in RecordKeys => e.generation = RequiredGeneration(k, e.value)
    BY <2>1 DEF WellStamped, Malformed
  <2>7. e.generation # 0
    BY <2>1 DEF WellStamped
  <2> HIDE DEF e
  <2>8. CheckEntry(k, e, m)
    BY <2>2, <2>4, <2>5, <2>6, <2>7 DEF CheckEntry
  <2>9. QED
    BY <2>8 DEF e
<1>6. ~MergeCollides(m, o)
  BY LegalAgree
<1>7. ~ClockOverflows(Merge(m, o))
  BY <1>1, ClockLeavesRoom DEF SoundMaps
<1>8. QED
  BY <1>4, <1>5, <1>6, <1>7 DEF AcceptsState

\* When callers keep to their stamps, to the keys peers take and within the jump of the
\* generation, no node ever refuses the full state of a peer that is not too far ahead in
\* time: what passed the checks of one passes those of every other.
THEOREM Acceptance ==
    ASSUME StampsAreOwn, PostsAreModest
    PROVE  Spec => []PeersAcceptEachOther
<1>1. AllIn(Legal) => PeersAcceptEachOther
  BY LegalAccepted DEF AllIn, PeersAcceptEachOther
<1>2. QED
  BY <1>1, StaysLegal, PTL

-----------------------------------------------------------------------------
(* Rest and convergence. *)

\* Nothing is left to be fetched: each node holds what its peers hold.
Settled ==
    \A n \in Nodes : \A i \in DOMAIN Peers[n] : MapCovers(state[n], state[Peers[n][i]])

Converged == \A n \in Nodes : state[n] = known

\* Who holds what holds the newest entry of a key, holds that entry.
LEMMA NewestIsOne ==
    ASSUME AllIn(Legal), StampsAgree, NoWriteLost, Data, NEW k \in Keys,
           NEW n \in Nodes, NEW p \in Nodes, state[p][k] = known[k],
           MapCovers(state[n], state[p])
    PROVE  state[n][k] = known[k]
<1> DEFINE d == state[n][k]
           e == state[p][k]
<1>1. d \in Slots /\ e \in Slots
  BY SlotType DEF Data
<1>2. Covers(d, e) /\ Covers(e, d)
  BY DEF MapCovers, NoWriteLost
<1>3. /\ d # NoEntry => d.generation # 0
      /\ e # NoEntry => e.generation # 0
  BY DEF AllIn, Legal, SoundMaps, WellStamped, Held
<1>4. ~Collide(d, e) \/ ~Tied(d, e)
  <2>1. ~MergeCollides(state[n], state[p])
    BY DEF StampsAgree
  <2>2. QED
    BY <2>1 DEF MergeCollides, Tied
<1>5. d = e
  <2> HIDE DEF d, e
  <2> QED BY <1>1, <1>2, <1>3, <1>4, UntiedEqual
<1>6. QED
  BY <1>5

\* Where every node hears of every other, the nodes rest only when they have
\* converged: as long as some node lacks the newest entry of a key, some node
\* asks a peer that holds more than it does.
THEOREM RestIsConvergence ==
    ASSUME StampsAreOwn, AllHearOfAll
    PROVE  Spec => [](Settled => Converged)
<1>1. AllIn(Legal) /\ StampsAgree /\ NoWriteLost /\ TypeOK => (Settled => Converged)
  <2> SUFFICES ASSUME AllIn(Legal), StampsAgree, NoWriteLost, Data, Settled
               PROVE  Converged
    BY TypeParts
  <2>1. ASSUME NEW k \in Keys PROVE \A n \in Nodes : state[n][k] = known[k]
    <3> DEFINE S == {n \in Nodes : state[n][k] = known[k]}
    <3>1. S # {} /\ S \in SUBSET Nodes
      BY DEF NoWriteLost
    <3>2. ASSUME NEW n \in Nodes, NEW i \in DOMAIN Peers[n], Peers[n][i] \in S
          PROVE  n \in S
      BY <3>2, NewestIsOne DEF Settled
    <3>3. S = Nodes
      <4> HIDE DEF S
      <4> QED BY <3>1, <3>2 DEF AllHearOfAll
    <3>4. QED
      BY <3>3
  <2>2. \A n \in Nodes : state[n] \in Maps /\ known \in Maps
    BY DEF Data
  <2>3. \A m, o \in Maps : (\A k \in Keys : m[k] = o[k]) => m = o
    BY DEF Maps
  <2>4. QED
    BY <2>1, <2>2, <2>3 DEF Converged
<1>2. QED
  BY <1>1, StaysLegal, Agreement, NothingLost, TypeCorrect, PTL

\* What was pulled and what is on its way was accepted by some node.
CarriedIsKnown ==
    /\ \A n \in Nodes : MapCovers(known, round[n].pulled)
    /\ \A x \in inFlight : MapCovers(known, x.map)

\* What is known is not forgotten.
LEMMA KnownGrows ==
    ASSUME Data, Reached
    PROVE  known' \in Maps /\ MapCovers(known', known)
<1>1. known \in Maps /\ known' \in Maps /\ MapCovers(known, known)
  BY MapsType, MapCoversReflexive DEF Data
<1>2. ASSUME NEW n \in Nodes, NEW map \in Maps, Absorbs(n, map)
      PROVE  MapCovers(known', known)
  BY <1>1, <1>2, MergeIsLeastUpperBound DEF Absorbs
<1>3. QED
  BY <1>1, <1>2 DEF Reached

\* A step carries nothing that is not known.
LEMMA StepCarries == TypeOK /\ NoWriteLost /\ CarriedIsKnown /\ [Next]_vars => CarriedIsKnown'
<1>1. CASE UNCHANGED vars
  BY <1>1 DEF vars, CarriedIsKnown
<1>2. ASSUME TypeOK, NoWriteLost, CarriedIsKnown, Next PROVE CarriedIsKnown'
  <2> DEFINE S == {m \in Maps : MapCovers(known, m)}
  <2>1. Data /\ Threads /\ Reached
    BY <1>2, TypeParts, StepReaches
  <2>2. Empty \in S
    BY EmptyType, CoversEmpty
  <2>3. AllIn(S)
    BY <1>2, <2>1 DEF AllIn, Data, Threads, ThreadRounds, Pushes, NoWriteLost, CarriedIsKnown
  <2>4. /\ \A n \in Nodes : round'[n].pulled \in S
        /\ \A x \in inFlight' : x.map \in S
    <3> HIDE DEF S
    <3> QED BY <1>2, <2>2, <2>3, CarriedStays
  <2>5. known \in Maps /\ known' \in Maps /\ MapCovers(known', known)
    BY <2>1, KnownGrows DEF Data
  <2>6. \A m \in S : MapCovers(known', m)
    BY <2>5, MapCoversTransitive
  <2>7. QED
    BY <2>4, <2>6 DEF CarriedIsKnown
<1>3. QED
  BY <1>1, <1>2

\* Nodes that have converged stay so until somebody posts again: no exchange that
\* is late, no retry of a push and no restart moves them.
THEOREM ConvergedStays ==
    Spec => [][Converged /\ posts' = posts => UNCHANGED <<state, known>>]_vars
<1>1. Init => CarriedIsKnown
  BY CoversEmpty DEF Init, AtPeer, CarriedIsKnown
<1>2. Spec => []CarriedIsKnown
  BY <1>1, StepCarries, NothingLost, TypeCorrect, PTL DEF Spec
<1>3. ASSUME TypeOK, CarriedIsKnown, Next, Converged, posts' = posts
      PROVE  UNCHANGED <<state, known>>
  <2>1. Data /\ Threads
    BY <1>3, TypeParts
  <2>2. ASSUME NEW n \in Nodes, NEW map \in Maps, MapCovers(known, map), MergeState(n, map)
        PROVE  UNCHANGED <<state, known>>
    <3>1. Merge(known, map) = known
      <4>1. \A k \in Keys : Join(known[k], map[k]) = known[k]
        BY <2>2 DEF MapCovers, Join
      <4>2. known \in Maps
        BY <2>1 DEF Data
      <4>3. QED
        BY <4>1, <4>2 DEF Merge, Maps
    <3>2. state[n] = known /\ state \in [Nodes -> Maps]
      BY <1>3, <2>1 DEF Converged, Data
    <3>3. QED
      BY <2>2, <3>1, <3>2 DEF MergeState
  <2>3. ASSUME NEW n \in Nodes, MergePulled(n) PROVE UNCHANGED <<state, known>>
    <3>1. MapCovers(known, round[n].pulled) /\ round[n].pulled \in Maps
      BY <1>3, <2>1 DEF CarriedIsKnown, Threads, ThreadRounds
    <3>2. MergeState(n, round[n].pulled)
      BY <2>3, Zenon DEF MergePulled
    <3>3. QED
      BY <2>2, <3>1, <3>2
  <2>4. ASSUME NEW x \in inFlight, Deliver(x) PROVE UNCHANGED <<state, known>>
    <3>1. MapCovers(known, x.map) /\ x.map \in Maps /\ x.to \in Nodes
      BY <1>3, <2>1 DEF CarriedIsKnown, Threads, Pushes
    <3>2. MergeState(x.to, x.map) \/ UNCHANGED <<state, known>>
      BY <2>4, Zenon DEF Deliver
    <3>3. QED
      BY <2>2, <3>1, <3>2
  <2>5. ASSUME NEW n \in Nodes, NEW r \in Posts, PostTo(n, r) PROVE FALSE
    BY <1>3, <2>1, <2>5 DEF PostTo, Threads, Data, TypeOK
  <2>6. QED
    BY <1>3, <2>3, <2>4, <2>5
       DEF Next, Gossip, Pull, PullFails, SendPush, Kill, Restart, Lose, GiveUp
<1>4. TypeOK /\ CarriedIsKnown /\ [Next]_vars
      => [Converged /\ posts' = posts => UNCHANGED <<state, known>>]_vars
  BY <1>3
<1>5. QED
  BY <1>2, <1>4, TypeCorrect, PTL DEF Spec
=============================================================================
