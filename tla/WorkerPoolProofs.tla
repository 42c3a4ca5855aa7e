-------------------------- MODULE WorkerPoolProofs --------------------------
(***************************************************************************)
(* What the answers of WorkerPool tell is never older than what was told   *)
(* before, for any number of workers and requests.                         *)
(***************************************************************************)
EXTENDS WorkerPool, SequenceTheorems, TLAPS

-----------------------------------------------------------------------------
\* The inductive invariant

Busy(t) == at[t].pc # "free"

\* A request is in one place: in the queue, with one worker, or answered.
OnePlace ==
    /\ answered \subseteq sent
    /\ \A i, j \in 1..Len(queue) : queue[i] = queue[j] => i = j
    /\ \A i \in 1..Len(queue) :
           /\ queue[i] \in sent \ answered
           /\ \A t \in Threads : Busy(t) => at[t].req # queue[i]
    /\ \A t \in Threads : Busy(t) => at[t].req \in sent \ answered
    /\ \A t, u \in Threads : Busy(t) /\ Busy(u) /\ at[t].req = at[u].req => t = u

\* Where a thread is follows from the route of its request.
Roles ==
    /\ at[Gossip].req = Gossip
    /\ at[Gossip].pc \in {"free", "merging", "record"}
    /\ \A t \in Threads : Busy(t) =>
           /\ at[t].req \in Requests
           /\ at[t].pc = "read" => kind[at[t].req] = "state"
           /\ at[t].pc = "stats" => kind[at[t].req] = "stats"
           /\ at[t].pc \in {"body", "merging", "record"} => kind[at[t].req] = "merge"

\* Whoever merges holds the lock, and a clone of the state as it still is.
LockInv ==
    \A t \in AllThreads : at[t].pc = "merging" => lock = t /\ at[t].tells = published

\* What is recorded is published, and what is answered is counted.
Behind ==
    /\ recorded \subseteq published
    /\ answered \subseteq counted
    /\ \A t \in AllThreads : at[t].pc = "record" => at[t].tells = {at[t].req} /\ at[t].req \in published
    /\ \A t \in AllThreads : at[t].pc = "respond" => at[t].req \in counted
    /\ \A r \in Requests : before[r] \subseteq answered

\* An answer tells of no merge the node does not know.
Bounded(r, tells) ==
    /\ kind[r] \in {"merge", "state", "stats"} => tells \subseteq published
    /\ kind[r] \in {"merge", "stats"} => tells \subseteq recorded

\* An answer tells of everything that was told before it was asked for.
Current(r, tells) ==
    /\ \A q \in before[r] :
           /\ kind[r] = "state" /\ kind[q] \in {"merge", "state", "stats"} => told[q] \subseteq tells
           /\ kind[r] = "stats" /\ kind[q] \in {"merge", "stats"} => told[q] \subseteq tells
    /\ kind[r] = "metrics" => before[r] \cup {r} \subseteq tells

\* The answer is ready to go out.
Ready(t) == at[t].pc = "respond" \/ (at[t].pc = "count" /\ kind[at[t].req] # "metrics")

Answers ==
    /\ \A r \in answered : Bounded(r, told[r]) /\ Current(r, told[r])
    /\ \A t \in Threads : Ready(t) => Bounded(at[t].req, at[t].tells) /\ Current(at[t].req, at[t].tells)

Inv == TypeOK /\ OnePlace /\ Roles /\ LockInv /\ Behind /\ Answers

\* Nothing was sent and every thread is free.
LEMMA InitInv == Init => Inv
<1> SUFFICES ASSUME Init PROVE Inv OBVIOUS
<1>1. TypeOK BY DEF Init, TypeOK, Free, PCs, Merges
<1>2. OnePlace /\ Roles
  BY DEF Init, OnePlace, Roles, Busy, Free, AllThreads
<1>3. LockInv /\ Behind BY DEF Init, LockInv, Behind, Free
<1>4. Answers BY DEF Init, Answers, Ready, Free, AllThreads
<1> QED BY <1>1, <1>2, <1>3, <1>4 DEF Inv

-----------------------------------------------------------------------------
\* The steps

\* A request that arrives is in no place yet.
LEMMA ArriveStep == ASSUME Inv, NEW r \in Requests, Arrive(r) PROVE Inv'
<1> USE DEF Inv
<1>1. /\ UNCHANGED <<at, lock, published, recorded, counted, answered, told, kind>>
      /\ r \notin sent /\ sent' = sent \cup {r} /\ queue' = Append(queue, r)
  BY DEF Arrive
<1>2. /\ queue \in Seq(Requests) /\ queue' \in Seq(Requests) /\ Len(queue') = Len(queue) + 1
      /\ Len(queue) \in Nat
      /\ \A i \in 1..Len(queue) : queue'[i] = queue[i]
      /\ queue'[Len(queue) + 1] = r
  BY <1>1, AppendProperties DEF TypeOK
<1>3. /\ before' \in [Requests -> SUBSET Requests]
      /\ before'[r] \subseteq answered
      /\ \A q \in Requests : q # r => before'[q] = before[q]
  BY DEF Arrive, TypeOK
<1>4. TypeOK' BY <1>1, <1>2, <1>3 DEF TypeOK
<1>5. OnePlace'
  <2>1. \A i \in 1..Len(queue') : i = Len(queue) + 1 \/ i \in 1..Len(queue) BY <1>2
  <2>2. \A i, j \in 1..Len(queue') : queue'[i] = queue'[j] => i = j
    BY <1>1, <1>2, <2>1 DEF OnePlace
  <2>3. ASSUME NEW i \in 1..Len(queue')
        PROVE  /\ queue'[i] \in sent' \ answered
               /\ \A t \in Threads : Busy(t) => at[t].req # queue'[i]
    BY <1>1, <1>2, <2>1 DEF OnePlace
  <2> QED BY <1>1, <2>2, <2>3 DEF OnePlace, Busy
<1>6. Roles' /\ LockInv' BY <1>1 DEF Roles, LockInv, Busy
<1>7. Behind' BY <1>1, <1>3 DEF Behind
<1>8. Answers'
  <2>1. \A q \in answered : q # r BY <1>1 DEF OnePlace
  <2>2. \A t \in Threads : Ready(t) => at[t].req \in Requests /\ at[t].req # r
    BY <1>1 DEF Ready, Busy, OnePlace, Roles
  <2>3. \A q \in answered : q \in Requests BY DEF TypeOK
  <2> QED BY <1>1, <1>3, <2>1, <2>2, <2>3 DEF Answers, Bounded, Current, Ready
<1> QED BY <1>4, <1>5, <1>6, <1>7, <1>8

\* A worker takes the request at the head of the queue.
LEMMA TakeStep == ASSUME Inv, NEW t \in Threads, Take(t) PROVE Inv'
<1> USE DEF Inv
<1> DEFINE r == Head(queue)
<1>1. /\ UNCHANGED <<lock, published, recorded, counted, answered, told, kind, sent, before>>
      /\ at[t].pc = "free" /\ queue # << >> /\ queue' = Tail(queue)
      /\ at' = [at EXCEPT ![t] = [pc |-> Route(kind[r]), req |-> r, tells |-> {}]]
  BY DEF Take, callers
<1>2. /\ queue \in Seq(Requests) /\ queue' \in Seq(Requests)
      /\ Len(queue) \in Nat /\ Len(queue') = Len(queue) - 1 /\ Len(queue) >= 1
      /\ r = queue[1] /\ r \in Requests
      /\ \A i \in 1..Len(queue') : queue'[i] = queue[i + 1]
  BY <1>1, HeadTailProperties, EmptySeq DEF TypeOK
<1>3. /\ t \in AllThreads /\ t # Gossip /\ Gossip \in AllThreads
  BY PoolAssumption DEF AllThreads
<1>4. kind[r] \in Kinds BY <1>2, PoolAssumption DEF TypeOK
<1>5. /\ Route(kind[r]) \in {"count", "stats", "read", "body"}
      /\ Route(kind[r]) = "count" => kind[r] \in {"plain", "metrics"}
      /\ Route(kind[r]) = "read" => kind[r] = "state"
      /\ Route(kind[r]) = "stats" => kind[r] = "stats"
      /\ Route(kind[r]) = "body" => kind[r] = "merge"
  BY <1>4 DEF Route, Kinds, Reads
<1>6. /\ at'[t] = [pc |-> Route(kind[r]), req |-> r, tells |-> {}]
      /\ \A u \in AllThreads : u # t => at'[u] = at[u]
  BY <1>1, <1>3 DEF TypeOK
<1>7. TypeOK'
  <2>1. at' \in [AllThreads -> [pc : PCs, req : Merges, tells : SUBSET Merges]]
    BY <1>1, <1>2, <1>5 DEF TypeOK, PCs, Merges
  <2> QED BY <1>1, <1>2, <2>1 DEF TypeOK
<1>8. OnePlace'
  <2>1. \A i \in 1..Len(queue') : i + 1 \in 1..Len(queue) /\ i + 1 # 1 BY <1>2
  <2>2. 1 \in 1..Len(queue) BY <1>2
  <2>3. r \in sent \ answered /\ \A u \in Threads : Busy(u) => at[u].req # r
    BY <1>2, <2>2 DEF OnePlace
  <2>4. \A i, j \in 1..Len(queue') : queue'[i] = queue'[j] => i = j
    BY <1>2, <2>1 DEF OnePlace
  <2>5. ASSUME NEW i \in 1..Len(queue')
        PROVE  /\ queue'[i] \in sent \ answered /\ queue'[i] # r
               /\ \A u \in Threads : Busy(u) => at[u].req # queue'[i]
    BY <1>2, <2>1, <2>2 DEF OnePlace
  <2>6. \A u \in Threads : u \in AllThreads BY DEF AllThreads
  <2> QED BY <1>1, <1>6, <2>3, <2>4, <2>5, <2>6 DEF OnePlace, Busy
<1>9. Roles' BY <1>1, <1>2, <1>3, <1>5, <1>6 DEF Roles, Busy, AllThreads
<1>10. LockInv' /\ Behind' BY <1>1, <1>5, <1>6 DEF LockInv, Behind
<1>11. Answers'
  <2>1. \A u \in Threads : u # t => at'[u] = at[u] BY <1>6 DEF AllThreads
  <2>2. \A q \in answered : Bounded(q, told[q])' /\ Current(q, told[q])'
    BY <1>1 DEF Answers, Bounded, Current
  <2>3. Ready(t)' => /\ Bounded(at[t].req, at[t].tells)'
                     /\ Current(at[t].req, at[t].tells)'
    BY <1>1, <1>5, <1>6 DEF Ready, Bounded, Current
  <2>4. ASSUME NEW u \in Threads, u # t, Ready(u)'
        PROVE  Bounded(at[u].req, at[u].tells)' /\ Current(at[u].req, at[u].tells)'
    <3>1. at'[u] = at[u] /\ Ready(u) BY <1>1, <2>1, <2>4 DEF Ready
    <3> QED BY <1>1, <3>1 DEF Answers, Bounded, Current
  <2> QED BY <1>1, <2>2, <2>3, <2>4 DEF Answers
<1> QED BY <1>7, <1>8, <1>9, <1>10, <1>11

\* A thread goes on with the request it has: no request changes place, and
\* nothing that was told, or is about to be told by others, is out of date.
LEMMA Moves ==
    ASSUME Inv, NEW t \in AllThreads, NEW pc \in PCs, NEW tells \in SUBSET Merges,
           Goto(t, pc, tells),
           t \in Threads => Busy(t) /\ pc # "free",
           UNCHANGED <<queue, answered, told, callers>>,
           published \subseteq published', recorded \subseteq recorded'
    PROVE  /\ at' \in [AllThreads -> [pc : PCs, req : Merges, tells : SUBSET Merges]]
           /\ at'[t] = [pc |-> pc, req |-> at[t].req, tells |-> tells]
           /\ \A u \in AllThreads : u # t => at'[u] = at[u]
           /\ OnePlace'
           /\ \A q \in answered : Bounded(q, told[q])' /\ Current(q, told[q])'
           /\ \A u \in Threads : u # t /\ Ready(u)' =>
                  Bounded(at[u].req, at[u].tells)' /\ Current(at[u].req, at[u].tells)'
<1> USE DEF Inv
<1>1. /\ at' \in [AllThreads -> [pc : PCs, req : Merges, tells : SUBSET Merges]]
      /\ at'[t] = [pc |-> pc, req |-> at[t].req, tells |-> tells]
      /\ \A u \in AllThreads : u # t => at'[u] = at[u]
  BY DEF Goto, TypeOK
<1>2. \A u \in Threads : u \in AllThreads /\ at'[u].req = at[u].req /\ (Busy(u)' <=> Busy(u))
  BY <1>1 DEF AllThreads, Busy
<1>3. OnePlace' BY <1>2 DEF OnePlace, callers
<1>4. \A q \in answered : Bounded(q, told[q])' /\ Current(q, told[q])'
  BY DEF Answers, Bounded, Current, callers
<1>5. ASSUME NEW u \in Threads, u # t, Ready(u)'
      PROVE  Bounded(at[u].req, at[u].tells)' /\ Current(at[u].req, at[u].tells)'
  <2>1. at'[u] = at[u] /\ Ready(u) BY <1>1, <1>2, <1>5 DEF Ready, callers
  <2> QED BY <2>1 DEF Answers, Bounded, Current, callers
<1> QED BY <1>1, <1>3, <1>4, <1>5

\* The gossip thread is no worker, and only it merges what is no request.
LEMMA Workers ==
    ASSUME Inv, NEW t \in AllThreads, at[t].pc # "free"
    PROVE  /\ t = Gossip => at[t].req = Gossip /\ at[t].pc \in {"merging", "record"}
           /\ t # Gossip => t \in Threads /\ Busy(t) /\ at[t].req \in Requests
           /\ at[t].req \in Merges
           /\ Gossip \notin Threads
BY PoolAssumption DEF Inv, Roles, Busy, AllThreads, Merges

\* An answer that tells nothing of the merges: a refusal, or a plain answer.
LEMMA BodyFailsStep == ASSUME Inv, NEW t \in AllThreads, BodyFails(t) PROVE Inv'
<1> USE DEF Inv
<1>1. /\ UNCHANGED <<queue, lock, published, recorded, counted, answered, told, callers>>
      /\ at[t].pc = "body" /\ Goto(t, "count", {})
  BY DEF BodyFails
<1>2. t \in Threads /\ Busy(t) /\ t # Gossip /\ kind[at[t].req] = "merge"
  BY <1>1, Workers DEF Roles
<1>3. /\ at' \in [AllThreads -> [pc : PCs, req : Merges, tells : SUBSET Merges]]
      /\ at'[t] = [pc |-> "count", req |-> at[t].req, tells |-> {}]
      /\ \A u \in AllThreads : u # t => at'[u] = at[u]
      /\ OnePlace'
      /\ \A q \in answered : Bounded(q, told[q])' /\ Current(q, told[q])'
      /\ \A u \in Threads : u # t /\ Ready(u)' =>
             Bounded(at[u].req, at[u].tells)' /\ Current(at[u].req, at[u].tells)'
  <2>1. published \subseteq published' /\ recorded \subseteq recorded' BY <1>1
  <2>2. {} \in SUBSET Merges /\ "count" \in PCs BY DEF PCs
  <2> QED BY <1>1, <1>2, <2>1, <2>2, Moves
<1>4. TypeOK' BY <1>1, <1>3 DEF TypeOK, callers
<1>5. Roles' BY <1>1, <1>2, <1>3 DEF Roles, Busy, AllThreads, callers
<1>6. LockInv' /\ Behind' BY <1>1, <1>3 DEF LockInv, Behind, callers
<1>7. Bounded(at[t].req, at[t].tells)' /\ Current(at[t].req, at[t].tells)'
  BY <1>1, <1>2, <1>3 DEF Bounded, Current, callers
<1>8. Answers' BY <1>1, <1>3, <1>7 DEF Answers
<1> QED BY <1>3, <1>4, <1>5, <1>6, <1>8

\* The lock is free: no clone of the state is about to be published.
LEMMA LockStateStep == ASSUME Inv, NEW t \in AllThreads, LockState(t) PROVE Inv'
<1> USE DEF Inv
<1>1. /\ UNCHANGED <<queue, published, recorded, counted, answered, told, callers>>
      /\ ReadyToMerge(t) /\ lock = Nobody /\ lock' = t /\ Goto(t, "merging", published)
  BY DEF LockState
<1>2. /\ Nobody \notin AllThreads /\ Gossip \notin Threads BY PoolAssumption DEF AllThreads
<1>3. /\ t \in Threads => Busy(t) /\ kind[at[t].req] = "merge"
  BY <1>1, <1>2 DEF ReadyToMerge, Roles, Busy
<1>4. published \in SUBSET Merges BY DEF TypeOK
<1>5. /\ at' \in [AllThreads -> [pc : PCs, req : Merges, tells : SUBSET Merges]]
      /\ at'[t] = [pc |-> "merging", req |-> at[t].req, tells |-> published]
      /\ \A u \in AllThreads : u # t => at'[u] = at[u]
      /\ OnePlace'
      /\ \A q \in answered : Bounded(q, told[q])' /\ Current(q, told[q])'
      /\ \A u \in Threads : u # t /\ Ready(u)' =>
             Bounded(at[u].req, at[u].tells)' /\ Current(at[u].req, at[u].tells)'
  BY <1>1, <1>3, <1>4, Moves DEF PCs
<1>6. TypeOK' BY <1>1, <1>5 DEF TypeOK, callers
<1>7. Roles' BY <1>1, <1>3, <1>5 DEF Roles, Busy, AllThreads, callers
<1>8. LockInv' BY <1>1, <1>2, <1>5 DEF LockInv
<1>9. Behind' BY <1>1, <1>5 DEF Behind, callers
<1>10. Answers' BY <1>1, <1>5 DEF Answers, Ready
<1> QED BY <1>5, <1>6, <1>7, <1>8, <1>9, <1>10

\* A merge that is refused changes nothing and is told of to nobody.
LEMMA RefuseStep == ASSUME Inv, NEW t \in AllThreads, Refuse(t) PROVE Inv'
<1> USE DEF Inv
<1>1. /\ UNCHANGED <<queue, published, recorded, counted, answered, told, callers>>
      /\ at[t].pc = "merging" /\ lock' = Nobody /\ Goto(t, Done(t), {})
  BY DEF Refuse
<1>2. /\ t \in Threads => Busy(t) /\ t # Gossip /\ kind[at[t].req] = "merge"
      /\ t # Gossip => t \in Threads
      /\ lock = t /\ Gossip \notin Threads
  BY <1>1, Workers DEF Roles, LockInv
<1>3. Done(t) \in PCs /\ (t = Gossip => Done(t) = "free") /\ (t # Gossip => Done(t) = "count")
  BY DEF Done, PCs
<1>4. /\ at' \in [AllThreads -> [pc : PCs, req : Merges, tells : SUBSET Merges]]
      /\ at'[t] = [pc |-> Done(t), req |-> at[t].req, tells |-> {}]
      /\ \A u \in AllThreads : u # t => at'[u] = at[u]
      /\ OnePlace'
      /\ \A q \in answered : Bounded(q, told[q])' /\ Current(q, told[q])'
      /\ \A u \in Threads : u # t /\ Ready(u)' =>
             Bounded(at[u].req, at[u].tells)' /\ Current(at[u].req, at[u].tells)'
  <2>1. t \in Threads => Busy(t) /\ Done(t) # "free" BY <1>2, <1>3
  <2>2. published \subseteq published' /\ recorded \subseteq recorded' BY <1>1
  <2>3. {} \in SUBSET Merges OBVIOUS
  <2> QED BY <1>1, <1>3, <2>1, <2>2, <2>3, Moves
<1>5. TypeOK' BY <1>1, <1>4 DEF TypeOK, callers
<1>6. Roles' BY <1>1, <1>2, <1>3, <1>4 DEF Roles, Busy, AllThreads, callers
<1>7. LockInv' BY <1>1, <1>2, <1>3, <1>4 DEF LockInv
<1>8. Behind' BY <1>1, <1>3, <1>4 DEF Behind, callers
<1>9. t \in Threads => Bounded(at[t].req, at[t].tells)' /\ Current(at[t].req, at[t].tells)'
  BY <1>1, <1>2, <1>4 DEF Bounded, Current, callers
<1>10. Answers' BY <1>1, <1>4, <1>9 DEF Answers
<1> QED BY <1>4, <1>5, <1>6, <1>7, <1>8, <1>10

\* The state after a merge is the state before with the request merged in:
\* nobody published since it was cloned.
LEMMA PublishStep == ASSUME Inv, NEW t \in AllThreads, Publish(t) PROVE Inv'
<1> USE DEF Inv
<1>1. /\ UNCHANGED <<queue, recorded, counted, answered, told, callers>>
      /\ at[t].pc = "merging" /\ lock' = Nobody
      /\ published' = at[t].tells \cup {at[t].req} /\ Goto(t, "record", {at[t].req})
  BY DEF Publish
<1>2. /\ t \in Threads => Busy(t) /\ t # Gossip /\ kind[at[t].req] = "merge"
      /\ t # Gossip => t \in Threads
      /\ lock = t /\ at[t].tells = published /\ at[t].req \in Merges
  BY <1>1, Workers DEF Roles, LockInv
<1>3. /\ at' \in [AllThreads -> [pc : PCs, req : Merges, tells : SUBSET Merges]]
      /\ at'[t] = [pc |-> "record", req |-> at[t].req, tells |-> {at[t].req}]
      /\ \A u \in AllThreads : u # t => at'[u] = at[u]
      /\ OnePlace'
      /\ \A q \in answered : Bounded(q, told[q])' /\ Current(q, told[q])'
      /\ \A u \in Threads : u # t /\ Ready(u)' =>
             Bounded(at[u].req, at[u].tells)' /\ Current(at[u].req, at[u].tells)'
  <2>1. published \subseteq published' /\ recorded \subseteq recorded' BY <1>1, <1>2
  <2>2. {at[t].req} \in SUBSET Merges /\ "record" \in PCs BY <1>2 DEF PCs
  <2> QED BY <1>1, <1>2, <2>1, <2>2, Moves
<1>4. TypeOK' BY <1>1, <1>2, <1>3 DEF TypeOK, callers
<1>5. Roles' BY <1>1, <1>2, <1>3 DEF Roles, Busy, AllThreads, callers
<1>6. LockInv' BY <1>1, <1>2, <1>3 DEF LockInv
<1>7. Behind' BY <1>1, <1>2, <1>3 DEF Behind, callers
<1>8. Answers' BY <1>1, <1>3 DEF Answers, Ready
<1> QED BY <1>3, <1>4, <1>5, <1>6, <1>7, <1>8

\* What is published is counted.
LEMMA RecordStep == ASSUME Inv, NEW t \in AllThreads, Record(t) PROVE Inv'
<1> USE DEF Inv
<1>1. /\ UNCHANGED <<queue, lock, published, counted, answered, told, callers>>
      /\ at[t].pc = "record" /\ recorded' = recorded \cup {at[t].req}
      /\ Goto(t, Done(t), at[t].tells)
  BY DEF Record
<1>2. /\ t \in Threads => Busy(t) /\ t # Gossip /\ kind[at[t].req] = "merge"
      /\ t # Gossip => t \in Threads
      /\ at[t].tells = {at[t].req} /\ at[t].req \in published /\ Gossip \notin Threads
  BY <1>1, Workers DEF Roles, Behind
<1>3. Done(t) \in PCs /\ (t = Gossip => Done(t) = "free") /\ (t # Gossip => Done(t) = "count")
  BY DEF Done, PCs
<1>4. /\ at' \in [AllThreads -> [pc : PCs, req : Merges, tells : SUBSET Merges]]
      /\ at'[t] = [pc |-> Done(t), req |-> at[t].req, tells |-> at[t].tells]
      /\ \A u \in AllThreads : u # t => at'[u] = at[u]
      /\ OnePlace'
      /\ \A q \in answered : Bounded(q, told[q])' /\ Current(q, told[q])'
      /\ \A u \in Threads : u # t /\ Ready(u)' =>
             Bounded(at[u].req, at[u].tells)' /\ Current(at[u].req, at[u].tells)'
  <2>1. t \in Threads => Busy(t) /\ Done(t) # "free" BY <1>2, <1>3
  <2>2. at[t].tells \in SUBSET Merges BY DEF TypeOK
  <2>3. published \subseteq published' /\ recorded \subseteq recorded' BY <1>1
  <2> QED BY <1>1, <1>3, <2>1, <2>2, <2>3, Moves
<1>5. TypeOK'
  <2>1. recorded' \subseteq Merges BY <1>1, <1>2 DEF TypeOK
  <2> QED BY <1>1, <1>4, <2>1 DEF TypeOK, callers
<1>6. Roles' BY <1>1, <1>2, <1>3, <1>4 DEF Roles, Busy, AllThreads, callers
<1>7. LockInv' BY <1>1, <1>3, <1>4 DEF LockInv
<1>8. Behind' BY <1>1, <1>2, <1>3, <1>4 DEF Behind, callers
<1>9. t \in Threads => Bounded(at[t].req, at[t].tells)' /\ Current(at[t].req, at[t].tells)'
  BY <1>1, <1>2, <1>4 DEF Bounded, Current, callers
<1>10. Answers' BY <1>1, <1>4, <1>9 DEF Answers
<1> QED BY <1>4, <1>5, <1>6, <1>7, <1>8, <1>10

\* What an earlier answer told of merges is published, and recorded unless
\* it was read from the state.
LEMMA ToldIsKnown ==
    ASSUME Inv, NEW r \in Requests, NEW q \in before[r]
    PROVE  /\ kind[q] \in {"merge", "state", "stats"} => told[q] \subseteq published
           /\ kind[q] \in {"merge", "stats"} => told[q] \subseteq recorded
BY DEF Inv, Behind, Answers, Bounded

\* The evidence shows everything told as counted before.
LEMMA StatsStep == ASSUME Inv, NEW t \in AllThreads, Stats(t) PROVE Inv'
<1> USE DEF Inv
<1>1. /\ UNCHANGED <<queue, lock, published, recorded, counted, answered, told, callers>>
      /\ at[t].pc = "stats" /\ Goto(t, "count", recorded)
  BY DEF Stats
<1>2. /\ t \in Threads /\ Busy(t) /\ t # Gossip /\ Gossip \notin Threads
      /\ kind[at[t].req] = "stats" /\ at[t].req \in Requests
  BY <1>1, Workers DEF Roles
<1>3. /\ at' \in [AllThreads -> [pc : PCs, req : Merges, tells : SUBSET Merges]]
      /\ at'[t] = [pc |-> "count", req |-> at[t].req, tells |-> recorded]
      /\ \A u \in AllThreads : u # t => at'[u] = at[u]
      /\ OnePlace'
      /\ \A q \in answered : Bounded(q, told[q])' /\ Current(q, told[q])'
      /\ \A u \in Threads : u # t /\ Ready(u)' =>
             Bounded(at[u].req, at[u].tells)' /\ Current(at[u].req, at[u].tells)'
  <2>1. published \subseteq published' /\ recorded \subseteq recorded' BY <1>1
  <2>2. recorded \in SUBSET Merges /\ "count" \in PCs BY DEF PCs, TypeOK
  <2> QED BY <1>1, <1>2, <2>1, <2>2, Moves
<1>4. TypeOK' BY <1>1, <1>3 DEF TypeOK, callers
<1>5. Roles' BY <1>1, <1>2, <1>3 DEF Roles, Busy, AllThreads, callers
<1>6. LockInv' /\ Behind' BY <1>1, <1>3 DEF LockInv, Behind, callers
<1>7. Bounded(at[t].req, at[t].tells)'
  BY <1>1, <1>2, <1>3 DEF Bounded, Behind, callers
<1>8. Current(at[t].req, at[t].tells)'
  BY <1>1, <1>2, <1>3, ToldIsKnown DEF Current, callers
<1>9. Answers' BY <1>1, <1>3, <1>7, <1>8 DEF Answers
<1> QED BY <1>3, <1>4, <1>5, <1>6, <1>9

\* The state shows everything told before.
LEMMA ReadStateStep == ASSUME Inv, NEW t \in AllThreads, ReadState(t) PROVE Inv'
<1> USE DEF Inv
<1>1. /\ UNCHANGED <<queue, lock, published, recorded, counted, answered, told, callers>>
      /\ at[t].pc = "read" /\ Goto(t, "count", published)
  BY DEF ReadState
<1>2. /\ t \in Threads /\ Busy(t) /\ t # Gossip /\ Gossip \notin Threads
      /\ kind[at[t].req] = "state" /\ at[t].req \in Requests
  BY <1>1, Workers DEF Roles
<1>3. /\ at' \in [AllThreads -> [pc : PCs, req : Merges, tells : SUBSET Merges]]
      /\ at'[t] = [pc |-> "count", req |-> at[t].req, tells |-> published]
      /\ \A u \in AllThreads : u # t => at'[u] = at[u]
      /\ OnePlace'
      /\ \A q \in answered : Bounded(q, told[q])' /\ Current(q, told[q])'
      /\ \A u \in Threads : u # t /\ Ready(u)' =>
             Bounded(at[u].req, at[u].tells)' /\ Current(at[u].req, at[u].tells)'
  <2>1. published \subseteq published' /\ recorded \subseteq recorded' BY <1>1
  <2>2. published \in SUBSET Merges /\ "count" \in PCs BY DEF PCs, TypeOK
  <2> QED BY <1>1, <1>2, <2>1, <2>2, Moves
<1>4. TypeOK' BY <1>1, <1>3 DEF TypeOK, callers
<1>5. Roles' BY <1>1, <1>2, <1>3 DEF Roles, Busy, AllThreads, callers
<1>6. LockInv' /\ Behind' BY <1>1, <1>3 DEF LockInv, Behind, callers
<1>7. Bounded(at[t].req, at[t].tells)'
  BY <1>1, <1>2, <1>3 DEF Bounded, callers
<1>8. Current(at[t].req, at[t].tells)'
  BY <1>1, <1>2, <1>3, ToldIsKnown DEF Current, callers
<1>9. Answers' BY <1>1, <1>3, <1>7, <1>8 DEF Answers
<1> QED BY <1>3, <1>4, <1>5, <1>6, <1>9

\* What was answered is counted, so the metrics show it.
LEMMA CountStep == ASSUME Inv, NEW t \in AllThreads, Count(t) PROVE Inv'
<1> USE DEF Inv
<1> DEFINE r == at[t].req
           tells == IF kind[r] = "metrics" THEN counted' ELSE at[t].tells
<1>1. /\ UNCHANGED <<queue, lock, published, recorded, answered, told, callers>>
      /\ at[t].pc = "count" /\ counted' = counted \cup {r} /\ Goto(t, "respond", tells)
  BY DEF Count
<1>2. /\ t \in Threads /\ Busy(t) /\ t # Gossip /\ Gossip \notin Threads /\ r \in Requests
  BY <1>1, Workers
<1>3. counted' \in SUBSET Requests /\ tells \in SUBSET Merges
  BY <1>1, <1>2 DEF TypeOK, Merges
<1>4. /\ at' \in [AllThreads -> [pc : PCs, req : Merges, tells : SUBSET Merges]]
      /\ at'[t] = [pc |-> "respond", req |-> r, tells |-> tells]
      /\ \A u \in AllThreads : u # t => at'[u] = at[u]
      /\ OnePlace'
      /\ \A q \in answered : Bounded(q, told[q])' /\ Current(q, told[q])'
      /\ \A u \in Threads : u # t /\ Ready(u)' =>
             Bounded(at[u].req, at[u].tells)' /\ Current(at[u].req, at[u].tells)'
  <2>1. published \subseteq published' /\ recorded \subseteq recorded' /\ "respond" \in PCs
    BY <1>1 DEF PCs
  <2> HIDE DEF tells
  <2> QED BY <1>1, <1>2, <1>3, <2>1, Moves
<1>5. TypeOK' BY <1>1, <1>3, <1>4 DEF TypeOK, callers
<1>6. Roles' BY <1>1, <1>2, <1>4 DEF Roles, Busy, AllThreads, callers
<1>7. LockInv' /\ Behind' BY <1>1, <1>4 DEF LockInv, Behind, callers
<1>8. Bounded(at[t].req, at[t].tells)' /\ Current(at[t].req, at[t].tells)'
  <2>1. at'[t].req = r /\ at'[t].tells = tells BY <1>4
  <2>2. CASE kind[r] = "metrics"
    <3>1. tells = counted \cup {r} /\ before[r] \subseteq counted
      BY <1>1, <1>2, <2>2 DEF Behind
    <3> QED BY <1>1, <2>1, <2>2, <3>1 DEF Bounded, Current, callers
  <2>3. CASE kind[r] # "metrics"
    <3>1. Bounded(r, at[t].tells) /\ Current(r, at[t].tells) /\ tells = at[t].tells
      BY <1>1, <1>2, <2>3 DEF Answers, Ready
    <3> QED BY <1>1, <2>1, <3>1 DEF Bounded, Current, callers
  <2> QED BY <2>2, <2>3
<1>9. Answers' BY <1>1, <1>4, <1>8 DEF Answers
<1> QED BY <1>4, <1>5, <1>6, <1>7, <1>9

\* An answer goes out: it was not out before, so nothing told before changes.
LEMMA RespondStep == ASSUME Inv, NEW t \in AllThreads, Respond(t) PROVE Inv'
<1> USE DEF Inv
<1> DEFINE r == at[t].req
<1>1. /\ UNCHANGED <<queue, lock, published, recorded, counted, callers>>
      /\ at[t].pc = "respond" /\ answered' = answered \cup {r}
      /\ told' = [told EXCEPT ![r] = at[t].tells] /\ at' = [at EXCEPT ![t] = Free]
  BY DEF Respond
<1>2. /\ t \in Threads /\ Busy(t) /\ t # Gossip /\ Gossip \notin Threads /\ r \in Requests
  BY <1>1, Workers
<1>3. r \in sent /\ r \notin answered BY <1>2 DEF OnePlace
<1>4. at'[t] = Free /\ \A u \in AllThreads : u # t => at'[u] = at[u]
  BY <1>1 DEF TypeOK
<1>5. told'[r] = at[t].tells /\ \A q \in Requests : q # r => told'[q] = told[q]
  BY <1>1, <1>2 DEF TypeOK
<1>6. r \in counted /\ Bounded(r, at[t].tells) /\ Current(r, at[t].tells)
  <2>1. r \in counted BY <1>1 DEF Behind
  <2>2. Ready(t) BY <1>1 DEF Ready
  <2> QED BY <1>2, <2>1, <2>2 DEF Answers
<1>7. \A u \in Threads : u \in AllThreads /\ (u # t /\ Busy(u) => at[u].req # r)
  BY <1>2 DEF OnePlace, AllThreads
<1>8. TypeOK'
  <2>1. /\ at' \in [AllThreads -> [pc : PCs, req : Merges, tells : SUBSET Merges]]
        /\ told' \in [Requests -> SUBSET Merges]
        /\ answered' \subseteq Requests
    BY <1>1, <1>2 DEF TypeOK, Free, PCs, Merges
  <2> QED BY <1>1, <2>1 DEF TypeOK, callers
<1>9. OnePlace'
  <2>1. \A i \in 1..Len(queue) : queue[i] # r BY <1>2 DEF OnePlace
  <2>2. \A u \in Threads : Busy(u)' => u # t /\ at'[u] = at[u] /\ Busy(u) /\ at[u].req # r
    BY <1>4, <1>7 DEF Busy, Free
  <2>3. answered' \subseteq sent' BY <1>1, <1>3 DEF OnePlace, callers
  <2>4. \A i \in 1..Len(queue) :
            /\ queue[i] \in sent \ answered'
            /\ \A u \in Threads : Busy(u)' => at'[u].req # queue[i]
    BY <1>1, <2>1, <2>2 DEF OnePlace
  <2>5. \A u \in Threads : Busy(u)' => at'[u].req \in sent \ answered'
    BY <1>1, <2>2 DEF OnePlace
  <2>6. \A u, v \in Threads : Busy(u)' /\ Busy(v)' /\ at'[u].req = at'[v].req => u = v
    BY <2>2 DEF OnePlace
  <2> QED BY <1>1, <2>3, <2>4, <2>5, <2>6 DEF OnePlace, callers
<1>10. Roles' BY <1>1, <1>2, <1>4, <1>7 DEF Roles, Busy, Free, AllThreads, callers
<1>11. LockInv' BY <1>1, <1>4 DEF LockInv, Free
<1>12. Behind' BY <1>1, <1>4, <1>6 DEF Behind, Free, callers
<1>13. \A q \in Requests : \A p \in before[q] : told'[p] = told[p]
  BY <1>3, <1>5 DEF Behind, TypeOK
<1>14. ASSUME NEW q \in answered' PROVE Bounded(q, told[q])' /\ Current(q, told[q])'
  <2>1. CASE q = r BY <1>1, <1>2, <1>5, <1>6, <1>13, <2>1 DEF Bounded, Current, callers
  <2>2. CASE q # r
    <3>1. q \in answered /\ q \in Requests BY <1>1, <1>14, <2>2 DEF TypeOK
    <3>2. told'[q] = told[q] /\ Bounded(q, told[q]) /\ Current(q, told[q])
      BY <1>5, <2>2, <3>1 DEF Answers
    <3> QED BY <1>1, <1>13, <3>1, <3>2 DEF Bounded, Current, callers
  <2> QED BY <2>1, <2>2
<1>15. ASSUME NEW u \in Threads, Ready(u)'
       PROVE  Bounded(at[u].req, at[u].tells)' /\ Current(at[u].req, at[u].tells)'
  <2>1. u # t BY <1>4, <1>15 DEF Ready, Free
  <2>2. at'[u] = at[u] /\ Ready(u) BY <1>1, <1>4, <1>7, <1>15, <2>1 DEF Ready, callers
  <2>3. at[u].req \in Requests BY <2>2 DEF Ready, Roles, Busy
  <2>4. Bounded(at[u].req, at[u].tells) /\ Current(at[u].req, at[u].tells) BY <2>2 DEF Answers
  <2> QED BY <1>1, <1>13, <2>2, <2>3, <2>4 DEF Bounded, Current, callers
<1>16. Answers' BY <1>14, <1>15 DEF Answers
<1> QED BY <1>8, <1>9, <1>10, <1>11, <1>12, <1>16

\* Every step keeps the invariant.
LEMMA NextInv == Inv /\ [Next]_vars => Inv'
<1> SUFFICES ASSUME Inv, [Next]_vars PROVE Inv' OBVIOUS
<1>1. ASSUME NEW r \in Requests, Arrive(r) PROVE Inv' BY <1>1, ArriveStep
<1>2. ASSUME NEW t \in AllThreads, Runs(t) \/ Waits(t) \/ BodyFails(t) PROVE Inv'
  <2>1. CASE Take(t) BY <2>1, TakeStep DEF Take
  <2>2. CASE Refuse(t) BY <2>2, RefuseStep
  <2>3. CASE Publish(t) BY <2>3, PublishStep
  <2>4. CASE Record(t) BY <2>4, RecordStep
  <2>5. CASE Stats(t) BY <2>5, StatsStep
  <2>6. CASE Count(t) BY <2>6, CountStep
  <2>7. CASE Respond(t) BY <2>7, RespondStep
  <2>8. CASE LockState(t) BY <2>8, LockStateStep
  <2>9. CASE ReadState(t) BY <2>9, ReadStateStep
  <2>10. CASE BodyFails(t) BY <2>10, BodyFailsStep
  <2> QED BY <1>2, <2>1, <2>2, <2>3, <2>4, <2>5, <2>6, <2>7, <2>8, <2>9, <2>10 DEF Runs, Waits
<1>3. CASE UNCHANGED vars
  BY <1>3 DEF vars, Inv, TypeOK, OnePlace, Roles, LockInv, Behind, Answers, Busy, Ready, Bounded, Current
<1> QED BY <1>1, <1>2, <1>3 DEF Next

-----------------------------------------------------------------------------

\* The inductive invariant holds of every run of the pool.
THEOREM Invariance == Spec => []Inv
BY InitInv, NextInv, PTL DEF Spec

\* The queue, the threads and what is told keep their types (Shared, serve).
THEOREM TypeCorrect == Spec => []TypeOK
<1>1. Inv => TypeOK BY DEF Inv
<1> QED BY <1>1, Invariance, PTL

\* GET /state shows whatever an earlier answer told of, on whatever thread
\* either was served, and however many merges were under way.
THEOREM StateReads == Spec => []StateIsCurrent
<1>1. Inv => StateIsCurrent
  BY DEF Inv, Answers, Current, StateIsCurrent, Follows
<1> QED BY <1>1, Invariance, PTL

\* GET /stats counts every merge answered or counted before it was asked.
THEOREM StatsReads == Spec => []StatsAreCurrent
<1>1. Inv => StatsAreCurrent
  BY DEF Inv, Answers, Current, StatsAreCurrent, Follows
<1> QED BY <1>1, Invariance, PTL

\* GET /metrics counts every answer given before it was asked, and its own.
THEOREM MetricsReads == Spec => []MetricsAreCurrent
<1>1. Inv => MetricsAreCurrent
  BY DEF Inv, Answers, Current, MetricsAreCurrent
<1> QED BY <1>1, Invariance, PTL

=============================================================================
