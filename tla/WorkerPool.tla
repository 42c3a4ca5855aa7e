---------------------------- MODULE WorkerPool ----------------------------
(***************************************************************************)
(* The worker threads of src/server.rs: which request is read by whom,     *)
(* what it waits for, and what its answer tells.  The map is only the set  *)
(* of the requests merged into it (SwarmNode says what a merge does); what *)
(* is told here is which merges the answers of the other routes show, and  *)
(* who waits for whom when clients are slow.                               *)
(***************************************************************************)
EXTENDS Integers, Sequences, FiniteSets

CONSTANTS
    Requests,  \* what callers send, each once
    Mixes,     \* the routes they may take: one of these for all requests
    Slow,      \* the merges whose body never ends
    Threads,   \* the workers
    MaxQueue,  \* bound: how many requests wait for a worker
    Gossip,    \* the gossip thread, and what it merges
    Nobody     \* the holder of a free lock

Reads == {"metrics", "stats", "state"}
Kinds == Reads \cup {"plain", "merge"}

ASSUME PoolAssumption ==
    /\ Mixes \subseteq [Requests -> Kinds]
    /\ Slow \subseteq Requests
    /\ \A mix \in Mixes : \A r \in Slow : mix[r] = "merge"
    /\ MaxQueue \in Nat
    /\ Gossip \notin Requests \cup Threads
    /\ Nobody \notin Threads \cup {Gossip}

VARIABLES
    queue,      \* requests no worker has read yet
    at,         \* where each thread is, with which request, and what its answer will tell
    lock,       \* who holds the state lock
    published,  \* what is merged into Shared.state
    recorded,   \* what the evidence counts
    counted,    \* what METRICS counts
    answered,   \* the requests that were answered
    kind,       \* the route of each request
    sent,       \* the requests that were sent
    told,       \* what the answer of each request told
    before      \* kept by the model: what was answered before each read was sent

vars == <<queue, at, lock, published, recorded, counted, answered, told, kind, sent, before>>
callers == <<kind, sent, before>>

Merges == Requests \cup {Gossip}
AllThreads == Threads \cup {Gossip}
PCs == {"free", "body", "merging", "record", "stats", "read", "count", "respond"}

Free == [pc |-> "free", req |-> Gossip, tells |-> {}]

Init ==
    /\ kind \in Mixes
    /\ queue = << >>
    /\ at = [t \in AllThreads |-> Free]
    /\ lock = Nobody
    /\ published = {} /\ recorded = {} /\ counted = {}
    /\ answered = {} /\ sent = {}
    /\ told = [r \in Requests |-> {}]
    /\ before = [r \in Requests |-> {}]

\* A thread goes on at pc; its answer will tell what is given.
Goto(t, pc, tells) == at' = [at EXCEPT ![t].pc = pc, ![t].tells = tells]

-----------------------------------------------------------------------------

\* A caller sends a request. The HTTP server queues it.
Arrive(r) ==
    /\ r \notin sent /\ Len(queue) < MaxQueue
    /\ sent' = sent \cup {r}
    /\ before' = [before EXCEPT ![r] = IF kind[r] \in Reads THEN answered ELSE {}]
    /\ queue' = Append(queue, r)
    /\ UNCHANGED <<at, lock, published, recorded, counted, answered, told, kind>>

\* Where each route starts. A plain request needs nothing of the node:
\* /health, /time, an unknown path, a caller that is not authorized, a body
\* announced too large.
Route(route) ==
    CASE route \in {"plain", "metrics"} -> "count"
      [] route = "stats" -> "stats"
      [] route = "state" -> "read"
      [] route = "merge" -> "body"

\* Bug: the state is locked before the body is read.
TakeLocked(t) ==
    /\ t \in Threads /\ at[t].pc = "free" /\ queue # << >>
    /\ kind[Head(queue)] = "merge" => lock = Nobody
    /\ lock' = IF kind[Head(queue)] = "merge" THEN t ELSE lock
    /\ at' = [at EXCEPT ![t] = [pc |-> Route(kind[Head(queue)]), req |-> Head(queue), tells |-> {}]]
    /\ queue' = Tail(queue)
    /\ UNCHANGED <<published, recorded, counted, answered, told, callers>>

\* A worker that is free takes the next request.
Take(t) ==
    /\ t \in Threads /\ at[t].pc = "free" /\ queue # << >>
    /\ at' = [at EXCEPT ![t] = [pc |-> Route(kind[Head(queue)]), req |-> Head(queue), tells |-> {}]]
    /\ queue' = Tail(queue)
    /\ UNCHANGED <<lock, published, recorded, counted, answered, told, callers>>

\* The caller hangs up, or what came is no request: 400.
BodyFails(t) ==
    /\ at[t].pc = "body"
    /\ Goto(t, "count", {})
    /\ UNCHANGED <<queue, lock, published, recorded, counted, answered, told, callers>>

\* A worker has the whole body, the gossip thread the state of a peer.
ReadyToMerge(t) ==
    IF t = Gossip THEN at[t].pc = "free" ELSE at[t].pc = "body" /\ at[t].req \notin Slow

\* Bug: the state is cloned without its lock.
LockStateNot(t) ==
    /\ ReadyToMerge(t)
    /\ Goto(t, "merging", published)
    /\ UNCHANGED <<queue, lock, published, recorded, counted, answered, told, callers>>

\* The state is locked and cloned.
LockState(t) ==
    /\ ReadyToMerge(t) /\ lock = Nobody
    /\ lock' = t
    /\ Goto(t, "merging", published)
    /\ UNCHANGED <<queue, published, recorded, counted, answered, told, callers>>

\* Bug: the gossip thread goes on to answer a request nobody sent.
DoneAnswers(t) == "respond"

\* Once the node is done with a merge: a worker answers, the gossip thread sleeps.
Done(t) == IF t = Gossip THEN "free" ELSE "count"

\* A check, the merge or the save refuses.
Refuse(t) ==
    /\ at[t].pc = "merging"
    /\ lock' = Nobody
    /\ Goto(t, Done(t), {})
    /\ UNCHANGED <<queue, published, recorded, counted, answered, told, callers>>

\* Bug: the evidence is forgotten.
PublishUnrecorded(t) ==
    /\ at[t].pc = "merging"
    /\ published' = at[t].tells \cup {at[t].req}
    /\ lock' = Nobody
    /\ Goto(t, Done(t), {at[t].req})
    /\ UNCHANGED <<queue, recorded, counted, answered, told, callers>>

\* The clone with the request merged into it, by now on disk, replaces the state.
Publish(t) ==
    /\ at[t].pc = "merging"
    /\ published' = at[t].tells \cup {at[t].req}
    /\ lock' = Nobody
    /\ Goto(t, "record", {at[t].req})
    /\ UNCHANGED <<queue, recorded, counted, answered, told, callers>>

\* The evidence is counted under its own lock, which nobody holds for long.
Record(t) ==
    /\ at[t].pc = "record"
    /\ recorded' = recorded \cup {at[t].req}
    /\ Goto(t, Done(t), at[t].tells)
    /\ UNCHANGED <<queue, lock, published, counted, answered, told, callers>>

\* GET /stats and GET /conflicts.
Stats(t) ==
    /\ at[t].pc = "stats"
    /\ Goto(t, "count", recorded)
    /\ UNCHANGED <<queue, lock, published, recorded, counted, answered, told, callers>>

\* GET /state, in full or not.
ReadState(t) ==
    /\ at[t].pc = "read" /\ lock = Nobody
    /\ Goto(t, "count", published)
    /\ UNCHANGED <<queue, lock, published, recorded, counted, answered, told, callers>>

\* Bug: the metrics are rendered before their own answer is counted.
CountRendered(t) ==
    /\ at[t].pc = "count"
    /\ counted' = counted \cup {at[t].req}
    /\ Goto(t, "respond", IF kind[at[t].req] = "metrics" THEN counted ELSE at[t].tells)
    /\ UNCHANGED <<queue, lock, published, recorded, answered, told, callers>>

\* Every answer is counted before it goes out, that of /metrics before it is rendered.
Count(t) ==
    /\ at[t].pc = "count"
    /\ counted' = counted \cup {at[t].req}
    /\ Goto(t, "respond", IF kind[at[t].req] = "metrics" THEN counted' ELSE at[t].tells)
    /\ UNCHANGED <<queue, lock, published, recorded, answered, told, callers>>

Respond(t) ==
    /\ at[t].pc = "respond"
    /\ answered' = answered \cup {at[t].req}
    /\ told' = [told EXCEPT ![at[t].req] = at[t].tells]
    /\ at' = [at EXCEPT ![t] = Free]
    /\ UNCHANGED <<queue, lock, published, recorded, counted, callers>>

-----------------------------------------------------------------------------

Waits(t) == LockState(t) \/ ReadState(t)
Runs(t) ==
    \/ Take(t) \/ Refuse(t) \/ Publish(t) \/ Record(t)
    \/ Stats(t) \/ Count(t) \/ Respond(t)

Next ==
    \/ \E r \in Requests : Arrive(r)
    \/ \E t \in AllThreads : Runs(t) \/ Waits(t) \/ BodyFails(t)

Spec == Init /\ [][Next]_vars

\* Threads run. A thread that waits for the state lock gets it in the end: the
\* gossip thread sleeps for a second or more between its merges (main.rs), and
\* everybody else takes the lock once.
FairSpec ==
    /\ Spec
    /\ \A t \in AllThreads : WF_vars(Runs(t))
    /\ \A t \in Threads : SF_vars(Waits(t))

-----------------------------------------------------------------------------
\* Properties

\* The queue, the threads and the sets keep their types.
TypeOK ==
    /\ kind \in Mixes
    /\ queue \in Seq(Requests)
    /\ at \in [AllThreads -> [pc : PCs, req : Merges, tells : SUBSET Merges]]
    /\ lock \in AllThreads \cup {Nobody}
    /\ published \subseteq Merges /\ recorded \subseteq Merges
    /\ counted \subseteq Requests /\ answered \subseteq Requests /\ sent \subseteq Requests
    /\ told \in [Requests -> SUBSET Merges]
    /\ before \in [Requests -> SUBSET Requests]

\* r was sent after q was answered, and is answered too.
Follows(r, q) == r \in answered /\ q \in before[r]

\* GET /state shows every merge that an earlier answer told of: its own 200,
\* an earlier GET /state or what GET /stats counted, on whatever thread.
StateIsCurrent ==
    \A r, q \in Requests :
        Follows(r, q) /\ kind[r] = "state" /\ kind[q] \in {"merge", "state", "stats"}
            => told[q] \subseteq told[r]

\* GET /stats counts every merge that was answered 200 or counted before it
\* was asked: the evidence is recorded before the answer. (What GET /state
\* shows may not be counted yet.)
StatsAreCurrent ==
    \A r, q \in Requests :
        Follows(r, q) /\ kind[r] = "stats" /\ kind[q] \in {"merge", "stats"}
            => told[q] \subseteq told[r]

\* GET /metrics counts every answer given before it was asked, and itself.
MetricsAreCurrent ==
    \A r \in answered : kind[r] = "metrics" => before[r] \cup {r} \subseteq told[r]

\* A slow upload holds one worker and not the node: while there are fewer of
\* them than workers, every other request is answered (WORKER_THREADS, serve).
\* Again and again nobody else is waiting, which says so, as each request is
\* sent once.
EveryRequestAnswered ==
    Cardinality(Slow) < Cardinality(Threads) =>
        []<>(sent \ Slow \subseteq answered)
=============================================================================
