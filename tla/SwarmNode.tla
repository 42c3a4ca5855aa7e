------------------------------ MODULE SwarmNode ------------------------------
(***************************************************************************)
(* One running node: the workers of src/server.rs (and its gossip thread)  *)
(* that take merging requests, the state lock they hold from the check to  *)
(* the publication, the save of src/store.rs inside it, the sync evidence  *)
(* recorded after it, and the process or the machine stopping anywhere.    *)
(***************************************************************************)
EXTENDS NodeRequests

CONSTANTS
    Workers,      \* the threads that merge: server workers and the gossip thread
    Free,         \* the lock is held by nobody
    Requests,     \* the requests that arrive
    MaxRequests,  \* bound of the model: how many requests arrive in all
    HasParent,    \* the state file is named with a directory
    DirSyncFails, \* opening or syncing that directory may fail
    PowerCuts,    \* the machine may lose power, not only the process be killed
    Missing,      \* the state file does not exist
    Torn,         \* the state file holds part of a map
    ConflictHistory  \* how many resolved conflicts a node remembers

ASSUME NodeAssumption ==
    /\ Free \notin Workers
    /\ Requests \subseteq AllRequests /\ Requests # {}
    /\ MaxRequests \in Nat
    /\ {HasParent, DirSyncFails, PowerCuts} \subseteq BOOLEAN
    /\ Missing \notin Maps /\ Torn \notin Maps /\ Missing # Torn
    /\ ConflictHistory \in Nat \ {0}

VARIABLES
    up,          \* the process runs
    mem,         \* Shared.state; while the process is down, what it last held
    lock,        \* the worker that holds Shared.state's mutex
    pc, frame,   \* where each worker is, and its locals
    path,        \* what the state file reads as
    pathSynced,  \* the data it reads as were forced to disk
    onDisk,      \* what it reads as after a power cut that loses the last rename
    evidence,    \* SyncEvidence: conflicts counted, and those it remembers
    received,    \* how many requests have arrived
    \* kept by the model, not by the code:
    published,   \* the conflicts of the requests published, in that order
    recorded,    \* those of the requests whose evidence is kept, in that order
    promised     \* the newest entry of each key that a 200 was answered for

disk == <<path, pathSynced, onDisk>>
ghost == <<published, recorded, promised>>
vars == <<up, mem, lock, pc, frame, disk, evidence, received, ghost>>

Saving == {"write", "sync", "rename"}
Critical == Saving \cup {"build", "merge", "clock", "syncdir", "publish"}
PCs == Critical \cup {"idle", "waiting", "record", "ok", "failed"}

Conflicts == [key: Keys, winner: Writers, loser: Writers]
\* The newest conflict is also told by itself (lastConflict).
Evidence == [resolved: Nat, history: Seq(Conflicts)]
NoEvidence == [resolved |-> 0, history |-> << >>]

\* The locals of a request: the cell and the write (or entry) it is at, the
\* maps built so far, the one being built, the last entry seen of each key,
\* the merged map, whether the temporary file was synced, and its conflicts.
Frames == [req: Requests, cell: Nat, write: Nat, parts: Seq(Maps), part: Maps,
           seen: Maps, merged: Maps, synced: BOOLEAN, conflicts: Seq(Conflicts)]
Fresh(r) == [req |-> r, cell |-> 1, write |-> 1, parts |-> << >>, part |-> Empty,
             seen |-> Empty, merged |-> Empty, synced |-> FALSE, conflicts |-> << >>]

\* Bug: a full history keeps what it holds, and newer conflicts are dropped.
RememberedOldest(history) ==
    IF Len(history) <= ConflictHistory THEN history
    ELSE SubSeq(history, 1, ConflictHistory)

\* Older conflicts are forgotten first.
Remembered(history) ==
    IF Len(history) <= ConflictHistory THEN history
    ELSE SubSeq(history, Len(history) - ConflictHistory + 1, Len(history))

Added(e, conflicts) == [resolved |-> e.resolved + Len(conflicts),
                        history |-> Remembered(e.history \o conflicts)]

AtRest == Fresh(CHOOSE r \in Requests : TRUE)

\* Bug: a file that does not exist is not read as an empty map.
LoadedRaw(file) == file

Loaded(file) == IF file = Missing THEN Empty ELSE file
\* What the file may read as after a power cut: the last rename is on disk or it is not.
AfterPowerCut == {onDisk, IF pathSynced THEN path ELSE Torn}

Init ==
    /\ up = TRUE /\ mem = Empty /\ lock = Free
    /\ pc = [w \in Workers |-> "idle"]
    /\ frame = [w \in Workers |-> AtRest]
    /\ path = Missing /\ pathSynced = TRUE /\ onDisk = Missing
    /\ evidence = NoEvidence /\ received = 0
    /\ published = << >> /\ recorded = << >> /\ promised = Empty

-----------------------------------------------------------------------------
(* Taking a request, the lock and the checks. *)

Receive(w) ==
    /\ up /\ pc[w] = "idle" /\ received < MaxRequests
    /\ \E r \in Requests : frame' = [frame EXCEPT ![w] = Fresh(r)]
    /\ pc' = [pc EXCEPT ![w] = "waiting"]
    /\ received' = received + 1
    /\ UNCHANGED <<up, mem, lock, disk, evidence, ghost>>

\* Bug: the mutex is not waited for.
BeginUnlocked(w) ==
    /\ pc[w] = "waiting"
    /\ PassesChecks(frame[w].req, mem)
    /\ lock' = w
    /\ pc' = [pc EXCEPT ![w] = "build"]
    /\ frame' = [frame EXCEPT ![w].merged = mem]
    /\ UNCHANGED <<up, mem, disk, evidence, received, ghost>>

\* The lock is taken, the checks pass, and the request works on a clone.
Begin(w) ==
    /\ pc[w] = "waiting" /\ lock = Free
    /\ PassesChecks(frame[w].req, mem)
    /\ lock' = w
    /\ pc' = [pc EXCEPT ![w] = "build"]
    /\ frame' = [frame EXCEPT ![w].merged = mem]
    /\ UNCHANGED <<up, mem, disk, evidence, received, ghost>>

Refuse(w) ==
    /\ pc[w] = "waiting" /\ lock = Free
    /\ ~PassesChecks(frame[w].req, mem)
    /\ pc' = [pc EXCEPT ![w] = "failed"]
    /\ UNCHANGED <<up, mem, lock, frame, disk, evidence, received, ghost>>

\* Bug: an error keeps the lock.
FailLocked(w) ==
    /\ pc' = [pc EXCEPT ![w] = "failed"]
    /\ UNCHANGED <<up, mem, lock, frame, disk, evidence, received, ghost>>

\* An error under the lock: it is released and nothing is published.
Fail(w) ==
    /\ pc' = [pc EXCEPT ![w] = "failed"]
    /\ lock' = Free
    /\ UNCHANGED <<up, mem, frame, disk, evidence, received, ghost>>

-----------------------------------------------------------------------------
(* The merge: every cell map is built before the first one is merged. *)

\* A step that changes only the locals of w, and where it is.
Work(w, next, locals) ==
    /\ pc' = [pc EXCEPT ![w] = next]
    /\ frame' = [frame EXCEPT ![w] = locals]
    /\ UNCHANGED <<up, mem, lock, disk, evidence, received, ghost>>

BuildWrite(w) ==
    LET f == frame[w]
        c == f.req.cells[f.cell]
        x == c.writes[f.write]
    IN  /\ pc[w] = "build" /\ f.req.kind = "reconcile"
        /\ f.write <= Len(c.writes)
        /\ IF WriteCollides(f.part, c.writer, x) THEN Fail(w)
           ELSE Work(w, "build", [f EXCEPT !.part = ApplyWrite(@, c.writer, x),
                                           !.write = @ + 1])

FinishCell(w) ==
    LET f == frame[w]
        last == f.cell = Len(f.req.cells)
    IN  /\ pc[w] = "build" /\ f.req.kind = "reconcile"
        /\ f.write > Len(f.req.cells[f.cell].writes)
        /\ Work(w, IF last THEN "merge" ELSE "build",
                [f EXCEPT !.parts = Append(@, f.part), !.part = Empty, !.write = 1,
                          !.cell = IF last THEN 1 ELSE @ + 1])

BuildEntry(w) ==
    LET f == frame[w]
        x == f.req.entries[f.write]
    IN  /\ pc[w] = "build" /\ f.req.kind = "merge"
        /\ f.write <= Len(f.req.entries)
        /\ IF EntryCollides(f.seen, x) THEN Fail(w)
           ELSE Work(w, "build", [f EXCEPT !.part = RestoreEntry(@, x.key, x.entry),
                                           !.seen[x.key] = x.entry, !.write = @ + 1])

FinishEntries(w) ==
    LET f == frame[w]
    IN  /\ pc[w] = "build" /\ f.req.kind = "merge"
        /\ f.write > Len(f.req.entries)
        /\ Work(w, "merge", [f EXCEPT !.parts = <<f.part>>])

\* The conflicts of one merge, in the order of the keys (one list).
Reports(m, o) ==
    LET ks == Contested(m, o)
        orders == {f \in [1 .. Cardinality(ks) -> ks] :
                      \A i, j \in DOMAIN f : i < j => f[i] < f[j]}
    IN  {[i \in DOMAIN f |-> Conflict(m[f[i]], o[f[i]], f[i])] : f \in orders}

MergePart(w) ==
    LET f == frame[w]
        part == f.parts[f.cell]
    IN  /\ pc[w] = "merge"
        /\ IF MergeCollides(f.merged, part) THEN Fail(w)
           ELSE \E report \in Reports(f.merged, part) :
                   Work(w, IF f.cell = Len(f.parts) THEN "clock" ELSE "merge",
                        [f EXCEPT !.merged = Merge(@, part), !.cell = @ + 1,
                                  !.conflicts = @ \o report])

\* The answer carries the next local time; a clock at its limit refuses.
TickClock(w) ==
    /\ pc[w] = "clock"
    /\ IF ClockOverflows(frame[w].merged) THEN Fail(w) ELSE Work(w, "write", frame[w])

-----------------------------------------------------------------------------
(* store::save, with the lock held. *)

WriteTemp(w) ==
    /\ pc[w] = "write"
    /\ Work(w, "sync", frame[w])

SyncTemp(w) ==
    /\ pc[w] = "sync"
    /\ Work(w, "rename", [frame[w] EXCEPT !.synced = TRUE])

Rename(w) ==
    /\ pc[w] = "rename"
    /\ path' = frame[w].merged
    /\ pathSynced' = frame[w].synced
    /\ pc' = [pc EXCEPT ![w] = "syncdir"]
    /\ UNCHANGED <<up, mem, lock, frame, onDisk, evidence, received, ghost>>

\* Bug: the rename is not forced to disk.
SyncDirSkipped(w) ==
    /\ pc[w] = "syncdir"
    /\ pc' = [pc EXCEPT ![w] = "publish"]
    /\ UNCHANGED <<up, mem, lock, frame, disk, evidence, received, ghost>>

\* The directory is synced only when the file is named with one, and an error
\* of it is ignored.
SyncDir(w) ==
    /\ pc[w] = "syncdir"
    /\ \/ HasParent /\ onDisk' = IF pathSynced THEN path ELSE Torn
       \/ (HasParent => DirSyncFails) /\ UNCHANGED onDisk
    /\ pc' = [pc EXCEPT ![w] = "publish"]
    /\ UNCHANGED <<up, mem, lock, frame, path, pathSynced, evidence, received, ghost>>

\* Bug: the state is replaced although the save failed.
SaveFailsPublished(w) ==
    /\ pc[w] \in Saving
    /\ mem' = frame[w].merged
    /\ pc' = [pc EXCEPT ![w] = "failed"]
    /\ lock' = Free
    /\ UNCHANGED <<up, frame, disk, evidence, received, ghost>>

\* Creating, writing, syncing or renaming the temporary file fails: 500.
SaveFails(w) == pc[w] \in Saving /\ Fail(w)

-----------------------------------------------------------------------------
(* The state is replaced, the lock released, the evidence kept, the answer sent. *)

Publish(w) ==
    /\ pc[w] = "publish"
    /\ mem' = frame[w].merged
    /\ lock' = Free
    /\ pc' = [pc EXCEPT ![w] = "record"]
    /\ published' = published \o frame[w].conflicts
    /\ UNCHANGED <<up, frame, disk, evidence, received, recorded, promised>>

\* The evidence has a lock of its own, taken after the state's is released.
Record(w) ==
    /\ pc[w] = "record"
    /\ evidence' = Added(evidence, frame[w].conflicts)
    /\ pc' = [pc EXCEPT ![w] = "ok"]
    /\ recorded' = recorded \o frame[w].conflicts
    /\ UNCHANGED <<up, mem, lock, frame, disk, received, published, promised>>

\* The answer: a 200 tells the caller the merged state.
Answer(w) ==
    /\ pc[w] \in {"ok", "failed"}
    /\ promised' = IF pc[w] = "ok" THEN Merge(promised, frame[w].merged) ELSE promised
    /\ pc' = [pc EXCEPT ![w] = "idle"]
    /\ frame' = [frame EXCEPT ![w] = AtRest]
    /\ UNCHANGED <<up, mem, lock, disk, evidence, received, published, recorded>>

-----------------------------------------------------------------------------
(* Stopping and starting. *)

\* What dies with the process: its threads, the lock and the evidence.
Stop ==
    /\ up /\ up' = FALSE
    /\ lock' = Free
    /\ pc' = [w \in Workers |-> "idle"]
    /\ frame' = [w \in Workers |-> AtRest]
    /\ evidence' = NoEvidence /\ published' = << >> /\ recorded' = << >>
    /\ UNCHANGED <<mem, received, promised>>

\* The process is killed: what it gave the kernel is kept.
Kill == Stop /\ UNCHANGED disk

PowerCut ==
    /\ PowerCuts
    /\ Stop
    /\ \E file \in AfterPowerCut : path' = file /\ onDisk' = file
    /\ pathSynced' = TRUE

\* Bug: the file is read, and its map not used.
RestartEmpty ==
    /\ ~up /\ path # Torn
    /\ up' = TRUE
    /\ mem' = Empty
    /\ UNCHANGED <<lock, pc, frame, disk, evidence, received, ghost>>

\* The state is loaded before the port is bound; a file that does not parse
\* keeps the node from starting.
Restart ==
    /\ ~up /\ path # Torn
    /\ up' = TRUE
    /\ mem' = Loaded(path)
    /\ UNCHANGED <<lock, pc, frame, disk, evidence, received, ghost>>

Step(w) ==
    \/ Begin(w) \/ Refuse(w)
    \/ BuildWrite(w) \/ FinishCell(w) \/ BuildEntry(w) \/ FinishEntries(w)
    \/ MergePart(w) \/ TickClock(w)
    \/ WriteTemp(w) \/ SyncTemp(w) \/ Rename(w) \/ SyncDir(w) \/ SaveFails(w)
    \/ Publish(w) \/ Record(w) \/ Answer(w)

Next ==
    \/ \E w \in Workers : Receive(w) \/ Step(w)
    \/ Kill \/ PowerCut \/ Restart

Spec == Init /\ [][Next]_vars

\* Threads that can run do run, and the service is restarted when it stopped.
FairSpec == Spec /\ (\A w \in Workers : WF_vars(Step(w))) /\ WF_vars(Restart)

-----------------------------------------------------------------------------
(* Correctness. *)

TypeOK ==
    /\ up \in BOOLEAN /\ mem \in Maps
    /\ lock \in Workers \cup {Free}
    /\ pc \in [Workers -> PCs]
    /\ frame \in [Workers -> Frames]
    /\ path \in Maps \cup {Missing, Torn} /\ onDisk \in Maps \cup {Missing, Torn}
    /\ pathSynced \in BOOLEAN
    /\ evidence \in Evidence
    /\ published \in Seq(Conflicts) /\ recorded \in Seq(Conflicts)
    /\ received \in Nat /\ promised \in Maps

\* Two requests are never between their check and their publication at once:
\* whoever works on a clone of the state is the one that holds the lock.
OneAtATime == \A w \in Workers : pc[w] \in Critical <=> lock = w

\* A caller told 200 finds what it was told, or something newer, in this node
\* for ever after: across other requests, failed saves, kills and power cuts.
PromisesKept == MapCovers(mem, promised)

\* Whatever instant the power goes, the state file is a whole map that holds
\* everything a 200 was answered for.
PromisedIsDurable ==
    \A file \in AfterPowerCut : file # Torn /\ MapCovers(Loaded(file), promised)

\* Between requests the file and the memory agree: a save that failed left
\* neither of them changed.
MemoryIsOnDisk == up /\ lock = Free => mem = Loaded(path)

\* Entries only advance, the restart after a kill included. (Not after a power
\* cut: a process killed between the rename and the sync of the directory comes
\* back with entries it shows to readers before anything forced them to disk.)
NeverRegresses == [][MapCovers(mem', mem)]_mem

\* GET /conflicts counts every conflict whose evidence was recorded, and tells
\* of the newest of them: exactly the end of the recorded list, as long as the
\* limit lets it be. What is recorded was published, each conflict as often at
\* most (none twice, none of a failed save), and all of it when no request is
\* between its publication and its evidence. (Of two requests published one
\* after the other it is not settled which is recorded first.)
EvidenceAddsUp ==
    LET told == evidence.history
        forgotten == Len(recorded) - Len(told)
        times(c, s) == Cardinality({i \in DOMAIN s : s[i] = c})
    IN  /\ evidence.resolved = Len(recorded)
        /\ Len(told) = IF Len(recorded) < ConflictHistory THEN Len(recorded)
                       ELSE ConflictHistory
        /\ \A i \in DOMAIN told : told[i] = recorded[forgotten + i]
        /\ \A i \in DOMAIN recorded :
              times(recorded[i], recorded) <= times(recorded[i], published)
        /\ (\A w \in Workers : pc[w] # "record") => Len(recorded) = Len(published)

\* Every request is answered, or the process stopped: the lock is always released.
EveryoneAnswered == \A w \in Workers : (pc[w] = "waiting") ~> (pc[w] = "idle")

\* With every lock, save, failure and kill, the memory of a node changes as that
\* of AtomicNode: by one whole accepted request at a time. (A power cut may take
\* back what no 200 was answered for.)
Atomic == INSTANCE AtomicNode WITH state <- mem
ServesAtomically == Atomic!Spec
=============================================================================
