----------------------------- MODULE NodeRequests ----------------------------
(***************************************************************************)
(* What a node is asked and the checks it makes before a request touches   *)
(* its map: POST /reconcile (src/reconcile.rs), POST /merge and a gossip   *)
(* pull (src/entries.rs), the typed keys (src/typed.rs) and the clock      *)
(* (src/lamport.rs).  Each operator is one step of a handler's loop.       *)
(***************************************************************************)
EXTENDS LwwMap, Sequences

CONSTANTS
    MaxTimeJump,        \* --max-time-jump
    MaxGenerationJump,  \* --max-generation-jump
    MaxEntries,         \* the most entries one merge takes
    RecordKeys,         \* keys of missions and zone reservations
    Attempt,            \* the attempt a value states, NoAttempt if it is no record
    NoAttempt,
    Unstated,           \* a write without "generation"
    InvalidKeys         \* keys a peer may not send: empty, too long, control characters

ASSUME RequestAssumption ==
    /\ MaxTimeJump \in Nat /\ MaxGenerationJump \in Nat /\ MaxEntries \in Nat
    /\ RecordKeys \subseteq Keys /\ InvalidKeys \subseteq Keys
    /\ Attempt \in [Values -> U64 \cup {NoAttempt}]
    /\ NoAttempt \notin U64 /\ Unstated \notin U64

\* A write of a cell: a value, or Tombstone for "deleted": true.
Writes == [key: Keys, value: Contents, time: U64, generation: U64 \cup {Unstated}]
Cells == [writer: Writers, writes: Seq(Writes)]
\* An entry as a peer sends it: a key and the entry it holds for it.
StampedEntries == [key: Keys, entry: Entries]
AllRequests ==
    [kind: {"reconcile"}, cells: Seq(Cells)] \cup [kind: {"merge"}, entries: Seq(StampedEntries)]

-----------------------------------------------------------------------------
(* Typed keys: the attempt of a record is its fencing token. *)

\* The value cannot be the value of the key.
Malformed(k, v) == k \in RecordKeys /\ Attempt[v] = NoAttempt

RequiredGeneration(k, v) ==
    IF k \in RecordKeys THEN SaturatingAdd(Attempt[v], 1) ELSE Unstated

-----------------------------------------------------------------------------
(* POST /reconcile *)

TimeLimit(m) == SaturatingAdd(MaxTime(m), MaxTimeJump)

CheckStamps(cells, m) ==
    \A i \in DOMAIN cells : \A j \in DOMAIN cells[i].writes :
        cells[i].writes[j].time <= TimeLimit(m)

\* A deletion is never checked against the type of its key.
CheckWrites(cells) ==
    \A i \in DOMAIN cells : \A j \in DOMAIN cells[i].writes :
        LET w == cells[i].writes[j]
        IN  w.value # Tombstone =>
                /\ ~Malformed(w.key, w.value)
                /\ w.generation = RequiredGeneration(w.key, w.value)

\* One write of a cell, applied to the map the cell is building.
ApplyWrite(m, writer, w) ==
    IF w.value = Tombstone THEN RemoveEntry(m, w.key, w.time, writer)
    ELSE IF w.generation # Unstated
         THEN RestoreEntry(m, w.key, [value |-> w.value, generation |-> w.generation,
                                      time |-> w.time, writer |-> writer])
         ELSE SetChecked(m, w.key, w.value, w.time, writer)

\* Only a plain set is checked for a second value under one stamp.
WriteCollides(m, writer, w) ==
    /\ w.value # Tombstone
    /\ w.generation = Unstated
    /\ SetCollides(m, w.key, w.value, w.time, writer)

-----------------------------------------------------------------------------
(* POST /merge *)

\* Bug: the time of an entry is not bounded.
CheckEntryNoTime(k, e, m) ==
    /\ e.generation # 0
    /\ e.generation <= SaturatingAdd(GenerationOf(m, k), MaxGenerationJump)

\* Bug: an entry at the limit of the generation is refused.
CheckEntryBelowLimit(k, e, m) ==
    /\ e.generation # 0
    /\ e.time <= TimeLimit(m)
    /\ e.generation < SaturatingAdd(GenerationOf(m, k), MaxGenerationJump)

CheckEntry(k, e, m) ==
    /\ k \notin InvalidKeys
    /\ ~IsTombstone(e) =>
           /\ ~Malformed(k, e.value)
           /\ k \in RecordKeys => e.generation = RequiredGeneration(k, e.value)
    /\ e.generation # 0
    /\ e.time <= TimeLimit(m)
    /\ e.generation <= SaturatingAdd(GenerationOf(m, k), MaxGenerationJump)

CheckEntries(entries, m) ==
    /\ Len(entries) <= MaxEntries
    /\ \A i \in DOMAIN entries : CheckEntry(entries[i].key, entries[i].entry, m)

\* The last entry of the request for the same key, which is all that is
\* remembered of the earlier ones, has this stamp and another value.
EntryCollides(seen, x) == Collide(seen[x.key], x.entry)

-----------------------------------------------------------------------------
(* The clock, and the whole first check of a request. *)

\* observe() then tick() of a new clock; an empty map is only ticked.
NextLocalTime(m) == IF Held(m) = {} THEN 1 ELSE MaxTime(m) + 2
ClockOverflows(m) == NextLocalTime(m) > MaxU64

NothingToDo(r) == IF r.kind = "reconcile" THEN r.cells = << >> ELSE r.entries = << >>

PassesChecks(r, m) ==
    /\ ~NothingToDo(r)
    /\ IF r.kind = "reconcile"
       THEN CheckStamps(r.cells, m) /\ CheckWrites(r.cells)
       ELSE CheckEntries(r.entries, m)
=============================================================================
