------------------------------- MODULE LwwMap -------------------------------
(***************************************************************************)
(* The replicated map of src/crdt.rs: one stamped entry per key, a         *)
(* tombstone for a deleted key, and a per-key "highest rank wins" merge.   *)
(* A map is a total function on Keys; NoEntry marks a key it never saw.    *)
(***************************************************************************)
EXTENDS Integers, FiniteSets

CONSTANTS
    Keys,       \* the keys, as naturals: a BTreeMap keeps them in order
    Values,     \* what a key can be set to
    Writers,    \* the node ids stamps are signed with
    MaxU64,     \* u64::MAX
    AddWins,    \* --presence add-wins
    Tombstone,  \* Entry.value = None
    NoEntry     \* entries.get(key) = None

Contents == Values \cup {Tombstone}
U64 == 0 .. MaxU64
Entries == [value: Contents, generation: U64, time: U64, writer: Writers]
Maps == [Keys -> Entries \cup {NoEntry}]

ASSUME MapAssumption ==
    /\ Keys \subseteq Nat /\ IsFiniteSet(Keys)
    /\ Writers \subseteq Nat
    /\ MaxU64 \in Nat /\ MaxU64 > 1
    /\ AddWins \in BOOLEAN
    /\ Tombstone \notin Values
    /\ NoEntry \notin Entries

Empty == [k \in Keys |-> NoEntry]
Held(m) == {k \in Keys : m[k] # NoEntry}
SaturatingAdd(a, b) == IF a + b > MaxU64 THEN MaxU64 ELSE a + b

-----------------------------------------------------------------------------
(* The order entries are compared by. *)

IsTombstone(e) == e.value = Tombstone

Stamp(e) == <<e.generation, e.time, e.writer>>

\* A rank is <<generation, time, writer, presence>>. With add-wins a
\* tombstone counts in the life it ended.
Rank(e) ==
    IF ~AddWins THEN <<e.generation, e.time, e.writer, 0>>
    ELSE IF IsTombstone(e)
         THEN <<IF e.generation = 0 THEN 0 ELSE e.generation - 1, e.time, e.writer, 0>>
         ELSE <<e.generation, e.time, e.writer, 1>>

\* Bug: generations are ignored when two ranks are compared.
RankLessNoGeneration(r, s) ==
    \/ r[2] < s[2]
    \/ r[2] = s[2] /\ r[3] < s[3]
    \/ r[2] = s[2] /\ r[3] = s[3] /\ r[4] < s[4]

\* Bug: the writer does not break ties.
RankLessNoWriter(r, s) ==
    \/ r[1] < s[1]
    \/ r[1] = s[1] /\ r[2] < s[2]

\* The derived order of a tuple: field by field.
RankLess(r, s) ==
    \/ r[1] < s[1]
    \/ r[1] = s[1] /\ r[2] < s[2]
    \/ r[1] = s[1] /\ r[2] = s[2] /\ r[3] < s[3]
    \/ r[1] = s[1] /\ r[2] = s[2] /\ r[3] = s[3] /\ r[4] < s[4]

\* What d holds is at least as new as what e holds.
Covers(d, e) ==
    \/ e = NoEntry
    \/ /\ d # NoEntry
       /\ ~RankLess(Rank(d), Rank(e))
MapCovers(m, o) == \A k \in Keys : Covers(m[k], o[k])

\* Bug: what is held always stays.
JoinHeld(d, e) == IF d = NoEntry THEN e ELSE d

Join(d, e) == IF Covers(d, e) THEN d ELSE e

-----------------------------------------------------------------------------
(* The operations on one map. *)

\* Bug: the generation grows past 64 bits.
NextGenerationUnbounded(m, k, present) ==
    IF m[k] = NoEntry THEN 1
    ELSE IF IsTombstone(m[k]) # present THEN m[k].generation ELSE m[k].generation + 1

\* The generation of a new write: one more when it changes the phase of the
\* key (present or deleted). The addition is not checked: a release build wraps.
NextGeneration(m, k, present) ==
    IF m[k] = NoEntry THEN 1
    ELSE IF IsTombstone(m[k]) # present THEN m[k].generation
    ELSE (m[k].generation + 1) % (MaxU64 + 1)

NewEntry(m, k, value, time, writer) ==
    [value |-> value, generation |-> NextGeneration(m, k, value # Tombstone),
     time |-> time, writer |-> writer]

\* restore_entry: the stamp is taken as it comes; a losing one is ignored.
RestoreEntry(m, k, e) == [m EXCEPT ![k] = Join(@, e)]

\* remove: a tombstone, unless what is held ranks at least as high.
RemoveEntry(m, k, time, writer) ==
    RestoreEntry(m, k, NewEntry(m, k, Tombstone, time, writer))

SameStamp(d, e) == d # NoEntry /\ e # NoEntry /\ Stamp(d) = Stamp(e)
Collide(d, e) == SameStamp(d, e) /\ d.value # e.value

\* set_checked refuses a second value under the stamp of the first ...
SetCollides(m, k, value, time, writer) ==
    Collide(m[k], NewEntry(m, k, value, time, writer))

\* ... and otherwise keeps what is held only when it ranks higher.
SetChecked(m, k, value, time, writer) ==
    LET e == NewEntry(m, k, value, time, writer)
        keep == /\ m[k] # NoEntry
                /\ SameStamp(m[k], e) \/ RankLess(Rank(e), Rank(m[k]))
    IN  IF keep THEN m ELSE [m EXCEPT ![k] = e]

-----------------------------------------------------------------------------
(* merge_report: the merged map, what it refuses and what it reports. *)

MergeCollides(m, o) == \E k \in Keys : Collide(m[k], o[k])

\* Bug: a newer stamp is taken without its value.
MergeStamps(m, o) ==
    [k \in Keys |-> IF m[k] = NoEntry \/ Covers(m[k], o[k]) THEN Join(m[k], o[k])
                    ELSE [o[k] EXCEPT !.value = m[k].value]]

Merge(m, o) == [k \in Keys |-> Join(m[k], o[k])]

\* A conflict is reported for each key that two different stamps claim.
Contested(m, o) ==
    {k \in Keys : m[k] # NoEntry /\ o[k] # NoEntry /\ Stamp(m[k]) # Stamp(o[k])}
Conflict(d, e, k) ==
    LET remote == RankLess(Rank(d), Rank(e))
    IN  [key |-> k, winner |-> IF remote THEN e.writer ELSE d.writer,
                    loser  |-> IF remote THEN d.writer ELSE e.writer]

GenerationOf(m, k) == IF m[k] = NoEntry THEN 0 ELSE m[k].generation

\* The newest time held; 0 when the map is empty, as both checks read None.
MaxTime(m) ==
    LET times == {m[k].time : k \in Held(m)} \cup {0}
    IN  CHOOSE t \in times : \A u \in times : u <= t
=============================================================================
