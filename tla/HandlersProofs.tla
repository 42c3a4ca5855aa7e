--------------------------- MODULE HandlersProofs ---------------------------
(***************************************************************************)
(* The laws of the map of src/crdt.rs, and what the merging handlers make  *)
(* of one for requests of any length: the loops of src/reconcile.rs and    *)
(* src/entries.rs by induction over their rounds.                          *)
(***************************************************************************)
EXTENDS Handlers, Loops, SequenceTheorems

-----------------------------------------------------------------------------
(* The order of the entries. *)

Ranks == Nat \X Nat \X Nat \X Nat
Slots == Entries \cup {NoEntry}

\* The parts of an entry's stamp are naturals.
LEMMA StampType ==
    /\ U64 \subseteq Nat
    /\ \A e \in Entries : e.generation \in Nat /\ e.time \in Nat /\ e.writer \in Nat
<1>1. MaxU64 \in Nat /\ Writers \subseteq Nat
  BY MapAssumption
<1>2. U64 \subseteq Nat
  BY <1>1 DEF U64
<1>3. QED
  BY <1>1, <1>2 DEF Entries

\* The rank of an entry is a tuple of naturals.
LEMMA RankType == \A e \in Entries : Rank(e) \in Ranks
<1> SUFFICES ASSUME NEW e \in Entries PROVE Rank(e) \in Ranks
  OBVIOUS
<1>1. e.generation \in Nat /\ e.time \in Nat /\ e.writer \in Nat
  BY StampType
<1>2. DEFINE lived == IF e.generation = 0 THEN 0 ELSE e.generation - 1
<1>3. lived \in Nat
  BY <1>1
<1> HIDE DEF lived
<1>4. /\ <<e.generation, e.time, e.writer, 0>> \in Ranks
      /\ <<lived, e.time, e.writer, 0>> \in Ranks
      /\ <<e.generation, e.time, e.writer, 1>> \in Ranks
  BY <1>1, <1>3 DEF Ranks
<1>5. \/ Rank(e) = <<e.generation, e.time, e.writer, 0>>
      \/ Rank(e) = <<lived, e.time, e.writer, 0>>
      \/ Rank(e) = <<e.generation, e.time, e.writer, 1>>
  BY Zenon DEF Rank, lived
<1>6. QED
  BY <1>4, <1>5

\* Ranks are totally preordered: "not less" is reflexive, transitive and total.
LEMMA RankOrder ==
    /\ \A r \in Ranks : ~RankLess(r, r)
    /\ \A r, s \in Ranks : ~RankLess(r, s) \/ ~RankLess(s, r)
    /\ \A r, s, t \in Ranks : ~RankLess(r, s) /\ ~RankLess(s, t) => ~RankLess(r, t)
BY DEF Ranks, RankLess

\* What a slot holds covers itself, and of two slots one covers the other.
LEMMA CoversTotal ==
    \A d, e \in Slots : Covers(d, d) /\ (Covers(d, e) \/ Covers(e, d))
BY RankType, RankOrder DEF Covers, Slots

\* "At least as new as" is transitive.
LEMMA CoversTransitive ==
    \A d, e, f \in Slots : Covers(d, e) /\ Covers(e, f) => Covers(d, f)
BY RankType, RankOrder DEF Covers, Slots

\* A join is one of the two entries, and covers both.
LEMMA JoinCovers ==
    \A d, e \in Slots : /\ Join(d, e) \in {d, e}
                        /\ Covers(Join(d, e), d) /\ Covers(Join(d, e), e)
BY CoversTotal DEF Join

-----------------------------------------------------------------------------
(* Maps. *)

\* A slot of a map.
LEMMA SlotType == \A m \in Maps, k \in Keys : m[k] \in Slots
BY DEF Maps, Slots

\* The map a node starts with is a map.
LEMMA EmptyType == Empty \in Maps
BY DEF Empty, Maps

\* The merge of two maps is a map.
LEMMA MergeType == \A m, o \in Maps : Merge(m, o) \in Maps
BY JoinCovers, SlotType DEF Merge, Maps, Slots

\* Restoring an entry into a map gives a map.
LEMMA RestoreType ==
    \A m \in Maps, k \in Keys, e \in Entries : RestoreEntry(m, k, e) \in Maps
BY JoinCovers, SlotType DEF RestoreEntry, Maps, Slots

\* A map is at least as new as itself.
LEMMA MapCoversReflexive == \A m \in Maps : MapCovers(m, m)
BY CoversTotal, SlotType DEF MapCovers

\* "At least as new as" is transitive on maps.
LEMMA MapCoversTransitive ==
    \A m, o, p \in Maps : MapCovers(m, o) /\ MapCovers(o, p) => MapCovers(m, p)
BY CoversTransitive, SlotType DEF MapCovers

\* Every map is at least as new as the empty one.
LEMMA CoversEmpty == \A m : MapCovers(m, Empty)
BY DEF MapCovers, Covers, Empty

\* merge loses nothing of either map and invents nothing: whatever covers both
\* maps covers their merge.
THEOREM MergeIsLeastUpperBound ==
    \A m, o \in Maps :
        /\ MapCovers(Merge(m, o), m)
        /\ MapCovers(Merge(m, o), o)
        /\ \A p \in Maps : MapCovers(p, m) /\ MapCovers(p, o) => MapCovers(p, Merge(m, o))
<1> SUFFICES ASSUME NEW m \in Maps, NEW o \in Maps
             PROVE  /\ MapCovers(Merge(m, o), m)
                    /\ MapCovers(Merge(m, o), o)
                    /\ \A p \in Maps : MapCovers(p, m) /\ MapCovers(p, o)
                                       => MapCovers(p, Merge(m, o))
  OBVIOUS
<1>1. \A k \in Keys : Merge(m, o)[k] = Join(m[k], o[k])
  BY DEF Merge
<1>2. \A k \in Keys : /\ Covers(Merge(m, o)[k], m[k]) /\ Covers(Merge(m, o)[k], o[k])
                      /\ Merge(m, o)[k] \in {m[k], o[k]}
  BY <1>1, JoinCovers, SlotType
<1>3. QED
  BY <1>2 DEF MapCovers

\* Of three maps it does not matter which two are merged first.
THEOREM MergeIsAssociative ==
    \A m, o, p \in Maps : Merge(m, Merge(o, p)) = Merge(Merge(m, o), p)
<1>1. \A d, e, f \in Slots : Join(d, Join(e, f)) = Join(Join(d, e), f)
  BY CoversTotal, CoversTransitive DEF Join
<1>2. \A m, o, p \in Maps, k \in Keys :
          Join(m[k], Join(o[k], p[k])) = Join(Join(m[k], o[k]), p[k])
  BY <1>1, SlotType
<1>3. QED
  BY <1>2 DEF Merge

\* Two entries that neither outrank each other nor collide are one entry, so
\* long as no generation is 0 (which check_entries refuses).
LEMMA EqualRanks ==
    ASSUME NEW d \in Entries, NEW e \in Entries,
           d.generation # 0, e.generation # 0, ~Collide(d, e),
           ~RankLess(Rank(d), Rank(e)), ~RankLess(Rank(e), Rank(d))
    PROVE  d = e
<1>1. \A r, s \in Ranks : ~RankLess(r, s) /\ ~RankLess(s, r)
          => r[1] = s[1] /\ r[2] = s[2] /\ r[3] = s[3] /\ r[4] = s[4]
  BY DEF Ranks, RankLess
<1>2. /\ Rank(d)[1] = Rank(e)[1] /\ Rank(d)[2] = Rank(e)[2]
      /\ Rank(d)[3] = Rank(e)[3] /\ Rank(d)[4] = Rank(e)[4]
  BY <1>1, RankType
<1>3. d.time = e.time /\ d.writer = e.writer
  BY <1>2 DEF Rank
<1>4. d.generation = e.generation
  <2>1. CASE ~AddWins
    BY <2>1, <1>2 DEF Rank
  <2>2. CASE AddWins /\ (IsTombstone(d) <=> IsTombstone(e))
    BY <2>2, <1>2, StampType DEF Rank
  <2>3. CASE AddWins /\ ~(IsTombstone(d) <=> IsTombstone(e))
    BY <2>3, <1>2 DEF Rank
  <2>4. QED
    BY <2>1, <2>2, <2>3
<1>5. d # NoEntry /\ e # NoEntry
  BY MapAssumption
<1>6. d.value = e.value
  BY <1>3, <1>4, <1>5 DEF Collide, SameStamp, Stamp
<1>7. QED
  BY <1>3, <1>4, <1>6 DEF Entries

\* The order of two maps does not matter when they do not collide: two cells
\* that reconnect in either order leave the same map.
THEOREM MergeCommutes ==
    ASSUME NEW m \in Maps, NEW o \in Maps, ~MergeCollides(m, o),
           \A k \in Held(m) : m[k].generation # 0,
           \A k \in Held(o) : o[k].generation # 0
    PROVE  Merge(m, o) = Merge(o, m)
<1>1. ASSUME NEW k \in Keys PROVE Join(m[k], o[k]) = Join(o[k], m[k])
  <2>1. m[k] \in Slots /\ o[k] \in Slots
    BY SlotType
  <2>2. CASE Covers(m[k], o[k]) /\ Covers(o[k], m[k])
    <3>1. CASE m[k] = NoEntry \/ o[k] = NoEntry
      BY <2>2, <3>1 DEF Covers, Join
    <3>2. CASE m[k] # NoEntry /\ o[k] # NoEntry
      <4>1. m[k] \in Entries /\ o[k] \in Entries /\ k \in Held(m) /\ k \in Held(o)
        BY <2>1, <3>2 DEF Slots, Held
      <4>2. ~RankLess(Rank(m[k]), Rank(o[k])) /\ ~RankLess(Rank(o[k]), Rank(m[k]))
        BY <2>2, <3>2 DEF Covers
      <4>3. ~Collide(m[k], o[k])
        BY DEF MergeCollides
      <4>4. m[k].generation # 0 /\ o[k].generation # 0
        BY <4>1
      <4>5. m[k] = o[k]
        BY <4>1, <4>2, <4>3, <4>4, EqualRanks
      <4>6. QED
        BY <4>5
    <3>3. QED
      BY <3>1, <3>2
  <2>3. CASE ~(Covers(m[k], o[k]) /\ Covers(o[k], m[k]))
    BY <2>1, <2>3, CoversTotal DEF Join
  <2>4. QED
    BY <2>2, <2>3
<1>2. QED
  BY <1>1 DEF Merge

\* The empty map adds nothing, on either side.
LEMMA MergeEmpty == \A m \in Maps : Merge(m, Empty) = m /\ Merge(Empty, m) = m
<1> SUFFICES ASSUME NEW m \in Maps PROVE Merge(m, Empty) = m /\ Merge(Empty, m) = m
  OBVIOUS
<1>1. \A d : Join(d, NoEntry) = d /\ Join(NoEntry, d) = d
  BY DEF Join, Covers
<1>2. /\ Merge(m, Empty) = [k \in Keys |-> m[k]]
      /\ Merge(Empty, m) = [k \in Keys |-> m[k]]
  BY <1>1 DEF Merge, Empty
<1>3. QED
  BY <1>2 DEF Maps

\* A map merged twice is merged once.
LEMMA MergeTwice == \A m, o \in Maps : Merge(Merge(m, o), o) = Merge(m, o)
<1> SUFFICES ASSUME NEW m \in Maps, NEW o \in Maps
             PROVE  Merge(Merge(m, o), o) = Merge(m, o)
  OBVIOUS
<1>1. \A k \in Keys : Join(Join(m[k], o[k]), o[k]) = Join(m[k], o[k])
  <2>1. \A d, e \in Slots : Join(Join(d, e), e) = Join(d, e)
    BY JoinCovers, Zenon DEF Join
  <2>2. QED
    BY <2>1, SlotType
<1>2. QED
  BY <1>1 DEF Merge

\* The newest time is the time of no entry but the newest, and 0 of an empty map.
LEMMA MaxTimeIsNewest ==
    ASSUME NEW m \in Maps
    PROVE  /\ MaxTime(m) \in U64
           /\ \A k \in Held(m) : m[k].time <= MaxTime(m)
           /\ MaxTime(m) = 0 \/ \E k \in Held(m) : m[k].time = MaxTime(m)
<1> DEFINE Times == {m[k].time : k \in Held(m)} \cup {0}
           Gaps == {MaxU64 - t : t \in Times}
<1>1. Times \subseteq U64
  <2>1. MaxU64 \in Nat
    BY MapAssumption
  <2>2. \A k \in Held(m) : m[k].time \in U64
    BY SlotType DEF Held, Slots, Entries
  <2>3. QED
    BY <2>1, <2>2 DEF U64
<1>2. \E t \in Times : \A u \in Times : u <= t
  <2>1. MaxU64 \in Nat
    BY MapAssumption
  <2>2. Gaps \subseteq Nat /\ Gaps # {}
    <3>1. 0 \in Times
      OBVIOUS
    <3> HIDE DEF Times
    <3>2. QED
      BY <1>1, <2>1, <3>1 DEF U64
  <2>3. PICK g \in Gaps : \A h \in Gaps : g <= h
    <3> HIDE DEF Gaps
    <3> QED
      BY <2>2, LeastNatural
  <2> HIDE DEF Times
  <2>4. PICK t \in Times : g = MaxU64 - t
    BY <2>3
  <2>5. \A u \in Times : MaxU64 - t <= MaxU64 - u
    BY <2>3, <2>4
  <2>6. QED
    BY <1>1, <2>1, <2>5 DEF U64
<1>3. MaxTime(m) \in Times /\ \A u \in Times : u <= MaxTime(m)
  BY <1>2 DEF MaxTime
<1>4. QED
  BY <1>1, <1>3

-----------------------------------------------------------------------------
(* The operations on one map keep it a map. *)

\* The generation of a new write fits 64 bits: it wraps, it does not grow.
LEMMA NextGenerationType ==
    \A m \in Maps, k \in Keys : \A present : NextGeneration(m, k, present) \in U64
<1> SUFFICES ASSUME NEW m \in Maps, NEW k \in Keys, NEW present
             PROVE  NextGeneration(m, k, present) \in U64
  OBVIOUS
<1>1. MaxU64 \in Nat /\ MaxU64 # 0
  BY MapAssumption
<1>2. 1 \in U64
  BY <1>1 DEF U64
<1>3. ASSUME m[k] # NoEntry
      PROVE  m[k].generation \in U64 /\ (m[k].generation + 1) % (MaxU64 + 1) \in U64
  <2>1. m[k].generation \in U64
    BY <1>3, SlotType DEF Slots, Entries
  <2>2. QED
    BY <1>1, <2>1 DEF U64
<1>4. QED
  BY <1>2, <1>3, Zenon DEF NextGeneration

\* A new write makes an entry.
LEMMA NewEntryType ==
    ASSUME NEW m \in Maps, NEW k \in Keys, NEW value \in Contents,
           NEW time \in U64, NEW writer \in Writers
    PROVE  NewEntry(m, k, value, time, writer) \in Entries
<1>1. NextGeneration(m, k, value # Tombstone) \in U64
  BY NextGenerationType
<1>2. QED
  BY <1>1 DEF NewEntry, Entries

\* A deletion keeps a map a map.
LEMMA RemoveType ==
    ASSUME NEW m \in Maps, NEW k \in Keys, NEW time \in U64, NEW writer \in Writers
    PROVE  RemoveEntry(m, k, time, writer) \in Maps
BY NewEntryType, RestoreType DEF RemoveEntry, Contents

\* A plain set keeps a map a map.
LEMMA SetCheckedType ==
    ASSUME NEW m \in Maps, NEW k \in Keys, NEW value \in Contents,
           NEW time \in U64, NEW writer \in Writers
    PROVE  SetChecked(m, k, value, time, writer) \in Maps
<1>1. [m EXCEPT ![k] = NewEntry(m, k, value, time, writer)] \in Maps
  BY NewEntryType DEF Maps
<1>2. QED
  BY <1>1, Zenon DEF SetChecked

-----------------------------------------------------------------------------
Attempts == [ok: BOOLEAN, map: Maps]
\* What the loop over a list of entries carries.
Listings == [ok: BOOLEAN, map: Maps, seen: Maps]

-----------------------------------------------------------------------------
(* One round of each loop. *)

CellStep(cell, n, acc) ==
    Attempted(acc.ok /\ ~WriteCollides(acc.map, cell.writer, cell.writes[n]),
              ApplyWrite(acc.map, cell.writer, cell.writes[n]))

CellsStep(cells, n, acc) ==
    Attempted(acc.ok /\ CellMap(cells[n]).ok /\ ~MergeCollides(acc.map, CellMap(cells[n]).map),
              Merge(acc.map, CellMap(cells[n]).map))

EntryStep(entries, n, acc) ==
    [ok   |-> acc.ok /\ ~EntryCollides(acc.seen, entries[n]),
     map  |-> RestoreEntry(acc.map, entries[n].key, entries[n].entry),
     seen |-> [acc.seen EXCEPT ![entries[n].key] = entries[n].entry]]

\* The parts of what a round over the cells leaves.
LEMMA CellsStepParts ==
    \A cells, n, acc :
        /\ CellsStep(cells, n, acc).ok
               <=> (/\ acc.ok /\ CellMap(cells[n]).ok
                    /\ ~MergeCollides(acc.map, CellMap(cells[n]).map))
        /\ CellsStep(cells, n, acc).map = Merge(acc.map, CellMap(cells[n]).map)
BY DEF CellsStep, Attempted

-----------------------------------------------------------------------------
(* Types of the steps. *)

\* A write applied to a map gives a map.
LEMMA ApplyWriteType ==
    ASSUME NEW m \in Maps, NEW writer \in Writers, NEW x \in Writes
    PROVE  ApplyWrite(m, writer, x) \in Maps
<1>1. /\ x.key \in Keys /\ x.value \in Contents /\ x.time \in U64
      /\ x.generation \in U64 \cup {Unstated}
  BY DEF Writes
<1>2. RemoveEntry(m, x.key, x.time, writer) \in Maps
  BY <1>1, RemoveType
<1>3. ASSUME x.generation # Unstated
      PROVE  RestoreEntry(m, x.key, [value |-> x.value, generation |-> x.generation,
                                     time |-> x.time, writer |-> writer]) \in Maps
  BY <1>1, <1>3, RestoreType DEF Entries
<1>4. SetChecked(m, x.key, x.value, x.time, writer) \in Maps
  BY <1>1, SetCheckedType
<1>5. QED
  BY <1>2, <1>3, <1>4 DEF ApplyWrite

\* The loop over the writes of a cell.
LEMMA CellLoop ==
    ASSUME NEW cell \in Cells
    PROVE  /\ Len(cell.writes) \in Nat
           /\ CellMaps(cell) \in [0 .. Len(cell.writes) -> Attempts]
           /\ CellMaps(cell)[0] = Attempted(TRUE, Empty)
           /\ \A n \in 1 .. Len(cell.writes) :
                 /\ cell.writes[n] \in Writes
                 /\ CellMaps(cell)[n] = CellStep(cell, n, CellMaps(cell)[n - 1])
<1> DEFINE len == Len(cell.writes)
           base == Attempted(TRUE, Empty)
           step == [p \in (1 .. len) \X Attempts |-> CellStep(cell, p[1], p[2])]
           IsCellLoop(g) == g = [n \in 0 .. len |-> IF n = 0 THEN base
                                                    ELSE CellStep(cell, n, g[n - 1])]
<1>1. /\ len \in Nat /\ cell.writer \in Writers
      /\ \A n \in 1 .. len : cell.writes[n] \in Writes
  BY DEF Cells
<1>2. base \in Attempts
  BY EmptyType DEF Attempted, Attempts
<1>3. \A n \in 1 .. len, acc \in Attempts : CellStep(cell, n, acc) \in Attempts
  <2> SUFFICES ASSUME NEW n \in 1 .. len, NEW acc \in Attempts
               PROVE  CellStep(cell, n, acc) \in Attempts
    OBVIOUS
  <2>1. ApplyWrite(acc.map, cell.writer, cell.writes[n]) \in Maps
    BY <1>1, ApplyWriteType DEF Attempts
  <2>2. QED
    BY <2>1 DEF CellStep, Attempted, Attempts
<1> HIDE DEF base
<1>4. \E f : IsCellLoop(f)
  <2>1. step \in Rounds(len, Attempts)
    BY <1>3 DEF Rounds
  <2>2. \A n \in 1 .. len, acc \in Attempts : step[<<n, acc>>] = CellStep(cell, n, acc)
    OBVIOUS
  <2> HIDE DEF step
  <2>3. PICK f : IsLoop(f, len, Attempts, base, step)
    BY <1>1, <1>2, <2>1, Recursion
  <2>4. f = [n \in 0 .. len |-> f[n]] /\ f[0] = base
    BY <2>3 DEF IsLoop
  <2>5. ASSUME NEW n \in 1 .. len PROVE f[n] = CellStep(cell, n, f[n - 1])
    <3>1. n - 1 \in 0 .. len
      BY <1>1
    <3>2. f \in [0 .. len -> Attempts] /\ f[n] = step[<<n, f[n - 1]>>]
      BY <2>3 DEF IsLoop
    <3>3. f[n - 1] \in Attempts
      BY <3>1, <3>2
    <3>4. QED
      BY <2>2, <3>2, <3>3
  <2>6. \A n \in 0 .. len : f[n] = IF n = 0 THEN base ELSE CellStep(cell, n, f[n - 1])
    <3>1. \A n \in 0 .. len : n = 0 \/ n \in 1 .. len
      BY <1>1
    <3>2. QED
      BY <2>4, <2>5, <3>1, Zenon
  <2>7. QED
    BY <2>4, <2>6
<1>8. IsCellLoop(CellMaps(cell))
  <2>1. CellMaps(cell) = CHOOSE g : IsCellLoop(g)
    BY Zenon DEF CellMaps, CellStep, base
  <2> HIDE DEF IsCellLoop
  <2>2. QED
    BY <1>4, <2>1
<1>9. \A g : IsCellLoop(g) => /\ g = [n \in 0 .. len |-> g[n]] /\ g[0] = base
                              /\ \A n \in 1 .. len : g[n] = CellStep(cell, n, g[n - 1])
  <2> SUFFICES ASSUME NEW g, IsCellLoop(g)
               PROVE  /\ g = [n \in 0 .. len |-> g[n]] /\ g[0] = base
                      /\ \A n \in 1 .. len : g[n] = CellStep(cell, n, g[n - 1])
    OBVIOUS
  <2> DEFINE body(n) == IF n = 0 THEN base ELSE CellStep(cell, n, g[n - 1])
  <2>1. g = [n \in 0 .. len |-> body(n)]
    OBVIOUS
  <2>2. \A n \in 1 .. len : body(n) = CellStep(cell, n, g[n - 1])
    OBVIOUS
  <2>3. body(0) = base
    OBVIOUS
  <2> HIDE DEF body
  <2>4. QED
    BY <1>1, <2>1, <2>2, <2>3
<1>10. CellMaps(cell) \in [0 .. len -> Attempts]
  <2> DEFINE loop == CellMaps(cell)
  <2>1. /\ loop = [n \in 0 .. len |-> loop[n]] /\ loop[0] = base
        /\ \A n \in 1 .. len : loop[n] = CellStep(cell, n, loop[n - 1])
    BY <1>8, <1>9
  <2> HIDE DEF loop, IsCellLoop
  <2>2. loop[0] \in Attempts /\ \A n \in 1 .. len : loop[n - 1] \in Attempts => loop[n] \in Attempts
    BY <1>2, <1>3, <2>1
  <2>3. loop \in [0 .. len -> Attempts]
    BY <1>1, <2>1, <2>2, LoopType
  <2>4. QED
    BY <2>3 DEF loop
<1>11. QED
  BY <1>1, <1>8, <1>9, <1>10 DEF base

\* The map of a cell is a map.
LEMMA CellMapType == \A cell \in Cells : CellMap(cell) \in Attempts
<1> SUFFICES ASSUME NEW cell \in Cells PROVE CellMap(cell) \in Attempts
  OBVIOUS
<1> DEFINE len == Len(cell.writes)
<1>1. len \in Nat /\ CellMaps(cell) \in [0 .. len -> Attempts]
  BY CellLoop
<1>2. len \in 0 .. len
  BY <1>1
<1> HIDE DEF len
<1>3. QED
  BY <1>1, <1>2 DEF CellMap, len

\* The loop over the cells of a request.
LEMMA CellsLoop ==
    ASSUME NEW cells \in Seq(Cells), NEW m \in Maps
    PROVE  /\ Len(cells) \in Nat
           /\ MergedCells(cells, m) \in [0 .. Len(cells) -> Attempts]
           /\ MergedCells(cells, m)[0] = Attempted(TRUE, m)
           /\ \A n \in 1 .. Len(cells) :
                 /\ cells[n] \in Cells
                 /\ MergedCells(cells, m)[n] = CellsStep(cells, n, MergedCells(cells, m)[n - 1])
<1> DEFINE len == Len(cells)
           base == Attempted(TRUE, m)
           step == [p \in (1 .. len) \X Attempts |-> CellsStep(cells, p[1], p[2])]
           IsCellsLoop(g) == g = [n \in 0 .. len |-> IF n = 0 THEN base
                                                     ELSE CellsStep(cells, n, g[n - 1])]
<1>1. len \in Nat /\ \A n \in 1 .. len : cells[n] \in Cells
  OBVIOUS
<1>2. base \in Attempts
  BY DEF Attempted, Attempts
<1>3. \A n \in 1 .. len, acc \in Attempts : CellsStep(cells, n, acc) \in Attempts
  <2> SUFFICES ASSUME NEW n \in 1 .. len, NEW acc \in Attempts
               PROVE  CellsStep(cells, n, acc) \in Attempts
    OBVIOUS
  <2>1. CellMap(cells[n]) \in Attempts
    BY <1>1, CellMapType
  <2>2. Merge(acc.map, CellMap(cells[n]).map) \in Maps
    BY <2>1, MergeType DEF Attempts
  <2>3. QED
    BY <2>2 DEF CellsStep, Attempted, Attempts
<1> HIDE DEF base
<1>4. \E f : IsCellsLoop(f)
  <2>1. step \in Rounds(len, Attempts)
    BY <1>3 DEF Rounds
  <2>2. \A n \in 1 .. len, acc \in Attempts : step[<<n, acc>>] = CellsStep(cells, n, acc)
    OBVIOUS
  <2> HIDE DEF step
  <2>3. PICK f : IsLoop(f, len, Attempts, base, step)
    BY <1>1, <1>2, <2>1, Recursion
  <2>4. f = [n \in 0 .. len |-> f[n]] /\ f[0] = base
    BY <2>3 DEF IsLoop
  <2>5. ASSUME NEW n \in 1 .. len PROVE f[n] = CellsStep(cells, n, f[n - 1])
    <3>1. n - 1 \in 0 .. len
      BY <1>1
    <3>2. f \in [0 .. len -> Attempts] /\ f[n] = step[<<n, f[n - 1]>>]
      BY <2>3 DEF IsLoop
    <3>3. f[n - 1] \in Attempts
      BY <3>1, <3>2
    <3>4. QED
      BY <2>2, <3>2, <3>3
  <2>6. \A n \in 0 .. len : f[n] = IF n = 0 THEN base ELSE CellsStep(cells, n, f[n - 1])
    <3>1. \A n \in 0 .. len : n = 0 \/ n \in 1 .. len
      BY <1>1
    <3>2. QED
      BY <2>4, <2>5, <3>1, Zenon
  <2>7. QED
    BY <2>4, <2>6
<1>8. IsCellsLoop(MergedCells(cells, m))
  <2>1. MergedCells(cells, m) = CHOOSE g : IsCellsLoop(g)
    BY Zenon DEF MergedCells, CellsStep, base
  <2> HIDE DEF IsCellsLoop
  <2>2. QED
    BY <1>4, <2>1
<1>9. \A g : IsCellsLoop(g) => /\ g = [n \in 0 .. len |-> g[n]] /\ g[0] = base
                              /\ \A n \in 1 .. len : g[n] = CellsStep(cells, n, g[n - 1])
  <2> SUFFICES ASSUME NEW g, IsCellsLoop(g)
               PROVE  /\ g = [n \in 0 .. len |-> g[n]] /\ g[0] = base
                      /\ \A n \in 1 .. len : g[n] = CellsStep(cells, n, g[n - 1])
    OBVIOUS
  <2> DEFINE body(n) == IF n = 0 THEN base ELSE CellsStep(cells, n, g[n - 1])
  <2>1. g = [n \in 0 .. len |-> body(n)]
    OBVIOUS
  <2>2. \A n \in 1 .. len : body(n) = CellsStep(cells, n, g[n - 1])
    OBVIOUS
  <2>3. body(0) = base
    OBVIOUS
  <2> HIDE DEF body
  <2>4. QED
    BY <1>1, <2>1, <2>2, <2>3
<1>10. MergedCells(cells, m) \in [0 .. len -> Attempts]
  <2> DEFINE loop == MergedCells(cells, m)
  <2>1. /\ loop = [n \in 0 .. len |-> loop[n]] /\ loop[0] = base
        /\ \A n \in 1 .. len : loop[n] = CellsStep(cells, n, loop[n - 1])
    BY <1>8, <1>9
  <2> HIDE DEF loop, IsCellsLoop
  <2>2. loop[0] \in Attempts /\ \A n \in 1 .. len : loop[n - 1] \in Attempts => loop[n] \in Attempts
    BY <1>2, <1>3, <2>1
  <2>3. loop \in [0 .. len -> Attempts]
    BY <1>1, <2>1, <2>2, LoopType
  <2>4. QED
    BY <2>3 DEF loop
<1>11. QED
  BY <1>1, <1>8, <1>9, <1>10 DEF base

\* The loop over a list of entries.
LEMMA EntryLoop ==
    ASSUME NEW entries \in Seq(StampedEntries)
    PROVE  /\ Len(entries) \in Nat
           /\ EntryMaps(entries) \in [0 .. Len(entries) -> Listings]
           /\ EntryMaps(entries)[0] = [ok |-> TRUE, map |-> Empty, seen |-> Empty]
           /\ \A n \in 1 .. Len(entries) :
                 /\ entries[n] \in StampedEntries
                 /\ EntryMaps(entries)[n] = EntryStep(entries, n, EntryMaps(entries)[n - 1])
<1> DEFINE len == Len(entries)
           base == [ok |-> TRUE, map |-> Empty, seen |-> Empty]
           step == [p \in (1 .. len) \X Listings |-> EntryStep(entries, p[1], p[2])]
           IsEntryLoop(g) == g = [n \in 0 .. len |-> IF n = 0 THEN base
                                                     ELSE EntryStep(entries, n, g[n - 1])]
<1>1. len \in Nat /\ \A n \in 1 .. len : entries[n] \in StampedEntries
  OBVIOUS
<1>2. base \in Listings
  BY EmptyType DEF Listings
<1>3. \A n \in 1 .. len, acc \in Listings : EntryStep(entries, n, acc) \in Listings
  <2> SUFFICES ASSUME NEW n \in 1 .. len, NEW acc \in Listings
               PROVE  EntryStep(entries, n, acc) \in Listings
    OBVIOUS
  <2> DEFINE x == entries[n]
  <2>1. x.key \in Keys /\ x.entry \in Entries
    BY <1>1 DEF StampedEntries
  <2>2. RestoreEntry(acc.map, x.key, x.entry) \in Maps
    BY <2>1, RestoreType DEF Listings
  <2>3. [acc.seen EXCEPT ![x.key] = x.entry] \in Maps
    BY <2>1 DEF Listings, Maps
  <2>4. QED
    BY <2>2, <2>3 DEF EntryStep, Listings
<1> HIDE DEF base
<1>4. \E f : IsEntryLoop(f)
  <2>1. step \in Rounds(len, Listings)
    BY <1>3 DEF Rounds
  <2>2. \A n \in 1 .. len, acc \in Listings : step[<<n, acc>>] = EntryStep(entries, n, acc)
    OBVIOUS
  <2> HIDE DEF step
  <2>3. PICK f : IsLoop(f, len, Listings, base, step)
    BY <1>1, <1>2, <2>1, Recursion
  <2>4. f = [n \in 0 .. len |-> f[n]] /\ f[0] = base
    BY <2>3 DEF IsLoop
  <2>5. ASSUME NEW n \in 1 .. len PROVE f[n] = EntryStep(entries, n, f[n - 1])
    <3>1. n - 1 \in 0 .. len
      BY <1>1
    <3>2. f \in [0 .. len -> Listings] /\ f[n] = step[<<n, f[n - 1]>>]
      BY <2>3 DEF IsLoop
    <3>3. f[n - 1] \in Listings
      BY <3>1, <3>2
    <3>4. QED
      BY <2>2, <3>2, <3>3
  <2>6. \A n \in 0 .. len : f[n] = IF n = 0 THEN base ELSE EntryStep(entries, n, f[n - 1])
    <3>1. \A n \in 0 .. len : n = 0 \/ n \in 1 .. len
      BY <1>1
    <3>2. QED
      BY <2>4, <2>5, <3>1, Zenon
  <2>7. QED
    BY <2>4, <2>6
<1>8. IsEntryLoop(EntryMaps(entries))
  <2>1. EntryMaps(entries) = CHOOSE g : IsEntryLoop(g)
    BY Zenon DEF EntryMaps, EntryStep, base
  <2> HIDE DEF IsEntryLoop
  <2>2. QED
    BY <1>4, <2>1
<1>9. \A g : IsEntryLoop(g) => /\ g = [n \in 0 .. len |-> g[n]] /\ g[0] = base
                              /\ \A n \in 1 .. len : g[n] = EntryStep(entries, n, g[n - 1])
  <2> SUFFICES ASSUME NEW g, IsEntryLoop(g)
               PROVE  /\ g = [n \in 0 .. len |-> g[n]] /\ g[0] = base
                      /\ \A n \in 1 .. len : g[n] = EntryStep(entries, n, g[n - 1])
    OBVIOUS
  <2> DEFINE body(n) == IF n = 0 THEN base ELSE EntryStep(entries, n, g[n - 1])
  <2>1. g = [n \in 0 .. len |-> body(n)]
    OBVIOUS
  <2>2. \A n \in 1 .. len : body(n) = EntryStep(entries, n, g[n - 1])
    OBVIOUS
  <2>3. body(0) = base
    OBVIOUS
  <2> HIDE DEF body
  <2>4. QED
    BY <1>1, <2>1, <2>2, <2>3
<1>10. EntryMaps(entries) \in [0 .. len -> Listings]
  <2> DEFINE loop == EntryMaps(entries)
  <2>1. /\ loop = [n \in 0 .. len |-> loop[n]] /\ loop[0] = base
        /\ \A n \in 1 .. len : loop[n] = EntryStep(entries, n, loop[n - 1])
    BY <1>8, <1>9
  <2> HIDE DEF loop, IsEntryLoop
  <2>2. loop[0] \in Listings /\ \A n \in 1 .. len : loop[n - 1] \in Listings => loop[n] \in Listings
    BY <1>2, <1>3, <2>1
  <2>3. loop \in [0 .. len -> Listings]
    BY <1>1, <2>1, <2>2, LoopType
  <2>4. QED
    BY <2>3 DEF loop
<1>11. QED
  BY <1>1, <1>8, <1>9, <1>10 DEF base

-----------------------------------------------------------------------------
(* A request as one map. *)

\* A request of each kind.
LEMMA RequestType ==
    ASSUME NEW r \in AllRequests
    PROVE  \/ r.kind = "reconcile" /\ r.cells \in Seq(Cells)
           \/ r.kind = "merge" /\ r.entries \in Seq(StampedEntries)
BY DEF AllRequests

\* What the cells of a request make of a map.
LEMMA MergeCellsType ==
    ASSUME NEW cells \in Seq(Cells), NEW m \in Maps
    PROVE  MergeCells(cells, m) \in Attempts
<1> DEFINE len == Len(cells)
<1>1. len \in Nat /\ MergedCells(cells, m) \in [0 .. len -> Attempts]
  BY CellsLoop
<1>2. len \in 0 .. len
  BY <1>1
<1> HIDE DEF len
<1>3. QED
  BY <1>1, <1>2 DEF MergeCells, len

\* The map of a list of entries is a map.
LEMMA EntryMapType == \A entries \in Seq(StampedEntries) : EntryMap(entries) \in Listings
<1> SUFFICES ASSUME NEW entries \in Seq(StampedEntries) PROVE EntryMap(entries) \in Listings
  OBVIOUS
<1> DEFINE len == Len(entries)
<1>1. len \in Nat /\ EntryMaps(entries) \in [0 .. len -> Listings]
  BY EntryLoop
<1>2. len \in 0 .. len
  BY <1>1
<1> HIDE DEF len
<1>3. QED
  BY <1>1, <1>2 DEF EntryMap, len

\* What a request makes of a map is a map.
LEMMA MergedType ==
    ASSUME NEW r \in AllRequests, NEW m \in Maps
    PROVE  Merged(r, m) \in Attempts
<1>1. CASE r.kind = "reconcile" /\ r.cells \in Seq(Cells)
  BY <1>1, MergeCellsType DEF Merged
<1>2. CASE r.kind = "merge" /\ r.entries \in Seq(StampedEntries)
  <2>1. EntryMap(r.entries).map \in Maps /\ EntryMap(r.entries).ok \in BOOLEAN
    BY <1>2, EntryMapType DEF Listings
  <2>2. Merge(m, EntryMap(r.entries).map) \in Maps
    BY <2>1, MergeType
  <2>3. MergeEntries(r.entries, m) \in Attempts
    BY <2>2 DEF MergeEntries, Attempted, Attempts
  <2>4. QED
    BY <1>2, <2>3 DEF Merged
<1>3. QED
  BY <1>1, <1>2, RequestType

\* A node is left with a map.
LEMMA AfterType ==
    ASSUME NEW r \in AllRequests, NEW m \in Maps
    PROVE  After(r, m) \in Maps /\ After(r, m) = Merged(r, m).map
BY MergedType DEF After, Handle, Attempted, Attempts

\* The cells of a request are merged one by one, and yet as one map.
LEMMA CellsAreOneMap ==
    ASSUME NEW cells \in Seq(Cells), NEW m \in Maps
    PROVE  \A n \in 0 .. Len(cells) :
               MergedCells(cells, m)[n].map = Merge(m, MergedCells(cells, Empty)[n].map)
<1> DEFINE len == Len(cells)
           at == MergedCells(cells, m)
           brought == MergedCells(cells, Empty)
           Done == {n \in 0 .. len : at[n].map = Merge(m, brought[n].map)}
<1>1. /\ len \in Nat /\ Empty \in Maps
      /\ brought \in [0 .. len -> Attempts]
  BY CellsLoop, EmptyType
<1>2. 0 \in Done
  <2>1. at[0].map = m /\ brought[0].map = Empty
    BY CellsLoop, <1>1 DEF Attempted
  <2>2. QED
    BY <1>1, <2>1, MergeEmpty
<1>3. ASSUME NEW n \in 1 .. len, n - 1 \in Done PROVE n \in Done
  <2>1. n - 1 \in 0 .. len /\ n \in 0 .. len
    BY <1>1
  <2> DEFINE cell == CellMap(cells[n]).map
             before == brought[n - 1].map
  <2>2. cell \in Maps
    BY CellsLoop, CellMapType DEF Attempts
  <2>3. before \in Maps
    BY <1>1, <2>1 DEF Attempts
  <2>4. at[n].map = Merge(at[n - 1].map, cell)
    <3>1. at[n] = CellsStep(cells, n, at[n - 1])
      BY CellsLoop
    <3>2. QED
      BY <3>1 DEF CellsStep, Attempted
  <2>5. brought[n].map = Merge(before, cell)
    BY CellsLoop, <1>1 DEF CellsStep, Attempted
  <2>6. at[n - 1].map = Merge(m, before)
    BY <1>3
  <2>7. Merge(m, Merge(before, cell)) = Merge(Merge(m, before), cell)
    BY <2>2, <2>3, MergeIsAssociative
  <2>8. QED
    BY <2>1, <2>4, <2>5, <2>6, <2>7
<1>4. \A n \in 0 .. len : n \in Done
  <2> HIDE DEF Done
  <2> QED
    BY <1>1, <1>2, <1>3, Induction
<1>5. QED
  BY <1>4

\* Whatever a node holds, a request leaves it with the merge of that and of what
\* the request brings: posting a scenario is merging one more cell.
THEOREM RequestIsOneMap ==
    ASSUME NEW r \in AllRequests, NEW m \in Maps
    PROVE  After(r, m) = Merge(m, After(r, Empty))
<1>1. Empty \in Maps
  BY EmptyType
<1>2. CASE r.kind = "reconcile" /\ r.cells \in Seq(Cells)
  <2>1. Len(r.cells) \in 0 .. Len(r.cells)
    BY <1>2
  <2>2. MergeCells(r.cells, m).map = Merge(m, MergeCells(r.cells, Empty).map)
    BY <1>2, <2>1, CellsAreOneMap DEF MergeCells
  <2>3. QED
    BY <1>1, <1>2, <2>2, AfterType DEF Merged
<1>3. CASE r.kind = "merge" /\ r.entries \in Seq(StampedEntries)
  <2> DEFINE map == EntryMap(r.entries).map
  <2>1. map \in Maps
    BY <1>3, EntryMapType DEF Listings
  <2>2. /\ MergeEntries(r.entries, m).map = Merge(m, map)
        /\ MergeEntries(r.entries, Empty).map = map
    BY <2>1, MergeEmpty DEF MergeEntries, Attempted
  <2>3. QED
    BY <1>1, <1>3, <2>2, AfterType DEF Merged
<1>4. QED
  BY <1>2, <1>3, RequestType

-----------------------------------------------------------------------------
(* What a request writes. *)

\* An entry no check objects to: a generation that did not wrap, and for a
\* record the one its attempt requires.
WellStamped(k, e) ==
    /\ e.generation # 0
    /\ k \in RecordKeys /\ ~IsTombstone(e) =>
           /\ ~Malformed(k, e.value)
           /\ e.generation = RequiredGeneration(k, e.value)

\* The maps of such entries, none of them newer than a limit.
SoundMaps(limit) ==
    {m \in Maps : \A k \in Held(m) : m[k].time <= limit /\ WellStamped(k, m[k])}

\* The empty map is one, and so is the merge of two.
LEMMA EmptySound == \A limit : Empty \in SoundMaps(limit)
BY EmptyType DEF SoundMaps, Held, Empty

LEMMA MergeSound ==
    ASSUME NEW limit, NEW m \in SoundMaps(limit), NEW o \in SoundMaps(limit)
    PROVE  Merge(m, o) \in SoundMaps(limit)
<1>1. m \in Maps /\ o \in Maps /\ Merge(m, o) \in Maps
  BY MergeType DEF SoundMaps
<1>2. \A k \in Keys : Merge(m, o)[k] \in {m[k], o[k]}
  BY <1>1, JoinCovers, SlotType DEF Merge
<1>3. QED
  BY <1>1, <1>2 DEF SoundMaps, Held

\* The wrapped generation of a new write outranks nothing: it is computed only
\* over an entry of the last generation, which stays.
LEMMA WrapLoses ==
    ASSUME NEW m \in Maps, NEW k \in Keys, NEW value \in Contents,
           NEW time \in U64, NEW writer \in Writers,
           NewEntry(m, k, value, time, writer).generation = 0,
           m[k] # NoEntry => m[k].generation # 0
    PROVE  /\ m[k] # NoEntry
           /\ RankLess(Rank(NewEntry(m, k, value, time, writer)), Rank(m[k]))
<1> DEFINE e == NewEntry(m, k, value, time, writer)
<1>1. e \in Entries /\ e.generation = NextGeneration(m, k, value # Tombstone)
  BY NewEntryType DEF NewEntry
<1>2. MaxU64 \in Nat /\ MaxU64 > 1
  BY MapAssumption
<1>3. m[k] # NoEntry
  <2>1. m[k] = NoEntry => e.generation = 1
    BY <1>1, Zenon DEF NextGeneration
  <2>2. QED
    BY <2>1
<1>4. m[k] \in Entries /\ m[k].generation \in 0 .. MaxU64
  BY <1>3, SlotType DEF Slots, Entries, U64
<1>5. (m[k].generation + 1) % (MaxU64 + 1) = 0
  BY <1>1, <1>3, Zenon DEF NextGeneration
<1>6. m[k].generation = MaxU64
  BY <1>2, <1>4, <1>5
<1>7. Rank(m[k])[1] > 0
  BY <1>2, <1>6 DEF Rank
<1>8. Rank(e)[1] = 0
  BY DEF Rank
<1>9. QED
  BY <1>3, <1>7, <1>8 DEF RankLess

\* What a write does to the entry of its key: it leaves it, or puts in its place
\* a new one it does not outrank, or the one it states.
LEMMA WriteOutcome ==
    ASSUME NEW m \in Maps, NEW writer \in Writers, NEW x \in Writes
    PROVE  LET k == x.key
               new == NewEntry(m, k, x.value, x.time, writer)
               stated == [value |-> x.value, generation |-> x.generation,
                          time |-> x.time, writer |-> writer]
           IN  \/ ApplyWrite(m, writer, x) = m
               \/ /\ x.value = Tombstone \/ x.generation = Unstated
                  /\ m[k] = NoEntry \/ ~RankLess(Rank(new), Rank(m[k]))
                  /\ ApplyWrite(m, writer, x) = [m EXCEPT ![k] = new]
               \/ /\ x.value # Tombstone /\ x.generation # Unstated
                  /\ ApplyWrite(m, writer, x) = [m EXCEPT ![k] = stated]
<1> DEFINE k == x.key
           new == NewEntry(m, k, x.value, x.time, writer)
           stated == [value |-> x.value, generation |-> x.generation,
                      time |-> x.time, writer |-> writer]
           after == ApplyWrite(m, writer, x)
<1>1. k \in Keys /\ x.value \in Contents /\ x.time \in U64 /\ [m EXCEPT ![k] = m[k]] = m
  BY DEF Writes, Maps
<1>2. new \in Entries /\ new # NoEntry
  BY <1>1, NewEntryType, MapAssumption
<1>3. CASE x.value = Tombstone
  <2>1. after = [m EXCEPT ![k] = Join(m[k], new)]
    BY <1>3 DEF ApplyWrite, RemoveEntry, RestoreEntry
  <2>2. CASE Covers(m[k], new)
    BY <1>1, <2>1, <2>2 DEF Join
  <2>3. CASE ~Covers(m[k], new)
    <3>1. after = [m EXCEPT ![k] = new]
      BY <2>1, <2>3 DEF Join
    <3>2. m[k] = NoEntry \/ RankLess(Rank(m[k]), Rank(new))
      BY <1>2, <2>3 DEF Covers
    <3>3. m[k] = NoEntry \/ m[k] \in Entries
      BY <1>1, SlotType DEF Slots
    <3>4. m[k] = NoEntry \/ ~RankLess(Rank(new), Rank(m[k]))
      BY <1>2, <3>2, <3>3, RankType, RankOrder
    <3>5. QED
      BY <1>3, <3>1, <3>4
  <2>4. QED
    BY <2>2, <2>3
<1>4. CASE x.value # Tombstone /\ x.generation # Unstated
  <2>1. after = [m EXCEPT ![k] = Join(m[k], stated)]
    BY <1>4 DEF ApplyWrite, RestoreEntry
  <2>2. Join(m[k], stated) = m[k] \/ Join(m[k], stated) = stated
    BY Zenon DEF Join
  <2>3. QED
    BY <1>1, <1>4, <2>1, <2>2
<1>5. CASE x.value # Tombstone /\ x.generation = Unstated
  <2>1. after = SetChecked(m, k, x.value, x.time, writer)
    BY <1>5 DEF ApplyWrite
  <2> DEFINE keep == /\ m[k] # NoEntry
                     /\ SameStamp(m[k], new) \/ RankLess(Rank(new), Rank(m[k]))
  <2>2. (keep => after = m) /\ (~keep => after = [m EXCEPT ![k] = new])
    BY <2>1, Zenon DEF SetChecked
  <2>3. QED
    BY <1>5, <2>2
<1>6. QED
  BY <1>3, <1>4, <1>5

\* A write keeps a map sound: one whose stated generation, if its key is that
\* of a record, is the one CheckWrites requires, and no other is stated.
LEMMA ApplyWriteSound ==
    ASSUME NEW limit, NEW m \in SoundMaps(limit), NEW writer \in Writers, NEW x \in Writes,
           x.time <= limit,
           x.value # Tombstone => /\ ~Malformed(x.key, x.value)
                                  /\ x.generation = RequiredGeneration(x.key, x.value)
    PROVE  ApplyWrite(m, writer, x) \in SoundMaps(limit)
<1> DEFINE k == x.key
           new == NewEntry(m, k, x.value, x.time, writer)
           stated == [value |-> x.value, generation |-> x.generation,
                      time |-> x.time, writer |-> writer]
           after == ApplyWrite(m, writer, x)
<1>1. /\ m \in Maps /\ after \in Maps /\ k \in Keys
      /\ x.value \in Contents /\ x.time \in U64
  BY ApplyWriteType DEF SoundMaps, Writes
<1>2. CASE after = m
  BY <1>2
<1>3. CASE /\ x.value = Tombstone \/ x.generation = Unstated
           /\ m[k] = NoEntry \/ ~RankLess(Rank(new), Rank(m[k]))
           /\ after = [m EXCEPT ![k] = new]
  <2>1. new.generation # 0
    <3>1. m[k] # NoEntry => m[k].generation # 0
      BY <1>1 DEF SoundMaps, Held, WellStamped
    <3>2. QED
      BY <1>1, <1>3, <3>1, WrapLoses
  <2>2. new.time = x.time /\ new.value = x.value
    BY DEF NewEntry
  <2>3. k \in RecordKeys => IsTombstone(new)
    <3>1. ASSUME k \in RecordKeys, x.value # Tombstone PROVE FALSE
      <4>1. x.generation = SaturatingAdd(Attempt[x.value], 1) /\ Attempt[x.value] # NoAttempt
        BY <3>1 DEF RequiredGeneration, Malformed
      <4>2. Attempt[x.value] \in U64
        BY <1>1, <3>1, <4>1, RequestAssumption DEF Contents
      <4>3. x.generation \in U64
        BY <4>1, <4>2, MapAssumption DEF SaturatingAdd, U64
      <4>4. QED
        BY <1>3, <3>1, <4>3, RequestAssumption
    <3>2. QED
      BY <2>2, <3>1 DEF IsTombstone
  <2>4. after \in Maps /\ \A j \in Keys : after[j] = IF j = k THEN new ELSE m[j]
    BY <1>1, <1>3 DEF Maps
  <2>5. WellStamped(k, new) /\ new.time <= limit
    BY <2>1, <2>2, <2>3 DEF WellStamped
  <2>6. after \in SoundMaps(limit)
    <3> HIDE DEF new, after, k
    <3> QED
      BY <2>4, <2>5 DEF SoundMaps, Held
  <2>7. QED
    BY <2>6
<1>4. CASE /\ x.value # Tombstone /\ x.generation # Unstated
           /\ after = [m EXCEPT ![k] = stated]
  <2>1. k \in RecordKeys /\ x.generation = SaturatingAdd(Attempt[x.value], 1)
                         /\ Attempt[x.value] # NoAttempt
    BY <1>4 DEF RequiredGeneration, Malformed
  <2>2. Attempt[x.value] \in U64
    BY <1>1, <1>4, <2>1, RequestAssumption DEF Contents
  <2>3. x.generation # 0
    BY <2>1, <2>2, MapAssumption DEF SaturatingAdd, U64
  <2>4. WellStamped(k, stated) /\ stated.time <= limit
    BY <1>4, <2>3 DEF WellStamped
  <2>5. after \in Maps /\ \A j \in Keys : after[j] = IF j = k THEN stated ELSE m[j]
    BY <1>1, <1>4 DEF Maps
  <2>6. after \in SoundMaps(limit)
    <3> HIDE DEF stated, after, k
    <3> QED
      BY <2>4, <2>5 DEF SoundMaps, Held
  <2>7. QED
    BY <2>6
<1>5. QED
  BY <1>1, <1>2, <1>3, <1>4, WriteOutcome

\* The map of a cell that passes the checks is sound.
LEMMA CellSound ==
    ASSUME NEW limit, NEW cell \in Cells,
           \A j \in 1 .. Len(cell.writes) :
               /\ cell.writes[j].time <= limit
               /\ cell.writes[j].value # Tombstone =>
                      /\ ~Malformed(cell.writes[j].key, cell.writes[j].value)
                      /\ cell.writes[j].generation =
                             RequiredGeneration(cell.writes[j].key, cell.writes[j].value)
    PROVE  CellMap(cell).map \in SoundMaps(limit)
<1> DEFINE len == Len(cell.writes)
           at == CellMaps(cell)
           Done == {n \in 0 .. len : at[n].map \in SoundMaps(limit)}
<1>1. len \in Nat /\ cell.writer \in Writers
  BY DEF Cells
<1>2. 0 \in Done
  <2>1. at[0].map = Empty
    BY CellLoop DEF Attempted
  <2>2. QED
    BY <1>1, <2>1, EmptySound
<1>3. ASSUME NEW n \in 1 .. len, n - 1 \in Done PROVE n \in Done
  <2>1. at[n] = CellStep(cell, n, at[n - 1]) /\ cell.writes[n] \in Writes
    BY CellLoop
  <2>2. at[n].map = ApplyWrite(at[n - 1].map, cell.writer, cell.writes[n])
    BY <2>1 DEF CellStep, Attempted
  <2>3. at[n].map \in SoundMaps(limit)
    BY <1>1, <1>3, <2>1, <2>2, ApplyWriteSound
  <2>4. QED
    BY <1>1, <2>3
<1>4. len \in Done
  <2> HIDE DEF Done, len
  <2>1. \A n \in 0 .. len : n \in Done
    BY <1>1, <1>2, <1>3, Induction
  <2>2. QED
    BY <1>1, <2>1
<1>5. QED
  BY <1>4 DEF CellMap

\* So is what a list of entries that passes the checks stands for.
LEMMA EntriesSound ==
    ASSUME NEW limit, NEW entries \in Seq(StampedEntries),
           \A i \in 1 .. Len(entries) : /\ entries[i].entry.time <= limit
                                        /\ WellStamped(entries[i].key, entries[i].entry)
    PROVE  EntryMap(entries).map \in SoundMaps(limit)
<1> DEFINE len == Len(entries)
           at == EntryMaps(entries)
           Done == {n \in 0 .. len : at[n].map \in SoundMaps(limit)}
<1>1. len \in Nat
  OBVIOUS
<1>2. 0 \in Done
  <2>1. at[0].map = Empty
    BY EntryLoop
  <2>2. QED
    BY <1>1, <2>1, EmptySound
<1>3. ASSUME NEW n \in 1 .. len, n - 1 \in Done PROVE n \in Done
  <2> DEFINE x == entries[n]
             before == at[n - 1].map
             after == at[n].map
  <2>1. at[n] = EntryStep(entries, n, at[n - 1]) /\ x \in StampedEntries
    BY EntryLoop
  <2>2. after = RestoreEntry(before, x.key, x.entry)
    BY <2>1 DEF EntryStep
  <2>3. /\ x.key \in Keys /\ x.entry \in Entries
        /\ x.entry.time <= limit /\ WellStamped(x.key, x.entry)
    BY <2>1 DEF StampedEntries
  <2>4. before \in SoundMaps(limit) /\ before \in Maps
    BY <1>3 DEF SoundMaps
  <2>5. after \in Maps
    BY <2>2, <2>3, <2>4, RestoreType
  <2>6. \A k \in Keys : after[k] = before[k] \/ (k = x.key /\ after[k] = x.entry)
    <3> HIDE DEF x, before, after
    <3>1. Join(before[x.key], x.entry) = before[x.key] \/ Join(before[x.key], x.entry) = x.entry
      BY Zenon DEF Join
    <3>2. QED
      BY <2>2, <2>3, <2>4, <3>1 DEF RestoreEntry, Maps
  <2>7. after \in SoundMaps(limit)
    <3> HIDE DEF x, before, after
    <3> QED
      BY <2>3, <2>4, <2>5, <2>6 DEF SoundMaps, Held
  <2>8. QED
    BY <1>1, <2>7
<1>4. len \in Done
  <2> HIDE DEF Done, len
  <2>1. \A n \in 0 .. len : n \in Done
    BY <1>1, <1>2, <1>3, Induction
  <2>2. QED
    BY <1>1, <2>1
<1>5. QED
  BY <1>4 DEF EntryMap

\* What a request that passes the checks of a node brings is no newer than the
\* node allows, states no generation that wrapped, and for a record the one its
\* attempt requires.
LEMMA RequestSound ==
    ASSUME NEW r \in AllRequests, NEW m \in Maps, PassesChecks(r, m)
    PROVE  After(r, Empty) \in SoundMaps(TimeLimit(m))
<1> DEFINE limit == TimeLimit(m)
<1> HIDE DEF limit
<1>1. Empty \in Maps
  BY EmptyType
<1>2. CASE r.kind = "reconcile" /\ r.cells \in Seq(Cells)
  <2> DEFINE len == Len(r.cells)
             at == MergedCells(r.cells, Empty)
             Done == {n \in 0 .. len : at[n].map \in SoundMaps(limit)}
  <2>1. CheckStamps(r.cells, m) /\ CheckWrites(r.cells) /\ len \in Nat
    BY <1>2 DEF PassesChecks
  <2>2. 0 \in Done
    <3>1. at[0].map = Empty
      <4>1. at[0] = Attempted(TRUE, Empty)
        BY <1>1, <1>2, CellsLoop
      <4>2. QED
        BY <4>1 DEF Attempted
    <3>2. QED
      BY <2>1, <3>1, EmptySound
  <2>3. ASSUME NEW n \in 1 .. len, n - 1 \in Done PROVE n \in Done
    <3>1. at[n] = CellsStep(r.cells, n, at[n - 1]) /\ r.cells[n] \in Cells
      BY <1>1, <1>2, CellsLoop
    <3>2. at[n].map = Merge(at[n - 1].map, CellMap(r.cells[n]).map)
      BY <3>1 DEF CellsStep, Attempted
    <3>3. n \in DOMAIN r.cells /\ DOMAIN r.cells[n].writes = 1 .. Len(r.cells[n].writes)
      BY <1>2, <3>1 DEF Cells
    <3>4. CellMap(r.cells[n]).map \in SoundMaps(limit)
      <4>1. \A j \in 1 .. Len(r.cells[n].writes) :
               /\ r.cells[n].writes[j].time <= limit
               /\ r.cells[n].writes[j].value # Tombstone =>
                      /\ ~Malformed(r.cells[n].writes[j].key, r.cells[n].writes[j].value)
                      /\ r.cells[n].writes[j].generation =
                             RequiredGeneration(r.cells[n].writes[j].key,
                                                r.cells[n].writes[j].value)
        BY <2>1, <3>3 DEF CheckStamps, CheckWrites, limit
      <4>2. QED
        BY <3>1, <4>1, CellSound
    <3>5. QED
      BY <2>1, <2>3, <3>2, <3>4, MergeSound
  <2>4. len \in Done
    <3> HIDE DEF Done, len
    <3>1. \A n \in 0 .. len : n \in Done
      BY <2>1, <2>2, <2>3, Induction
    <3>2. QED
      BY <2>1, <3>1
  <2>5. After(r, Empty) = at[len].map
    BY <1>1, <1>2, AfterType DEF Merged, MergeCells
  <2>6. QED
    BY <2>4, <2>5 DEF limit
<1>3. CASE r.kind = "merge" /\ r.entries \in Seq(StampedEntries)
  <2>1. EntryMap(r.entries).map \in Maps
    BY <1>3, EntryMapType DEF Listings
  <2>2. After(r, Empty) = EntryMap(r.entries).map
    BY <1>1, <1>3, <2>1, AfterType, MergeEmpty DEF Merged, MergeEntries, Attempted
  <2>3. CheckEntries(r.entries, m) /\ DOMAIN r.entries = 1 .. Len(r.entries)
    BY <1>3 DEF PassesChecks
  <2>4. \A i \in 1 .. Len(r.entries) : /\ r.entries[i].entry.time <= limit
                                       /\ WellStamped(r.entries[i].key, r.entries[i].entry)
    BY <2>3 DEF CheckEntries, CheckEntry, WellStamped, limit
  <2>5. QED
    BY <1>3, <2>2, <2>4, EntriesSound DEF limit
<1>4. QED
  BY <1>2, <1>3, RequestType

\* The limit on the time of a request is one of 64 bits, and no older than what
\* is held.
LEMMA LimitType ==
    ASSUME NEW m \in Maps
    PROVE  /\ TimeLimit(m) \in U64
           /\ MaxTime(m) <= TimeLimit(m)
           /\ \A k \in Held(m) : m[k].time <= TimeLimit(m)
<1>1. MaxTime(m) \in U64 /\ MaxTimeJump \in Nat /\ MaxU64 \in Nat
  BY MaxTimeIsNewest, MapAssumption, RequestAssumption
<1>2. TimeLimit(m) \in U64 /\ MaxTime(m) <= TimeLimit(m)
  BY <1>1 DEF TimeLimit, SaturatingAdd, U64
<1>3. \A k \in Held(m) : m[k].time \in Int
  BY SlotType, StampType DEF Held, Slots
<1>4. QED
  BY <1>1, <1>2, <1>3, MaxTimeIsNewest DEF U64

\* A sound map stays sound under a later limit, and under the one it sets itself.
LEMMA SoundWithin ==
    ASSUME NEW m \in SoundMaps(MaxU64)
    PROVE  m \in Maps /\ m \in SoundMaps(TimeLimit(m))
BY LimitType DEF SoundMaps

\* What a node holds after a request it accepted is sound.
LEMMA AcceptedSound ==
    ASSUME NEW r \in AllRequests, NEW m \in SoundMaps(MaxU64), Accepts(r, m)
    PROVE  /\ After(r, m) \in SoundMaps(TimeLimit(m))
           /\ After(r, m) \in SoundMaps(MaxU64)
<1>1. m \in Maps /\ m \in SoundMaps(TimeLimit(m)) /\ PassesChecks(r, m)
  BY SoundWithin DEF Accepts, Handle, Attempted
<1>2. After(r, Empty) \in SoundMaps(TimeLimit(m))
  BY <1>1, RequestSound
<1>3. After(r, m) \in SoundMaps(TimeLimit(m))
  BY <1>1, <1>2, RequestIsOneMap, MergeSound
<1>4. \A o \in Maps : \A k \in Held(o) : o[k].time <= MaxU64
  BY SlotType DEF Held, Slots, Entries, U64
<1>5. QED
  BY <1>3, <1>4 DEF SoundMaps

-----------------------------------------------------------------------------
(* What a request does not contradict. *)

\* Neither entry outranks the other.
Tied(d, e) == d # NoEntry /\ Covers(d, e) /\ Covers(e, d)
Untied(m, o) == \A k \in Keys : Tied(m[k], o[k]) => ~Collide(m[k], o[k])

\* A cell that ranks with what is held, and is the newest of its request, was
\* compared with what is held: nothing before it took its place.
LEMMA CellsUntied ==
    ASSUME NEW cells \in Seq(Cells), NEW m \in Maps, MergeCells(cells, m).ok
    PROVE  Untied(m, MergeCells(cells, Empty).map)
<1> DEFINE len == Len(cells)
           at == MergedCells(cells, m)
           brought == MergedCells(cells, Empty)
           Done == {n \in 0 .. len : at[n].ok => Untied(m, brought[n].map)}
<1>1. /\ len \in Nat /\ Empty \in Maps
      /\ brought \in [0 .. len -> Attempts]
  BY CellsLoop, EmptyType
<1>2. 0 \in Done
  <2>1. brought[0] = Attempted(TRUE, Empty)
    BY <1>1, CellsLoop
  <2>2. brought[0].map = Empty
    BY <2>1 DEF Attempted
  <2>3. Untied(m, Empty)
    BY DEF Untied, Tied, Covers, Empty
  <2>4. QED
    BY <1>1, <2>2, <2>3
<1>3. ASSUME NEW n \in 1 .. len, n - 1 \in Done PROVE n \in Done
  <2> DEFINE cell == CellMap(cells[n]).map
             before == brought[n - 1].map
  <2>1. n - 1 \in 0 .. len /\ n \in 0 .. len
    BY <1>1
  <2>2. at[n] = CellsStep(cells, n, at[n - 1])
    BY CellsLoop
  <2>3. brought[n] = CellsStep(cells, n, brought[n - 1])
    BY <1>1, CellsLoop
  <2>4. cell \in Maps
    BY CellsLoop, CellMapType DEF Attempts
  <2>5. before \in Maps
    BY <1>1, <2>1 DEF Attempts
  <2>6. brought[n].map = Merge(before, cell)
    BY <2>3 DEF CellsStep, Attempted
  <2>7. at[n - 1].map = Merge(m, before)
    BY <2>1, CellsAreOneMap
  <2>8. at[n].ok => at[n - 1].ok /\ ~MergeCollides(Merge(m, before), cell)
    BY <2>2, <2>7, CellsStepParts, Zenon
  <2>9. at[n - 1].ok => Untied(m, before)
    BY <1>3
  <2> HIDE DEF cell, before, at, brought
  <2>10. ASSUME at[n].ok, NEW k \in Keys, Tied(m[k], Join(before[k], cell[k]))
         PROVE  ~Collide(m[k], Join(before[k], cell[k]))
    <3>1. m[k] \in Slots /\ before[k] \in Slots /\ cell[k] \in Slots
      BY <2>4, <2>5, SlotType
    <3>2. CASE Covers(before[k], cell[k])
      BY <2>8, <2>9, <2>10, <3>2 DEF Join, Untied
    <3>3. CASE ~Covers(before[k], cell[k])
      <4>1. Tied(m[k], cell[k])
        BY <2>10, <3>3 DEF Join
      <4>2. Covers(m[k], before[k])
        BY <3>1, <3>3, <4>1, CoversTotal, CoversTransitive DEF Tied
      <4>3. Merge(m, before)[k] = m[k]
        BY <4>2 DEF Merge, Join
      <4>4. ~Collide(m[k], cell[k])
        BY <2>8, <2>10, <4>3 DEF MergeCollides
      <4>5. QED
        BY <3>3, <4>4 DEF Join
    <3>4. QED
      BY <3>2, <3>3
  <2>11. at[n].ok => Untied(m, brought[n].map)
    BY <2>6, <2>10 DEF Untied, Merge
  <2>12. QED
    BY <2>1, <2>11
<1>4. len \in Done
  <2> HIDE DEF Done, len
  <2>1. \A n \in 0 .. len : n \in Done
    BY <1>1, <1>2, <1>3, Induction
  <2>2. QED
    BY <1>1, <2>1
<1>5. QED
  BY <1>4 DEF MergeCells

\* What a request that is merged brings ties with what is held only where it
\* says the same.
LEMMA RequestUntied ==
    ASSUME NEW r \in AllRequests, NEW m \in Maps, Merged(r, m).ok
    PROVE  Untied(m, After(r, Empty))
<1>1. Empty \in Maps
  BY EmptyType
<1>2. CASE r.kind = "reconcile" /\ r.cells \in Seq(Cells)
  <2>1. Untied(m, MergeCells(r.cells, Empty).map)
    BY <1>2, CellsUntied DEF Merged
  <2>2. QED
    BY <1>1, <1>2, <2>1, AfterType DEF Merged
<1>3. CASE r.kind = "merge" /\ r.entries \in Seq(StampedEntries)
  <2>1. EntryMap(r.entries).map \in Maps
    BY <1>3, EntryMapType DEF Listings
  <2>2. After(r, Empty) = EntryMap(r.entries).map
    BY <1>1, <1>3, <2>1, AfterType, MergeEmpty DEF Merged, MergeEntries, Attempted
  <2>3. Merged(r, m).ok = (EntryMap(r.entries).ok /\ ~MergeCollides(m, EntryMap(r.entries).map))
    BY <1>3, Zenon DEF Merged, MergeEntries, Attempted
  <2>4. ~MergeCollides(m, EntryMap(r.entries).map)
    BY <2>3, Zenon
  <2>5. QED
    BY <2>2, <2>4 DEF Untied, MergeCollides
<1>4. QED
  BY <1>2, <1>3, RequestType

\* A request that is accepted is merged.
LEMMA AcceptedParts ==
    ASSUME NEW r, NEW m, Accepts(r, m)
    PROVE  PassesChecks(r, m) /\ Merged(r, m).ok /\ ~ClockOverflows(Merged(r, m).map)
BY Zenon DEF Accepts, Handle, Attempted

\* Two tied entries that do not collide, and whose generations did not wrap, are one.
LEMMA UntiedEqual ==
    ASSUME NEW d \in Slots, NEW e \in Slots, Covers(d, e), Covers(e, d),
           d # NoEntry => d.generation # 0, e # NoEntry => e.generation # 0,
           Tied(d, e) => ~Collide(d, e)
    PROVE  d = e
<1>1. CASE d = NoEntry \/ e = NoEntry
  BY <1>1 DEF Covers
<1>2. CASE d # NoEntry /\ e # NoEntry
  <2>1. d \in Entries /\ e \in Entries
    BY <1>2 DEF Slots
  <2>2. ~RankLess(Rank(d), Rank(e)) /\ ~RankLess(Rank(e), Rank(d)) /\ ~Collide(d, e)
    BY <1>2 DEF Covers, Tied
  <2>3. QED
    BY <1>2, <2>1, <2>2, EqualRanks
<1>3. QED
  BY <1>1, <1>2

\* Of two requests a node accepts in either order, it does not matter which came
\* first: what it holds in the end is the same.
THEOREM RequestsCommute ==
    ASSUME NEW r \in AllRequests, NEW s \in AllRequests, NEW m \in SoundMaps(MaxU64),
           Accepts(r, m), Accepts(s, After(r, m)), Accepts(s, m)
    PROVE  After(s, After(r, m)) = After(r, After(s, m))
<1> DEFINE R == After(r, Empty)
           S == After(s, Empty)
<1>1. m \in Maps /\ Empty \in Maps /\ After(r, m) \in Maps /\ After(s, m) \in Maps
  BY SoundWithin, EmptyType, AfterType
<1>2. R \in Maps /\ S \in Maps
  BY <1>1, AfterType
<1>3. After(r, m) = Merge(m, R) /\ After(s, m) = Merge(m, S)
  BY <1>1, RequestIsOneMap
<1>4. /\ After(s, After(r, m)) = Merge(Merge(m, R), S)
      /\ After(r, After(s, m)) = Merge(Merge(m, S), R)
  BY <1>1, <1>3, RequestIsOneMap
<1>5. Untied(Merge(m, R), S)
  BY <1>1, <1>3, AcceptedParts, RequestUntied
<1>6. /\ R \in SoundMaps(TimeLimit(m))
      /\ S \in SoundMaps(TimeLimit(m))
  BY <1>1, AcceptedParts, RequestSound
<1> HIDE DEF R, S
<1>7. ASSUME NEW k \in Keys
      PROVE  Join(Join(m[k], R[k]), S[k]) = Join(Join(m[k], S[k]), R[k])
  <2>1. m[k] \in Slots /\ R[k] \in Slots /\ S[k] \in Slots
    BY <1>1, <1>2, SlotType
  <2>2. CASE Covers(m[k], R[k])
    BY <2>1, <2>2, CoversTotal, CoversTransitive DEF Join
  <2>3. CASE Covers(m[k], S[k])
    BY <2>1, <2>3, CoversTotal, CoversTransitive DEF Join
  <2>4. CASE ~Covers(m[k], R[k]) /\ ~Covers(m[k], S[k])
    <3>1. Merge(m, R)[k] = R[k]
      BY <2>4 DEF Merge, Join
    <3>2. Tied(R[k], S[k]) => ~Collide(R[k], S[k])
      BY <1>5, <3>1 DEF Untied
    <3>3. /\ R[k] # NoEntry => R[k].generation # 0
          /\ S[k] # NoEntry => S[k].generation # 0
      BY <1>6 DEF SoundMaps, Held, WellStamped
    <3>4. Covers(R[k], S[k]) /\ Covers(S[k], R[k]) => R[k] = S[k]
      BY <2>1, <3>2, <3>3, UntiedEqual
    <3>5. QED
      BY <2>1, <2>4, <3>4, CoversTotal DEF Join
  <2>5. QED
    BY <2>2, <2>3, <2>4
<1>8. QED
  BY <1>4, <1>7 DEF Merge

-----------------------------------------------------------------------------
(* A request that is delivered again. *)

\* Without add-wins two entries of one stamp rank equal.
LEMMA SameStampTied ==
    ASSUME ~AddWins, NEW d \in Slots, NEW e \in Slots, SameStamp(d, e)
    PROVE  Covers(d, e) /\ Covers(e, d)
<1>1. d \in Entries /\ e \in Entries /\ d # NoEntry /\ e # NoEntry
  BY DEF SameStamp, Slots
<1>2. Rank(d) = Rank(e)
  BY DEF SameStamp, Stamp, Rank
<1>3. ~RankLess(Rank(e), Rank(e))
  BY <1>1, RankType, RankOrder
<1>4. QED
  BY <1>1, <1>2, <1>3 DEF Covers

\* Of the cells of a request that is merged, none contradicts what they leave,
\* nor is newer than that.
LEMMA CellsAgree ==
    ASSUME ~AddWins, NEW cells \in Seq(Cells), NEW m \in Maps, MergeCells(cells, m).ok
    PROVE  \A n \in 1 .. Len(cells) :
               /\ CellMap(cells[n]).ok
               /\ MapCovers(MergeCells(cells, m).map, CellMap(cells[n]).map)
               /\ ~MergeCollides(MergeCells(cells, m).map, CellMap(cells[n]).map)
<1> DEFINE len == Len(cells)
           at == MergedCells(cells, m)
           cell(n) == CellMap(cells[n]).map
           Agrees(map, n) == \A k \in Keys : /\ Covers(map[k], cell(n)[k])
                                             /\ ~Collide(map[k], cell(n)[k])
           Done == {i \in 0 .. len : at[i].ok => \A n \in 1 .. i : /\ CellMap(cells[n]).ok
                                                                 /\ Agrees(at[i].map, n)}
<1>1. len \in Nat /\ at \in [0 .. len -> Attempts] /\ \A n \in 1 .. len : cell(n) \in Maps
  BY CellsLoop, CellMapType DEF Attempts
<1>2. 0 \in Done
  BY <1>1
<1>3. ASSUME NEW i \in 1 .. len, i - 1 \in Done PROVE i \in Done
  <2> DEFINE before == at[i - 1].map
  <2>1. i - 1 \in 0 .. len /\ i \in 0 .. len
    BY <1>1
  <2>2. before \in Maps
    BY <1>1, <2>1 DEF Attempts
  <2>3. at[i] = CellsStep(cells, i, at[i - 1])
    BY CellsLoop
  <2>4. at[i].map = Merge(before, cell(i))
    BY <2>3, CellsStepParts
  <2>5. at[i].ok => at[i - 1].ok /\ CellMap(cells[i]).ok /\ ~MergeCollides(before, cell(i))
    <3>1. CellsStep(cells, i, at[i - 1]).ok
             => at[i - 1].ok /\ CellMap(cells[i]).ok /\ ~MergeCollides(before, cell(i))
      BY CellsStepParts, Zenon
    <3>2. QED
      BY <2>3, <3>1, Zenon
  <2>6. at[i - 1].ok => \A n \in 1 .. i - 1 : CellMap(cells[n]).ok /\ Agrees(before, n)
    BY <1>3
  <2> HIDE DEF before, at, Agrees
  <2>7. ASSUME at[i].ok, NEW n \in 1 .. i PROVE CellMap(cells[n]).ok /\ Agrees(at[i].map, n)
    <3>1. cell(i) \in Maps /\ cell(n) \in Maps
      BY <1>1
    <3>2. ASSUME NEW k \in Keys
          PROVE  /\ Covers(Join(before[k], cell(i)[k]), cell(n)[k])
                 /\ ~Collide(Join(before[k], cell(i)[k]), cell(n)[k])
      <4> DEFINE b == before[k]  c == cell(i)[k]  d == cell(n)[k]
      <4>1. b \in Slots /\ c \in Slots /\ d \in Slots
        BY <2>2, <3>1, SlotType
      <4>2. ~Collide(b, c)
        BY <2>5, <2>7 DEF MergeCollides
      <4>3. n # i => Covers(b, d) /\ ~Collide(b, d)
        <5>1. n # i => n \in 1 .. i - 1
          OBVIOUS
        <5>2. QED
          BY <2>5, <2>6, <2>7, <5>1 DEF Agrees
      <4> HIDE DEF b, c, d
      <4>4. CASE n = i
        <5>1. d = c
          BY <4>4 DEF c, d
        <5>2. Covers(c, c) /\ ~Collide(c, c)
          BY <4>1, CoversTotal DEF Collide
        <5>3. QED
          BY <4>2, <5>1, <5>2 DEF Join, b, c, d
      <4>5. CASE n # i /\ Covers(b, c)
        BY <4>3, <4>5 DEF Join, b, c, d
      <4>6. CASE n # i /\ ~Covers(b, c)
        <5>1. Join(b, c) = c /\ Covers(c, b)
          BY <4>1, <4>6, CoversTotal DEF Join
        <5>2. Covers(c, d) /\ ~Covers(d, c)
          BY <4>1, <4>3, <4>6, <5>1, CoversTransitive
        <5>3. ~Collide(c, d)
          BY <4>1, <5>2, SameStampTied DEF Collide
        <5>4. QED
          BY <5>1, <5>2, <5>3 DEF b, c, d
      <4>7. QED
        BY <4>4, <4>5, <4>6
    <3>3. Agrees(at[i].map, n)
      BY <2>4, <3>2 DEF Agrees, Merge
    <3>4. n = i \/ n \in 1 .. i - 1
      OBVIOUS
    <3>5. QED
      BY <2>5, <2>6, <2>7, <3>3, <3>4
  <2>8. QED
    BY <2>1, <2>7
<1>4. len \in Done
  <2> HIDE DEF Done, len
  <2>1. \A i \in 0 .. len : i \in Done
    BY <1>1, <1>2, <1>3, Induction
  <2>2. QED
    BY <1>1, <2>1
<1>5. QED
  BY <1>4 DEF MergeCells, MapCovers, MergeCollides

\* A map that the cells of a request agree with takes them and stays as it is.
LEMMA CellsAgain ==
    ASSUME NEW cells \in Seq(Cells), NEW m \in Maps,
           \A n \in 1 .. Len(cells) : /\ CellMap(cells[n]).ok
                                     /\ MapCovers(m, CellMap(cells[n]).map)
                                     /\ ~MergeCollides(m, CellMap(cells[n]).map)
    PROVE  MergeCells(cells, m).ok
<1> DEFINE len == Len(cells)
           at == MergedCells(cells, m)
           Done == {n \in 0 .. len : at[n].ok /\ at[n].map = m}
<1>1. len \in Nat
  OBVIOUS
<1>2. 0 \in Done
  <2>1. at[0] = Attempted(TRUE, m)
    BY CellsLoop
  <2>2. QED
    BY <1>1, <2>1 DEF Attempted
<1>3. ASSUME NEW n \in 1 .. len, n - 1 \in Done PROVE n \in Done
  <2> DEFINE cell == CellMap(cells[n]).map
  <2>1. at[n] = CellsStep(cells, n, at[n - 1])
    BY CellsLoop
  <2>2. at[n - 1].ok /\ at[n - 1].map = m
    BY <1>3
  <2>3. Merge(m, cell) = m
    <3>1. \A k \in Keys : Join(m[k], cell[k]) = m[k]
      BY DEF MapCovers, Join
    <3>2. QED
      BY <3>1 DEF Merge, Maps
  <2>4. CellsStep(cells, n, at[n - 1]).ok /\ CellsStep(cells, n, at[n - 1]).map = m
    BY <2>2, <2>3, CellsStepParts
  <2>5. QED
    BY <1>1, <2>1, <2>4
<1>4. len \in Done
  <2> HIDE DEF Done, len
  <2>1. \A n \in 0 .. len : n \in Done
    BY <1>1, <1>2, <1>3, Induction
  <2>2. QED
    BY <1>1, <2>1
<1>5. QED
  BY <1>4 DEF MergeCells

\* A request that was merged is merged again without a contradiction.
LEMMA MergedAgain ==
    ASSUME ~AddWins, NEW r \in AllRequests, NEW m \in Maps, Merged(r, m).ok
    PROVE  Merged(r, After(r, m)).ok
<1>1. CASE r.kind = "reconcile" /\ r.cells \in Seq(Cells)
  <2>1. MergeCells(r.cells, m).ok /\ After(r, m) = MergeCells(r.cells, m).map
    BY <1>1, AfterType DEF Merged
  <2>2. After(r, m) \in Maps
    BY AfterType
  <2>3. MergeCells(r.cells, After(r, m)).ok
    BY <1>1, <2>1, <2>2, CellsAgree, CellsAgain
  <2>4. QED
    BY <1>1, <2>3 DEF Merged
<1>2. CASE r.kind = "merge" /\ r.entries \in Seq(StampedEntries)
  <2> DEFINE remote == EntryMap(r.entries)
  <2>1. remote.map \in Maps
    BY <1>2, EntryMapType DEF Listings
  <2>2. \A o : Merged(r, o).ok <=> remote.ok /\ ~MergeCollides(o, remote.map)
    BY <1>2, Zenon DEF Merged, MergeEntries, Attempted
  <2>3. After(r, m) = Merge(m, remote.map)
    BY <1>2, AfterType DEF Merged, MergeEntries, Attempted
  <2>4. ~MergeCollides(m, remote.map) /\ remote.ok
    BY <2>2, Zenon
  <2>5. ~MergeCollides(Merge(m, remote.map), remote.map)
    BY <2>4 DEF MergeCollides, Merge, Join, Collide
  <2>6. QED
    BY <2>2, <2>3, <2>4, <2>5
<1>3. QED
  BY <1>1, <1>2, RequestType

\* Without add-wins the generation of a key never falls.
LEMMA GenerationsGrow ==
    ASSUME ~AddWins, NEW m \in Maps, NEW o \in Maps, MapCovers(o, m), NEW k \in Keys
    PROVE  GenerationOf(m, k) <= GenerationOf(o, k)
<1>1. m[k] \in Slots /\ o[k] \in Slots /\ Covers(o[k], m[k])
  BY SlotType DEF MapCovers
<1>2. CASE m[k] = NoEntry
  BY <1>1, <1>2, StampType DEF GenerationOf, Slots
<1>3. CASE m[k] # NoEntry
  <2>1. m[k] \in Entries /\ o[k] \in Entries /\ ~RankLess(Rank(o[k]), Rank(m[k]))
    BY <1>1, <1>3 DEF Covers, Slots
  <2>2. ~(Rank(o[k])[1] < Rank(m[k])[1])
    BY <2>1 DEF RankLess
  <2>3. QED
    BY <1>3, <2>1, <2>2, StampType, MapAssumption DEF Rank, GenerationOf
<1>4. QED
  BY <1>2, <1>3

\* A request that was accepted and is delivered again leaves the map as it is.
THEOREM RetryChangesNothing ==
    ASSUME NEW r \in AllRequests, NEW m \in Maps
    PROVE  After(r, After(r, m)) = After(r, m)
<1> DEFINE R == After(r, Empty)
<1>1. R \in Maps /\ After(r, m) \in Maps
  BY EmptyType, AfterType
<1>2. After(r, m) = Merge(m, R) /\ After(r, After(r, m)) = Merge(After(r, m), R)
  BY <1>1, RequestIsOneMap
<1> HIDE DEF R
<1>3. QED
  BY <1>1, <1>2, MergeTwice

\* And without add-wins it is accepted again, unless the newest time fell: then
\* what was within the limit on time may no longer be.
THEOREM RetryAccepted ==
    ASSUME ~AddWins, NEW r \in AllRequests, NEW m \in Maps, Accepts(r, m),
           MaxTime(m) <= MaxTime(After(r, m))
    PROVE  Accepts(r, After(r, m))
<1> DEFINE after == After(r, m)
<1>1. PassesChecks(r, m) /\ Merged(r, m).ok /\ ~ClockOverflows(Merged(r, m).map)
  BY AcceptedParts
<1>2. after \in Maps /\ after = Merged(r, m).map /\ Merged(r, after).map = after
  BY AfterType, RetryChangesNothing
<1>3. Merged(r, after).ok
  BY <1>1, MergedAgain
<1>4. TimeLimit(m) <= TimeLimit(after) /\ TimeLimit(m) \in Int /\ TimeLimit(after) \in Int
  <2>1. /\ MaxTime(m) \in 0 .. MaxU64 /\ MaxTime(after) \in 0 .. MaxU64
        /\ MaxTimeJump \in Nat /\ MaxU64 \in Nat
    BY <1>2, MaxTimeIsNewest, MapAssumption, RequestAssumption DEF U64
  <2> HIDE DEF after
  <2>2. MaxTime(m) <= MaxTime(after)
    BY DEF after
  <2>3. QED
    BY <2>1, <2>2 DEF TimeLimit, SaturatingAdd
<1>5. MapCovers(after, m)
  <2>1. After(r, Empty) \in Maps /\ after = Merge(m, After(r, Empty))
    BY EmptyType, AfterType, RequestIsOneMap
  <2>2. QED
    BY <2>1, MergeIsLeastUpperBound
<1>6. PassesChecks(r, after)
  <2> HIDE DEF after
  <2>1. CASE r.kind = "reconcile" /\ r.cells \in Seq(Cells)
    <3>1. /\ CheckWrites(r.cells) /\ r.cells # << >>
          /\ \A i \in DOMAIN r.cells : \A j \in DOMAIN r.cells[i].writes :
                 r.cells[i].writes[j].time <= TimeLimit(m)
      BY <1>1, <2>1 DEF PassesChecks, NothingToDo, CheckStamps
    <3>2. \A i \in DOMAIN r.cells : \A j \in DOMAIN r.cells[i].writes :
                 r.cells[i].writes[j].time \in Nat
      <4> SUFFICES ASSUME NEW i \in DOMAIN r.cells, NEW j \in DOMAIN r.cells[i].writes
                   PROVE  r.cells[i].writes[j].time \in Nat
        OBVIOUS
      <4>1. r.cells[i] \in Cells
        BY <2>1
      <4>2. r.cells[i].writes[j] \in Writes
        BY <4>1 DEF Cells
      <4>3. QED
        BY <4>2, MapAssumption DEF Writes, U64
    <3>3. CheckStamps(r.cells, after)
      BY <1>4, <3>1, <3>2 DEF CheckStamps
    <3>4. QED
      BY <2>1, <3>1, <3>3 DEF PassesChecks, NothingToDo
  <2>2. CASE r.kind = "merge" /\ r.entries \in Seq(StampedEntries)
    <3>1. /\ r.entries # << >> /\ Len(r.entries) <= MaxEntries
          /\ \A i \in DOMAIN r.entries : CheckEntry(r.entries[i].key, r.entries[i].entry, m)
      BY <1>1, <2>2 DEF PassesChecks, NothingToDo, CheckEntries
    <3>2. ASSUME NEW i \in DOMAIN r.entries
          PROVE  CheckEntry(r.entries[i].key, r.entries[i].entry, after)
      <4> DEFINE k == r.entries[i].key
                 e == r.entries[i].entry
      <4>1. k \in Keys /\ e \in Entries /\ CheckEntry(k, e, m)
        <5>1. r.entries[i] \in StampedEntries
          BY <2>2
        <5>2. QED
          BY <5>1, <3>1 DEF StampedEntries
      <4> HIDE DEF k, e
      <4>2. e.time \in Nat /\ e.generation \in Nat
        BY <4>1, StampType
      <4>3. GenerationOf(m, k) <= GenerationOf(after, k)
        BY <1>2, <1>5, <4>1, GenerationsGrow
      <4>4. GenerationOf(m, k) \in Nat /\ GenerationOf(after, k) \in Nat
        BY <1>2, <4>1, SlotType, StampType DEF GenerationOf, Slots
      <4>5. MaxGenerationJump \in Nat /\ MaxU64 \in Nat
        BY MapAssumption, RequestAssumption
      <4>6. e.time <= TimeLimit(after)
        BY <1>4, <4>1, <4>2 DEF CheckEntry
      <4>7. e.generation <= SaturatingAdd(GenerationOf(after, k), MaxGenerationJump)
        BY <4>1, <4>2, <4>3, <4>4, <4>5 DEF CheckEntry, SaturatingAdd
      <4>8. QED
        BY <4>1, <4>6, <4>7 DEF CheckEntry, k, e
    <3>3. QED
      BY <2>2, <3>1, <3>2 DEF PassesChecks, NothingToDo, CheckEntries
  <2>3. QED
    BY <2>1, <2>2, RequestType
<1>7. QED
  BY <1>1, <1>2, <1>3, <1>6, Zenon DEF Accepts, Handle, Attempted

-----------------------------------------------------------------------------
(* The full state of a node as a request. *)

\* Walking a finite set of naturals in order meets each of them once.
LEMMA InOrderVisits ==
    ASSUME NEW keys, keys \subseteq Nat, IsFiniteSet(keys)
    PROVE  /\ Cardinality(keys) \in Nat
           /\ InOrder(keys) \in Bijection(1 .. Cardinality(keys), keys)
<1> DEFINE n == Cardinality(keys)
           upto(k) == {j \in keys : j <= k}
           rank == [k \in keys |-> Cardinality(upto(k))]
<1>1. n \in Nat
  BY FS_CardinalityType
<1>2. \A k \in keys : IsFiniteSet(upto(k)) /\ upto(k) \in SUBSET keys /\ k \in upto(k)
  <2>1. \A k \in keys : upto(k) \in SUBSET keys /\ k \in upto(k)
    OBVIOUS
  <2> HIDE DEF upto
  <2>2. QED
    BY <2>1, FS_Subset
<1>3. rank \in [keys -> 1 .. n]
  <2> SUFFICES ASSUME NEW k \in keys PROVE Cardinality(upto(k)) \in 1 .. n
    OBVIOUS
  <2>1. IsFiniteSet(upto(k)) /\ upto(k) \in SUBSET keys /\ upto(k) # {}
    BY <1>2
  <2> HIDE DEF upto
  <2>2. Cardinality(upto(k)) \in Nat /\ Cardinality(upto(k)) <= n /\ Cardinality(upto(k)) # 0
    BY <2>1, FS_Subset, FS_CardinalityType, FS_EmptySet
  <2>3. QED
    BY <1>1, <2>2
<1>4. \A k, l \in keys : k < l => rank[k] # rank[l]
  <2> SUFFICES ASSUME NEW k \in keys, NEW l \in keys, k < l PROVE rank[k] # rank[l]
    OBVIOUS
  <2>1. upto(k) \in SUBSET upto(l) /\ l \notin upto(k) /\ l \in upto(l) /\ IsFiniteSet(upto(l))
    <3>1. \A j \in keys : j <= k => j <= l
      OBVIOUS
    <3>2. ~(l <= k)
      OBVIOUS
    <3>3. upto(k) \in SUBSET upto(l) /\ l \notin upto(k)
      BY <3>1, <3>2
    <3>4. QED
      BY <1>2, <3>3
  <2> HIDE DEF upto
  <2>2. Cardinality(upto(l)) # Cardinality(upto(k))
    BY <2>1, FS_Subset
  <2>3. QED
    BY <2>2
<1> HIDE DEF rank
<1>5. \A k, l \in keys : rank[k] = rank[l] => k = l
  <2>1. \A k, l \in keys : k < l \/ l < k \/ k = l
    OBVIOUS
  <2>2. QED
    BY <1>4, <2>1
<1>6. rank \in Surjection(keys, 1 .. n)
  <2>1. IsFiniteSet(1 .. n) /\ Cardinality(1 .. n) = n
    BY <1>1, FS_Interval
  <2>2. rank \in Injection(keys, 1 .. n)
    BY <1>3, <1>5 DEF Injection, IsInjective
  <2>3. QED
    BY <2>1, <2>2, FS_Injection
<1>7. \A i \in 1 .. n : InOrder(keys)[i] \in keys /\ rank[InOrder(keys)[i]] = i
  <2> SUFFICES ASSUME NEW i \in 1 .. n
               PROVE  InOrder(keys)[i] \in keys /\ rank[InOrder(keys)[i]] = i
    OBVIOUS
  <2>1. \E k \in keys : Cardinality(upto(k)) = i
    BY <1>6 DEF Surjection, rank
  <2>2. InOrder(keys)[i] = CHOOSE k \in keys : Cardinality(upto(k)) = i
    BY DEF InOrder
  <2>3. InOrder(keys)[i] \in keys /\ Cardinality(upto(InOrder(keys)[i])) = i
    BY <2>1, <2>2
  <2>4. QED
    BY <2>3 DEF rank
<1>8. InOrder(keys) \in [1 .. n -> keys]
  BY <1>7 DEF InOrder
<1>9. \A i, j \in 1 .. n : InOrder(keys)[i] = InOrder(keys)[j] => i = j
  BY <1>7
<1>10. \A k \in keys : \E i \in 1 .. n : InOrder(keys)[i] = k
  <2> SUFFICES ASSUME NEW k \in keys PROVE \E i \in 1 .. n : InOrder(keys)[i] = k
    OBVIOUS
  <2>1. rank[k] \in 1 .. n
    BY <1>3
  <2>2. InOrder(keys)[rank[k]] = k
    BY <1>5, <1>7, <2>1
  <2>3. QED
    BY <2>1, <2>2
<1>11. QED
  BY <1>1, <1>8, <1>9, <1>10 DEF Bijection, Injection, IsInjective, Surjection

\* The entries of a map, as GET /state lists them, stand for that map.
LEMMA StateEntriesStandForMap ==
    ASSUME NEW o \in Maps
    PROVE  /\ Cardinality(Held(o)) \in Nat
           /\ StateEntries(o) \in Seq(StampedEntries)
           /\ Len(StateEntries(o)) = Cardinality(Held(o))
           /\ InOrder(Held(o)) \in Bijection(1 .. Cardinality(Held(o)), Held(o))
           /\ EntryMap(StateEntries(o)) = [ok |-> TRUE, map |-> o, seen |-> o]
<1> DEFINE len == Cardinality(Held(o))
           order == InOrder(Held(o))
           entries == StateEntries(o)
           at == EntryMaps(entries)
           Sent(n) == [k \in Keys |-> IF \E i \in 1 .. n : order[i] = k THEN o[k] ELSE NoEntry]
           Sends(n) == at[n] = [ok |-> TRUE, map |-> Sent(n), seen |-> Sent(n)]
           Done == {n \in 0 .. len : Sends(n)}
<1>1. /\ len \in Nat
      /\ order \in Bijection(1 .. len, Held(o))
  <2>1. Held(o) \subseteq Nat /\ IsFiniteSet(Held(o))
    BY MapAssumption, FS_Subset DEF Held
  <2>2. QED
    BY <2>1, InOrderVisits
<1>2. /\ order \in [1 .. len -> Held(o)]
      /\ \A i, j \in 1 .. len : order[i] = order[j] => i = j
      /\ \A k \in Held(o) : \E i \in 1 .. len : order[i] = k
  BY <1>1 DEF Bijection, Injection, IsInjective, Surjection
<1>3. \A i \in 1 .. len : order[i] \in Keys /\ o[order[i]] \in Entries /\ o[order[i]] # NoEntry
  BY <1>2, SlotType DEF Held, Slots
<1>4. entries = [i \in 1 .. len |-> [key |-> order[i], entry |-> o[order[i]]]]
  BY DEF StateEntries, EntriesOf
<1>5. entries \in Seq(StampedEntries) /\ Len(entries) = len
  <2> HIDE DEF entries, len, order
  <2>1. entries \in [1 .. len -> StampedEntries]
    BY <1>3, <1>4 DEF StampedEntries
  <2>2. QED
    BY <1>1, <2>1, IsASeq, LenProperties
<1>6. /\ at[0] = [ok |-> TRUE, map |-> Empty, seen |-> Empty]
      /\ \A n \in 1 .. len : at[n] = EntryStep(entries, n, at[n - 1])
  <2> HIDE DEF entries
  <2>1. QED
    BY <1>5, EntryLoop
<1> HIDE DEF len, order, entries
<1>7. 0 \in Done
  <2>1. Sent(0) = Empty
    BY DEF Empty
  <2>2. Sends(0)
    BY <1>6, <2>1
  <2> HIDE DEF Sends
  <2>3. QED
    BY <1>1, <2>2
<1>8. ASSUME NEW n \in 1 .. len, n - 1 \in Done PROVE n \in Done
  <2> DEFINE k == order[n]
  <2>1. at[n - 1] = [ok |-> TRUE, map |-> Sent(n - 1), seen |-> Sent(n - 1)]
    BY <1>8
  <2>2. at[n] = EntryStep(entries, n, at[n - 1]) /\ k \in Keys
    BY <1>3, <1>6
  <2>3. entries[n].key = k /\ entries[n].entry = o[k]
    BY <1>4
  <2>4. ~\E i \in 1 .. n - 1 : order[i] = k
    BY <1>1, <1>2
  <2>5. Sent(n - 1)[k] = NoEntry
    BY <2>2, <2>4
  <2>6. Sent(n) = [Sent(n - 1) EXCEPT ![k] = o[k]]
    <3>1. \A j \in Keys : (\E i \in 1 .. n : order[i] = j) <=>
                              (j = k \/ \E i \in 1 .. n - 1 : order[i] = j)
      BY <1>1
    <3>2. QED
      BY <2>2, <3>1
  <2> HIDE DEF Sent
  <2>7. ~EntryCollides(Sent(n - 1), entries[n])
    BY <2>3, <2>5 DEF EntryCollides, Collide, SameStamp
  <2>8. RestoreEntry(Sent(n - 1), k, o[k]) = [Sent(n - 1) EXCEPT ![k] = o[k]]
    <3>1. Join(NoEntry, o[k]) = o[k]
      BY DEF Join, Covers
    <3>2. QED
      BY <2>5, <3>1 DEF RestoreEntry
  <2>9. Sends(n)
    <3> HIDE DEF k, at
    <3>1. at[n - 1].ok /\ at[n - 1].map = Sent(n - 1) /\ at[n - 1].seen = Sent(n - 1)
      BY <2>1
    <3>2. EntryStep(entries, n, at[n - 1]) =
              [ok   |-> ~EntryCollides(Sent(n - 1), entries[n]),
               map  |-> RestoreEntry(Sent(n - 1), k, o[k]),
               seen |-> [Sent(n - 1) EXCEPT ![k] = o[k]]]
      BY <2>3, <3>1 DEF EntryStep
    <3>3. QED
      BY <2>2, <2>6, <2>7, <2>8, <3>2
  <2> HIDE DEF Sends
  <2>10. QED
    BY <1>1, <2>9
<1>9. Sends(len)
  <2> HIDE DEF Done
  <2>1. \A n \in 0 .. len : n \in Done
    BY <1>1, <1>7, <1>8, Induction
  <2>2. len \in Done
    BY <1>1, <2>1
  <2>3. QED
    BY <2>2 DEF Done
<1>10. Sent(len) = o
  <2>1. \A k \in Keys : IF \E i \in 1 .. len : order[i] = k THEN TRUE ELSE o[k] = NoEntry
    BY <1>2 DEF Held
  <2>2. Sent(len) = [k \in Keys |-> o[k]]
    BY <2>1
  <2>3. QED
    BY <2>2 DEF Maps
<1>11. EntryMap(entries) = [ok |-> TRUE, map |-> o, seen |-> o]
  <2> HIDE DEF Sent
  <2> QED
    BY <1>5, <1>9, <1>10 DEF EntryMap
<1>12. QED
  BY <1>1, <1>5, <1>11 DEF len, order, entries

\* A node that is sent the full state of another, tombstones and stamps included,
\* takes it exactly when its checks would take that map, and merges that map.
THEOREM FullState ==
    ASSUME NEW m \in Maps, NEW o \in Maps
    PROVE  /\ StateRequest(o) \in AllRequests
           /\ Accepts(StateRequest(o), m) <=> AcceptsState(o, m)
           /\ After(StateRequest(o), m) = Merge(m, o)
<1> DEFINE len == Cardinality(Held(o))
           order == InOrder(Held(o))
           entries == StateEntries(o)
           r == StateRequest(o)
<1>1. /\ len \in Nat
      /\ entries \in Seq(StampedEntries) /\ Len(entries) = len
      /\ EntryMap(entries) = [ok |-> TRUE, map |-> o, seen |-> o]
  BY StateEntriesStandForMap
<1>2. /\ order \in [1 .. len -> Held(o)]
      /\ \A k \in Held(o) : \E i \in 1 .. len : order[i] = k
  BY StateEntriesStandForMap DEF Bijection, Injection, Surjection
<1>3. r.kind = "merge" /\ r.entries = entries /\ r \in AllRequests
  BY <1>1 DEF StateRequest, AllRequests
<1>4. Merged(r, m) = Attempted(~MergeCollides(m, o), Merge(m, o))
  BY <1>1, <1>3 DEF Merged, MergeEntries
<1>5. After(r, m) = Merge(m, o)
  BY <1>3, <1>4, AfterType DEF Attempted
<1>6. NothingToDo(r) <=> Held(o) = {}
  <2>1. entries = << >> <=> len = 0
    <3> HIDE DEF entries
    <3> QED
      BY <1>1, EmptySeq
  <2>2. len = 0 <=> Held(o) = {}
    <3>1. IsFiniteSet(Held(o))
      BY MapAssumption, FS_Subset DEF Held
    <3>2. QED
      BY <3>1, FS_EmptySet
  <2>3. QED
    BY <1>3, <2>1, <2>2 DEF NothingToDo
<1>7. CheckEntries(entries, m) <=>
          len <= MaxEntries /\ \A k \in Held(o) : CheckEntry(k, o[k], m)
  <2>1. DOMAIN entries = 1 .. len
    BY <1>1
  <2>2. \A i \in 1 .. len : entries[i].key = order[i] /\ entries[i].entry = o[order[i]]
    BY DEF StateEntries, EntriesOf
  <2> HIDE DEF len, order, entries
  <2>3. (\A i \in 1 .. len : CheckEntry(entries[i].key, entries[i].entry, m))
            <=> (\A i \in 1 .. len : CheckEntry(order[i], o[order[i]], m))
    BY <2>2
  <2>4. (\A i \in 1 .. len : CheckEntry(order[i], o[order[i]], m))
            <=> (\A k \in Held(o) : CheckEntry(k, o[k], m))
    BY <1>2
  <2>5. QED
    BY <1>1, <2>1, <2>3, <2>4 DEF CheckEntries
<1>8. Accepts(r, m) = /\ PassesChecks(r, m) /\ Merged(r, m).ok
                      /\ ~ClockOverflows(Merged(r, m).map)
  BY Zenon DEF Accepts, Handle, Attempted
<1>9. Accepts(r, m) = /\ PassesChecks(r, m) /\ ~MergeCollides(m, o)
                      /\ ~ClockOverflows(Merge(m, o))
  <2>1. Merged(r, m).ok = ~MergeCollides(m, o) /\ Merged(r, m).map = Merge(m, o)
    <3>1. \A p, q : Attempted(p, q).ok = p /\ Attempted(p, q).map = q
      BY Zenon DEF Attempted
    <3>2. Attempted(~MergeCollides(m, o), Merge(m, o)).ok = ~MergeCollides(m, o)
      BY <3>1
    <3>3. Attempted(~MergeCollides(m, o), Merge(m, o)).map = Merge(m, o)
      BY <3>1
    <3>4. QED
      BY <1>4, <3>2, <3>3, Zenon
  <2>2. QED
    BY <1>8, <2>1, Zenon
<1>10. PassesChecks(r, m) <=> Held(o) # {} /\ CheckEntries(entries, m)
  BY <1>3, <1>6 DEF PassesChecks
<1>11. Accepts(r, m) <=> AcceptsState(o, m)
  <2> HIDE DEF entries
  <2>1. AcceptsState(o, m) <=> /\ Held(o) # {} /\ len <= MaxEntries
                               /\ \A k \in Held(o) : CheckEntry(k, o[k], m)
                               /\ ~MergeCollides(m, o)
                               /\ ~ClockOverflows(Merge(m, o))
    BY DEF AcceptsState
  <2>2. QED
    BY <1>7, <1>9, <1>10, <2>1, Zenon
<1>12. QED
  BY <1>3, <1>5, <1>11

-----------------------------------------------------------------------------
(* Writes in the order of their times. *)

\* The generation of an entry cannot pass its time: it grew once for each write.
Grown(e) == e \in Entries /\ e.generation \in 1 .. e.time + 1

\* What is left of a key by a write newer than what was held of it: the value
\* written, unless the generation would have wrapped.
LeftBy(e, w) ==
    Grown(e) /\ e.time <= w.time /\ (e.time + 2 <= MaxU64 => e.value = w.value)

LEMMA WriteOverOlder ==
    ASSUME NEW m \in Maps, NEW writer \in Writers, NEW w \in Writes, w.generation = Unstated,
           m[w.key] = NoEntry \/ (Grown(m[w.key]) /\ m[w.key].time < w.time)
    PROVE  /\ LeftBy(ApplyWrite(m, writer, w)[w.key], w)
           /\ \A j \in Keys \ {w.key} : ApplyWrite(m, writer, w)[j] = m[j]
<1> DEFINE k == w.key
           old == m[k]
           new == NewEntry(m, k, w.value, w.time, writer)
           after == ApplyWrite(m, writer, w)
<1>1. /\ k \in Keys /\ w.value \in Contents /\ w.time \in U64
      /\ MaxU64 \in Nat /\ MaxU64 > 1
  BY MapAssumption DEF Writes
<1>2. /\ new \in Entries /\ new.value = w.value /\ new.time = w.time
      /\ new.generation = NextGeneration(m, k, w.value # Tombstone)
  BY <1>1, NewEntryType DEF NewEntry
<1>3. IsTombstone(new) <=> w.value = Tombstone
  BY <1>2 DEF IsTombstone
<1>4. after = m \/ after = [m EXCEPT ![k] = new]
  BY WriteOutcome
<1>5. \A j \in Keys \ {k} : after[j] = m[j]
  BY <1>1, <1>4 DEF Maps
<1>6. w.time \in 0 .. MaxU64
  BY <1>1 DEF U64
<1>7. CASE old = NoEntry
  <2>1. new.generation = 1
    BY <1>2, <1>7, Zenon DEF NextGeneration
  <2>2. after = [m EXCEPT ![k] = new]
    <3>1. CASE w.value = Tombstone
      BY <1>7, <3>1 DEF ApplyWrite, RemoveEntry, RestoreEntry, Join, Covers,
                            NewEntry
    <3>2. CASE w.value # Tombstone
      <4>1. after = SetChecked(m, k, w.value, w.time, writer)
        BY <3>2 DEF ApplyWrite
      <4>2. QED
        BY <1>7, <4>1, Zenon DEF SetChecked
    <3>3. QED
      BY <3>1, <3>2
  <2>3. after[k] = new
    BY <1>1, <2>2 DEF Maps
  <2>4. LeftBy(new, w)
    <3> HIDE DEF new
    <3>1. QED
      BY <1>2, <1>6, <2>1 DEF LeftBy, Grown
  <2>5. QED
    BY <1>5, <2>3, <2>4
<1>8. CASE old # NoEntry
  <2>1. /\ old \in Entries /\ old.generation \in 1 .. old.time + 1 /\ old.time < w.time
        /\ old.generation \in 0 .. MaxU64 /\ old.time \in 0 .. MaxU64
    BY <1>8 DEF Grown, Entries, U64
  <2>2. /\ (IsTombstone(old) <=> IsTombstone(new)) => new.generation = old.generation
        /\ ~(IsTombstone(old) <=> IsTombstone(new))
               => new.generation = (old.generation + 1) % (MaxU64 + 1)
    <3>1. (w.value # Tombstone) \in BOOLEAN /\ IsTombstone(old) \in BOOLEAN
      BY DEF IsTombstone
    <3>2. /\ (IsTombstone(old) # (w.value # Tombstone)) => new.generation = old.generation
          /\ ~(IsTombstone(old) # (w.value # Tombstone))
                 => new.generation = (old.generation + 1) % (MaxU64 + 1)
      BY <1>2, <1>8, Zenon DEF NextGeneration
    <3>3. QED
      BY <1>3, <3>1, <3>2
  <2>3. CASE new.generation = 0
    <3>1. RankLess(Rank(new), Rank(old))
      BY <1>1, <2>1, <2>3, WrapLoses
    <3>2. old.generation = MaxU64
      <4>1. old.generation = new.generation
               \/ new.generation = (old.generation + 1) % (MaxU64 + 1)
        BY <2>2
      <4> HIDE DEF old, new
      <4>2. QED
        BY <1>1, <2>1, <2>3, <4>1
    <3>3. old.time + 2 > MaxU64
      BY <1>1, <2>1, <3>2
    <3>4. after = m
      <4>1. CASE w.value = Tombstone
        <5>1. Covers(old, new)
          <6>1. Rank(old) \in Ranks /\ Rank(new) \in Ranks
            BY <1>2, <2>1, RankType
          <6>2. ~RankLess(Rank(old), Rank(new))
            BY <3>1, <6>1, RankOrder
          <6>3. QED
            BY <1>8, <6>2 DEF Covers
        <5>2. after = [m EXCEPT ![k] = Join(old, new)]
          BY <4>1 DEF ApplyWrite, RemoveEntry, RestoreEntry
        <5>3. QED
          BY <1>1, <5>1, <5>2 DEF Join, Maps
      <4>2. CASE w.value # Tombstone
        <5>1. after = SetChecked(m, k, w.value, w.time, writer)
          BY <4>2 DEF ApplyWrite
        <5>2. QED
          BY <1>8, <3>1, <5>1, Zenon DEF SetChecked
      <4>3. QED
        BY <4>1, <4>2
    <3>5. LeftBy(old, w)
      <4> HIDE DEF old
      <4> QED
        BY <1>1, <1>6, <2>1, <3>3 DEF LeftBy, Grown
    <3>6. QED
      BY <1>5, <3>4, <3>5
  <2>4. CASE new.generation # 0
    <3>1. new.generation = old.generation + 1 \/
              (new.generation = old.generation /\ (IsTombstone(old) <=> IsTombstone(new)))
      <4>1. CASE IsTombstone(old) <=> IsTombstone(new)
        BY <2>2, <4>1
      <4>2. CASE ~(IsTombstone(old) <=> IsTombstone(new))
        <5>1. new.generation = (old.generation + 1) % (MaxU64 + 1)
          BY <2>2, <4>2
        <5> HIDE DEF old, new
        <5>2. QED
          BY <1>1, <2>1, <2>4, <5>1
      <4>3. QED
        BY <4>1, <4>2
    <3>2. Grown(new)
      <4> HIDE DEF old, new
      <4> QED
        BY <1>2, <1>6, <2>1, <3>1 DEF Grown
    <3>3. RankLess(Rank(old), Rank(new)) /\ ~RankLess(Rank(new), Rank(old))
      <4>1. CASE ~AddWins
        <5>1. /\ Rank(old) = <<old.generation, old.time, old.writer, 0>>
              /\ Rank(new) = <<new.generation, new.time, new.writer, 0>>
          BY <4>1 DEF Rank
        <5> HIDE DEF old, new
        <5>2. QED
          BY <1>2, <1>6, <2>1, <3>1, <5>1 DEF RankLess
      <4>2. CASE AddWins
        <5>1. \A e : e.generation # 0 =>
                  Rank(e) = IF IsTombstone(e) THEN <<e.generation - 1, e.time, e.writer, 0>>
                            ELSE <<e.generation, e.time, e.writer, 1>>
          BY <4>2 DEF Rank
        <5>2. old.generation # 0
          BY <2>1
        <5> HIDE DEF old, new
        <5>3. CASE IsTombstone(old) <=> IsTombstone(new)
          <6>1. CASE IsTombstone(new)
            BY <1>2, <1>6, <2>1, <2>4, <3>1, <5>1, <5>2, <5>3, <6>1 DEF RankLess
          <6>2. CASE ~IsTombstone(new)
            BY <1>2, <1>6, <2>1, <2>4, <3>1, <5>1, <5>2, <5>3, <6>2 DEF RankLess
          <6>3. QED
            BY <6>1, <6>2
        <5>4. CASE ~(IsTombstone(old) <=> IsTombstone(new))
          <6>1. new.generation = old.generation + 1
            BY <3>1, <5>4
          <6>2. CASE IsTombstone(new)
            BY <1>2, <1>6, <2>1, <2>4, <6>1, <5>1, <5>2, <5>4, <6>2 DEF RankLess
          <6>3. CASE ~IsTombstone(new)
            BY <1>2, <1>6, <2>1, <2>4, <6>1, <5>1, <5>2, <5>4, <6>3 DEF RankLess
          <6>4. QED
            BY <6>2, <6>3
        <5>5. QED
          BY <5>3, <5>4
      <4>3. QED
        BY <4>1, <4>2
    <3>4. after = [m EXCEPT ![k] = new]
      <4>1. CASE w.value = Tombstone
        <5>1. ~Covers(old, new)
          <6>1. new # NoEntry
            BY <1>2, MapAssumption
          <6>2. QED
            BY <3>3, <6>1 DEF Covers
        <5>2. after = [m EXCEPT ![k] = Join(old, new)]
          BY <4>1 DEF ApplyWrite, RemoveEntry, RestoreEntry
        <5>3. QED
          BY <5>1, <5>2 DEF Join
      <4>2. CASE w.value # Tombstone
        <5>1. after = SetChecked(m, k, w.value, w.time, writer)
          BY <4>2 DEF ApplyWrite
        <5>2. ~SameStamp(old, new)
          <6> HIDE DEF old, new
          <6> QED
            BY <1>2, <1>6, <2>1 DEF SameStamp, Stamp
        <5>3. QED
          BY <3>3, <5>1, <5>2, Zenon DEF SetChecked
      <4>3. QED
        BY <4>1, <4>2
    <3>5. after[k] = new
      BY <1>1, <3>4 DEF Maps
    <3>6. LeftBy(new, w)
      <4> HIDE DEF new
      <4> QED
        BY <1>2, <1>6, <3>2 DEF LeftBy
    <3>7. QED
      BY <1>5, <3>5, <3>6
  <2>5. QED
    BY <2>3, <2>4
<1>9. QED
  BY <1>7, <1>8

\* A write leaves the other keys alone.
LEMMA WriteElsewhere ==
    ASSUME NEW m \in Maps, NEW writer \in Writers, NEW w \in Writes, NEW j \in Keys, j # w.key
    PROVE  ApplyWrite(m, writer, w)[j] = m[j]
<1> DEFINE new == NewEntry(m, w.key, w.value, w.time, writer)
           stated == [value |-> w.value, generation |-> w.generation,
                      time |-> w.time, writer |-> writer]
           after == ApplyWrite(m, writer, w)
<1>1. \/ after = m
      \/ after = [m EXCEPT ![w.key] = new]
      \/ after = [m EXCEPT ![w.key] = stated]
  BY WriteOutcome
<1>2. QED
  BY <1>1 DEF Maps

\* The map of a cell that writes in the order of time, key by key.
LEMMA CellInOrder ==
    ASSUME NEW cell \in Cells, NEW k \in Keys,
           \A j \in 1 .. Len(cell.writes) :
               /\ cell.writes[j].generation = Unstated
               /\ j > 1 => cell.writes[j - 1].time < cell.writes[j].time
    PROVE  \A j \in 1 .. Len(cell.writes) :
               cell.writes[j].key = k /\ (\A l \in j + 1 .. Len(cell.writes) : cell.writes[l].key # k)
               => LeftBy(CellMap(cell).map[k], cell.writes[j])
<1> DEFINE ws == cell.writes
           len == Len(ws)
           at == CellMaps(cell)
           LastAt(j, n) == ws[j].key = k /\ \A l \in j + 1 .. n : ws[l].key # k
           Held1(n) == at[n].map[k]
           Older(n) == \/ Held1(n) = NoEntry
                       \/ n > 0 /\ Grown(Held1(n)) /\ Held1(n).time <= ws[n].time
           Ended(n) == \A j \in 1 .. n : LastAt(j, n) => LeftBy(Held1(n), ws[j])
           Done == {n \in 0 .. len : Older(n) /\ Ended(n)}
<1>1. /\ len \in Nat /\ cell.writer \in Writers
      /\ at \in [0 .. len -> Attempts] /\ at[0] = Attempted(TRUE, Empty)
      /\ \A n \in 1 .. len : ws[n] \in Writes /\ at[n] = CellStep(cell, n, at[n - 1])
  BY CellLoop DEF Cells
<1>2. 0 \in Done
  <2>1. Held1(0) = NoEntry
    BY <1>1 DEF Attempted, Empty
  <2>2. Older(0) /\ Ended(0)
    BY <2>1
  <2> HIDE DEF Older, Ended
  <2>3. QED
    BY <1>1, <2>2
<1>3. ASSUME NEW n \in 1 .. len, n - 1 \in Done PROVE n \in Done
  <2> DEFINE m == at[n - 1].map
             w == ws[n]
  <2>1. n - 1 \in 0 .. len /\ n \in 0 .. len
    BY <1>1
  <2>2. Older(n - 1) /\ Ended(n - 1)
    BY <1>3
  <2>3. m \in Maps /\ w \in Writes /\ w.generation = Unstated /\ w.time \in Nat
    <3>1. m \in Maps /\ w \in Writes
      BY <1>1, <2>1 DEF Attempts
    <3>2. QED
      BY <3>1, MapAssumption DEF Writes, U64
  <2>4. at[n].map = ApplyWrite(m, cell.writer, w)
    <3>1. at[n] = CellStep(cell, n, at[n - 1])
      BY <1>1
    <3>2. QED
      BY <3>1 DEF CellStep, Attempted
  <2>5. n - 1 > 0 => ws[n - 1].time < w.time /\ ws[n - 1].time \in Nat
    <3>1. ASSUME n - 1 > 0 PROVE n - 1 \in 1 .. len /\ n > 1
      BY <2>1, <3>1
    <3>2. ASSUME n - 1 > 0 PROVE ws[n - 1] \in Writes
      BY <1>1, <3>1, <3>2
    <3>3. QED
      BY <3>1, <3>2, MapAssumption DEF Writes, U64
  <2>6. m[k] = NoEntry \/ (Grown(m[k]) /\ m[k].time < w.time)
    <3>1. CASE m[k] = NoEntry
      BY <3>1
    <3>2. CASE m[k] # NoEntry
      <4>1. n - 1 > 0 /\ Grown(m[k]) /\ m[k].time <= ws[n - 1].time
        BY <2>2, <3>2
      <4>2. m[k].time \in Nat
        BY <4>1, StampType DEF Grown
      <4> HIDE DEF m, w, ws
      <4>3. QED
        BY <2>3, <2>5, <4>1, <4>2
    <3>3. QED
      BY <3>1, <3>2
  <2>7. CASE w.key = k
    <3>1. LeftBy(Held1(n), w)
      <4> HIDE DEF m, w, at
      <4> QED
        BY <1>1, <2>3, <2>4, <2>6, <2>7, WriteOverOlder
    <3>2. Older(n)
      BY <2>1, <3>1 DEF LeftBy
    <3>3. \A j \in 1 .. n : LastAt(j, n) => j = n
      <4> SUFFICES ASSUME NEW j \in 1 .. n, LastAt(j, n), j # n PROVE FALSE
        OBVIOUS
      <4>1. n \in j + 1 .. n
        OBVIOUS
      <4>2. QED
        BY <2>7, <4>1
    <3>4. Ended(n)
      BY <3>1, <3>3
    <3> HIDE DEF Older, Ended
    <3>5. QED
      BY <2>1, <3>2, <3>4
  <2>8. CASE w.key # k
    <3>1. Held1(n) = m[k]
      <4> HIDE DEF m, w, at
      <4> QED
        BY <1>1, <2>3, <2>4, <2>8, WriteElsewhere
    <3>2. Older(n)
      <4>1. CASE m[k] = NoEntry
        BY <3>1, <4>1
      <4>2. CASE m[k] # NoEntry
        <5>1. Grown(m[k]) /\ m[k].time < w.time /\ m[k].time \in Nat
          BY <2>6, <4>2, StampType DEF Grown
        <5>2. Grown(Held1(n)) /\ Held1(n).time <= ws[n].time
          <6> HIDE DEF m
          <6> QED
            BY <2>3, <3>1, <5>1
        <5>3. QED
          BY <2>1, <5>2
      <4>3. QED
        BY <4>1, <4>2
    <3>3. Ended(n)
      <4> SUFFICES ASSUME NEW j \in 1 .. n, LastAt(j, n) PROVE LeftBy(Held1(n), ws[j])
        OBVIOUS
      <4>1. j # n
        BY <2>8
      <4>2. j \in 1 .. n - 1
        BY <4>1
      <4>3. LastAt(j, n - 1)
        OBVIOUS
      <4> HIDE DEF LastAt
      <4>4. LeftBy(m[k], ws[j])
        BY <2>2, <4>2, <4>3
      <4>5. QED
        BY <3>1, <4>4
    <3> HIDE DEF Older, Ended
    <3>4. QED
      BY <2>1, <3>2, <3>3
  <2>9. QED
    BY <2>7, <2>8
<1>4. Ended(len)
  <2> HIDE DEF Done, len
  <2>1. \A n \in 0 .. len : n \in Done
    BY <1>1, <1>2, <1>3, Induction
  <2>2. len \in Done
    BY <1>1, <2>1
  <2>3. QED
    BY <2>2 DEF Done
<1>5. QED
  BY <1>4 DEF CellMap

\* A cell that reports keys a node never saw, in order of time, leaves each as its
\* last write left it. (A generation that would wrap stands at a time the clock
\* refuses.)
THEOREM InOrderEndsAsWritten ==
    ASSUME NEW r \in AllRequests, NEW m \in Maps, Accepts(r, m),
           r.kind = "reconcile", Len(r.cells) = 1, NEW k \in Keys \ Held(m),
           \A j \in 1 .. Len(r.cells[1].writes) :
               /\ r.cells[1].writes[j].generation = Unstated
               /\ j > 1 => r.cells[1].writes[j - 1].time < r.cells[1].writes[j].time,
           NEW j \in 1 .. Len(r.cells[1].writes), r.cells[1].writes[j].key = k,
           \A l \in j + 1 .. Len(r.cells[1].writes) : r.cells[1].writes[l].key # k
    PROVE  After(r, m)[k].value = r.cells[1].writes[j].value
<1> DEFINE cell == r.cells[1]
           e == CellMap(cell).map[k]
           after == After(r, m)
<1>1. r.cells \in Seq(Cells) /\ cell \in Cells
  <2>1. r.cells \in Seq(Cells)
    BY RequestType
  <2>2. QED
    BY <2>1
<1>2. LeftBy(e, cell.writes[j])
  BY <1>1, CellInOrder
<1>3. after = Merged(r, m).map /\ after \in Maps /\ ~ClockOverflows(after)
  BY AfterType, AcceptedParts
<1>4. after = Merge(m, CellMap(cell).map)
  <2>1. MergedCells(r.cells, m)[0] = Attempted(TRUE, m)
    BY <1>1, CellsLoop
  <2>2. MergedCells(r.cells, m)[1] = CellsStep(r.cells, 1, MergedCells(r.cells, m)[0])
    <3>1. \A n \in 1 .. 1 :
              MergedCells(r.cells, m)[n] = CellsStep(r.cells, n, MergedCells(r.cells, m)[n - 1])
      BY <1>1, CellsLoop
    <3>2. QED
      BY <3>1
  <2>3. MergedCells(r.cells, m)[1].map = Merge(m, CellMap(cell).map)
    BY <2>1, <2>2 DEF CellsStep, Attempted
  <2>4. QED
    BY <1>3, <2>3 DEF Merged, MergeCells
<1>5. after[k] = e
  BY <1>4 DEF Merge, Join, Covers, Held
<1>6. e \in Entries /\ e # NoEntry
  BY <1>2, MapAssumption DEF LeftBy, Grown
<1>7. e.time + 2 <= MaxU64
  <2>1. k \in Held(after)
    BY <1>5, <1>6 DEF Held
  <2>2. MaxTime(after) + 2 <= MaxU64
    <3>1. MaxTime(after) \in U64 /\ MaxU64 \in Nat
      BY <1>3, MaxTimeIsNewest, MapAssumption
    <3>2. ~(MaxTime(after) + 2 > MaxU64)
      BY <1>3, <2>1 DEF ClockOverflows, NextLocalTime
    <3>3. QED
      BY <3>1, <3>2 DEF U64
  <2>3. e.time <= MaxTime(after)
    BY <1>3, <1>5, <2>1, MaxTimeIsNewest
  <2>4. MaxTime(after) \in Nat /\ e.time \in Nat /\ MaxU64 \in Nat
    BY <1>3, <1>6, MaxTimeIsNewest, StampType, MapAssumption DEF U64
  <2> HIDE DEF e, after
  <2>5. QED
    BY <2>2, <2>3, <2>4
<1>8. QED
  BY <1>2, <1>5, <1>7 DEF LeftBy
=============================================================================
