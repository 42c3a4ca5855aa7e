-------------------------- MODULE SwarmNodeProofs --------------------------
(***************************************************************************)
(* Proofs about SwarmNode for any number of workers, any requests, any     *)
(* keys, values and writers, and any number of crashes.                    *)
(***************************************************************************)
EXTENDS SwarmNode, HandlersProofs

\* A request being built is at a cell it has, one being merged at a map it built.
IndexOK(p, f) ==
    /\ f.write # 0
    /\ p = "waiting" => f.cell = 1
    /\ p = "build" => IF f.req.kind = "reconcile" THEN f.cell \in DOMAIN f.req.cells
                                                  ELSE f.cell = 1
    /\ p = "merge" => f.cell \in DOMAIN f.parts
Indices == \A w \in Workers : IndexOK(pc[w], frame[w])

\* Whoever is between its check and its publication is the one that holds the
\* lock, and nobody is when the process is down.
LockInv ==
    /\ OneAtATime
    /\ ~up => \A w \in Workers : pc[w] = "idle"

\* What the holder of the lock is building covers the memory.
Ahead == \A w \in Workers : pc[w] \in Critical => MapCovers(frame[w].merged, mem)

\* The state file is only ever renamed to from a synced temporary file.
NeverTorn ==
    /\ pathSynced /\ path # Torn /\ onDisk # Torn
    /\ \A w \in Workers : pc[w] = "rename" => frame[w].synced

\* The file and the memory agree but between a rename and its publication,
\* and the file is never behind the memory unless the power goes.
FileAndMemory ==
    /\ \A w \in Workers : pc[w] \in {"syncdir", "publish"} => path = frame[w].merged
    /\ up /\ (\A w \in Workers : pc[w] \notin {"syncdir", "publish"}) => mem = Loaded(path)
    /\ ~PowerCuts => MapCovers(Loaded(path), mem)

\* Everything promised, and everything about to be, is in memory and in every
\* version of the file a power cut can leave.
Promises ==
    /\ MapCovers(mem, promised)
    /\ MapCovers(Loaded(path), promised)
    /\ MapCovers(Loaded(onDisk), promised)
    /\ \A w \in Workers : pc[w] = "publish" => onDisk = path
    /\ \A w \in Workers : pc[w] \in {"record", "ok"} =>
          /\ MapCovers(mem, frame[w].merged)
          /\ MapCovers(Loaded(path), frame[w].merged)
          /\ MapCovers(Loaded(onDisk), frame[w].merged)

-----------------------------------------------------------------------------
(* What the operators on requests, maps and tallies return. *)

\* What a reconcile request carries is cells.
LEMMA ReconcileType ==
    ASSUME NEW r \in Requests, r.kind = "reconcile"
    PROVE  r.cells \in Seq(Cells)
BY NodeAssumption DEF AllRequests

\* What a merge request carries is stamped entries.
LEMMA MergeRequestType ==
    ASSUME NEW r \in Requests, r.kind = "merge"
    PROVE  r.entries \in Seq(StampedEntries)
BY NodeAssumption DEF AllRequests

\* A request is of one of the two kinds.
LEMMA KindType == \A r \in Requests : r.kind \in {"reconcile", "merge"}
BY NodeAssumption DEF AllRequests

\* What a merge reports is a list of conflicts.
LEMMA ReportsType ==
    ASSUME NEW m \in Maps, NEW o \in Maps
    PROVE  Reports(m, o) \subseteq Seq(Conflicts)
<1> DEFINE ks == Contested(m, o)
<1>1. ks \subseteq Keys /\ IsFiniteSet(ks)
  BY MapAssumption, FS_Subset DEF Contested
<1>2. Cardinality(ks) \in Nat
  BY <1>1, FS_CardinalityType
<1>3. ASSUME NEW k \in ks PROVE Conflict(m[k], o[k], k) \in Conflicts
  <2>1. k \in Keys /\ m[k] \in Entries /\ o[k] \in Entries
    BY <1>3, SlotType DEF Contested, Slots
  <2>2. m[k].writer \in Writers /\ o[k].writer \in Writers
    BY <2>1 DEF Entries
  <2>3. QED
    BY <2>1, <2>2 DEF Conflict, Conflicts
<1> HIDE DEF ks
<1>4. ASSUME NEW f \in [1 .. Cardinality(ks) -> ks]
      PROVE  [i \in DOMAIN f |-> Conflict(m[f[i]], o[f[i]], f[i])] \in Seq(Conflicts)
  <2>1. \A i \in DOMAIN f : Conflict(m[f[i]], o[f[i]], f[i]) \in Conflicts
    BY <1>3
  <2>2. [i \in DOMAIN f |-> Conflict(m[f[i]], o[f[i]], f[i])]
           \in [1 .. Cardinality(ks) -> Conflicts]
    BY <2>1, Zenon
  <2>3. QED
    BY <1>2, <2>2
<1>5. QED
  BY <1>4 DEF Reports, ks

\* What is remembered of a list of conflicts is a list of conflicts.
LEMMA RememberedType == \A h \in Seq(Conflicts) : Remembered(h) \in Seq(Conflicts)
<1> SUFFICES ASSUME NEW h \in Seq(Conflicts), Len(h) > ConflictHistory
             PROVE  SubSeq(h, Len(h) - ConflictHistory + 1, Len(h)) \in Seq(Conflicts)
  BY NodeAssumption DEF Remembered
<1>1. ConflictHistory \in Nat \ {0} /\ Len(h) \in Nat
  BY NodeAssumption
<1>2. Len(h) - ConflictHistory + 1 \in 1 .. Len(h) + 1
  BY <1>1
<1>3. QED
  BY <1>1, <1>2, SubSeqProperties

\* Adding conflicts to the evidence keeps it evidence.
LEMMA AddedType ==
    \A e \in Evidence, cs \in Seq(Conflicts) : Added(e, cs) \in Evidence
<1> SUFFICES ASSUME NEW e \in Evidence, NEW cs \in Seq(Conflicts)
             PROVE  Added(e, cs) \in Evidence
  OBVIOUS
<1>1. e.history \o cs \in Seq(Conflicts) /\ e.resolved + Len(cs) \in Nat
  BY DEF Evidence
<1>2. QED
  BY <1>1, RememberedType DEF Added, Evidence

\* Nothing counted yet is evidence.
LEMMA NoEvidenceType == NoEvidence \in Evidence
BY DEF NoEvidence, Evidence

\* The locals of a request that has just arrived have their types.
LEMMA FreshType == \A r \in Requests : Fresh(r) \in Frames
BY EmptyType DEF Fresh, Frames

\* The locals of a worker that is idle have their types.
LEMMA AtRestType == AtRest \in Frames
BY FreshType, NodeAssumption DEF AtRest

\* What a node loads from a file that is not torn is a map.
LEMMA LoadedType ==
    \A file \in Maps \cup {Missing, Torn} : file # Torn => Loaded(file) \in Maps
BY EmptyType DEF Loaded

-----------------------------------------------------------------------------
(* Type correctness. *)

TInv == TypeOK /\ Indices

\* The locals keep their types when one of them is changed.
LEMMA FrameUpdate ==
    ASSUME NEW f \in Frames
    PROVE  /\ \A m \in Maps : [f EXCEPT !.part = m] \in Frames
           /\ \A m \in Maps : [f EXCEPT !.seen = m] \in Frames
           /\ \A m \in Maps : [f EXCEPT !.merged = m] \in Frames
           /\ \A n \in Nat : [f EXCEPT !.write = n] \in Frames
           /\ \A n \in Nat : [f EXCEPT !.cell = n] \in Frames
           /\ \A q \in Seq(Maps) : [f EXCEPT !.parts = q] \in Frames
           /\ \A cs \in Seq(Conflicts) : [f EXCEPT !.conflicts = cs] \in Frames
           /\ [f EXCEPT !.synced = TRUE] \in Frames
<1>1. ASSUME NEW m \in Maps PROVE [f EXCEPT !.part = m] \in Frames
  BY DEF Frames
<1>2. ASSUME NEW m \in Maps PROVE [f EXCEPT !.seen = m] \in Frames
  BY DEF Frames
<1>3. ASSUME NEW m \in Maps PROVE [f EXCEPT !.merged = m] \in Frames
  BY DEF Frames
<1>4. ASSUME NEW n \in Nat PROVE [f EXCEPT !.write = n] \in Frames
  BY DEF Frames
<1>5. ASSUME NEW n \in Nat PROVE [f EXCEPT !.cell = n] \in Frames
  BY DEF Frames
<1>6. ASSUME NEW q \in Seq(Maps) PROVE [f EXCEPT !.parts = q] \in Frames
  BY DEF Frames
<1>7. ASSUME NEW cs \in Seq(Conflicts) PROVE [f EXCEPT !.conflicts = cs] \in Frames
  BY DEF Frames
<1>8. [f EXCEPT !.synced = TRUE] \in Frames
  BY DEF Frames
<1>9. QED
  BY <1>1, <1>2, <1>3, <1>4, <1>5, <1>6, <1>7, <1>8

\* A step of one worker that leaves its locals at a legal place.
LEMMA LocalStep ==
    ASSUME TInv, NEW w \in Workers, NEW p \in PCs, NEW f \in Frames, IndexOK(p, f),
           pc' = [pc EXCEPT ![w] = p], frame' = [frame EXCEPT ![w] = f]
    PROVE  /\ pc' \in [Workers -> PCs]
           /\ frame' \in [Workers -> Frames]
           /\ Indices'
<1>1. pc \in [Workers -> PCs] /\ frame \in [Workers -> Frames]
  BY DEF TInv, TypeOK
<1>2. \A v \in Workers : /\ pc'[v] = IF v = w THEN p ELSE pc[v]
                         /\ frame'[v] = IF v = w THEN f ELSE frame[v]
  BY <1>1
<1>3. ASSUME NEW v \in Workers PROVE IndexOK(pc[v], frame[v])' 
  BY <1>2 DEF TInv, Indices, IndexOK
<1>4. QED
  BY <1>1, <1>3 DEF Indices

\* A step of one worker that leaves its locals alone.
LEMMA PcStep ==
    ASSUME TInv, NEW w \in Workers, NEW p \in PCs \ {"waiting", "build", "merge"},
           pc' = [pc EXCEPT ![w] = p], UNCHANGED frame
    PROVE  /\ pc' \in [Workers -> PCs]
           /\ frame' \in [Workers -> Frames]
           /\ Indices'
<1>1. frame \in [Workers -> Frames]
  BY DEF TInv, TypeOK
<1>2. frame' = [frame EXCEPT ![w] = frame[w]] /\ frame[w] \in Frames
  BY <1>1
<1>3. IndexOK(p, frame[w])
  BY DEF TInv, Indices, IndexOK
<1>4. QED
  BY <1>2, <1>3, LocalStep

\* A step that changes only the locals of a worker keeps the types.
LEMMA WorkStep ==
    ASSUME TInv, NEW w \in Workers, NEW p \in PCs, NEW f \in Frames, IndexOK(p, f),
           Work(w, p, f)
    PROVE  TInv'
<1>1. pc' = [pc EXCEPT ![w] = p] /\ frame' = [frame EXCEPT ![w] = f]
  BY DEF Work
<1>2. pc' \in [Workers -> PCs] /\ frame' \in [Workers -> Frames] /\ Indices'
  BY <1>1, LocalStep
<1>3. QED
  BY <1>2 DEF Work, TInv, TypeOK, disk, ghost

\* An error keeps the types.
LEMMA FailStep ==
    ASSUME TInv, NEW w \in Workers, Fail(w)
    PROVE  TInv'
<1>1. pc' = [pc EXCEPT ![w] = "failed"] /\ UNCHANGED frame
  BY DEF Fail
<1>2. pc' \in [Workers -> PCs] /\ frame' \in [Workers -> Frames] /\ Indices'
  BY <1>1, PcStep DEF PCs
<1>3. QED
  BY <1>2 DEF Fail, TInv, TypeOK, disk, ghost

\* The steps that build and merge keep the types.
LEMMA BuildWriteType ==
    ASSUME TInv, NEW w \in Workers, BuildWrite(w)
    PROVE  TInv'
<1> DEFINE f == frame[w]
           c == f.req.cells[f.cell]
           x == c.writes[f.write]
           g == [f EXCEPT !.part = ApplyWrite(f.part, c.writer, x), !.write = f.write + 1]
<1>1. f \in Frames /\ IndexOK(pc[w], f)
  BY DEF TInv, TypeOK, Indices
<1>2. /\ pc[w] = "build" /\ f.req.kind = "reconcile" /\ f.write <= Len(c.writes)
      /\ Fail(w) \/ Work(w, "build", g)
  BY DEF BuildWrite
<1>3. f.req \in Requests /\ f.part \in Maps /\ f.write \in Nat /\ f.cell \in Nat
  BY <1>1 DEF Frames
<1>4. f.req.cells \in Seq(Cells) /\ f.cell \in DOMAIN f.req.cells
  BY <1>1, <1>2, <1>3, ReconcileType DEF IndexOK
<1>5. c \in Cells
  BY <1>4
<1>6. c.writer \in Writers /\ c.writes \in Seq(Writes)
  BY <1>5 DEF Cells
<1>7. x \in Writes
  <2>1. f.write # 0
    BY <1>1 DEF IndexOK
  <2>2. f.write \in 1 .. Len(c.writes)
    <3> HIDE DEF f, c
    <3>1. QED
      BY <1>2, <1>3, <1>6, <2>1
  <2> HIDE DEF f, c
  <2>3. QED
    BY <1>6, <2>2
<1>8. ApplyWrite(f.part, c.writer, x) \in Maps
  BY <1>3, <1>6, <1>7, ApplyWriteType
<1> HIDE DEF x, c
<1>9. g \in Frames
  <2>1. [f EXCEPT !.part = ApplyWrite(f.part, c.writer, x)] \in Frames
    BY <1>1, <1>8, FrameUpdate
  <2>2. g = [[f EXCEPT !.part = ApplyWrite(f.part, c.writer, x)] EXCEPT !.write = f.write + 1]
    OBVIOUS
  <2>3. f.write + 1 \in Nat
    BY <1>3
  <2>4. QED
    BY <2>1, <2>2, <2>3, FrameUpdate
<1>10. IndexOK("build", g)
  BY <1>1, <1>2, <1>3, <1>4 DEF IndexOK, Frames
<1> HIDE DEF g, f
<1>11. QED
  BY <1>2, <1>9, <1>10, FailStep, WorkStep DEF PCs, Critical

\* Finishing a cell keeps the types, and the next position inside the cells.
LEMMA FinishCellType ==
    ASSUME TInv, NEW w \in Workers, FinishCell(w)
    PROVE  TInv'
<1> DEFINE f == frame[w]
           last == f.cell = Len(f.req.cells)
           p == IF last THEN "merge" ELSE "build"
           g == [f EXCEPT !.parts = Append(f.parts, f.part), !.part = Empty, !.write = 1,
                          !.cell = IF last THEN 1 ELSE f.cell + 1]
<1>1. f \in Frames /\ IndexOK(pc[w], f)
  BY DEF TInv, TypeOK, Indices
<1>2. pc[w] = "build" /\ f.req.kind = "reconcile" /\ Work(w, p, g)
  BY DEF FinishCell
<1>3. /\ f.req \in Requests /\ f.part \in Maps /\ f.cell \in Nat /\ f.parts \in Seq(Maps)
  BY <1>1 DEF Frames
<1>4. f.req.cells \in Seq(Cells) /\ f.cell \in DOMAIN f.req.cells
  BY <1>1, <1>2, <1>3, ReconcileType DEF IndexOK
<1>5. Append(f.parts, f.part) \in Seq(Maps) /\ 1 \in DOMAIN Append(f.parts, f.part)
  BY <1>3
<1>6. ~last => f.cell + 1 \in DOMAIN f.req.cells
  BY <1>3, <1>4
<1>7. g \in Frames
  <2> DEFINE g1 == [f EXCEPT !.parts = Append(f.parts, f.part)]
             g2 == [g1 EXCEPT !.part = Empty]
             g3 == [g2 EXCEPT !.write = 1]
             g4 == [g3 EXCEPT !.cell = IF last THEN 1 ELSE f.cell + 1]
  <2>1. g = g4
    OBVIOUS
  <2> HIDE DEF g
  <2>2. (IF last THEN 1 ELSE f.cell + 1) \in Nat
    BY <1>3
  <2>3. g1 \in Frames
    BY <1>1, <1>5, FrameUpdate
  <2> HIDE DEF g1
  <2>4. g2 \in Frames
    BY <2>3, EmptyType, FrameUpdate
  <2> HIDE DEF g2
  <2>5. g3 \in Frames
    BY <2>4, FrameUpdate
  <2> HIDE DEF g3
  <2>6. QED
    BY <2>1, <2>2, <2>5, FrameUpdate
<1>8. IndexOK(p, g)
  BY <1>1, <1>2, <1>5, <1>6 DEF IndexOK, Frames
<1>9. p \in PCs
  BY DEF PCs, Critical
<1> HIDE DEF g, p
<1>10. QED
  BY <1>2, <1>7, <1>8, <1>9, WorkStep

\* Taking an entry of a list keeps the types.
LEMMA BuildEntryType ==
    ASSUME TInv, NEW w \in Workers, BuildEntry(w)
    PROVE  TInv'
<1> DEFINE f == frame[w]
           x == f.req.entries[f.write]
           g == [f EXCEPT !.part = RestoreEntry(f.part, x.key, x.entry),
                          !.seen[x.key] = x.entry, !.write = f.write + 1]
<1>1. f \in Frames /\ IndexOK(pc[w], f)
  BY DEF TInv, TypeOK, Indices
<1>2. /\ pc[w] = "build" /\ f.req.kind = "merge" /\ f.write <= Len(f.req.entries)
      /\ Fail(w) \/ Work(w, "build", g)
  BY DEF BuildEntry
<1>3. f.req \in Requests /\ f.part \in Maps /\ f.seen \in Maps /\ f.write \in Nat
  BY <1>1 DEF Frames
<1>4. f.req.entries \in Seq(StampedEntries)
  BY <1>2, <1>3, MergeRequestType
<1>5. x \in StampedEntries
  BY <1>1, <1>2, <1>3, <1>4 DEF IndexOK
<1>6. x.key \in Keys /\ x.entry \in Entries
  BY <1>5 DEF StampedEntries
<1>7. RestoreEntry(f.part, x.key, x.entry) \in Maps
  BY <1>3, <1>6, RestoreType
<1>8. [f.seen EXCEPT ![x.key] = x.entry] \in Maps
  BY <1>3, <1>6 DEF Maps
<1>9. g = [f EXCEPT !.part = RestoreEntry(f.part, x.key, x.entry),
                    !.seen = [f.seen EXCEPT ![x.key] = x.entry], !.write = f.write + 1]
  BY <1>1 DEF Frames
<1> HIDE DEF x
<1>10. g \in Frames
  <2> DEFINE g1 == [f EXCEPT !.part = RestoreEntry(f.part, x.key, x.entry)]
             g2 == [g1 EXCEPT !.seen = [f.seen EXCEPT ![x.key] = x.entry]]
             g3 == [g2 EXCEPT !.write = f.write + 1]
  <2>1. g = g3
    BY <1>9
  <2> HIDE DEF g
  <2>2. f.write + 1 \in Nat
    BY <1>3
  <2>3. g1 \in Frames
    BY <1>1, <1>7, FrameUpdate
  <2> HIDE DEF g1
  <2>4. g2 \in Frames
    BY <2>3, <1>8, FrameUpdate
  <2> HIDE DEF g2
  <2>5. QED
    BY <2>1, <2>2, <2>4, FrameUpdate
<1>11. IndexOK("build", g)
  BY <1>1, <1>2, <1>3, <1>9 DEF IndexOK, Frames
<1> HIDE DEF g, f
<1>12. QED
  BY <1>2, <1>10, <1>11, FailStep, WorkStep DEF PCs, Critical

\* Finishing the list of entries keeps the types.
LEMMA FinishEntriesType ==
    ASSUME TInv, NEW w \in Workers, FinishEntries(w)
    PROVE  TInv'
<1> DEFINE f == frame[w]
           g == [f EXCEPT !.parts = <<f.part>>]
<1>1. f \in Frames /\ IndexOK(pc[w], f)
  BY DEF TInv, TypeOK, Indices
<1>2. pc[w] = "build" /\ f.req.kind = "merge" /\ Work(w, "merge", g)
  BY DEF FinishEntries
<1>3. f.part \in Maps
  BY <1>1 DEF Frames
<1>4. <<f.part>> \in Seq(Maps) /\ 1 \in DOMAIN <<f.part>>
  BY <1>3
<1>5. g \in Frames
  BY <1>1, <1>4 DEF Frames
<1>6. IndexOK("merge", g)
  BY <1>1, <1>2, <1>4 DEF IndexOK, Frames
<1> HIDE DEF g
<1>7. QED
  BY <1>2, <1>5, <1>6, WorkStep DEF PCs, Critical

\* Merging a part keeps the types, and the next position inside the parts.
LEMMA MergePartType ==
    ASSUME TInv, NEW w \in Workers, MergePart(w)
    PROVE  TInv'
<1> DEFINE f == frame[w]
           part == f.parts[f.cell]
           p == IF f.cell = Len(f.parts) THEN "clock" ELSE "merge"
           g(report) == [f EXCEPT !.merged = Merge(f.merged, part), !.cell = f.cell + 1,
                                  !.conflicts = f.conflicts \o report]
<1>1. f \in Frames /\ IndexOK(pc[w], f)
  BY DEF TInv, TypeOK, Indices
<1>2. /\ pc[w] = "merge"
      /\ Fail(w) \/ \E report \in Reports(f.merged, part) : Work(w, p, g(report))
  BY DEF MergePart
<1>3. /\ f.merged \in Maps /\ f.cell \in Nat /\ f.parts \in Seq(Maps)
      /\ f.conflicts \in Seq(Conflicts) /\ f.cell \in DOMAIN f.parts
  BY <1>1, <1>2 DEF Frames, IndexOK
<1>4. part \in Maps
  BY <1>3
<1>5. Merge(f.merged, part) \in Maps
  BY <1>3, <1>4, MergeType
<1>6. ASSUME NEW report \in Reports(f.merged, part), Work(w, p, g(report)) PROVE TInv'
  <2> DEFINE g1 == [f EXCEPT !.merged = Merge(f.merged, part)]
             g2 == [g1 EXCEPT !.cell = f.cell + 1]
             g3 == [g2 EXCEPT !.conflicts = f.conflicts \o report]
  <2>1. g(report) = g3
    OBVIOUS
  <2>2. f.cell + 1 \in Nat
    BY <1>3
  <2>3. f.conflicts \o report \in Seq(Conflicts)
    BY <1>3, <1>4, ReportsType
  <2>4. f.cell # Len(f.parts) => f.cell + 1 \in DOMAIN f.parts
    BY <1>3
  <2>5. IndexOK(p, g(report))
    BY <1>1, <1>3, <2>4 DEF IndexOK, Frames
  <2>6. p \in PCs
    BY DEF PCs, Critical
  <2>7. Work(w, p, g3)
    BY <1>6, <2>1
  <2>8. IndexOK(p, g3)
    BY <2>1, <2>5
  <2> HIDE DEF part, g, p
  <2>9. g1 \in Frames
    BY <1>1, <1>5, FrameUpdate
  <2> HIDE DEF g1
  <2>10. g2 \in Frames
    BY <2>2, <2>9, FrameUpdate
  <2> HIDE DEF g2
  <2>11. g3 \in Frames
    BY <2>3, <2>10, FrameUpdate
  <2> HIDE DEF g3
  <2>12. QED
    BY <2>6, <2>7, <2>8, <2>11, WorkStep
<1>7. QED
  BY <1>2, <1>6, FailStep

\* What a restart or a crash leaves every worker with.
LEMMA AllAtRest ==
    ASSUME pc' = [w \in Workers |-> "idle"], frame' = [w \in Workers |-> AtRest]
    PROVE  /\ pc' \in [Workers -> PCs]
           /\ frame' \in [Workers -> Frames]
           /\ Indices'
<1>1. AtRest.write = 1
  BY DEF AtRest, Fresh
<1>2. \A w \in Workers : pc'[w] = "idle" /\ frame'[w] = AtRest
  OBVIOUS
<1>3. ASSUME NEW w \in Workers PROVE IndexOK(pc[w], frame[w])'
  BY <1>1, <1>2 DEF IndexOK
<1>4. QED
  BY <1>2, <1>3, AtRestType DEF Indices, PCs

\* A node starts with every variable of its type.
LEMMA InitType == Init => TInv
<1> SUFFICES ASSUME Init PROVE TInv
  OBVIOUS
<1>1. /\ up \in BOOLEAN /\ mem \in Maps /\ lock \in Workers \cup {Free}
      /\ path \in Maps \cup {Missing, Torn} /\ onDisk \in Maps \cup {Missing, Torn}
      /\ pathSynced \in BOOLEAN /\ evidence \in Evidence
      /\ published \in Seq(Conflicts) /\ recorded \in Seq(Conflicts)
      /\ received \in Nat /\ promised \in Maps
  BY EmptyType, NoEvidenceType DEF Init
<1>2. pc \in [Workers -> PCs] /\ frame \in [Workers -> Frames]
  BY AtRestType DEF Init, PCs
<1>3. AtRest.write = 1
  BY DEF AtRest, Fresh
<1>4. Indices
  BY <1>3 DEF Init, Indices, IndexOK
<1>5. QED
  BY <1>1, <1>2, <1>4 DEF TInv, TypeOK

\* Every step keeps the types and the positions.
LEMMA NextType == TInv /\ [Next]_vars => TInv'
<1> SUFFICES ASSUME TInv, [Next]_vars PROVE TInv'
  OBVIOUS
<1>1. ASSUME NEW w \in Workers, Receive(w) PROVE TInv'
  <2>1. PICK r \in Requests : frame' = [frame EXCEPT ![w] = Fresh(r)]
    BY <1>1 DEF Receive
  <2>2. pc' = [pc EXCEPT ![w] = "waiting"] /\ received' = received + 1
    BY <1>1 DEF Receive
  <2>3. Fresh(r) \in Frames /\ IndexOK("waiting", Fresh(r))
    BY FreshType DEF IndexOK, Fresh
  <2>4. pc' \in [Workers -> PCs] /\ frame' \in [Workers -> Frames] /\ Indices'
    BY <2>1, <2>2, <2>3, LocalStep DEF PCs
  <2>5. QED
    BY <1>1, <2>2, <2>4 DEF Receive, TInv, TypeOK, disk, ghost
<1>2. ASSUME NEW w \in Workers, Begin(w) PROVE TInv'
  <2> DEFINE f == frame[w]
             g == [f EXCEPT !.merged = mem]
  <2>1. f \in Frames /\ IndexOK("waiting", f) /\ mem \in Maps
    BY <1>2 DEF TInv, TypeOK, Indices, Begin
  <2>2. pc' = [pc EXCEPT ![w] = "build"] /\ frame' = [frame EXCEPT ![w] = g]
    BY <1>2 DEF Begin, TInv, TypeOK
  <2>3. g \in Frames
    BY <2>1, FrameUpdate
  <2>4. f.req \in Requests /\ g.req = f.req /\ g.cell = f.cell /\ g.write = f.write
    BY <2>1 DEF Frames
  <2>5. f.req.kind = "reconcile" => 1 \in DOMAIN f.req.cells
    <3>1. f.req.kind = "reconcile" => f.req.cells # << >>
      BY <1>2 DEF Begin, PassesChecks, NothingToDo
    <3>2. QED
      BY <3>1, <2>4, ReconcileType
  <2>6. IndexOK("build", g)
    BY <2>1, <2>4, <2>5 DEF IndexOK
  <2> HIDE DEF g
  <2>7. pc' \in [Workers -> PCs] /\ frame' \in [Workers -> Frames] /\ Indices'
    BY <2>2, <2>3, <2>6, LocalStep DEF PCs, Critical
  <2>8. QED
    BY <1>2, <2>7 DEF Begin, TInv, TypeOK, disk, ghost
<1>3. ASSUME NEW w \in Workers, Refuse(w) PROVE TInv'
  <2>1. pc' \in [Workers -> PCs] /\ frame' \in [Workers -> Frames] /\ Indices'
    BY <1>3, PcStep DEF Refuse, PCs
  <2>2. QED
    BY <1>3, <2>1 DEF Refuse, TInv, TypeOK, disk, ghost
<1>4. ASSUME NEW w \in Workers,
             TickClock(w) \/ WriteTemp(w) \/ SyncTemp(w)
      PROVE  TInv'
  <2>1. frame[w] \in Frames /\ IndexOK(pc[w], frame[w])
    BY DEF TInv, TypeOK, Indices
  <2>2. /\ IndexOK("write", frame[w]) /\ IndexOK("sync", frame[w])
        /\ IndexOK("rename", [frame[w] EXCEPT !.synced = TRUE])
    BY <2>1 DEF IndexOK, Frames
  <2>3. {"write", "sync", "rename"} \subseteq PCs
    BY DEF PCs, Critical, Saving
  <2>4. [frame[w] EXCEPT !.synced = TRUE] \in Frames
    BY <2>1, FrameUpdate
  <2>5. CASE TickClock(w)
    BY <2>1, <2>2, <2>3, <2>5, FailStep, WorkStep DEF TickClock
  <2>6. CASE WriteTemp(w)
    BY <2>1, <2>2, <2>3, <2>6, WorkStep DEF WriteTemp
  <2>7. CASE SyncTemp(w)
    BY <2>2, <2>3, <2>4, <2>7, WorkStep DEF SyncTemp
  <2>8. QED
    BY <1>4, <2>5, <2>6, <2>7
<1>5. ASSUME NEW w \in Workers, Rename(w) PROVE TInv'
  <2>1. frame[w].merged \in Maps /\ frame[w].synced \in BOOLEAN
    BY DEF TInv, TypeOK, Frames
  <2>2. pc' \in [Workers -> PCs] /\ frame' \in [Workers -> Frames] /\ Indices'
    BY <1>5, PcStep DEF Rename, PCs, Critical
  <2>3. QED
    BY <1>5, <2>1, <2>2 DEF Rename, TInv, TypeOK, disk, ghost
<1>6. ASSUME NEW w \in Workers, SyncDir(w) PROVE TInv'
  <2>1. pc' \in [Workers -> PCs] /\ frame' \in [Workers -> Frames] /\ Indices'
    BY <1>6, PcStep DEF SyncDir, PCs, Critical
  <2>2. onDisk' \in Maps \cup {Missing, Torn}
    BY <1>6 DEF SyncDir, TInv, TypeOK
  <2>3. QED
    BY <1>6, <2>1, <2>2 DEF SyncDir, TInv, TypeOK, disk, ghost
<1>7. ASSUME NEW w \in Workers, Publish(w) PROVE TInv'
  <2>1. frame[w].merged \in Maps /\ frame[w].conflicts \in Seq(Conflicts)
    BY DEF TInv, TypeOK, Frames
  <2>2. pc' \in [Workers -> PCs] /\ frame' \in [Workers -> Frames] /\ Indices'
    BY <1>7, PcStep DEF Publish, PCs
  <2>3. QED
    BY <1>7, <2>1, <2>2 DEF Publish, TInv, TypeOK, disk, ghost
<1>8. ASSUME NEW w \in Workers, Record(w) PROVE TInv'
  <2>1. frame[w].conflicts \in Seq(Conflicts)
    BY DEF TInv, TypeOK, Frames
  <2>2. pc' \in [Workers -> PCs] /\ frame' \in [Workers -> Frames] /\ Indices'
    BY <1>8, PcStep DEF Record, PCs
  <2>3. QED
    BY <1>8, <2>1, <2>2, AddedType DEF Record, TInv, TypeOK, disk, ghost
<1>9. ASSUME NEW w \in Workers, Answer(w) PROVE TInv'
  <2>1. frame[w].merged \in Maps /\ promised \in Maps
    BY DEF TInv, TypeOK, Frames
  <2>2. promised' \in Maps
    BY <1>9, <2>1, MergeType DEF Answer
  <2>3. IndexOK("idle", AtRest)
    BY DEF IndexOK, AtRest, Fresh
  <2>4. pc' \in [Workers -> PCs] /\ frame' \in [Workers -> Frames] /\ Indices'
    BY <1>9, <2>3, AtRestType, LocalStep DEF Answer, PCs
  <2>5. QED
    BY <1>9, <2>2, <2>4 DEF Answer, TInv, TypeOK, disk
<1>10. ASSUME Kill \/ PowerCut PROVE TInv'
  <2>1. Stop
    BY <1>10 DEF Kill, PowerCut
  <2>2. pc' \in [Workers -> PCs] /\ frame' \in [Workers -> Frames] /\ Indices'
    BY <2>1, AllAtRest DEF Stop
  <2>3. /\ path' \in Maps \cup {Missing, Torn} /\ onDisk' \in Maps \cup {Missing, Torn}
        /\ pathSynced' \in BOOLEAN
    <3>1. CASE Kill
      BY <3>1 DEF Kill, disk, TInv, TypeOK
    <3>2. CASE PowerCut
      BY <3>2 DEF PowerCut, AfterPowerCut, TInv, TypeOK
    <3>3. QED
      BY <1>10, <3>1, <3>2
  <2>4. /\ evidence' \in Evidence
        /\ published' \in Seq(Conflicts) /\ recorded' \in Seq(Conflicts)
    BY <2>1, NoEvidenceType DEF Stop
  <2>5. /\ up' \in BOOLEAN /\ mem' \in Maps /\ lock' \in Workers \cup {Free}
        /\ received' \in Nat /\ promised' \in Maps
    BY <2>1 DEF Stop, TInv, TypeOK
  <2>6. QED
    BY <2>2, <2>3, <2>4, <2>5 DEF TInv, TypeOK
<1>11. ASSUME Restart PROVE TInv'
  <2>1. Loaded(path) \in Maps
    BY <1>11, LoadedType DEF Restart, TInv, TypeOK
  <2>2. QED
    BY <1>11, <2>1 DEF Restart, TInv, TypeOK, Indices, disk, ghost
<1>12. CASE UNCHANGED vars
  BY <1>12 DEF vars, TInv, TypeOK, Indices, disk, ghost
<1>13. ASSUME NEW w \in Workers, SaveFails(w) PROVE TInv'
  BY <1>13, FailStep DEF SaveFails
<1>14. QED
  BY <1>1, <1>2, <1>3, <1>4, <1>5, <1>6, <1>7, <1>8, <1>9, <1>10, <1>11, <1>12, <1>13,
     BuildWriteType, FinishCellType, BuildEntryType, FinishEntriesType, MergePartType
     DEF Next, Step

\* Every variable keeps its type, the positions a handler is at stay inside
\* what it iterates over, and the conflict it reports names a key and writers.
THEOREM TypeCorrect == Spec => []TypeOK
<1>1. TInv => TypeOK
  BY DEF TInv
<1>2. QED
  BY <1>1, InitType, NextType, PTL DEF Spec

-----------------------------------------------------------------------------
(* Mutual exclusion. *)

Moves(w, p, l) ==
    /\ pc' = [pc EXCEPT ![w] = p]
    /\ lock' = l
    /\ up' = up

\* Every step of a worker takes the lock, keeps it, gives it back, or has
\* nothing to do with it.
LEMMA StepShape ==
    ASSUME NEW w \in Workers, Receive(w) \/ Step(w)
    PROVE  \/ pc[w] = "waiting" /\ lock = Free /\ Moves(w, "build", w)
           \/ pc[w] \in Critical /\ \E p \in Critical : Moves(w, p, lock)
           \/ pc[w] \in Critical /\ \E p \in PCs \ Critical : Moves(w, p, Free)
           \/ /\ pc[w] \notin Critical /\ (up \/ pc[w] # "idle")
              /\ \E p \in PCs \ Critical : Moves(w, p, lock)
<1>1. CASE Receive(w) \/ Refuse(w) \/ Record(w) \/ Answer(w)
  BY <1>1 DEF Receive, Refuse, Record, Answer, Moves, PCs, Critical, Saving
<1>2. CASE Begin(w)
  BY <1>2 DEF Begin, Moves
<1>3. CASE BuildWrite(w) \/ BuildEntry(w)
  <2>1. pc[w] = "build" /\ (Fail(w) \/ \E f : Work(w, "build", f))
    BY <1>3 DEF BuildWrite, BuildEntry
  <2>2. QED
    BY <2>1 DEF Fail, Work, Moves, PCs, Critical, Saving
<1>4. CASE FinishCell(w) \/ FinishEntries(w)
  <2>1. pc[w] = "build" /\ \E f : \E p \in {"build", "merge"} : Work(w, p, f)
    BY <1>4 DEF FinishCell, FinishEntries
  <2>2. QED
    BY <2>1 DEF Work, Moves, Critical
<1>5. CASE MergePart(w)
  <2>1. pc[w] = "merge" /\ (Fail(w) \/ \E f : \E p \in {"merge", "clock"} : Work(w, p, f))
    BY <1>5 DEF MergePart
  <2>2. QED
    BY <2>1 DEF Fail, Work, Moves, PCs, Critical, Saving
<1>6. CASE TickClock(w) \/ SaveFails(w)
  BY <1>6 DEF TickClock, SaveFails, Fail, Work, Moves, PCs, Critical, Saving
<1>7. CASE WriteTemp(w) \/ SyncTemp(w) \/ Rename(w) \/ SyncDir(w)
  BY <1>7 DEF WriteTemp, SyncTemp, Rename, SyncDir, Work, Moves, Critical, Saving
<1>8. CASE Publish(w)
  BY <1>8 DEF Publish, Moves, PCs, Critical, Saving
<1>9. QED
  BY <1>1, <1>2, <1>3, <1>4, <1>5, <1>6, <1>7, <1>8 DEF Step

\* Every step keeps the lock with the worker between check and publication.
LEMMA NextLock == TInv /\ LockInv /\ [Next]_vars => LockInv'
<1> SUFFICES ASSUME TInv, LockInv, [Next]_vars PROVE LockInv'
  OBVIOUS
<1>1. /\ pc \in [Workers -> PCs] /\ Free \notin Workers
      /\ "idle" \notin Critical /\ "waiting" \notin Critical /\ "build" \in Critical
  BY NodeAssumption DEF TInv, TypeOK, Critical, Saving
<1>2. /\ \A w \in Workers : pc[w] \in Critical <=> lock = w
      /\ ~up => \A w \in Workers : pc[w] = "idle"
  BY DEF LockInv, OneAtATime
<1>3. ASSUME NEW w \in Workers, Receive(w) \/ Step(w) PROVE LockInv'
  <2>1. CASE pc[w] = "waiting" /\ lock = Free /\ Moves(w, "build", w)
    BY <2>1, <1>1, <1>2 DEF Moves, LockInv, OneAtATime
  <2>2. ASSUME pc[w] \in Critical, NEW p \in Critical, Moves(w, p, lock) PROVE LockInv'
    BY <2>2, <1>1, <1>2 DEF Moves, LockInv, OneAtATime
  <2>3. ASSUME pc[w] \in Critical, NEW p \in PCs \ Critical, Moves(w, p, Free) PROVE LockInv'
    BY <2>3, <1>1, <1>2 DEF Moves, LockInv, OneAtATime
  <2>4. ASSUME pc[w] \notin Critical, up \/ pc[w] # "idle", NEW p \in PCs \ Critical,
               Moves(w, p, lock)
        PROVE  LockInv'
    BY <2>4, <1>1, <1>2 DEF Moves, LockInv, OneAtATime
  <2>5. QED
    BY <1>3, <2>1, <2>2, <2>3, <2>4, StepShape
<1>4. CASE Kill \/ PowerCut
  <2>1. Stop
    BY <1>4 DEF Kill, PowerCut
  <2>2. QED
    BY <2>1, <1>1 DEF Stop, LockInv, OneAtATime
<1>5. CASE Restart
  BY <1>5 DEF Restart, LockInv, OneAtATime
<1>6. CASE UNCHANGED vars
  BY <1>6 DEF vars, LockInv, OneAtATime
<1>7. QED
  BY <1>3, <1>4, <1>5, <1>6 DEF Next

\* A node starts with the lock free and nobody at work.
LEMMA InitLock == Init => LockInv
BY NodeAssumption DEF Init, LockInv, OneAtATime, Critical, Saving

\* At most one worker is between its check and its publication, and it is the
\* one that holds the lock.
THEOREM Exclusive == Spec => []OneAtATime
<1>1. LockInv => OneAtATime
  BY DEF LockInv
<1>2. QED
  BY <1>1, InitType, NextType, InitLock, NextLock, PTL DEF Spec

-----------------------------------------------------------------------------
(* Promises, the file and the memory. *)

\* The directory is always synced after a rename.
Forced == HasParent /\ ~DirSyncFails

Inv ==
    /\ TInv /\ LockInv
    /\ Ahead /\ NeverTorn /\ FileAndMemory
    /\ Forced => Promises

\* A step of a worker that leaves the memory and the file alone, and that of
\* the promises: from a place that is not between rename and publication to p,
\* with the locals f.
Quiet(w, p, f) ==
    /\ UNCHANGED <<up, mem, disk, promised>>
    /\ pc' = [pc EXCEPT ![w] = p]
    /\ frame' = [frame EXCEPT ![w] = f]
    /\ pc[w] \notin {"syncdir", "publish"}
    /\ p \in PCs \ {"syncdir", "publish", "record"}
    /\ p \in Critical => MapCovers(f.merged, mem)
    /\ p = "rename" => f.synced
    /\ p = "ok" => pc[w] = "record" /\ f = frame[w]

\* Every step of a worker but four is quiet.
LEMMA QuietSteps ==
    ASSUME Inv, NEW w \in Workers, Receive(w) \/ Step(w),
           ~Rename(w), ~SyncDir(w), ~Publish(w), ~Answer(w)
    PROVE  \E p, f : Quiet(w, p, f)
<1> DEFINE f == frame[w]
<1>1. /\ f \in Frames /\ mem \in Maps /\ frame \in [Workers -> Frames]
      /\ IndexOK(pc[w], f)
      /\ pc[w] \in Critical => MapCovers(f.merged, mem)
  BY DEF Inv, TInv, TypeOK, Indices, Ahead
<1>2. f.merged \in Maps /\ frame = [frame EXCEPT ![w] = f]
  BY <1>1 DEF Frames
<1>3. ASSUME Fail(w), pc[w] \notin {"syncdir", "publish"} PROVE Quiet(w, "failed", f)
  BY <1>2, <1>3 DEF Fail, Quiet, disk, ghost, PCs, Critical, Saving
<1>4. CASE Receive(w)
  <2>1. PICK r \in Requests : frame' = [frame EXCEPT ![w] = Fresh(r)]
    BY <1>4 DEF Receive
  <2>2. Quiet(w, "waiting", Fresh(r))
    BY <1>4, <2>1 DEF Receive, Quiet, disk, ghost, PCs, Critical, Saving
  <2>3. QED
    BY <2>2
<1>5. CASE Begin(w)
  <2>1. frame' = [frame EXCEPT ![w] = [f EXCEPT !.merged = mem]]
    BY <1>1, <1>5 DEF Begin
  <2>2. MapCovers([f EXCEPT !.merged = mem].merged, mem)
    BY <1>1, MapCoversReflexive DEF Frames
  <2>3. Quiet(w, "build", [f EXCEPT !.merged = mem])
    BY <1>5, <2>1, <2>2 DEF Begin, Quiet, disk, ghost, PCs, Critical, Saving
  <2>4. QED
    BY <2>3
<1>6. CASE Refuse(w)
  <2>1. Quiet(w, "failed", f)
    BY <1>2, <1>6 DEF Refuse, Quiet, disk, ghost, PCs, Critical, Saving
  <2>2. QED
    BY <2>1
<1>7. CASE BuildWrite(w)
  <2> DEFINE c == f.req.cells[f.cell]
             x == c.writes[f.write]
             g == [f EXCEPT !.part = ApplyWrite(f.part, c.writer, x), !.write = f.write + 1]
  <2>1. pc[w] = "build" /\ (Fail(w) \/ Work(w, "build", g))
    BY <1>7 DEF BuildWrite
  <2>2. g.merged = f.merged
    BY <1>1 DEF Frames
  <2> HIDE DEF g
  <2>3. Work(w, "build", g) => Quiet(w, "build", g)
    BY <1>1, <2>1, <2>2 DEF Work, Quiet, disk, ghost, PCs, Critical, Saving
  <2>4. QED
    BY <1>3, <2>1, <2>3
<1>8. CASE FinishCell(w)
  <2> DEFINE last == f.cell = Len(f.req.cells)
             p == IF last THEN "merge" ELSE "build"
             g == [f EXCEPT !.parts = Append(f.parts, f.part), !.part = Empty, !.write = 1,
                            !.cell = IF last THEN 1 ELSE f.cell + 1]
  <2>1. pc[w] = "build" /\ Work(w, p, g)
    BY <1>8 DEF FinishCell
  <2>2. g.merged = f.merged /\ p \in {"merge", "build"}
    BY <1>1 DEF Frames
  <2> HIDE DEF g, p
  <2>3. Quiet(w, p, g)
    BY <1>1, <2>1, <2>2 DEF Work, Quiet, disk, ghost, PCs, Critical, Saving
  <2>4. QED
    BY <2>3
<1>9. CASE BuildEntry(w)
  <2> DEFINE x == f.req.entries[f.write]
             g == [f EXCEPT !.part = RestoreEntry(f.part, x.key, x.entry),
                            !.seen[x.key] = x.entry, !.write = f.write + 1]
  <2>1. pc[w] = "build" /\ (Fail(w) \/ Work(w, "build", g))
    BY <1>9 DEF BuildEntry
  <2>2. g.merged = f.merged
    BY <1>1 DEF Frames
  <2> HIDE DEF g
  <2>3. Work(w, "build", g) => Quiet(w, "build", g)
    BY <1>1, <2>1, <2>2 DEF Work, Quiet, disk, ghost, PCs, Critical, Saving
  <2>4. QED
    BY <1>3, <2>1, <2>3
<1>10. CASE FinishEntries(w)
  <2> DEFINE g == [f EXCEPT !.parts = <<f.part>>]
  <2>1. pc[w] = "build" /\ Work(w, "merge", g)
    BY <1>10 DEF FinishEntries
  <2>2. g.merged = f.merged
    BY <1>1 DEF Frames
  <2> HIDE DEF g
  <2>3. Quiet(w, "merge", g)
    BY <1>1, <2>1, <2>2 DEF Work, Quiet, disk, ghost, PCs, Critical, Saving
  <2>4. QED
    BY <2>3
<1>11. CASE MergePart(w)
  <2> DEFINE part == f.parts[f.cell]
             p == IF f.cell = Len(f.parts) THEN "clock" ELSE "merge"
             g(report) == [f EXCEPT !.merged = Merge(f.merged, part), !.cell = f.cell + 1,
                                    !.conflicts = f.conflicts \o report]
  <2>1. /\ pc[w] = "merge"
        /\ Fail(w) \/ \E report \in Reports(f.merged, part) : Work(w, p, g(report))
    BY <1>11 DEF MergePart
  <2>2. p \in {"merge", "clock"} /\ \A report : g(report).merged = Merge(f.merged, part)
    BY <1>1 DEF Frames
  <2>3. part \in Maps
    <3>1. f.parts \in Seq(Maps) /\ f.cell \in DOMAIN f.parts
      BY <1>1, <2>1 DEF Frames, IndexOK
    <3>2. QED
      BY <3>1
  <2>4. MapCovers(Merge(f.merged, part), f.merged) /\ Merge(f.merged, part) \in Maps
    BY <1>2, <2>3, MergeIsLeastUpperBound, MergeType
  <2>5. MapCovers(f.merged, mem)
    BY <1>1, <2>1 DEF Critical
  <2>6. \A report : MapCovers(g(report).merged, mem)
    BY <1>1, <1>2, <2>2, <2>4, <2>5, MapCoversTransitive
  <2> HIDE DEF g, p, part
  <2>7. \A report : Work(w, p, g(report)) => Quiet(w, p, g(report))
    BY <2>1, <2>2, <2>6 DEF Work, Quiet, disk, ghost, PCs, Critical, Saving
  <2>8. QED
    BY <1>3, <2>1, <2>7
<1>12. CASE TickClock(w)
  <2>1. pc[w] = "clock" /\ (Fail(w) \/ Work(w, "write", f))
    BY <1>12 DEF TickClock
  <2>2. Work(w, "write", f) => Quiet(w, "write", f)
    BY <1>1, <2>1 DEF Work, Quiet, disk, ghost, PCs, Critical, Saving
  <2>3. QED
    BY <1>3, <2>1, <2>2
<1>13. CASE WriteTemp(w)
  <2>1. Quiet(w, "sync", f)
    BY <1>1, <1>13 DEF WriteTemp, Work, Quiet, disk, ghost, PCs, Critical, Saving
  <2>2. QED
    BY <2>1
<1>14. CASE SyncTemp(w)
  <2> DEFINE g == [f EXCEPT !.synced = TRUE]
  <2>1. pc[w] = "sync" /\ Work(w, "rename", g)
    BY <1>14 DEF SyncTemp
  <2>2. g.merged = f.merged /\ g.synced
    BY <1>1 DEF Frames
  <2> HIDE DEF g
  <2>3. Quiet(w, "rename", g)
    BY <1>1, <2>1, <2>2 DEF Work, Quiet, disk, ghost, PCs, Critical, Saving
  <2>4. QED
    BY <2>3
<1>15. CASE SaveFails(w)
  BY <1>3, <1>15 DEF SaveFails, Saving
<1>16. CASE Record(w)
  <2>1. Quiet(w, "ok", f)
    BY <1>2, <1>16 DEF Record, Quiet, disk, ghost, PCs, Critical, Saving
  <2>2. QED
    BY <2>1
<1>17. QED
  BY <1>4, <1>5, <1>6, <1>7, <1>8, <1>9, <1>10, <1>11, <1>12, <1>13, <1>14, <1>15, <1>16
     DEF Step

\* The parts of the invariant that are not about types and the lock.
DataInv == Ahead /\ NeverTorn /\ FileAndMemory /\ (Forced => Promises)

\* A node starts with a file, a memory and promises that agree.
LEMMA InitData == Init => DataInv
<1> SUFFICES ASSUME Init PROVE DataInv
  OBVIOUS
<1>1. Loaded(Missing) = Empty /\ Missing # Torn
  BY NodeAssumption DEF Loaded
<1>2. MapCovers(Empty, Empty)
  BY CoversEmpty
<1>3. \A w \in Workers : pc[w] = "idle"
  BY DEF Init
<1>4. QED
  BY <1>1, <1>2, <1>3
     DEF Init, DataInv, Ahead, NeverTorn, FileAndMemory, Promises, Critical, Saving

\* A quiet step keeps the file, the memory and the promises in agreement.
LEMMA QuietData ==
    ASSUME Inv, NEW w \in Workers, NEW p, NEW f, Quiet(w, p, f)
    PROVE  DataInv'
<1>1. pc \in [Workers -> PCs] /\ frame \in [Workers -> Frames]
  BY DEF Inv, TInv, TypeOK
<1>2. \A v \in Workers : /\ pc'[v] = IF v = w THEN p ELSE pc[v]
                         /\ frame'[v] = IF v = w THEN f ELSE frame[v]
  BY <1>1 DEF Quiet
<1>3. UNCHANGED <<up, mem, path, pathSynced, onDisk, promised>>
  BY DEF Quiet, disk
<1>4. Ahead'
  BY <1>2, <1>3 DEF Quiet, Inv, Ahead
<1>5. NeverTorn'
  BY <1>2, <1>3 DEF Quiet, Inv, NeverTorn
<1>6. FileAndMemory'
  BY <1>2, <1>3 DEF Quiet, Inv, FileAndMemory, Loaded
<1>7. ASSUME Forced PROVE Promises'
  BY <1>2, <1>3, <1>7 DEF Quiet, Inv, Promises, Loaded
<1>8. QED
  BY <1>4, <1>5, <1>6, <1>7 DEF DataInv, Forced

\* Rename: the file moves ahead of the memory, to what w is about to publish.
LEMMA RenameData ==
    ASSUME Inv, NEW w \in Workers, Rename(w)
    PROVE  DataInv'
<1> DEFINE m == frame[w].merged
<1>1. /\ pc \in [Workers -> PCs] /\ m \in Maps /\ mem \in Maps /\ promised \in Maps
      /\ \A v \in Workers : frame[v].merged \in Maps
  BY DEF Inv, TInv, TypeOK, Frames
<1>2. /\ pc[w] = "rename" /\ path' = m /\ pathSynced' = frame[w].synced
      /\ pc' = [pc EXCEPT ![w] = "syncdir"]
      /\ UNCHANGED <<up, mem, frame, onDisk, promised>>
  BY DEF Rename, ghost
<1>3. \A v \in Workers : pc'[v] = IF v = w THEN "syncdir" ELSE pc[v]
  BY <1>1, <1>2
<1>4. \A v \in Workers : v # w => pc[v] \notin Critical
  BY <1>2 DEF Inv, LockInv, OneAtATime, Critical, Saving
<1>5. MapCovers(m, mem)
  BY <1>2 DEF Inv, Ahead, Critical, Saving
<1>6. Loaded(path') = m /\ path' # Torn
  BY <1>1, <1>2, NodeAssumption DEF Loaded
<1>7. Ahead'
  BY <1>2, <1>3, <1>5 DEF Inv, Ahead
<1>8. NeverTorn'
  BY <1>2, <1>3, <1>6 DEF Inv, NeverTorn
<1>9. FileAndMemory'
  <2>1. \A v \in Workers : pc'[v] \in {"syncdir", "publish"} => v = w
    BY <1>3, <1>4 DEF Critical
  <2>2. \A v \in Workers : (pc[v] \in {"syncdir", "publish"})' => path' = frame'[v].merged
    BY <2>1, <1>2
  <2>3. MapCovers(Loaded(path'), mem')
    BY <1>2, <1>5, <1>6
  <2>4. pc'[w] = "syncdir"
    BY <1>3
  <2> HIDE DEF m
  <2>5. QED
    BY <2>2, <2>3, <2>4 DEF FileAndMemory, Loaded
<1>10. ASSUME Forced PROVE Promises'
  <2>1. Promises
    BY <1>10 DEF Inv
  <2>2. MapCovers(mem', promised') /\ MapCovers(Loaded(onDisk'), promised')
    BY <1>2, <2>1 DEF Promises, Loaded
  <2>3. MapCovers(m, promised)
    BY <1>1, <1>5, <2>1, MapCoversTransitive DEF Promises
  <2>4. \A v \in Workers : pc'[v] # "publish"
    BY <1>3, <1>4 DEF Critical
  <2>5. ASSUME NEW v \in Workers, pc'[v] \in {"record", "ok"}
        PROVE  /\ MapCovers(mem, frame[v].merged)
               /\ MapCovers(m, frame[v].merged)
               /\ MapCovers(Loaded(onDisk), frame[v].merged)
    <3>1. pc[v] \in {"record", "ok"}
      BY <1>3, <2>5
    <3>2. MapCovers(mem, frame[v].merged) /\ MapCovers(Loaded(onDisk), frame[v].merged)
      BY <3>1, <2>1 DEF Promises
    <3>3. MapCovers(m, frame[v].merged)
      BY <1>1, <1>5, <3>2, MapCoversTransitive
    <3>4. QED
      BY <3>2, <3>3
  <2>6. \A v \in Workers : pc'[v] \in {"record", "ok"} =>
          /\ MapCovers(mem', frame'[v].merged)
          /\ MapCovers(Loaded(path'), frame'[v].merged)
          /\ MapCovers(Loaded(onDisk'), frame'[v].merged)
    BY <1>2, <1>6, <2>5 DEF Loaded
  <2>7. QED
    BY <1>2, <1>6, <2>2, <2>3, <2>4, <2>6 DEF Promises, Loaded
<1>11. QED
  BY <1>7, <1>8, <1>9, <1>10 DEF DataInv, Forced

\* SyncDir: what a power cut leaves catches up with the file.
LEMMA SyncDirData ==
    ASSUME Inv, NEW w \in Workers, SyncDir(w)
    PROVE  DataInv'
<1>1. pc \in [Workers -> PCs]
  BY DEF Inv, TInv, TypeOK
<1>2. /\ pc[w] = "syncdir" /\ pc' = [pc EXCEPT ![w] = "publish"]
      /\ UNCHANGED <<up, mem, frame, path, pathSynced, promised>>
      /\ onDisk' \in {onDisk, path}
      /\ Forced => onDisk' = path
  BY DEF SyncDir, ghost, Inv, NeverTorn, Forced
<1>3. \A v \in Workers : pc'[v] = IF v = w THEN "publish" ELSE pc[v]
  BY <1>1, <1>2
<1>4. Ahead'
  BY <1>2, <1>3 DEF Inv, Ahead, Critical
<1>5. NeverTorn'
  BY <1>2, <1>3 DEF Inv, NeverTorn, SyncDir
<1>6. FileAndMemory'
  BY <1>2, <1>3 DEF Inv, FileAndMemory, Loaded
<1>7. ASSUME Forced PROVE Promises'
  <2>1. Promises /\ onDisk' = path
    BY <1>2, <1>7 DEF Inv
  <2>2. QED
    BY <1>2, <1>3, <2>1 DEF Promises, Loaded
<1>8. QED
  BY <1>4, <1>5, <1>6, <1>7 DEF DataInv, Forced

\* Publish: the memory catches up with the file.
LEMMA PublishData ==
    ASSUME Inv, NEW w \in Workers, Publish(w)
    PROVE  DataInv'
<1>1. /\ pc \in [Workers -> PCs] /\ frame[w].merged \in Maps
  BY DEF Inv, TInv, TypeOK, Frames
<1>2. /\ pc[w] = "publish" /\ pc' = [pc EXCEPT ![w] = "record"]
      /\ mem' = frame[w].merged
      /\ UNCHANGED <<up, frame, path, pathSynced, onDisk, promised>>
  BY DEF Publish, disk
<1>3. \A v \in Workers : pc'[v] = IF v = w THEN "record" ELSE pc[v]
  BY <1>1, <1>2
<1>4. \A v \in Workers : pc'[v] \notin Critical
  BY <1>2, <1>3 DEF Inv, LockInv, OneAtATime, Critical, Saving
<1>5. path = mem' /\ Loaded(path) = mem'
  BY <1>1, <1>2, NodeAssumption DEF Inv, FileAndMemory, Loaded
<1>6. MapCovers(mem', mem')
  BY <1>1, <1>2, MapCoversReflexive
<1>7. Ahead'
  BY <1>4 DEF Ahead
<1>8. NeverTorn'
  BY <1>2, <1>3 DEF Inv, NeverTorn
<1>9. FileAndMemory'
  BY <1>2, <1>4, <1>5, <1>6 DEF FileAndMemory, Critical, Loaded
<1>10. ASSUME Forced PROVE Promises'
  <2>1. Promises /\ onDisk = path
    BY <1>2, <1>10 DEF Inv, Promises
  <2>2. \A v \in Workers : pc'[v] # "publish"
    BY <1>4 DEF Critical
  <2>3. \A v \in Workers : pc'[v] \in {"record", "ok"} => MapCovers(mem', frame[v].merged)
    BY <1>2, <1>3, <1>5, <1>6, <2>1 DEF Promises
  <2>4. MapCovers(mem', promised)
    BY <1>5, <2>1 DEF Promises
  <2>5. QED
    BY <1>2, <1>5, <2>1, <2>2, <2>3, <2>4 DEF Promises, Loaded
<1>11. QED
  BY <1>7, <1>8, <1>9, <1>10 DEF DataInv, Forced

\* Answer: what the memory and the file already hold is promised.
LEMMA AnswerData ==
    ASSUME Inv, NEW w \in Workers, Answer(w)
    PROVE  DataInv'
<1>1. /\ pc \in [Workers -> PCs] /\ frame \in [Workers -> Frames]
      /\ frame[w].merged \in Maps /\ promised \in Maps /\ mem \in Maps
      /\ path \in Maps \cup {Missing, Torn} /\ onDisk \in Maps \cup {Missing, Torn}
  BY DEF Inv, TInv, TypeOK, Frames
<1>2. /\ pc[w] \in {"ok", "failed"} /\ pc' = [pc EXCEPT ![w] = "idle"]
      /\ frame' = [frame EXCEPT ![w] = AtRest]
      /\ promised' = IF pc[w] = "ok" THEN Merge(promised, frame[w].merged) ELSE promised
      /\ UNCHANGED <<up, mem, path, pathSynced, onDisk>>
  BY DEF Answer, disk
<1>3. \A v \in Workers : /\ pc'[v] = IF v = w THEN "idle" ELSE pc[v]
                         /\ v # w => frame'[v] = frame[v]
  BY <1>1, <1>2
<1>4. Ahead'
  BY <1>2, <1>3 DEF Inv, Ahead, Critical, Saving
<1>5. NeverTorn'
  BY <1>2, <1>3 DEF Inv, NeverTorn
<1>6. FileAndMemory'
  BY <1>2, <1>3 DEF Inv, FileAndMemory, Loaded
<1>7. ASSUME Forced PROVE Promises'
  <2>1. Promises
    BY <1>7 DEF Inv
  <2>2. Loaded(path) \in Maps /\ Loaded(onDisk) \in Maps
    BY <1>1, LoadedType DEF Inv, NeverTorn
  <2>3. ASSUME NEW m \in Maps, MapCovers(m, promised),
               pc[w] = "ok" => MapCovers(m, frame[w].merged)
        PROVE  MapCovers(m, promised')
    BY <1>1, <1>2, <2>3, MergeIsLeastUpperBound
  <2>4. /\ MapCovers(mem, promised') /\ MapCovers(Loaded(path), promised')
        /\ MapCovers(Loaded(onDisk), promised')
    BY <1>1, <2>1, <2>2, <2>3 DEF Promises
  <2>5. QED
    BY <1>2, <1>3, <2>1, <2>4 DEF Promises, Loaded
<1>8. QED
  BY <1>4, <1>5, <1>6, <1>7 DEF DataInv, Forced

\* A crash: nobody is at work, and the file is one of those it could be.
LEMMA CrashData ==
    ASSUME Inv, Kill \/ PowerCut
    PROVE  DataInv'
<1>1. /\ \A w \in Workers : pc'[w] = "idle"
      /\ up' = FALSE /\ UNCHANGED <<mem, promised>>
  BY DEF Kill, PowerCut, Stop
<1>2. /\ path' \in {path, onDisk} /\ onDisk' \in {path, onDisk}
      /\ pathSynced'
      /\ ~PowerCuts => path' = path
  BY DEF Inv, NeverTorn, Kill, PowerCut, AfterPowerCut, disk
<1>3. Ahead' /\ NeverTorn'
  BY <1>1, <1>2 DEF Inv, Ahead, NeverTorn, Critical, Saving
<1>4. FileAndMemory'
  BY <1>1, <1>2 DEF Inv, FileAndMemory, Loaded
<1>5. ASSUME Forced PROVE Promises'
  <2>1. Promises
    BY <1>5 DEF Inv
  <2>2. QED
    BY <1>1, <1>2, <2>1 DEF Promises, Loaded
<1>6. QED
  BY <1>3, <1>4, <1>5 DEF DataInv, Forced

\* Restart: the memory is what the file reads as.
LEMMA RestartData ==
    ASSUME Inv, Restart
    PROVE  DataInv'
<1>1. /\ mem' = Loaded(path) /\ up' = TRUE
      /\ UNCHANGED <<pc, frame, path, pathSynced, onDisk, promised>>
  BY DEF Restart, disk, ghost
<1>2. \A w \in Workers : pc[w] = "idle"
  BY DEF Restart, Inv, LockInv
<1>3. Loaded(path) \in Maps
  BY LoadedType DEF Inv, TInv, TypeOK, NeverTorn
<1>4. MapCovers(Loaded(path), Loaded(path))
  BY <1>3, MapCoversReflexive
<1>5. Ahead' /\ NeverTorn' /\ FileAndMemory'
  BY <1>1, <1>2, <1>4
     DEF Inv, Ahead, NeverTorn, FileAndMemory, Critical, Saving, Loaded
<1>6. ASSUME Forced PROVE Promises'
  <2>1. Promises
    BY <1>6 DEF Inv
  <2>2. QED
    BY <1>1, <1>2, <2>1 DEF Promises, Loaded
<1>7. QED
  BY <1>5, <1>6 DEF DataInv, Forced

\* Every step keeps the inductive invariant.
LEMMA NextInv == Inv /\ [Next]_vars => Inv'
<1> SUFFICES ASSUME Inv, [Next]_vars PROVE Inv'
  OBVIOUS
<1>1. TInv' /\ LockInv'
  BY NextType, NextLock DEF Inv
<1>2. DataInv'
  <2>1. ASSUME NEW w \in Workers, Receive(w) \/ Step(w) PROVE DataInv'
    <3>1. CASE Rename(w)
      BY <3>1, RenameData
    <3>2. CASE SyncDir(w)
      BY <3>2, SyncDirData
    <3>3. CASE Publish(w)
      BY <3>3, PublishData
    <3>4. CASE Answer(w)
      BY <3>4, AnswerData
    <3>5. CASE ~Rename(w) /\ ~SyncDir(w) /\ ~Publish(w) /\ ~Answer(w)
      BY <2>1, <3>5, QuietSteps, QuietData
    <3>6. QED
      BY <3>1, <3>2, <3>3, <3>4, <3>5
  <2>2. CASE UNCHANGED vars
    BY <2>2 DEF vars, disk, ghost, Inv, DataInv, Ahead, NeverTorn, FileAndMemory,
                Promises, Loaded
  <2>3. QED
    BY <2>1, <2>2, CrashData, RestartData DEF Next
<1>3. QED
  BY <1>1, <1>2 DEF Inv, DataInv

\* The inductive invariant holds in every reachable state of a node.
THEOREM Invariance == Spec => []Inv
<1>1. Init => Inv
  BY InitType, InitLock, InitData DEF Inv, DataInv
<1>2. QED
  BY <1>1, NextInv, PTL DEF Spec

\* Whenever nobody holds the lock, the file holds what the memory holds: no
\* failed save, crash or interleaving leaves them apart.
THEOREM Agreement == Spec => []MemoryIsOnDisk
<1>1. Inv => MemoryIsOnDisk
  <2> SUFFICES ASSUME Inv, up, lock = Free PROVE mem = Loaded(path)
    BY DEF MemoryIsOnDisk
  <2>1. \A w \in Workers : pc[w] \notin Critical
    BY NodeAssumption DEF Inv, LockInv, OneAtATime
  <2>2. QED
    BY <2>1 DEF Inv, FileAndMemory, Critical
<1>2. QED
  BY <1>1, Invariance, PTL

\* Where the directory of the file is always synced, no power cut at any
\* instant loses anything a 200 was answered for, or leaves part of a map.
THEOREM Durability ==
    ASSUME Forced
    PROVE  Spec => []PromisedIsDurable
<1>1. Inv => PromisedIsDurable
  BY Forced DEF Inv, NeverTorn, Promises, PromisedIsDurable, AfterPowerCut
<1>2. QED
  BY <1>1, Invariance, PTL

\* There, the node never stops showing what a 200 was answered for.
THEOREM Faithfulness ==
    ASSUME Forced
    PROVE  Spec => []PromisesKept
<1>1. Inv => PromisesKept
  BY Forced DEF Inv, Promises, PromisesKept
<1>2. QED
  BY <1>1, Invariance, PTL

\* Where the power never goes, entries only advance, restarts included.
THEOREM Advance ==
    ASSUME ~PowerCuts
    PROVE  Spec => NeverRegresses
<1>1. Inv /\ [Next]_vars => [MapCovers(mem', mem)]_mem
  <2> SUFFICES ASSUME Inv, [Next]_vars, mem' # mem PROVE MapCovers(mem', mem)
    OBVIOUS
  <2>1. ASSUME NEW w \in Workers, Receive(w) \/ Step(w) PROVE MapCovers(mem', mem)
    <3>1. CASE Publish(w)
      BY <3>1 DEF Publish, Inv, Ahead, Critical
    <3>2. CASE Rename(w) \/ SyncDir(w) \/ Answer(w)
      BY <3>2 DEF Rename, SyncDir, Answer
    <3>3. CASE ~Rename(w) /\ ~SyncDir(w) /\ ~Publish(w) /\ ~Answer(w)
      BY <2>1, <3>3, QuietSteps DEF Quiet
    <3>4. QED
      BY <3>1, <3>2, <3>3
  <2>2. CASE Kill \/ PowerCut
    BY <2>2 DEF Kill, PowerCut, Stop
  <2>3. CASE Restart
    BY <2>3 DEF Restart, Inv, FileAndMemory
  <2>4. CASE UNCHANGED vars
    BY <2>4 DEF vars
  <2>5. QED
    BY <2>1, <2>2, <2>3, <2>4 DEF Next
<1>2. QED
  BY <1>1, Invariance, PTL DEF Spec, NeverRegresses
-----------------------------------------------------------------------------
(* Atomic has operators of its own, the copies of those of Handlers: each is shown   *)
(* to be the same operator, so that the lemmas about Handlers are about it.          *)

\* The order of entries.
LEMMA SameOrder ==
    \A d, e : /\ Atomic!Join(d, e) = Join(d, e)
              /\ Atomic!Collide(d, e) <=> Collide(d, e)
              /\ Atomic!SameStamp(d, e) <=> SameStamp(d, e)
              /\ Atomic!RankLess(Atomic!Rank(d), Atomic!Rank(e)) <=> RankLess(Rank(d), Rank(e))
<1>1. \A e : Atomic!Rank(e) = Rank(e) /\ Atomic!Stamp(e) = Stamp(e)
  BY DEF Atomic!Rank, Atomic!IsTombstone, Rank, IsTombstone, Atomic!Stamp, Stamp
<1>2. \A r, s : Atomic!RankLess(r, s) <=> RankLess(r, s)
  BY DEF Atomic!RankLess, RankLess
<1>3. \A d, e : Atomic!Join(d, e) = Join(d, e)
  BY <1>1, <1>2 DEF Atomic!Join, Join, Atomic!Covers, Covers
<1>4. \A d, e : /\ Atomic!Collide(d, e) <=> Collide(d, e)
                /\ Atomic!SameStamp(d, e) <=> SameStamp(d, e)
  BY <1>1 DEF Atomic!Collide, Collide, Atomic!SameStamp, SameStamp
<1>5. QED
  BY <1>1, <1>2, <1>3, <1>4

\* The merge of two maps.
LEMMA SameMerge ==
    /\ Atomic!Empty = Empty
    /\ \A m, o : Atomic!Merge(m, o) = Merge(m, o)
    /\ \A m, o : Atomic!MergeCollides(m, o) <=> MergeCollides(m, o)
BY SameOrder DEF Atomic!Merge, Merge, Atomic!Empty, Empty, Atomic!MergeCollides, MergeCollides

\* A new entry, and one that is restored.
LEMMA SameEntry ==
    /\ \A m, k, v, t, w : Atomic!NewEntry(m, k, v, t, w) = NewEntry(m, k, v, t, w)
    /\ \A m, k, e : Atomic!RestoreEntry(m, k, e) = RestoreEntry(m, k, e)
<1>1. \A m, k, v, t, w : Atomic!NewEntry(m, k, v, t, w) = NewEntry(m, k, v, t, w)
  BY DEF Atomic!NewEntry, NewEntry, Atomic!NextGeneration, NextGeneration,
         Atomic!IsTombstone, IsTombstone
<1>2. \A m, k, e : Atomic!RestoreEntry(m, k, e) = RestoreEntry(m, k, e)
  BY SameOrder DEF Atomic!RestoreEntry, RestoreEntry
<1>3. QED
  BY <1>1, <1>2

\* A key that is set.
LEMMA SameSet ==
    \A m, k, v, t, w : Atomic!SetChecked(m, k, v, t, w) = SetChecked(m, k, v, t, w)
<1> SUFFICES ASSUME NEW m, NEW k, NEW v, NEW t, NEW w
             PROVE  Atomic!SetChecked(m, k, v, t, w) = SetChecked(m, k, v, t, w)
  OBVIOUS
<1> DEFINE e == NewEntry(m, k, v, t, w)
           keep == /\ m[k] # NoEntry
                   /\ SameStamp(m[k], e) \/ RankLess(Rank(e), Rank(m[k]))
           kept == /\ m[k] # NoEntry
                   /\ \/ Atomic!SameStamp(m[k], e)
                      \/ Atomic!RankLess(Atomic!Rank(e), Atomic!Rank(m[k]))
<1>1. Atomic!NewEntry(m, k, v, t, w) = e
  BY SameEntry
<1>2. SetChecked(m, k, v, t, w) = IF keep THEN m ELSE [m EXCEPT ![k] = e]
  BY DEF SetChecked
<1>3. Atomic!SetChecked(m, k, v, t, w) = IF kept THEN m ELSE [m EXCEPT ![k] = e]
  BY <1>1, Zenon DEF Atomic!SetChecked
<1>4. keep <=> kept
  BY SameOrder, Zenon
<1> HIDE DEF e, keep, kept
<1>5. QED
  BY <1>2, <1>3, <1>4, Zenon

\* One write of a cell.
LEMMA SameWrite ==
    \A m, w, x : /\ Atomic!ApplyWrite(m, w, x) = ApplyWrite(m, w, x)
                 /\ Atomic!WriteCollides(m, w, x) <=> WriteCollides(m, w, x)
<1>1. \A m, k, t, w : Atomic!RemoveEntry(m, k, t, w) = RemoveEntry(m, k, t, w)
  BY SameEntry DEF Atomic!RemoveEntry, RemoveEntry
<1>2. ASSUME NEW m, NEW w, NEW x PROVE Atomic!ApplyWrite(m, w, x) = ApplyWrite(m, w, x)
  <2>1. Atomic!RemoveEntry(m, x.key, x.time, w) = RemoveEntry(m, x.key, x.time, w)
    BY <1>1
  <2>2. \A e : Atomic!RestoreEntry(m, x.key, e) = RestoreEntry(m, x.key, e)
    BY SameEntry
  <2>3. Atomic!SetChecked(m, x.key, x.value, x.time, w) = SetChecked(m, x.key, x.value, x.time, w)
    BY SameSet
  <2>4. QED
    BY <2>1, <2>2, <2>3 DEF Atomic!ApplyWrite, ApplyWrite
<1>3. \A m, w, x : Atomic!WriteCollides(m, w, x) <=> WriteCollides(m, w, x)
  BY SameOrder, SameEntry
     DEF Atomic!WriteCollides, WriteCollides, Atomic!SetCollides, SetCollides
<1>4. QED
  BY <1>2, <1>3

\* What a step of a loop has made.
LEMMA SameAttempt ==
    \A p, q, m : (p <=> q) => Atomic!Attempted(p, m) = Attempted(q, m)
<1> SUFFICES ASSUME NEW p, NEW q, NEW m, p <=> q
             PROVE  Atomic!Attempted(p, m) = Attempted(q, m)
  OBVIOUS
<1>1. p = q
  BY Zenon
<1>2. QED
  BY <1>1, Zenon DEF Atomic!Attempted, Attempted

\* The loop over the writes of a cell.
LEMMA SameCell == \A cell : Atomic!CellMaps(cell) = CellMaps(cell)
<1> SUFFICES ASSUME NEW cell PROVE Atomic!CellMaps(cell) = CellMaps(cell)
  OBVIOUS
<1> DEFINE
      next(g, n) == Attempted(g[n - 1].ok /\ ~WriteCollides(g[n - 1].map, cell.writer,
                                                            cell.writes[n]),
                              ApplyWrite(g[n - 1].map, cell.writer, cell.writes[n]))
      nextA(g, n) == Atomic!Attempted(
                         g[n - 1].ok /\ ~Atomic!WriteCollides(g[n - 1].map, cell.writer,
                                                              cell.writes[n]),
                         Atomic!ApplyWrite(g[n - 1].map, cell.writer, cell.writes[n]))
      body(g) == [n \in 0 .. Len(cell.writes) |->
                     IF n = 0 THEN Attempted(TRUE, Empty) ELSE next(g, n)]
      bodyA(g) == [n \in 0 .. Len(cell.writes) |->
                      IF n = 0 THEN Atomic!Attempted(TRUE, Atomic!Empty) ELSE nextA(g, n)]
<1>1. \A g, n : next(g, n) = nextA(g, n)
  BY SameWrite, SameAttempt, Zenon
<1>2. Atomic!Attempted(TRUE, Atomic!Empty) = Attempted(TRUE, Empty)
  BY SameMerge, SameAttempt, Zenon
<1>3. CellMaps(cell) = CHOOSE g : g = body(g)
  BY Zenon DEF CellMaps
<1>4. Atomic!CellMaps(cell) = CHOOSE g : g = bodyA(g)
  BY Zenon DEF Atomic!CellMaps
<1> HIDE DEF next, nextA
<1>5. ASSUME NEW g PROVE body(g) = bodyA(g)
  BY <1>1, <1>2, Zenon
<1> HIDE DEF body, bodyA
<1>6. QED
  BY <1>3, <1>4, <1>5, Zenon

\* The loop over the cells of a request.
LEMMA SameCells == \A cells, m : Atomic!MergedCells(cells, m) = MergedCells(cells, m)
<1> SUFFICES ASSUME NEW cells, NEW m
             PROVE  Atomic!MergedCells(cells, m) = MergedCells(cells, m)
  OBVIOUS
<1> DEFINE
      built(n) == CellMap(cells[n])
      builtA(n) == Atomic!CellMap(cells[n])
      next(g, n) == Attempted(g[n - 1].ok /\ built(n).ok
                                  /\ ~MergeCollides(g[n - 1].map, built(n).map),
                              Merge(g[n - 1].map, built(n).map))
      nextA(g, n) == Atomic!Attempted(
                         g[n - 1].ok /\ builtA(n).ok
                             /\ ~Atomic!MergeCollides(g[n - 1].map, builtA(n).map),
                         Atomic!Merge(g[n - 1].map, builtA(n).map))
      body(g) == [n \in 0 .. Len(cells) |->
                     IF n = 0 THEN Attempted(TRUE, m) ELSE next(g, n)]
      bodyA(g) == [n \in 0 .. Len(cells) |->
                      IF n = 0 THEN Atomic!Attempted(TRUE, m) ELSE nextA(g, n)]
<1>1. \A n : built(n) = builtA(n)
  BY SameCell, Zenon DEF CellMap, Atomic!CellMap
<1>2. MergedCells(cells, m) = CHOOSE g : g = body(g)
  BY Zenon DEF MergedCells
<1>3. Atomic!MergedCells(cells, m) = CHOOSE g : g = bodyA(g)
  BY Zenon DEF Atomic!MergedCells
<1> HIDE DEF built, builtA
<1>4. \A g, n : next(g, n) = nextA(g, n)
  BY <1>1, SameMerge, SameAttempt, Zenon
<1>5. Atomic!Attempted(TRUE, m) = Attempted(TRUE, m)
  BY SameAttempt, Zenon
<1> HIDE DEF next, nextA
<1>6. ASSUME NEW g PROVE body(g) = bodyA(g)
  BY <1>4, <1>5, Zenon
<1> HIDE DEF body, bodyA
<1>7. QED
  BY <1>2, <1>3, <1>6, Zenon

\* The loop over the entries of a request.
LEMMA SameEntries == \A entries : Atomic!EntryMaps(entries) = EntryMaps(entries)
<1> SUFFICES ASSUME NEW entries PROVE Atomic!EntryMaps(entries) = EntryMaps(entries)
  OBVIOUS
<1> DEFINE
      x(n) == entries[n]
      next(g, n) == [ok   |-> g[n - 1].ok /\ ~EntryCollides(g[n - 1].seen, x(n)),
                     map  |-> RestoreEntry(g[n - 1].map, x(n).key, x(n).entry),
                     seen |-> [g[n - 1].seen EXCEPT ![x(n).key] = x(n).entry]]
      nextA(g, n) == [ok   |-> g[n - 1].ok /\ ~Atomic!EntryCollides(g[n - 1].seen, x(n)),
                      map  |-> Atomic!RestoreEntry(g[n - 1].map, x(n).key, x(n).entry),
                      seen |-> [g[n - 1].seen EXCEPT ![x(n).key] = x(n).entry]]
      body(g) == [n \in 0 .. Len(entries) |->
                     IF n = 0 THEN [ok |-> TRUE, map |-> Empty, seen |-> Empty]
                     ELSE next(g, n)]
      bodyA(g) == [n \in 0 .. Len(entries) |->
                      IF n = 0 THEN [ok |-> TRUE, map |-> Atomic!Empty, seen |-> Atomic!Empty]
                      ELSE nextA(g, n)]
<1>1. ASSUME NEW g, NEW n PROVE next(g, n) = nextA(g, n)
  <2>1. Atomic!EntryCollides(g[n - 1].seen, x(n)) <=> EntryCollides(g[n - 1].seen, x(n))
    BY SameOrder, Zenon DEF Atomic!EntryCollides, EntryCollides
  <2>2. (g[n - 1].ok /\ ~Atomic!EntryCollides(g[n - 1].seen, x(n)))
            = (g[n - 1].ok /\ ~EntryCollides(g[n - 1].seen, x(n)))
    BY <2>1, Zenon
  <2>3. QED
    BY <2>2, SameEntry, Zenon
<1>2. EntryMaps(entries) = CHOOSE g : g = body(g)
  BY Zenon DEF EntryMaps
<1>3. Atomic!EntryMaps(entries) = CHOOSE g : g = bodyA(g)
  BY Zenon DEF Atomic!EntryMaps
<1> HIDE DEF next, nextA
<1>4. ASSUME NEW g PROVE body(g) = bodyA(g)
  BY <1>1, SameMerge, Zenon
<1> HIDE DEF body, bodyA
<1>5. QED
  BY <1>2, <1>3, <1>4, Zenon

\* The checks of a request, and the clock.
LEMMA SameChecks ==
    \A r, m : /\ Atomic!PassesChecks(r, m) <=> PassesChecks(r, m)
              /\ Atomic!ClockOverflows(m) <=> ClockOverflows(m)
<1> SUFFICES ASSUME NEW r, NEW m
             PROVE  /\ Atomic!PassesChecks(r, m) <=> PassesChecks(r, m)
                    /\ Atomic!ClockOverflows(m) <=> ClockOverflows(m)
  OBVIOUS
<1>1. Atomic!Held(m) = Held(m)
  BY DEF Atomic!Held, Held
<1>2. Atomic!MaxTime(m) = MaxTime(m)
  BY <1>1, Zenon DEF Atomic!MaxTime, MaxTime
<1>3. Atomic!TimeLimit(m) = TimeLimit(m)
  BY <1>2, Zenon DEF Atomic!TimeLimit, TimeLimit, Atomic!SaturatingAdd, SaturatingAdd
<1>4. Atomic!ClockOverflows(m) <=> ClockOverflows(m)
  BY <1>1, <1>2, Zenon
     DEF Atomic!ClockOverflows, ClockOverflows, Atomic!NextLocalTime, NextLocalTime
<1>5. \A k, v : /\ Atomic!Malformed(k, v) <=> Malformed(k, v)
                /\ Atomic!RequiredGeneration(k, v) = RequiredGeneration(k, v)
  BY Zenon DEF Atomic!Malformed, Malformed, Atomic!RequiredGeneration, RequiredGeneration,
               Atomic!SaturatingAdd, SaturatingAdd
<1>6. \A k, e : Atomic!CheckEntry(k, e, m) <=> CheckEntry(k, e, m)
  BY <1>3, <1>5, Zenon DEF Atomic!CheckEntry, CheckEntry, Atomic!SaturatingAdd, SaturatingAdd,
               Atomic!GenerationOf, GenerationOf, Atomic!IsTombstone, IsTombstone
<1>7. Atomic!CheckEntries(r.entries, m) <=> CheckEntries(r.entries, m)
  BY <1>6, Zenon DEF Atomic!CheckEntries, CheckEntries
<1>8. Atomic!CheckStamps(r.cells, m) <=> CheckStamps(r.cells, m)
  BY <1>3, Zenon DEF Atomic!CheckStamps, CheckStamps
<1>9. Atomic!CheckWrites(r.cells) <=> CheckWrites(r.cells)
  BY <1>5, Zenon DEF Atomic!CheckWrites, CheckWrites
<1>10. Atomic!NothingToDo(r) <=> NothingToDo(r)
  BY Zenon DEF Atomic!NothingToDo, NothingToDo
<1>11. Atomic!PassesChecks(r, m) <=> PassesChecks(r, m)
  BY <1>7, <1>8, <1>9, <1>10, Zenon DEF Atomic!PassesChecks, PassesChecks
<1>12. QED
  BY <1>4, <1>11

\* The whole handler.
LEMMA SameHandler ==
    \A r, m : /\ Atomic!Accepts(r, m) <=> Accepts(r, m)
              /\ Atomic!After(r, m) = After(r, m)
<1> SUFFICES ASSUME NEW r, NEW m PROVE Atomic!Handle(r, m) = Handle(r, m)
  BY Zenon DEF Atomic!Accepts, Accepts, Atomic!After, After
<1>1. \A cells : Atomic!MergeCells(cells, m) = MergeCells(cells, m)
  BY SameCells, Zenon DEF Atomic!MergeCells, MergeCells
<1>2. \A entries : Atomic!EntryMap(entries) = EntryMap(entries)
  BY SameEntries, Zenon DEF Atomic!EntryMap, EntryMap
<1>3. \A entries : Atomic!MergeEntries(entries, m) = MergeEntries(entries, m)
  BY <1>2, SameMerge, SameAttempt, Zenon DEF Atomic!MergeEntries, MergeEntries
<1>4. Atomic!Merged(r, m) = Merged(r, m)
  BY <1>1, <1>3, Zenon DEF Atomic!Merged, Merged
<1>5. QED
  BY <1>4, SameChecks, SameAttempt, Zenon DEF Atomic!Handle, Handle

-----------------------------------------------------------------------------
(* One whole request at a time. *)

\* What f has built of the first n cells of its request.
Built(f, n) ==
    /\ Len(f.parts) = n
    /\ \A i \in 1 .. n : /\ CellMap(f.req.cells[i]).ok
                         /\ f.parts[i] = CellMap(f.req.cells[i]).map

\* A worker at p with the locals f is where the loops of the handler would be, had
\* they been run in one go on the memory m.
OnTrack(p, f, m) ==
    /\ p = "waiting" => f = Fresh(f.req)
    /\ p \in {"build", "merge", "clock"} => PassesChecks(f.req, m)
    /\ p = "build" => f.merged = m
    /\ p = "build" /\ f.req.kind = "reconcile" =>
           LET c == f.req.cells[f.cell]
           IN  /\ Built(f, f.cell - 1)
               /\ f.write \in 1 .. Len(c.writes) + 1
               /\ CellMaps(c)[f.write - 1] = Attempted(TRUE, f.part)
    /\ p = "build" /\ f.req.kind = "merge" =>
           /\ f.write \in 1 .. Len(f.req.entries) + 1
           /\ EntryMaps(f.req.entries)[f.write - 1] = [ok |-> TRUE, map |-> f.part, seen |-> f.seen]
    /\ p = "merge" /\ f.req.kind = "reconcile" =>
           /\ Built(f, Len(f.req.cells))
           /\ MergedCells(f.req.cells, m)[f.cell - 1] = Attempted(TRUE, f.merged)
    /\ p = "merge" /\ f.req.kind = "merge" =>
           /\ EntryMap(f.req.entries).ok /\ f.parts = <<EntryMap(f.req.entries).map>>
           /\ f.merged = m
    /\ p = "clock" => Merged(f.req, m) = Attempted(TRUE, f.merged)
    /\ p \in Saving \cup {"syncdir", "publish"} => Handle(f.req, m) = Attempted(TRUE, f.merged)

\* The file is that of the memory, or of the memory after one request it accepts.
OneAhead ==
    \/ Loaded(path) = mem
    \/ \E r \in Requests : Accepts(r, mem) /\ Loaded(path) = After(r, mem)

Progress ==
    /\ \A w \in Workers : OnTrack(pc[w], frame[w], mem)
    /\ ~PowerCuts => OneAhead

\* A worker that is not between its check and its publication may be there whatever
\* the memory is.
LEMMA OffTrack ==
    ASSUME NEW p, p \notin Critical, NEW f, NEW m, NEW n, OnTrack(p, f, m)
    PROVE  OnTrack(p, f, n)
BY DEF OnTrack, Critical, Saving

\* A step of one worker that leaves the memory and the file alone.
LEMMA TrackStep ==
    ASSUME Inv, Progress, NEW w \in Workers, NEW p, NEW f, OnTrack(p, f, mem),
           pc' = [pc EXCEPT ![w] = p], frame' = [frame EXCEPT ![w] = f],
           UNCHANGED <<mem, path>>
    PROVE  Progress'
<1>1. pc \in [Workers -> PCs] /\ frame \in [Workers -> Frames]
  BY DEF Inv, TInv, TypeOK
<1>2. \A v \in Workers : /\ pc'[v] = IF v = w THEN p ELSE pc[v]
                         /\ frame'[v] = IF v = w THEN f ELSE frame[v]
  BY <1>1
<1>3. \A v \in Workers : OnTrack(pc'[v], frame'[v], mem)
  BY <1>2, Zenon DEF Progress
<1>4. (~PowerCuts => OneAhead)'
  BY DEF Progress, OneAhead, Loaded
<1>5. QED
  BY <1>3, <1>4 DEF Progress

\* The same of a step that leaves the locals alone too.
LEMMA TrackMove ==
    ASSUME Inv, Progress, NEW w \in Workers, NEW p, OnTrack(p, frame[w], mem),
           pc' = [pc EXCEPT ![w] = p], UNCHANGED <<frame, mem, path>>
    PROVE  Progress'
<1>1. frame' = [frame EXCEPT ![w] = frame[w]]
  BY DEF Inv, TInv, TypeOK
<1> DEFINE f == frame[w]
<1>2. OnTrack(p, f, mem) /\ frame' = [frame EXCEPT ![w] = f]
  BY <1>1
<1> HIDE DEF f
<1>3. QED
  BY <1>2, TrackStep

\* An error leaves nothing to be on track of.
LEMMA TrackFail ==
    ASSUME Inv, Progress, NEW w \in Workers, Fail(w)
    PROVE  Progress'
<1>1. OnTrack("failed", frame[w], mem)
  BY DEF OnTrack, Saving
<1>2. QED
  BY <1>1, TrackMove DEF Fail, disk

\* A write is the next round of the loop over its cell.
LEMMA TrackBuildWrite ==
    ASSUME Inv, Progress, NEW w \in Workers, BuildWrite(w)
    PROVE  Progress'
<1> DEFINE f == frame[w]
           c == f.req.cells[f.cell]
           x == c.writes[f.write]
           g == [f EXCEPT !.part = ApplyWrite(f.part, c.writer, x), !.write = f.write + 1]
<1>1. f \in Frames /\ IndexOK(pc[w], f) /\ OnTrack(pc[w], f, mem)
  BY DEF Inv, TInv, TypeOK, Indices, Progress
<1>2. /\ pc[w] = "build" /\ f.req.kind = "reconcile" /\ f.write <= Len(c.writes)
      /\ Fail(w) \/ (Work(w, "build", g) /\ ~WriteCollides(f.part, c.writer, x))
  BY DEF BuildWrite
<1>3. f.req \in Requests /\ f.write \in Nat
  BY <1>1 DEF Frames
<1>4. c \in Cells
  <2>1. f.req.cells \in Seq(Cells)
    BY <1>2, <1>3, ReconcileType
  <2>2. f.cell \in DOMAIN f.req.cells
    BY <1>1, <1>2 DEF IndexOK
  <2> HIDE DEF f
  <2>3. QED
    BY <2>1, <2>2
<1>5. /\ PassesChecks(f.req, mem) /\ f.merged = mem /\ Built(f, f.cell - 1)
      /\ f.write \in 1 .. Len(c.writes) + 1
      /\ CellMaps(c)[f.write - 1] = Attempted(TRUE, f.part)
  BY <1>1, <1>2 DEF OnTrack
<1>6. f.write \in 1 .. Len(c.writes) /\ f.write + 1 \in 1 .. Len(c.writes) + 1
  <2> DEFINE n == f.write
             len == Len(c.writes)
  <2>1. len \in Nat /\ n \in Nat /\ n <= len /\ n \in 1 .. len + 1
    BY <1>2, <1>3, <1>4, <1>5, CellLoop
  <2> HIDE DEF n, len
  <2>2. n \in 1 .. len /\ n + 1 \in 1 .. len + 1
    BY <2>1
  <2>3. QED
    BY <2>2 DEF n, len
<1>7. CellMaps(c)[f.write] = CellStep(c, f.write, Attempted(TRUE, f.part))
  BY <1>4, <1>5, <1>6, CellLoop
<1>8. CASE Fail(w)
  BY <1>8, TrackFail
<1>9. CASE Work(w, "build", g) /\ ~WriteCollides(f.part, c.writer, x)
  <2>1. CellStep(c, f.write, Attempted(TRUE, f.part))
            = Attempted(TRUE, ApplyWrite(f.part, c.writer, x))
    <3> DEFINE acc == Attempted(TRUE, f.part)
    <3>1. acc.ok = TRUE /\ acc.map = f.part
      BY DEF Attempted
    <3> HIDE DEF acc
    <3>2. (acc.ok /\ ~WriteCollides(acc.map, c.writer, x)) = TRUE
      BY <1>9, <3>1, Zenon
    <3>3. QED
      BY <3>1, <3>2, Zenon DEF CellStep, acc
  <2>2. /\ g.req = f.req /\ g.cell = f.cell /\ g.merged = f.merged /\ g.parts = f.parts
        /\ g.write = f.write + 1 /\ g.part = ApplyWrite(f.part, c.writer, x)
    BY <1>1 DEF Frames
  <2>3. g.write - 1 = f.write
    BY <1>3, <2>2
  <2>4. Built(g, g.cell - 1)
    BY <1>5, <2>2, Zenon DEF Built
  <2>5. CellMaps(c)[g.write - 1] = Attempted(TRUE, g.part)
    BY <1>7, <2>1, <2>2, <2>3, Zenon
  <2> HIDE DEF g, f
  <2>6. OnTrack("build", g, mem)
    BY <1>2, <1>5, <1>6, <2>2, <2>4, <2>5, Zenon DEF OnTrack, Saving
  <2>7. QED
    BY <1>9, <2>6, TrackStep DEF Work, disk, f
<1>10. QED
  BY <1>2, <1>8, <1>9

\* A cell is finished when the loop over its writes is.
LEMMA TrackFinishCell ==
    ASSUME Inv, Progress, NEW w \in Workers, FinishCell(w)
    PROVE  Progress'
<1> DEFINE f == frame[w]
           cells == f.req.cells
           last == f.cell = Len(cells)
           c == cells[f.cell]
           p == IF last THEN "merge" ELSE "build"
           next == IF last THEN 1 ELSE f.cell + 1
           g == [f EXCEPT !.parts = Append(f.parts, f.part), !.part = Empty, !.write = 1,
                          !.cell = next]
<1>1. f \in Frames /\ IndexOK(pc[w], f) /\ OnTrack(pc[w], f, mem) /\ mem \in Maps
  BY DEF Inv, TInv, TypeOK, Indices, Progress
<1>2. /\ pc[w] = "build" /\ f.req.kind = "reconcile" /\ f.write > Len(c.writes)
      /\ Work(w, p, g)
  BY DEF FinishCell
<1>3. /\ f.req \in Requests /\ f.write \in Nat /\ f.cell \in Nat /\ f.parts \in Seq(Maps)
      /\ f.part \in Maps
  BY <1>1 DEF Frames
<1>4. cells \in Seq(Cells) /\ f.cell \in 1 .. Len(cells) /\ c \in Cells
  BY <1>1, <1>2, <1>3, ReconcileType DEF IndexOK
<1>5. /\ PassesChecks(f.req, mem) /\ f.merged = mem /\ Built(f, f.cell - 1)
      /\ f.write \in 1 .. Len(c.writes) + 1
      /\ CellMaps(c)[f.write - 1] = Attempted(TRUE, f.part)
  BY <1>1, <1>2 DEF OnTrack
<1>6. CellMap(c) = Attempted(TRUE, f.part)
  <2>1. Len(c.writes) \in Nat
    BY <1>4, CellLoop
  <2> DEFINE n == f.write
             len == Len(c.writes)
  <2>2. n - 1 = len
    <3>1. n \in Nat /\ len \in Nat /\ n > len /\ n \in 1 .. len + 1
      BY <1>2, <1>3, <1>5, <2>1
    <3> HIDE DEF n, len
    <3>2. QED
      BY <3>1
  <2>3. QED
    BY <1>5, <2>2 DEF CellMap
<1>7. /\ g.req = f.req /\ g.cell = next /\ g.merged = f.merged /\ g.part = Empty
      /\ g.write = 1 /\ g.parts = Append(f.parts, f.part)
  BY <1>1 DEF Frames
<1> HIDE DEF g, c
<1>8. Built(g, f.cell)
  <2>1. Len(f.parts) = f.cell - 1 /\ Len(g.parts) = f.cell
    BY <1>3, <1>5, <1>7 DEF Built
  <2>2. ASSUME NEW i \in 1 .. f.cell
        PROVE  CellMap(cells[i]).ok /\ g.parts[i] = CellMap(cells[i]).map
    <3>1. CASE i = f.cell
      <4>1. g.parts[i] = f.part
        BY <1>3, <1>7, <2>1, <3>1
      <4>2. QED
        BY <1>6, <3>1, <4>1 DEF Attempted, c
    <3>2. CASE i \in 1 .. f.cell - 1
      <4>1. g.parts[i] = f.parts[i]
        BY <1>3, <1>7, <2>1, <3>2
      <4>2. QED
        BY <1>5, <3>2, <4>1, Zenon DEF Built
    <3>3. QED
      BY <1>3, <3>1, <3>2
  <2>3. QED
    BY <1>7, <2>1, <2>2 DEF Built
<1>9. CASE last
  <2>1. MergedCells(cells, mem)[0] = Attempted(TRUE, g.merged)
    BY <1>1, <1>4, <1>5, <1>7, CellsLoop
  <2>2. g.cell - 1 = 0 /\ p = "merge"
    BY <1>7, <1>9
  <2> HIDE DEF f, p
  <2>3. OnTrack("merge", g, mem)
    BY <1>2, <1>5, <1>7, <1>8, <1>9, <2>1, <2>2, Zenon DEF OnTrack, Saving
  <2>4. QED
    BY <1>2, <2>2, <2>3, TrackStep DEF Work, disk
<1>10. CASE ~last
  <2> DEFINE d == cells[g.cell]
  <2>1. g.cell = f.cell + 1 /\ g.cell - 1 = f.cell /\ g.cell \in 1 .. Len(cells) /\ p = "build"
    BY <1>4, <1>7, <1>10
  <2>2. d \in Cells
    BY <1>4, <2>1
  <2> HIDE DEF d
  <2>3. Len(d.writes) \in Nat /\ CellMaps(d)[0] = Attempted(TRUE, Empty)
    BY <2>2, CellLoop
  <2>4. g.write \in 1 .. Len(d.writes) + 1 /\ g.write - 1 = 0
    BY <1>7, <2>3
  <2>5. Built(g, g.cell - 1) /\ CellMaps(d)[g.write - 1] = Attempted(TRUE, g.part)
    BY <1>7, <1>8, <2>1, <2>3, <2>4, Zenon
  <2>6. d = g.req.cells[g.cell]
    BY <1>7 DEF d
  <2> HIDE DEF f, p
  <2>7. OnTrack("build", g, mem)
    BY <1>2, <1>5, <1>7, <2>4, <2>5, <2>6, Zenon DEF OnTrack, Saving
  <2>8. QED
    BY <1>2, <2>1, <2>7, TrackStep DEF Work, disk
<1>11. QED
  BY <1>9, <1>10

\* An entry is the next round of the loop over the list.
LEMMA TrackBuildEntry ==
    ASSUME Inv, Progress, NEW w \in Workers, BuildEntry(w)
    PROVE  Progress'
<1> DEFINE f == frame[w]
           es == f.req.entries
           x == es[f.write]
           g == [f EXCEPT !.part = RestoreEntry(f.part, x.key, x.entry),
                          !.seen = [f.seen EXCEPT ![x.key] = x.entry], !.write = f.write + 1]
           acc == [ok |-> TRUE, map |-> f.part, seen |-> f.seen]
<1>1. f \in Frames /\ IndexOK(pc[w], f) /\ OnTrack(pc[w], f, mem)
  BY DEF Inv, TInv, TypeOK, Indices, Progress
<1>2. /\ pc[w] = "build" /\ f.req.kind = "merge" /\ f.write <= Len(es)
      /\ Fail(w) \/ (Work(w, "build", g) /\ ~EntryCollides(f.seen, x))
  BY <1>1 DEF BuildEntry, Frames
<1>3. f.req \in Requests /\ f.write \in Nat
  BY <1>1 DEF Frames
<1>4. es \in Seq(StampedEntries)
  BY <1>2, <1>3, MergeRequestType
<1>5. /\ PassesChecks(f.req, mem) /\ f.merged = mem
      /\ f.write \in 1 .. Len(es) + 1
      /\ EntryMaps(es)[f.write - 1] = acc
  BY <1>1, <1>2 DEF OnTrack
<1>6. f.write \in 1 .. Len(es) /\ f.write + 1 \in 1 .. Len(es) + 1
  <2> DEFINE n == f.write
             len == Len(es)
  <2>1. len \in Nat /\ n \in Nat /\ n <= len /\ n \in 1 .. len + 1
    BY <1>2, <1>3, <1>4, <1>5
  <2> HIDE DEF n, len
  <2>2. n \in 1 .. len /\ n + 1 \in 1 .. len + 1
    BY <2>1
  <2>3. QED
    BY <2>2 DEF n, len
<1>7. EntryMaps(es)[f.write] = EntryStep(es, f.write, acc)
  BY <1>4, <1>5, <1>6, EntryLoop
<1>8. CASE Fail(w)
  BY <1>8, TrackFail
<1>9. CASE Work(w, "build", g) /\ ~EntryCollides(f.seen, x)
  <2>1. acc.ok = TRUE /\ acc.map = f.part /\ acc.seen = f.seen
    OBVIOUS
  <2>2. /\ g.req = f.req /\ g.merged = f.merged /\ g.write = f.write + 1
        /\ g.part = RestoreEntry(f.part, x.key, x.entry)
        /\ g.seen = [f.seen EXCEPT ![x.key] = x.entry]
    BY <1>1 DEF Frames
  <2>3. g.write - 1 = f.write
    BY <1>3, <2>2
  <2> HIDE DEF g, f, acc
  <2>4. EntryStep(es, f.write, acc) = [ok |-> TRUE, map |-> g.part, seen |-> g.seen]
    <3>1. (acc.ok /\ ~EntryCollides(acc.seen, x)) = TRUE
      BY <1>9, <2>1, Zenon
    <3>2. QED
      BY <2>1, <2>2, <3>1, Zenon DEF EntryStep
  <2>5. EntryMaps(es)[g.write - 1] = [ok |-> TRUE, map |-> g.part, seen |-> g.seen]
    BY <1>7, <2>3, <2>4, Zenon
  <2>6. g.write \in 1 .. Len(es) + 1 /\ g.req.kind = "merge" /\ g.req.entries = es
    BY <1>2, <1>6, <2>2
  <2> HIDE DEF es
  <2>7. OnTrack("build", g, mem)
    BY <1>5, <2>2, <2>5, <2>6, Zenon DEF OnTrack, Saving
  <2>8. QED
    BY <1>9, <2>7, TrackStep DEF Work, disk
<1>10. QED
  BY <1>2, <1>8, <1>9

\* The list is finished when the loop over it is.
LEMMA TrackFinishEntries ==
    ASSUME Inv, Progress, NEW w \in Workers, FinishEntries(w)
    PROVE  Progress'
<1> DEFINE f == frame[w]
           es == f.req.entries
           g == [f EXCEPT !.parts = <<f.part>>]
           acc == [ok |-> TRUE, map |-> f.part, seen |-> f.seen]
<1>1. f \in Frames /\ OnTrack(pc[w], f, mem)
  BY DEF Inv, TInv, TypeOK, Progress
<1>2. /\ pc[w] = "build" /\ f.req.kind = "merge" /\ f.write > Len(es)
      /\ Work(w, "merge", g)
  BY DEF FinishEntries
<1>3. f.req \in Requests /\ f.write \in Nat
  BY <1>1 DEF Frames
<1>4. es \in Seq(StampedEntries)
  BY <1>2, <1>3, MergeRequestType
<1>5. /\ PassesChecks(f.req, mem) /\ f.merged = mem
      /\ f.write \in 1 .. Len(es) + 1
      /\ EntryMaps(es)[f.write - 1] = acc
  BY <1>1, <1>2 DEF OnTrack
<1>6. f.write - 1 = Len(es)
  BY <1>2, <1>3, <1>4, <1>5
<1>7. EntryMap(es).ok /\ EntryMap(es).map = f.part
  BY <1>5, <1>6 DEF EntryMap
<1>8. g.req = f.req /\ g.merged = f.merged /\ g.parts = <<f.part>>
  BY <1>1 DEF Frames
<1> HIDE DEF g, f
<1>9. OnTrack("merge", g, mem)
  BY <1>2, <1>5, <1>7, <1>8, Zenon DEF OnTrack, Saving
<1>10. QED
  BY <1>2, <1>9, TrackStep DEF Work, disk

\* A merge is the next round of the loop over the cells, or the only one of a list.
LEMMA TrackMergePart ==
    ASSUME Inv, Progress, NEW w \in Workers, MergePart(w)
    PROVE  Progress'
<1> DEFINE f == frame[w]
           n == f.cell
           part == f.parts[n]
           p == IF n = Len(f.parts) THEN "clock" ELSE "merge"
           g(report) == [f EXCEPT !.merged = Merge(f.merged, part), !.cell = n + 1,
                                  !.conflicts = f.conflicts \o report]
<1>1. f \in Frames /\ IndexOK(pc[w], f) /\ OnTrack(pc[w], f, mem) /\ mem \in Maps
  BY DEF Inv, TInv, TypeOK, Indices, Progress
<1>2. /\ pc[w] = "merge"
      /\ \/ Fail(w)
         \/ ~MergeCollides(f.merged, part) /\ \E report : Work(w, p, g(report))
  BY DEF MergePart
<1>3. /\ f.req \in Requests /\ n \in Nat /\ f.parts \in Seq(Maps) /\ n \in 1 .. Len(f.parts)
  <2>1. f.req \in Requests /\ n \in Nat /\ f.parts \in Seq(Maps)
    BY <1>1 DEF Frames
  <2>2. n \in DOMAIN f.parts
    BY <1>1, <1>2 DEF IndexOK
  <2>3. QED
    BY <2>1, <2>2
<1>4. \A report : /\ g(report).req = f.req /\ g(report).cell = n + 1
                  /\ g(report).merged = Merge(f.merged, part) /\ g(report).parts = f.parts
  BY <1>1 DEF Frames
<1>5. PassesChecks(f.req, mem)
  BY <1>1, <1>2 DEF OnTrack
<1>6. CASE Fail(w)
  BY <1>6, TrackFail
<1>7. ASSUME ~MergeCollides(f.merged, part), NEW report, Work(w, p, g(report)),
             f.req.kind = "reconcile"
      PROVE  Progress'
  <2> DEFINE cells == f.req.cells
             h == g(report)
             acc == Attempted(TRUE, f.merged)
  <2>1. cells \in Seq(Cells) /\ Built(f, Len(cells)) /\ MergedCells(cells, mem)[n - 1] = acc
    BY <1>1, <1>2, <1>3, <1>7, ReconcileType DEF OnTrack
  <2>2. Len(f.parts) = Len(cells) /\ CellMap(cells[n]).ok /\ part = CellMap(cells[n]).map
    BY <1>3, <2>1 DEF Built
  <2>3. MergedCells(cells, mem)[n] = CellsStep(cells, n, acc)
    <3>1. n \in 1 .. Len(cells)
      BY <1>3, <2>2
    <3>2. MergedCells(cells, mem)[n] = CellsStep(cells, n, MergedCells(cells, mem)[n - 1])
      BY <1>1, <2>1, <3>1, CellsLoop
    <3> HIDE DEF acc, f
    <3>3. QED
      BY <2>1, <3>2, Zenon
  <2>4. acc.ok = TRUE /\ acc.map = f.merged
    BY DEF Attempted
  <2>5. h.req = f.req /\ h.cell - 1 = n /\ h.merged = Merge(f.merged, part) /\ h.parts = f.parts
    BY <1>3, <1>4
  <2> HIDE DEF acc, h, g
  <2>6. CellsStep(cells, n, acc) = Attempted(TRUE, h.merged)
    <3>1. (acc.ok /\ CellMap(cells[n]).ok /\ ~MergeCollides(acc.map, CellMap(cells[n]).map)) = TRUE
      BY <1>7, <2>2, <2>4, Zenon
    <3>2. QED
      BY <2>2, <2>4, <2>5, <3>1, Zenon DEF CellsStep
  <2>7. CASE n = Len(f.parts)
    <3>1. Merged(h.req, mem) = Attempted(TRUE, h.merged)
      BY <1>7, <2>2, <2>3, <2>5, <2>6, <2>7, Zenon DEF Merged, MergeCells
    <3>2. OnTrack("clock", h, mem)
      BY <1>5, <2>5, <3>1, Zenon DEF OnTrack, Saving
    <3>3. p = "clock"
      BY <2>7
    <3> HIDE DEF f, p
    <3>4. QED
      BY <1>7, <3>2, <3>3, TrackStep DEF Work, disk, h
  <2>8. CASE n # Len(f.parts)
    <3>1. Built(h, Len(cells)) /\ MergedCells(cells, mem)[h.cell - 1] = Attempted(TRUE, h.merged)
      BY <2>1, <2>3, <2>5, <2>6, Zenon DEF Built
    <3>2. OnTrack("merge", h, mem)
      BY <1>5, <1>7, <2>5, <3>1, Zenon DEF OnTrack, Saving
    <3>3. p = "merge"
      BY <2>8
    <3> HIDE DEF f, p
    <3>4. QED
      BY <1>7, <3>2, <3>3, TrackStep DEF Work, disk, h
  <2>9. QED
    BY <2>7, <2>8
<1>8. ASSUME ~MergeCollides(f.merged, part), NEW report, Work(w, p, g(report)),
             f.req.kind = "merge"
      PROVE  Progress'
  <2> DEFINE es == f.req.entries
             h == g(report)
  <2>1. EntryMap(es).ok /\ f.parts = <<EntryMap(es).map>> /\ f.merged = mem
    BY <1>1, <1>2, <1>8 DEF OnTrack
  <2>2. n = 1 /\ Len(f.parts) = 1 /\ part = EntryMap(es).map
    BY <1>3, <2>1
  <2>3. h.req = f.req /\ h.merged = Merge(mem, EntryMap(es).map)
    BY <1>4, <2>1, <2>2
  <2> HIDE DEF h, g
  <2>4. Merged(h.req, mem) = Attempted(TRUE, h.merged)
    <3>1. (EntryMap(es).ok /\ ~MergeCollides(mem, EntryMap(es).map)) = TRUE
      BY <1>8, <2>1, <2>2, Zenon
    <3>2. Merged(f.req, mem) = MergeEntries(es, mem)
      BY <1>8 DEF Merged
    <3>3. QED
      BY <2>3, <3>1, <3>2, Zenon DEF MergeEntries
  <2>5. OnTrack("clock", h, mem)
    BY <1>5, <2>3, <2>4, Zenon DEF OnTrack, Saving
  <2>6. p = "clock"
    BY <2>2
  <2> HIDE DEF f, p
  <2>7. QED
    BY <1>8, <2>5, <2>6, TrackStep DEF Work, disk, h
<1>9. f.req.kind \in {"reconcile", "merge"}
  BY <1>3, KindType
<1>10. QED
  BY <1>2, <1>6, <1>7, <1>8, <1>9

\* Taking the lock starts the loops.
LEMMA TrackBegin ==
    ASSUME Inv, Progress, NEW w \in Workers, Begin(w)
    PROVE  Progress'
<1> DEFINE f == frame[w]
           g == [f EXCEPT !.merged = mem]
<1>1. /\ f \in Frames /\ OnTrack("waiting", f, mem) /\ mem \in Maps
      /\ frame' = [frame EXCEPT ![w] = g]
  BY DEF Inv, TInv, TypeOK, Progress, Begin
<1>2. /\ PassesChecks(f.req, mem) /\ pc' = [pc EXCEPT ![w] = "build"]
      /\ UNCHANGED <<mem, path>>
  BY DEF Begin, disk
<1>3. /\ f.req \in Requests /\ f.cell = 1 /\ f.write = 1 /\ f.parts = << >>
      /\ f.part = Empty /\ f.seen = Empty
  <2>1. f = Fresh(f.req)
    BY <1>1 DEF OnTrack
  <2> DEFINE r == f.req
  <2>2. r \in Requests
    BY <1>1 DEF Frames
  <2> HIDE DEF f
  <2>3. QED
    BY <2>1, <2>2 DEF Fresh
<1>4. /\ g.req = f.req /\ g.cell = 1 /\ g.write = 1 /\ g.parts = << >> /\ g.merged = mem
      /\ g.part = Empty /\ g.seen = Empty /\ g.write - 1 = 0 /\ g.cell - 1 = 0
  BY <1>1, <1>3 DEF Frames
<1>5. Built(g, g.cell - 1)
  BY <1>4 DEF Built
<1> HIDE DEF g
<1>6. CASE f.req.kind = "reconcile"
  <2> DEFINE c == f.req.cells[1]
  <2>1. f.req.cells \in Seq(Cells) /\ f.req.cells # << >>
    BY <1>2, <1>3, <1>6, ReconcileType DEF PassesChecks, NothingToDo
  <2>2. c \in Cells
    BY <2>1
  <2> HIDE DEF c
  <2>3. Len(c.writes) \in Nat /\ CellMaps(c)[0] = Attempted(TRUE, Empty)
    BY <2>2, CellLoop
  <2>4. CellMaps(c)[g.write - 1] = Attempted(TRUE, g.part)
    BY <1>4, <2>3, Zenon
  <2>5. g.write \in 1 .. Len(c.writes) + 1
    BY <1>4, <2>3
  <2>6. c = g.req.cells[g.cell]
    BY <1>4 DEF c
  <2> HIDE DEF f
  <2>7. OnTrack("build", g, mem)
    BY <1>2, <1>4, <1>5, <1>6, <2>4, <2>5, <2>6, Zenon DEF OnTrack, Saving
  <2>8. QED
    BY <1>1, <1>2, <2>7, TrackStep
<1>7. CASE f.req.kind = "merge"
  <2> DEFINE es == f.req.entries
             acc == [ok |-> TRUE, map |-> g.part, seen |-> g.seen]
  <2>1. es \in Seq(StampedEntries)
    BY <1>3, <1>7, MergeRequestType
  <2> HIDE DEF es
  <2>2. Len(es) \in Nat /\ EntryMaps(es)[0] = acc
    BY <1>4, <2>1, EntryLoop
  <2>3. g.write \in 1 .. Len(es) + 1 /\ EntryMaps(es)[g.write - 1] = acc /\ es = g.req.entries
    BY <1>4, <2>2 DEF es
  <2> HIDE DEF f
  <2>4. OnTrack("build", g, mem)
    BY <1>2, <1>4, <1>7, <2>3, Zenon DEF OnTrack, Saving
  <2>5. QED
    BY <1>1, <1>2, <2>4, TrackStep
<1>8. QED
  BY <1>3, <1>6, <1>7, KindType

\* The clock is the last thing that can refuse a request.
LEMMA TrackTick ==
    ASSUME Inv, Progress, NEW w \in Workers, TickClock(w)
    PROVE  Progress'
<1> DEFINE f == frame[w]
<1>1. /\ OnTrack("clock", f, mem)
      /\ Fail(w) \/ (Work(w, "write", f) /\ ~ClockOverflows(f.merged))
  BY DEF TickClock, Progress
<1>2. PassesChecks(f.req, mem) /\ Merged(f.req, mem) = Attempted(TRUE, f.merged)
  BY <1>1 DEF OnTrack
<1>3. CASE Fail(w)
  BY <1>3, TrackFail
<1>4. CASE Work(w, "write", f) /\ ~ClockOverflows(f.merged)
  <2> DEFINE h == Merged(f.req, mem)
  <2>1. h.ok = TRUE /\ h.map = f.merged
    BY <1>2 DEF Attempted
  <2>2. (PassesChecks(f.req, mem) /\ h.ok /\ ~ClockOverflows(h.map)) = TRUE
    BY <1>2, <1>4, <2>1, Zenon
  <2> HIDE DEF f
  <2>3. Handle(f.req, mem) = Attempted(TRUE, f.merged)
    BY <2>1, <2>2, Zenon DEF Handle
  <2> HIDE DEF h
  <2>4. OnTrack("write", f, mem)
    BY <2>3, Zenon DEF OnTrack, Saving
  <2>5. QED
    BY <1>4, <2>4, TrackStep DEF Work, disk
<1>5. QED
  BY <1>1, <1>3, <1>4

\* The save and what follows the publication.
LEMMA TrackSave ==
    ASSUME Inv, Progress, NEW w \in Workers,
           WriteTemp(w) \/ SyncTemp(w) \/ SyncDir(w) \/ Record(w) \/ Answer(w)
    PROVE  Progress'
<1> DEFINE f == frame[w]
<1>1. f \in Frames /\ OnTrack(pc[w], f, mem)
  BY DEF Inv, TInv, TypeOK, Progress
<1>2. CASE WriteTemp(w)
  <2>1. OnTrack("sync", f, mem)
    BY <1>1, <1>2 DEF WriteTemp, OnTrack, Saving
  <2>2. QED
    BY <1>2, <2>1, TrackStep DEF WriteTemp, Work, disk
<1>3. CASE SyncTemp(w)
  <2> DEFINE g == [f EXCEPT !.synced = TRUE]
  <2>1. Handle(f.req, mem) = Attempted(TRUE, f.merged)
    BY <1>1, <1>3 DEF SyncTemp, OnTrack, Saving
  <2>2. g.req = f.req /\ g.merged = f.merged
    BY <1>1 DEF Frames
  <2> HIDE DEF g, f
  <2>3. OnTrack("rename", g, mem)
    BY <2>1, <2>2, Zenon DEF OnTrack, Saving
  <2>4. QED
    BY <1>3, <2>3, TrackStep DEF SyncTemp, Work, disk, g, f
<1>4. CASE SyncDir(w)
  <2>1. OnTrack("publish", f, mem)
    BY <1>1, <1>4 DEF SyncDir, OnTrack, Saving
  <2>2. QED
    BY <1>4, <2>1, TrackMove DEF SyncDir
<1>5. CASE Record(w)
  <2>1. OnTrack("ok", f, mem)
    BY DEF OnTrack, Saving
  <2>2. QED
    BY <1>5, <2>1, TrackMove DEF Record, disk
<1>6. CASE Answer(w)
  <2>1. OnTrack("idle", AtRest, mem)
    BY DEF OnTrack, Saving
  <2>2. QED
    BY <1>6, <2>1, TrackStep DEF Answer, disk
<1>7. QED
  BY <1>2, <1>3, <1>4, <1>5, <1>6

\* What a worker is about to rename or publish is the memory after its request.
LEMMA AboutToPublish ==
    ASSUME Inv, Progress, NEW w \in Workers, pc[w] \in {"rename", "syncdir", "publish"}
    PROVE  /\ frame[w].req \in Requests
           /\ Accepts(frame[w].req, mem) /\ frame[w].merged = After(frame[w].req, mem)
<1> DEFINE f == frame[w]
<1>1. f.req \in Requests /\ OnTrack(pc[w], f, mem)
  BY DEF Inv, TInv, TypeOK, Frames, Progress
<1>2. Handle(f.req, mem) = Attempted(TRUE, f.merged)
  BY <1>1 DEF OnTrack, Saving
<1> HIDE DEF f
<1>3. Accepts(f.req, mem) /\ f.merged = After(f.req, mem)
  BY <1>2 DEF Accepts, After, Attempted
<1>4. QED
  BY <1>1, <1>3 DEF f

\* A rename puts the file one request ahead.
LEMMA TrackRename ==
    ASSUME Inv, Progress, NEW w \in Workers, Rename(w)
    PROVE  Progress'
<1> DEFINE f == frame[w]
<1>1. /\ pc \in [Workers -> PCs] /\ f.merged \in Maps /\ pc[w] = "rename"
      /\ OnTrack(pc[w], f, mem)
  BY DEF Inv, TInv, TypeOK, Frames, Progress, Rename
<1>2. /\ pc' = [pc EXCEPT ![w] = "syncdir"] /\ path' = f.merged
      /\ UNCHANGED <<frame, mem>>
  BY DEF Rename
<1>3. Loaded(path') = f.merged
  BY <1>1, <1>2, NodeAssumption DEF Loaded
<1>4. f.req \in Requests /\ Accepts(f.req, mem) /\ Loaded(path') = After(f.req, mem)
  BY <1>1, <1>3, AboutToPublish
<1>5. OneAhead'
  BY <1>2, <1>4, Zenon DEF OneAhead, Loaded
<1>6. OnTrack("syncdir", f, mem)
  BY <1>1 DEF OnTrack, Saving
<1>7. \A v \in Workers : pc'[v] = IF v = w THEN "syncdir" ELSE pc[v]
  BY <1>1, <1>2
<1> HIDE DEF f
<1>8. \A v \in Workers : OnTrack(pc'[v], frame'[v], mem')
  BY <1>2, <1>6, <1>7, Zenon DEF Progress, f
<1>9. QED
  BY <1>5, <1>8 DEF Progress

\* A publication, a crash and a restart find nobody else between check and publication.
LEMMA TrackPublish ==
    ASSUME Inv, Progress, NEW w \in Workers, Publish(w)
    PROVE  Progress'
<1>1. /\ pc \in [Workers -> PCs] /\ pc[w] = "publish" /\ pc' = [pc EXCEPT ![w] = "record"]
      /\ UNCHANGED <<frame, path>>
  BY DEF Inv, TInv, TypeOK, Publish, disk
<1>2. \A v \in Workers : pc'[v] = IF v = w THEN "record" ELSE pc[v]
  BY <1>1
<1>3. \A v \in Workers : v # w => pc[v] \notin Critical
  BY <1>1 DEF Inv, LockInv, OneAtATime, Critical, Saving
<1>4. OnTrack("record", frame[w], mem')
  BY DEF OnTrack, Saving
<1>5. \A v \in Workers : v # w => OnTrack(pc[v], frame[v], mem')
  BY <1>3, OffTrack DEF Progress
<1>6. \A v \in Workers : OnTrack(pc'[v], frame'[v], mem')
  BY <1>1, <1>2, <1>4, <1>5, Zenon
<1>7. Loaded(path') = mem'
  <2>1. mem' = frame[w].merged /\ path = frame[w].merged /\ frame[w].merged \in Maps
    BY <1>1 DEF Inv, TInv, TypeOK, Frames, FileAndMemory, Publish
  <2>2. QED
    BY <1>1, <2>1, NodeAssumption DEF Loaded
<1>8. OneAhead'
  BY <1>7 DEF OneAhead, Loaded
<1>9. QED
  BY <1>6, <1>8 DEF Progress

\* After a crash and after a restart nobody is at work.
LEMMA TrackCrash ==
    ASSUME Inv, Progress, Kill \/ PowerCut \/ Restart
    PROVE  Progress'
<1>1. \A f, m : OnTrack("idle", f, m)
  BY DEF OnTrack, Saving
<1>2. \A w \in Workers : pc'[w] = "idle"
  BY DEF Kill, PowerCut, Stop, Restart, Inv, LockInv
<1>3. \A w \in Workers : OnTrack(pc'[w], frame'[w], mem')
  BY <1>1, <1>2, Zenon
<1>4. ASSUME ~PowerCuts PROVE OneAhead'
  <2>1. CASE Kill
    BY <1>4, <2>1 DEF Kill, Stop, disk, Progress, OneAhead, Loaded
  <2>2. CASE Restart
    BY <2>2 DEF Restart, disk, OneAhead, Loaded
  <2>3. QED
    BY <1>4, <2>1, <2>2 DEF PowerCut
<1>5. QED
  BY <1>3, <1>4 DEF Progress

\* Every step keeps every request on the track of its handler.
LEMMA NextProgress == Inv /\ Progress /\ [Next]_vars => Progress'
<1> SUFFICES ASSUME Inv, Progress, [Next]_vars PROVE Progress'
  OBVIOUS
<1>1. ASSUME NEW w \in Workers, Receive(w) PROVE Progress'
  <2>1. PICK r \in Requests : frame' = [frame EXCEPT ![w] = Fresh(r)]
    BY <1>1 DEF Receive
  <2>2. OnTrack("waiting", Fresh(r), mem)
    BY DEF OnTrack, Saving, Fresh
  <2>3. QED
    BY <1>1, <2>1, <2>2, TrackStep DEF Receive, disk
<1>2. ASSUME NEW w \in Workers, Refuse(w) PROVE Progress'
  <2>1. OnTrack("failed", frame[w], mem)
    BY DEF OnTrack, Saving
  <2>2. QED
    BY <1>2, <2>1, TrackMove DEF Refuse, disk
<1>3. ASSUME NEW w \in Workers, SaveFails(w) PROVE Progress'
  BY <1>3, TrackFail DEF SaveFails
<1>4. CASE UNCHANGED vars
  BY <1>4 DEF vars, disk, Progress, OneAhead, Loaded
<1>5. QED
  BY <1>1, <1>2, <1>3, <1>4, TrackBegin, TrackBuildWrite, TrackFinishCell, TrackBuildEntry,
     TrackFinishEntries, TrackMergePart, TrackTick, TrackSave, TrackRename, TrackPublish,
     TrackCrash
     DEF Next, Step

\* A node starts with nothing on its way and no file.
LEMMA InitProgress == Init => Progress
<1> SUFFICES ASSUME Init PROVE Progress
  OBVIOUS
<1>1. Loaded(path) = mem
  BY DEF Init, Loaded
<1>2. \A w \in Workers : pc[w] = "idle"
  BY DEF Init
<1>3. \A f, m : OnTrack("idle", f, m)
  BY DEF OnTrack, Saving
<1>4. QED
  BY <1>1, <1>2, <1>3 DEF Progress, OneAhead

\* A step of a node is one request served whole, or leaves the memory alone.
LEMMA StepServes ==
    ASSUME ~PowerCuts, Inv, Progress, [Next]_vars, mem' # mem
    PROVE  \E r \in Requests : Accepts(r, mem) /\ mem' = After(r, mem)
<1>1. ASSUME NEW w \in Workers, Receive(w) \/ Step(w)
      PROVE  \E r \in Requests : Accepts(r, mem) /\ mem' = After(r, mem)
  <2>1. CASE Publish(w)
    BY <2>1, AboutToPublish DEF Publish
  <2>2. CASE Rename(w) \/ SyncDir(w) \/ Answer(w)
    BY <2>2 DEF Rename, SyncDir, Answer
  <2>3. CASE ~Rename(w) /\ ~SyncDir(w) /\ ~Publish(w) /\ ~Answer(w)
    BY <1>1, <2>3, QuietSteps DEF Quiet
  <2>4. QED
    BY <2>1, <2>2, <2>3
<1>2. CASE Kill \/ PowerCut
  BY <1>2 DEF Kill, PowerCut, Stop
<1>3. CASE Restart
  BY <1>3 DEF Restart, Progress, OneAhead
<1>4. CASE UNCHANGED vars
  BY <1>4 DEF vars
<1>5. QED
  BY <1>1, <1>2, <1>3, <1>4 DEF Next

\* Where the power never goes, a node with its lock, its save, its failures, kills and
\* restarts implements AtomicNode: its memory changes by one whole accepted request at
\* a time, as if the handlers ran in one go.
THEOREM Refinement ==
    ASSUME ~PowerCuts
    PROVE  Spec => ServesAtomically
<1>1. Init => Atomic!Init
  BY SameMerge DEF Init, Atomic!Init
<1>2. Inv /\ Progress /\ [Next]_vars => [Atomic!Next]_mem
  BY StepServes, SameHandler DEF Atomic!Next, Atomic!Serve
<1>3. Spec => [](Inv /\ Progress)
  BY InitProgress, NextProgress, Invariance, PTL DEF Spec
<1>4. QED
  BY <1>1, <1>2, <1>3, PTL DEF Spec, ServesAtomically, Atomic!Spec

-----------------------------------------------------------------------------
(* The evidence. *)

\* Who answers for published conflicts.
Holders == Workers \cup {Free}

\* The conflicts of each account: those counted, of which H is the whole list, and those
\* of each worker that has published and not recorded.
Accounts(at, locals, H) ==
    [v \in Holders |-> IF v = Free THEN H
                       ELSE IF at[v] = "record" THEN locals[v].conflicts ELSE << >>]

\* Every conflict of pub is in just one of the accounts, at the place from tells.
Settled(from, accounts, pub) ==
    /\ from \in [1 .. Len(pub) -> Holders \X Nat]
    /\ \A p \in 1 .. Len(pub) :
          /\ from[p][2] \in 1 .. Len(accounts[from[p][1]])
          /\ pub[p] = accounts[from[p][1]][from[p][2]]
    /\ \A p, q \in 1 .. Len(pub) : from[p] = from[q] => p = q
    /\ \A v \in Holders : \A i \in 1 .. Len(accounts[v]) :
          \E p \in 1 .. Len(pub) : from[p] = <<v, i>>

\* The evidence is that of the recorded conflicts, which are the settled ones.
Tally ==
    /\ evidence = [resolved |-> Len(recorded), history |-> Remembered(recorded)]
    /\ \E from : Settled(from, Accounts(pc, frame, recorded), published)

\* How many of l conflicts are remembered.
Cap(l) == IF l <= ConflictHistory THEN l ELSE ConflictHistory

\* What is remembered of a list is its end.
LEMMA RememberedIsTheEnd ==
    ASSUME NEW H \in Seq(Conflicts)
    PROVE  /\ Remembered(H) \in Seq(Conflicts) /\ Len(Remembered(H)) = Cap(Len(H))
           /\ \A i \in 1 .. Cap(Len(H)) :
                 Remembered(H)[i] = H[Len(H) - Cap(Len(H)) + i]
<1>1. Len(H) \in Nat /\ ConflictHistory \in Nat \ {0}
  BY NodeAssumption
<1>2. CASE Len(H) <= ConflictHistory
  <2>1. Cap(Len(H)) = Len(H) /\ Remembered(H) = H
    BY <1>2 DEF Cap, Remembered
  <2>2. \A i \in 1 .. Len(H) : Len(H) - Len(H) + i = i
    BY <1>1
  <2>3. QED
    BY <2>1, <2>2, Zenon
<1>3. CASE Len(H) > ConflictHistory
  <2> DEFINE m == Len(H) - ConflictHistory + 1
             s == SubSeq(H, m, Len(H))
  <2>1. m \in 1 .. Len(H) /\ m \in Int /\ Len(H) \in Int /\ Len(H) - m + 1 = ConflictHistory
    BY <1>1, <1>3
  <2>2. /\ s \in Seq(Conflicts) /\ Len(s) = Len(H) - m + 1
        /\ \A i \in 1 .. Len(H) - m + 1 : s[i] = H[m + i - 1]
    <3>1. \A i \in m .. Len(H) : H[i] \in Conflicts
      BY <1>1, <2>1
    <3> HIDE DEF m
    <3>2. QED
      BY <2>1, <3>1, SubSeqProperties
  <2>3. \A i \in 1 .. ConflictHistory : m + i - 1 = Len(H) - ConflictHistory + i
    BY <1>1
  <2>4. Remembered(H) = s /\ Cap(Len(H)) = ConflictHistory
    BY <1>1, <1>3 DEF Remembered, Cap
  <2> HIDE DEF s, m
  <2>5. QED
    BY <2>1, <2>2, <2>3, <2>4, Zenon
<1>4. QED
  BY <1>1, <1>2, <1>3

\* Lists with the same end are remembered alike.
LEMMA SameEnd ==
    ASSUME NEW A \in Seq(Conflicts), NEW B \in Seq(Conflicts), Cap(Len(A)) = Cap(Len(B)),
           \A i \in 1 .. Cap(Len(A)) :
               A[Len(A) - Cap(Len(A)) + i] = B[Len(B) - Cap(Len(B)) + i]
    PROVE  Remembered(A) = Remembered(B)
<1> DEFINE t == Cap(Len(A))
           RA == Remembered(A)
           RB == Remembered(B)
<1>1. /\ RA \in Seq(Conflicts) /\ Len(RA) = t
      /\ \A i \in 1 .. t : RA[i] = A[Len(A) - t + i]
  BY RememberedIsTheEnd
<1>2. /\ RB \in Seq(Conflicts) /\ Len(RB) = Cap(Len(B))
      /\ \A i \in 1 .. Cap(Len(B)) : RB[i] = B[Len(B) - Cap(Len(B)) + i]
  BY RememberedIsTheEnd
<1> HIDE DEF RA, RB
<1>3. \A i \in 1 .. t : RA[i] = RB[i]
  BY <1>1, <1>2, Zenon
<1> HIDE DEF t
<1>4. RA = RB
  BY <1>1, <1>2, <1>3, SeqEqual DEF t
<1>5. QED
  BY <1>4 DEF RA, RB

\* To remember the end of what was remembered and more is to remember the end of all.
LEMMA RememberedAdds ==
    ASSUME NEW H \in Seq(Conflicts), NEW cs \in Seq(Conflicts)
    PROVE  Remembered(Remembered(H) \o cs) = Remembered(H \o cs)
<1> DEFINE R == Remembered(H)
           n == Len(H)
           k == Len(cs)
           c == Cap(n)
           A == R \o cs
           B == H \o cs
           t == Cap(Len(A))
<1>1. n \in Nat /\ k \in Nat /\ ConflictHistory \in Nat \ {0}
  BY NodeAssumption
<1>2. R \in Seq(Conflicts) /\ Len(R) = c /\ \A i \in 1 .. c : R[i] = H[n - c + i]
  BY RememberedIsTheEnd
<1> HIDE DEF R
<1>3. /\ A \in Seq(Conflicts) /\ Len(A) = Len(R) + Len(cs)
      /\ \A i \in 1 .. Len(R) + Len(cs) : A[i] = IF i <= Len(R) THEN R[i] ELSE cs[i - Len(R)]
  BY <1>2, ConcatProperties
<1>4. /\ B \in Seq(Conflicts) /\ Len(B) = Len(H) + Len(cs)
      /\ \A i \in 1 .. Len(H) + Len(cs) : B[i] = IF i <= Len(H) THEN H[i] ELSE cs[i - Len(H)]
  BY ConcatProperties
<1> HIDE DEF A, B
<1>5. Len(A) = c + k /\ Len(B) = n + k
  BY <1>2, <1>3, <1>4
<1>6. /\ c \in Nat /\ c <= n /\ t \in Nat /\ t <= c + k /\ Cap(Len(B)) = t
  BY <1>1, <1>5 DEF Cap
<1> HIDE DEF c, t
<1>7. ASSUME NEW i \in 1 .. t PROVE A[Len(A) - t + i] = B[Len(B) - t + i]
  <2> DEFINE a == Len(A) - t + i
             b == Len(B) - t + i
  <2>1. /\ \A j \in 1 .. c + k : A[j] = IF j <= c THEN R[j] ELSE cs[j - c]
        /\ \A j \in 1 .. n + k : B[j] = IF j <= n THEN H[j] ELSE cs[j - n]
    BY <1>2, <1>3, <1>4
  <2> HIDE DEF n, k
  <2>2. a \in 1 .. c + k /\ b \in 1 .. n + k /\ b = n - c + a
    BY <1>1, <1>5, <1>6
  <2> HIDE DEF a, b
  <2>3. CASE a <= c
    <3>1. a \in 1 .. c /\ b <= n
      BY <1>1, <1>6, <2>2, <2>3
    <3>2. A[a] = R[a] /\ B[b] = H[b] /\ R[a] = H[n - c + a]
      BY <1>2, <2>1, <2>2, <2>3, <3>1, Zenon
    <3>3. A[a] = B[b]
      BY <2>2, <3>2, Zenon
    <3>4. QED
      BY <3>3 DEF a, b
  <2>4. CASE ~(a <= c)
    <3>1. ~(b <= n) /\ b - n = a - c
      BY <1>1, <1>6, <2>2, <2>4
    <3>2. A[a] = cs[a - c] /\ B[b] = cs[b - n]
      BY <2>1, <2>2, <2>4, <3>1, Zenon
    <3>3. A[a] = B[b]
      BY <3>1, <3>2, Zenon
    <3>4. QED
      BY <3>3 DEF a, b
  <2>5. QED
    BY <2>3, <2>4
<1>8. Cap(Len(A)) = Cap(Len(B))
  BY <1>6 DEF t
<1>9. \A i \in 1 .. Cap(Len(A)) : A[Len(A) - Cap(Len(A)) + i] = B[Len(B) - Cap(Len(B)) + i]
  BY <1>6, <1>7, Zenon DEF t
<1>10. Remembered(A) = Remembered(B)
  BY <1>3, <1>4, <1>8, <1>9, SameEnd
<1>11. QED
  BY <1>10 DEF A, B, R

\* A list of conflicts opens an account that was empty.
LEMMA SettledGrows ==
    ASSUME NEW A \in [Holders -> Seq(Conflicts)], NEW pub \in Seq(Conflicts),
           NEW cs \in Seq(Conflicts), NEW w \in Holders, A[w] = << >>,
           NEW from, Settled(from, A, pub)
    PROVE  \E moved : Settled(moved, [A EXCEPT ![w] = cs], pub \o cs)
<1> DEFINE n == Len(pub)
           k == Len(cs)
           all == pub \o cs
           B == [A EXCEPT ![w] = cs]
           moved == [p \in 1 .. n + k |-> IF p <= n THEN from[p] ELSE <<w, p - n>>]
<1>1. /\ n \in Nat /\ k \in Nat /\ Len(all) = n + k
      /\ \A p \in 1 .. n + k : all[p] = IF p <= n THEN pub[p] ELSE cs[p - n]
  BY ConcatProperties
<1>2. B[w] = cs /\ \A v \in Holders : v # w => B[v] = A[v]
  OBVIOUS
<1>3. /\ from \in [1 .. n -> Holders \X Nat]
      /\ \A p \in 1 .. n : /\ from[p][2] \in 1 .. Len(A[from[p][1]])
                           /\ pub[p] = A[from[p][1]][from[p][2]]
      /\ \A p, q \in 1 .. n : from[p] = from[q] => p = q
      /\ \A v \in Holders : \A i \in 1 .. Len(A[v]) : \E p \in 1 .. n : from[p] = <<v, i>>
  BY DEF Settled
<1>4. ASSUME NEW p \in 1 .. n PROVE from[p][1] \in Holders /\ from[p][1] # w
  <2>1. from[p][1] \in Holders /\ from[p][2] \in 1 .. Len(A[from[p][1]])
    BY <1>3
  <2>2. Len(A[w]) = 0
    OBVIOUS
  <2>3. QED
    BY <2>1, <2>2
<1>5. \A p \in 1 .. n + k : p \in 1 .. n \/ p - n \in 1 .. k
  BY <1>1
<1> HIDE DEF all, n, k
<1>6. ASSUME NEW p \in 1 .. n
      PROVE  p \in 1 .. n + k /\ moved[p] = from[p] /\ all[p] = pub[p]
  <2>1. p \in 1 .. n + k /\ p <= n
    BY <1>1
  <2>2. QED
    BY <1>1, <2>1
<1>7. ASSUME NEW p \in 1 .. n + k, p - n \in 1 .. k
      PROVE  moved[p] = <<w, p - n>> /\ all[p] = cs[p - n]
  <2>1. ~(p <= n)
    BY <1>1, <1>7
  <2>2. QED
    BY <1>1, <2>1
<1> HIDE DEF moved
<1>8. moved \in [1 .. n + k -> Holders \X Nat]
  <2>1. moved = [p \in 1 .. n + k |-> moved[p]]
    BY DEF moved
  <2>2. ASSUME NEW p \in 1 .. n + k PROVE moved[p] \in Holders \X Nat
    <3>1. CASE p \in 1 .. n
      BY <1>3, <1>6, <3>1
    <3>2. CASE p - n \in 1 .. k
      <4> DEFINE i == p - n
      <4>1. i \in Nat /\ moved[p] = <<w, i>>
        BY <1>1, <1>7, <3>2
      <4> HIDE DEF i
      <4>2. QED
        BY <4>1
    <3>3. QED
      BY <1>5, <3>1, <3>2
  <2>3. QED
    BY <2>1, <2>2, Zenon
<1> HIDE DEF B
<1>9. ASSUME NEW p \in 1 .. n + k
      PROVE  /\ moved[p][2] \in 1 .. Len(B[moved[p][1]])
             /\ all[p] = B[moved[p][1]][moved[p][2]]
  <2>1. CASE p \in 1 .. n
    <3>1. B[from[p][1]] = A[from[p][1]]
      BY <1>2, <1>4, <2>1
    <3>2. /\ from[p][2] \in 1 .. Len(A[from[p][1]])
          /\ pub[p] = A[from[p][1]][from[p][2]]
      BY <1>3, <2>1
    <3>3. moved[p] = from[p] /\ all[p] = pub[p]
      BY <1>6, <2>1
    <3>4. QED
      BY <3>1, <3>2, <3>3
  <2>2. CASE p - n \in 1 .. k
    <3>1. moved[p][1] = w /\ moved[p][2] = p - n /\ all[p] = cs[p - n]
      BY <1>7, <2>2
    <3>2. QED
      BY <1>2, <2>2, <3>1, Zenon DEF k
  <2>3. QED
    BY <1>5, <2>1, <2>2
<1>10. ASSUME NEW p \in 1 .. n + k, NEW q \in 1 .. n + k, moved[p] = moved[q] PROVE p = q
  <2>1. CASE p \in 1 .. n /\ q \in 1 .. n
    BY <1>3, <1>6, <1>10, <2>1
  <2>2. CASE p \in 1 .. n /\ q - n \in 1 .. k
    BY <1>4, <1>6, <1>7, <1>10, <2>2
  <2>3. CASE p - n \in 1 .. k /\ q \in 1 .. n
    BY <1>4, <1>6, <1>7, <1>10, <2>3
  <2>4. CASE p - n \in 1 .. k /\ q - n \in 1 .. k
    <3>1. p - n = q - n
      BY <1>7, <1>10, <2>4
    <3>2. QED
      BY <1>1, <3>1
  <2>5. QED
    BY <1>5, <2>1, <2>2, <2>3, <2>4
<1>11. ASSUME NEW v \in Holders, NEW i \in 1 .. Len(B[v])
       PROVE  \E p \in 1 .. n + k : moved[p] = <<v, i>>
  <2>1. CASE v = w
    <3> DEFINE p == n + i
    <3>1. i \in 1 .. k
      BY <1>2, <1>11, <2>1 DEF k
    <3>2. p \in 1 .. n + k /\ p - n = i
      BY <1>1, <3>1
    <3> HIDE DEF p
    <3>3. moved[p] = <<v, i>>
      BY <1>7, <2>1, <3>1, <3>2, Zenon
    <3>4. QED
      BY <3>2, <3>3, Zenon
  <2>2. CASE v # w
    <3>1. PICK p \in 1 .. n : from[p] = <<v, i>>
      BY <1>2, <1>3, <1>11, <2>2
    <3>2. QED
      BY <1>6, <3>1
  <2>3. QED
    BY <2>1, <2>2
<1>12. Settled(moved, B, all)
  <2> DEFINE len == n + k
  <2>1. Len(all) = len
    BY <1>1
  <2>2. /\ moved \in [1 .. len -> Holders \X Nat]
        /\ \A p \in 1 .. len : /\ moved[p][2] \in 1 .. Len(B[moved[p][1]])
                               /\ all[p] = B[moved[p][1]][moved[p][2]]
        /\ \A p, q \in 1 .. len : moved[p] = moved[q] => p = q
        /\ \A v \in Holders : \A i \in 1 .. Len(B[v]) : \E p \in 1 .. len : moved[p] = <<v, i>>
    BY <1>8, <1>9, <1>10, <1>11, Zenon
  <2> HIDE DEF len
  <2>3. QED
    BY <2>1, <2>2 DEF Settled
<1>13. QED
  BY <1>12 DEF all, B

\* An account that is moved behind another is settled there.
LEMMA SettledMoves ==
    ASSUME NEW A \in [Holders -> Seq(Conflicts)], NEW pub \in Seq(Conflicts),
           NEW w \in Holders, NEW u \in Holders, u # w,
           NEW from, Settled(from, A, pub)
    PROVE  \E moved : Settled(moved, [A EXCEPT ![w] = << >>, ![u] = A[u] \o A[w]], pub)
<1> DEFINE n == Len(A[u])
           k == Len(A[w])
           all == A[u] \o A[w]
           B == [A EXCEPT ![w] = << >>, ![u] = all]
           len == Len(pub)
           moved == [p \in 1 .. len |-> IF from[p][1] = w THEN <<u, n + from[p][2]>>
                                                          ELSE from[p]]
<1>1. A[u] \in Seq(Conflicts) /\ A[w] \in Seq(Conflicts)
  OBVIOUS
<1>2. /\ n \in Nat /\ k \in Nat /\ Len(all) = n + k
      /\ \A p \in 1 .. n + k : all[p] = IF p <= n THEN A[u][p] ELSE A[w][p - n]
  BY <1>1, ConcatProperties
<1>3. /\ \A i \in 1 .. n : i \in 1 .. n + k /\ all[i] = A[u][i]
      /\ \A i \in 1 .. k : n + i \in 1 .. n + k /\ all[n + i] = A[w][i]
  <2> HIDE DEF n, k, all
  <2>1. ASSUME NEW i \in 1 .. n PROVE i \in 1 .. n + k /\ all[i] = A[u][i]
    <3>1. i \in 1 .. n + k /\ i <= n
      BY <1>2
    <3>2. QED
      BY <1>2, <3>1
  <2>2. ASSUME NEW i \in 1 .. k PROVE n + i \in 1 .. n + k /\ all[n + i] = A[w][i]
    <3> DEFINE p == n + i
    <3>1. p \in 1 .. n + k /\ ~(p <= n) /\ p - n = i
      BY <1>2
    <3> HIDE DEF p
    <3>2. all[p] = A[w][i]
      BY <1>2, <3>1, Zenon
    <3>3. QED
      BY <3>1, <3>2 DEF p
  <2>3. QED
    BY <2>1, <2>2
<1>4. /\ B[w] = << >> /\ B[u] = all
      /\ \A v \in Holders : v # w /\ v # u => B[v] = A[v]
  OBVIOUS
<1>5. /\ from \in [1 .. len -> Holders \X Nat]
      /\ \A p \in 1 .. len : /\ from[p][2] \in 1 .. Len(A[from[p][1]])
                             /\ pub[p] = A[from[p][1]][from[p][2]]
      /\ \A p, q \in 1 .. len : from[p] = from[q] => p = q
      /\ \A v \in Holders : \A i \in 1 .. Len(A[v]) : \E p \in 1 .. len : from[p] = <<v, i>>
  BY DEF Settled
<1> HIDE DEF n, k, all, len
<1>6. ASSUME NEW p \in 1 .. len
      PROVE  /\ from[p][1] \in Holders /\ from[p][2] \in Nat
             /\ from[p] = <<from[p][1], from[p][2]>>
             /\ from[p][1] = w => moved[p] = <<u, n + from[p][2]>> /\ from[p][2] \in 1 .. k
             /\ from[p][1] # w => moved[p] = from[p]
             /\ from[p][1] = u => from[p][2] \in 1 .. n
  <2>1. from[p] \in Holders \X Nat
    BY <1>5
  <2>2. from[p][1] = w => from[p][2] \in 1 .. k
    BY <1>5, Zenon DEF k
  <2>3. from[p][1] = u => from[p][2] \in 1 .. n
    BY <1>5, Zenon DEF n
  <2>4. moved[p] = IF from[p][1] = w THEN <<u, n + from[p][2]>> ELSE from[p]
    OBVIOUS
  <2> HIDE DEF moved
  <2>5. QED
    BY <2>1, <2>2, <2>3, <2>4
<1>7. moved \in [1 .. len -> Holders \X Nat]
  <2>1. moved = [p \in 1 .. len |-> moved[p]]
    OBVIOUS
  <2> HIDE DEF moved
  <2>2. ASSUME NEW p \in 1 .. len PROVE moved[p] \in Holders \X Nat
    <3> DEFINE i == from[p][2]
    <3>1. i \in Nat /\ from[p] = <<from[p][1], i>> /\ from[p][1] \in Holders
      BY <1>6
    <3>2. moved[p] = <<u, n + i>> \/ moved[p] = from[p]
      BY <1>6
    <3> DEFINE j == n + i
    <3> HIDE DEF i
    <3>3. j \in Nat
      BY <1>2, <3>1
    <3> HIDE DEF j
    <3>4. <<u, j>> \in Holders \X Nat /\ from[p] \in Holders \X Nat
      BY <1>5, <3>3
    <3>5. QED
      BY <3>2, <3>4, Zenon DEF j
  <2>3. QED
    BY <2>1, <2>2, Zenon
<1> HIDE DEF moved, B
<1>8. ASSUME NEW p \in 1 .. len
      PROVE  /\ moved[p][2] \in 1 .. Len(B[moved[p][1]])
             /\ pub[p] = B[moved[p][1]][moved[p][2]]
  <2> DEFINE i == from[p][2]
  <2>1. pub[p] = A[from[p][1]][i] /\ i \in 1 .. Len(A[from[p][1]])
    BY <1>5
  <2> HIDE DEF i
  <2>2. CASE from[p][1] = w
    <3>1. moved[p][1] = u /\ moved[p][2] = n + i /\ i \in 1 .. k
      BY <1>6, <2>2 DEF i
    <3>2. n + i \in 1 .. Len(B[u]) /\ B[u][n + i] = A[w][i]
      BY <1>2, <1>3, <1>4, <3>1, Zenon
    <3>3. QED
      BY <2>1, <2>2, <3>1, <3>2, Zenon
  <2>3. CASE from[p][1] = u
    <3>1. moved[p][1] = u /\ moved[p][2] = i /\ i \in 1 .. n
      BY <1>6, <2>3 DEF i
    <3>2. i \in 1 .. Len(B[u]) /\ B[u][i] = A[u][i]
      BY <1>2, <1>3, <1>4, <3>1, Zenon
    <3>3. QED
      BY <2>1, <2>3, <3>1, <3>2, Zenon
  <2>4. CASE from[p][1] # w /\ from[p][1] # u
    <3>1. moved[p][1] = from[p][1] /\ moved[p][2] = i
      BY <1>6, <2>4 DEF i
    <3>2. B[from[p][1]] = A[from[p][1]]
      BY <1>4, <1>6, <2>4
    <3>3. QED
      BY <2>1, <3>1, <3>2, Zenon
  <2>5. QED
    BY <2>2, <2>3, <2>4
<1>9. ASSUME NEW p \in 1 .. len, NEW q \in 1 .. len, moved[p] = moved[q] PROVE p = q
  <2>1. from[p] = from[q] => p = q
    BY <1>5
  <2>2. CASE from[p][1] = w /\ from[q][1] = w
    <3>1. n + from[p][2] = n + from[q][2]
      BY <1>6, <1>9, <2>2
    <3>2. from[p][2] = from[q][2]
      <4> DEFINE i == from[p][2]
                 j == from[q][2]
      <4>1. i \in Int /\ j \in Int /\ n \in Int
        BY <1>2, <1>6
      <4> HIDE DEF i, j
      <4>2. n + i = n + j => i = j
        BY <4>1
      <4>3. QED
        BY <3>1, <4>2 DEF i, j
    <3>3. QED
      <4>1. from[p] = <<w, from[p][2]>> /\ from[q] = <<w, from[q][2]>>
        BY <1>6, <2>2
      <4>2. from[p] = from[q]
        BY <3>2, <4>1, Zenon
      <4>3. QED
        BY <2>1, <4>2
  <2>3. CASE from[p][1] # w /\ from[q][1] # w
    BY <1>6, <1>9, <2>1, <2>3
  <2>4. ASSUME NEW a \in 1 .. len, NEW b \in 1 .. len, from[a][1] = w, from[b][1] # w
        PROVE  moved[a] # moved[b]
    <3>1. moved[a] = <<u, n + from[a][2]>> /\ moved[b] = <<from[b][1], from[b][2]>>
      BY <1>6, <2>4
    <3>2. from[b][1] = u => from[b][2] # n + from[a][2]
      <4> DEFINE i == from[a][2]
                 j == from[b][2]
      <4>1. i \in 1 .. k /\ (from[b][1] = u => j \in 1 .. n)
        BY <1>6, <2>4
      <4> HIDE DEF i, j
      <4>2. from[b][1] = u => j # n + i
        BY <1>2, <4>1
      <4>3. QED
        BY <4>2 DEF i, j
    <3>3. QED
      BY <3>1, <3>2
  <2>5. QED
    BY <1>9, <2>2, <2>3, <2>4
<1>10. ASSUME NEW v \in Holders, NEW i \in 1 .. Len(B[v])
       PROVE  \E p \in 1 .. len : moved[p] = <<v, i>>
  <2>1. CASE v = w
    <3>1. Len(B[v]) = 0
      BY <1>4, <2>1
    <3>2. QED
      BY <3>1
  <2>2. CASE v = u
    <3>1. i \in 1 .. n + k
      BY <1>2, <1>4, <2>2
    <3>2. CASE i \in 1 .. n
      <4>1. PICK p \in 1 .. len : from[p] = <<u, i>>
        BY <1>5, <3>2 DEF n
      <4>2. from[p][1] # w
        BY <4>1
      <4>3. QED
        BY <1>6, <2>2, <4>1, <4>2, Zenon
    <3>3. CASE i - n \in 1 .. k
      <4>1. PICK p \in 1 .. len : from[p] = <<w, i - n>>
        BY <1>5, <3>3 DEF k
      <4>2. moved[p] = <<u, n + (i - n)>>
        BY <1>6, <4>1
      <4>3. n + (i - n) = i
        BY <1>2, <3>1
      <4>4. QED
        BY <2>2, <4>2, <4>3
    <3>4. QED
      BY <1>2, <3>1, <3>2, <3>3
  <2>3. CASE v # w /\ v # u
    <3>1. PICK p \in 1 .. len : from[p] = <<v, i>>
      BY <1>4, <1>5, <1>10, <2>3
    <3>2. from[p][1] # w
      BY <2>3, <3>1
    <3>3. QED
      BY <1>6, <3>1, <3>2, Zenon
  <2>4. QED
    BY <2>1, <2>2, <2>3
<1>11. Settled(moved, B, pub)
  BY <1>7, <1>8, <1>9, <1>10, Zenon DEF Settled, len
<1>12. QED
  BY <1>11 DEF all, B

\* Accounts are lists of conflicts.
LEMMA AccountsType ==
    ASSUME NEW at, NEW locals \in [Workers -> Frames], NEW H \in Seq(Conflicts)
    PROVE  Accounts(at, locals, H) \in [Holders -> Seq(Conflicts)]
<1>1. ASSUME NEW v \in Holders, v # Free PROVE locals[v].conflicts \in Seq(Conflicts)
  BY <1>1 DEF Holders, Frames
<1>2. QED
  BY <1>1 DEF Accounts

\* A step that has nothing to do with a conflict that is owed.
LEMMA TallyAside ==
    ASSUME Tally, UNCHANGED <<evidence, published, recorded>>,
           \A v \in Workers : /\ pc'[v] = "record" <=> pc[v] = "record"
                              /\ pc[v] = "record" => frame'[v] = frame[v]
    PROVE  Tally'
<1>1. ASSUME NEW H PROVE Accounts(pc', frame', H) = Accounts(pc, frame, H)
  <2>1. \A v \in Holders : v # Free => v \in Workers
    BY DEF Holders
  <2>2. QED
    BY <2>1 DEF Accounts
<1>2. PICK from : Settled(from, Accounts(pc, frame, recorded), published)
  BY DEF Tally
<1>3. \E moved : Settled(moved, Accounts(pc', frame', recorded'), published')
  BY <1>1, <1>2
<1>4. QED
  BY <1>3 DEF Tally

\* A step of one worker that neither publishes nor records.
LEMMA TallyMove ==
    ASSUME TInv, Tally, NEW w \in Workers, NEW p, NEW f, p # "record", pc[w] # "record",
           pc' = [pc EXCEPT ![w] = p], frame' = [frame EXCEPT ![w] = f],
           UNCHANGED <<evidence, published, recorded>>
    PROVE  Tally'
<1>1. pc \in [Workers -> PCs] /\ frame \in [Workers -> Frames]
  BY DEF TInv, TypeOK
<1>2. \A v \in Workers : /\ pc'[v] = IF v = w THEN p ELSE pc[v]
                         /\ frame'[v] = IF v = w THEN f ELSE frame[v]
  BY <1>1
<1>3. QED
  BY <1>2, TallyAside

\* A step of one worker that leaves its locals alone.
LEMMA TallyPc ==
    ASSUME TInv, Tally, NEW w \in Workers, NEW p, p # "record", pc[w] # "record",
           pc' = [pc EXCEPT ![w] = p], UNCHANGED <<frame, evidence, published, recorded>>
    PROVE  Tally'
<1>1. pc \in [Workers -> PCs]
  BY DEF TInv, TypeOK
<1>2. \A v \in Workers : pc'[v] = IF v = w THEN p ELSE pc[v]
  BY <1>1
<1>3. QED
  BY <1>2, TallyAside

\* A publication opens the account of its worker.
LEMMA TallyPublish ==
    ASSUME TInv, Tally, NEW w \in Workers, Publish(w)
    PROVE  Tally'
<1> DEFINE cs == frame[w].conflicts
<1>1. /\ pc \in [Workers -> PCs] /\ frame \in [Workers -> Frames] /\ cs \in Seq(Conflicts)
      /\ published \in Seq(Conflicts) /\ recorded \in Seq(Conflicts)
  BY DEF TInv, TypeOK, Frames
<1>2. /\ pc[w] = "publish" /\ pc' = [pc EXCEPT ![w] = "record"]
      /\ UNCHANGED <<frame, evidence, recorded>> /\ published' = published \o cs
  BY DEF Publish
<1>3. PICK from : Settled(from, Accounts(pc, frame, recorded), published)
  BY DEF Tally
<1> DEFINE A == Accounts(pc, frame, recorded)
<1>4. w \in Holders /\ w # Free /\ \A v \in Holders : v # Free => v \in Workers
  BY NodeAssumption DEF Holders
<1>5. A \in [Holders -> Seq(Conflicts)] /\ A[w] = << >>
  BY <1>1, <1>2, <1>3, <1>4, AccountsType DEF Accounts
<1>6. Accounts(pc', frame', recorded') = [A EXCEPT ![w] = cs]
  <2>1. \A v \in Workers : pc'[v] = IF v = w THEN "record" ELSE pc[v]
    BY <1>1, <1>2
  <2>2. frame' = frame /\ recorded' = recorded
    BY <1>2
  <2>3. QED
    BY <1>4, <2>1, <2>2 DEF Accounts
<1> HIDE DEF cs, A
<1>7. \E moved : Settled(moved, [A EXCEPT ![w] = cs], published \o cs)
  BY <1>1, <1>3, <1>4, <1>5, SettledGrows DEF A
<1>8. \E moved : Settled(moved, Accounts(pc', frame', recorded'), published')
  BY <1>2, <1>6, <1>7
<1>9. QED
  BY <1>2, <1>8 DEF Tally

\* A record moves that account behind the counted ones.
LEMMA TallyRecord ==
    ASSUME TInv, Tally, NEW w \in Workers, Record(w)
    PROVE  Tally'
<1> DEFINE cs == frame[w].conflicts
<1>1. /\ pc \in [Workers -> PCs] /\ frame \in [Workers -> Frames] /\ cs \in Seq(Conflicts)
      /\ published \in Seq(Conflicts) /\ recorded \in Seq(Conflicts)
  BY DEF TInv, TypeOK, Frames
<1>2. /\ pc[w] = "record" /\ pc' = [pc EXCEPT ![w] = "ok"] /\ UNCHANGED <<frame, published>>
      /\ evidence' = Added(evidence, cs) /\ recorded' = recorded \o cs
  BY DEF Record
<1>3. PICK from : Settled(from, Accounts(pc, frame, recorded), published)
  BY DEF Tally
<1> DEFINE A == Accounts(pc, frame, recorded)
           all == recorded \o cs
<1>4. /\ w \in Holders /\ Free \in Holders /\ Free # w
      /\ \A v \in Holders : v # Free => v \in Workers
  BY NodeAssumption DEF Holders
<1>5. A \in [Holders -> Seq(Conflicts)] /\ A[w] = cs /\ A[Free] = recorded
  <2>1. A \in [Holders -> Seq(Conflicts)]
    BY <1>1, AccountsType
  <2>2. A[w] = cs /\ A[Free] = recorded
    BY <1>2, <1>4 DEF Accounts
  <2>3. QED
    BY <2>1, <2>2
<1>6. Accounts(pc', frame', all) = [A EXCEPT ![w] = << >>, ![Free] = all]
  <2>1. \A v \in Workers : pc'[v] = IF v = w THEN "ok" ELSE pc[v]
    BY <1>1, <1>2
  <2>2. frame' = frame
    BY <1>2
  <2>3. QED
    BY <1>4, <2>1, <2>2 DEF Accounts
<1>7. all \in Seq(Conflicts) /\ Len(all) = Len(recorded) + Len(cs)
  BY <1>1, ConcatProperties
<1>8. evidence' = [resolved |-> Len(all), history |-> Remembered(all)]
  <2>1. Remembered(Remembered(recorded) \o cs) = Remembered(all)
    BY <1>1, RememberedAdds
  <2>2. evidence.resolved = Len(recorded) /\ evidence.history = Remembered(recorded)
    BY DEF Tally
  <2>3. QED
    BY <1>2, <1>7, <2>1, <2>2 DEF Added
<1> HIDE DEF cs, A, all
<1>9. \E moved : Settled(moved, [A EXCEPT ![w] = << >>, ![Free] = A[Free] \o A[w]], published)
  BY <1>1, <1>3, <1>4, <1>5, SettledMoves DEF A
<1>10. \E moved : Settled(moved, Accounts(pc', frame', all), published')
  BY <1>2, <1>5, <1>6, <1>9 DEF all
<1>11. QED
  BY <1>2, <1>8, <1>10 DEF Tally, all, cs

\* With nobody at work, nothing published and nothing recorded, all is settled.
LEMMA TallyOfNothing ==
    ASSUME \A w \in Workers : pc[w] = "idle", published = << >>, recorded = << >>,
           evidence = NoEvidence
    PROVE  Tally
<1> DEFINE from == << >>
<1>1. Len(recorded) = 0 /\ Remembered(recorded) = << >>
  BY NodeAssumption DEF Remembered
<1>2. \A v \in Holders : Accounts(pc, frame, recorded)[v] = << >>
  BY DEF Holders, Accounts
<1>3. Settled(from, Accounts(pc, frame, recorded), published)
  BY <1>2 DEF Settled
<1>4. QED
  BY <1>1, <1>3 DEF Tally, NoEvidence

\* A crash takes the evidence and what it counts.
LEMMA TallyCrash ==
    ASSUME Kill \/ PowerCut
    PROVE  Tally'
<1>1. /\ pc' = [w \in Workers |-> "idle"] /\ evidence' = NoEvidence
      /\ published' = << >> /\ recorded' = << >>
  BY DEF Kill, PowerCut, Stop
<1>2. /\ (\A w \in Workers : pc[w] = "idle")' /\ (evidence = NoEvidence)'
      /\ (published = << >>)' /\ (recorded = << >>)'
  BY <1>1
<1>3. QED
  BY <1>2, TallyOfNothing, PTL

\* Every step keeps the accounts.
LEMMA NextTally == TInv /\ Tally /\ [Next]_vars => Tally'
<1> SUFFICES ASSUME TInv, Tally, [Next]_vars PROVE Tally'
  OBVIOUS
<1>1. ASSUME NEW w \in Workers, Receive(w) \/ Begin(w) PROVE Tally'
  <2>1. \E f : /\ frame' = [frame EXCEPT ![w] = f]
               /\ \/ pc' = [pc EXCEPT ![w] = "waiting"] 
                  \/ pc' = [pc EXCEPT ![w] = "build"]
    BY <1>1 DEF Receive, Begin
  <2>2. pc[w] # "record" /\ UNCHANGED <<evidence, published, recorded>>
    BY <1>1 DEF Receive, Begin, ghost
  <2>3. QED
    BY <2>1, <2>2, TallyMove
<1>2. ASSUME NEW w \in Workers, Refuse(w) \/ Rename(w) \/ SyncDir(w) PROVE Tally'
  BY <1>2, TallyPc DEF Refuse, Rename, SyncDir, ghost
<1>3. ASSUME NEW w \in Workers, Fail(w), pc[w] # "record" PROVE Tally'
  BY <1>3, TallyPc DEF Fail, ghost
<1>4. ASSUME NEW w \in Workers, NEW p, NEW f, Work(w, p, f), p # "record", pc[w] # "record"
      PROVE  Tally'
  BY <1>4, TallyMove DEF Work, ghost
<1>5. ASSUME NEW w \in Workers, BuildWrite(w) \/ BuildEntry(w) PROVE Tally'
  <2>1. pc[w] = "build" /\ (Fail(w) \/ \E f : Work(w, "build", f))
    BY <1>5 DEF BuildWrite, BuildEntry
  <2>2. QED
    BY <1>3, <1>4, <2>1
<1>6. ASSUME NEW w \in Workers, FinishCell(w) \/ FinishEntries(w) PROVE Tally'
  <2>1. pc[w] = "build" /\ \E f : \E p \in {"build", "merge"} : Work(w, p, f)
    BY <1>6 DEF FinishCell, FinishEntries
  <2>2. QED
    BY <1>4, <2>1
<1>7. ASSUME NEW w \in Workers, MergePart(w) PROVE Tally'
  <2>1. pc[w] = "merge" /\ (Fail(w) \/ \E f : \E p \in {"merge", "clock"} : Work(w, p, f))
    BY <1>7 DEF MergePart
  <2>2. QED
    BY <1>3, <1>4, <2>1
<1>8. ASSUME NEW w \in Workers, TickClock(w) \/ WriteTemp(w) \/ SyncTemp(w) \/ SaveFails(w)
      PROVE  Tally'
  <2>1. /\ pc[w] # "record"
        /\ Fail(w) \/ \E f : \E p \in {"write", "sync", "rename"} : Work(w, p, f)
    BY <1>8 DEF TickClock, WriteTemp, SyncTemp, SaveFails, Saving
  <2>2. QED
    BY <1>3, <1>4, <2>1
<1>9. ASSUME NEW w \in Workers, Answer(w) PROVE Tally'
  <2>1. /\ pc[w] # "record" /\ pc' = [pc EXCEPT ![w] = "idle"]
        /\ frame' = [frame EXCEPT ![w] = AtRest] /\ UNCHANGED <<evidence, published, recorded>>
    BY <1>9 DEF Answer
  <2>2. QED
    BY <2>1, TallyMove
<1>10. CASE Restart
  BY <1>10, TallyAside DEF Restart, ghost
<1>11. CASE UNCHANGED vars
  BY <1>11, TallyAside DEF vars, ghost
<1>12. QED
  BY <1>1, <1>2, <1>5, <1>6, <1>7, <1>8, <1>9, <1>10, <1>11, TallyPublish, TallyRecord,
     TallyCrash
     DEF Next, Step

\* The settled conflicts were published, each as often at least.
LEMMA RecordedWasPublished ==
    ASSUME NEW A \in [Holders -> Seq(Conflicts)], NEW pub \in Seq(Conflicts),
           NEW from, Settled(from, A, pub), NEW c
    PROVE  Cardinality({i \in DOMAIN A[Free] : A[Free][i] = c})
              <= Cardinality({p \in DOMAIN pub : pub[p] = c})
<1> DEFINE H == A[Free]
           S == {i \in DOMAIN H : H[i] = c}
           T == {p \in DOMAIN pub : pub[p] = c}
           place == [i \in S |-> CHOOSE p \in 1 .. Len(pub) : from[p] = <<Free, i>>]
<1>1. Free \in Holders /\ H \in Seq(Conflicts)
  BY DEF Holders
<1>2. DOMAIN H = 1 .. Len(H) /\ DOMAIN pub = 1 .. Len(pub) /\ Len(pub) \in Nat
  BY <1>1, LenProperties
<1>3. /\ \A p \in 1 .. Len(pub) : pub[p] = A[from[p][1]][from[p][2]]
      /\ \A v \in Holders : \A i \in 1 .. Len(A[v]) :
            \E p \in 1 .. Len(pub) : from[p] = <<v, i>>
  BY DEF Settled
<1>4. ASSUME NEW i \in S
      PROVE  place[i] \in T /\ from[place[i]] = <<Free, i>>
  <2> DEFINE p == place[i]
  <2>1. i \in 1 .. Len(A[Free]) /\ A[Free][i] = c
    BY <1>2
  <2>2. \E q \in 1 .. Len(pub) : from[q] = <<Free, i>>
    BY <1>1, <1>3, <2>1, Zenon
  <2>3. p \in 1 .. Len(pub) /\ from[p] = <<Free, i>>
    BY <2>2
  <2> HIDE DEF place
  <2>4. pub[p] = A[from[p][1]][from[p][2]] /\ from[p][1] = Free /\ from[p][2] = i
    BY <1>3, <2>3
  <2> HIDE DEF p
  <2>5. pub[p] = c
    BY <2>1, <2>4, Zenon
  <2>6. p \in T
    BY <1>2, <2>3, <2>5
  <2>7. QED
    BY <2>3, <2>6 DEF p
<1>5. place \in [S -> T]
  BY <1>4
<1>6. ASSUME NEW i \in S, NEW j \in S, place[i] = place[j] PROVE i = j
  <2> HIDE DEF S, place
  <2>1. <<Free, i>> = <<Free, j>>
    BY <1>4, <1>6
  <2>2. QED
    BY <2>1
<1> HIDE DEF place
<1>7. place \in Injection(S, T)
  BY <1>5, <1>6 DEF Injection, IsInjective
<1>8. IsFiniteSet(T)
  <2>1. IsFiniteSet(1 .. Len(pub))
    BY <1>2, FS_Interval
  <2>2. T \subseteq 1 .. Len(pub)
    BY <1>2
  <2> HIDE DEF T
  <2>3. QED
    BY <2>1, <2>2, FS_Subset
<1> HIDE DEF S, T
<1>9. Cardinality(S) <= Cardinality(T)
  BY <1>7, <1>8, FS_Injection
<1>10. QED
  BY <1>9 DEF S, T, H

\* When no account of a worker is open, as many conflicts are recorded as were published.
LEMMA AllRecorded ==
    ASSUME NEW A \in [Holders -> Seq(Conflicts)], NEW pub \in Seq(Conflicts),
           NEW from, Settled(from, A, pub), \A v \in Holders : v # Free => A[v] = << >>
    PROVE  Len(A[Free]) = Len(pub)
<1> DEFINE n == Len(pub)
           k == Len(A[Free])
           place == [p \in 1 .. n |-> from[p][2]]
<1>1. Free \in Holders /\ n \in Nat /\ k \in Nat
  BY DEF Holders
<1>2. /\ from \in [1 .. n -> Holders \X Nat]
      /\ \A p \in 1 .. n : from[p][2] \in 1 .. Len(A[from[p][1]])
      /\ \A p, q \in 1 .. n : from[p] = from[q] => p = q
      /\ \A v \in Holders : \A i \in 1 .. Len(A[v]) : \E p \in 1 .. n : from[p] = <<v, i>>
  BY DEF Settled
<1>3. ASSUME NEW p \in 1 .. n
      PROVE  from[p] = <<Free, place[p]>> /\ place[p] \in 1 .. k
  <2>1. from[p] \in Holders \X Nat /\ from[p][2] \in 1 .. Len(A[from[p][1]])
    BY <1>2
  <2>2. from[p][1] \in Holders /\ (from[p][1] # Free => Len(A[from[p][1]]) = 0)
    BY <2>1
  <2>3. from[p][1] = Free
    BY <2>1, <2>2
  <2>4. QED
    BY <2>1, <2>3
<1> HIDE DEF n
<1>4. place \in [1 .. n -> 1 .. k]
  BY <1>3
<1>5. \A p, q \in 1 .. n : place[p] = place[q] => p = q
  <2> HIDE DEF place
  <2>1. ASSUME NEW p \in 1 .. n, NEW q \in 1 .. n, place[p] = place[q]
        PROVE  p = q
    <3>1. from[p] = <<Free, place[p]>> /\ from[q] = <<Free, place[q]>>
      BY <1>3
    <3>2. from[p] = from[q]
      BY <2>1, <3>1
    <3>3. QED
      BY <1>2, <3>2
  <2>2. QED
    BY <2>1
<1>6. \A i \in 1 .. k : \E p \in 1 .. n : place[p] = i
  <2>1. ASSUME NEW i \in 1 .. k PROVE \E p \in 1 .. n : place[p] = i
    <3>1. PICK p \in 1 .. n : from[p] = <<Free, i>>
      BY <1>1, <1>2, <2>1
    <3>2. QED
      BY <3>1
  <2>2. QED
    BY <2>1
<1> HIDE DEF k, place
<1>7. place \in Bijection(1 .. n, 1 .. k)
  BY <1>4, <1>5, <1>6 DEF Bijection, Injection, Surjection, IsInjective
<1>8. /\ IsFiniteSet(1 .. n) /\ Cardinality(1 .. n) = n /\ Cardinality(1 .. k) = k
  BY <1>1, FS_Interval
<1>9. Cardinality(1 .. k) = Cardinality(1 .. n)
  BY <1>7, <1>8, FS_Bijection DEF ExistsBijection
<1>10. QED
  BY <1>8, <1>9 DEF n, k

\* Settled accounts are evidence that adds up.
LEMMA TallyAddsUp == TInv /\ Tally => EvidenceAddsUp
<1> SUFFICES ASSUME TInv, Tally PROVE EvidenceAddsUp
  OBVIOUS
<1>1. PICK from : Settled(from, Accounts(pc, frame, recorded), published)
  BY DEF Tally
<1> DEFINE A == Accounts(pc, frame, recorded)
           told == evidence.history
           n == Len(recorded)
<1>2. published \in Seq(Conflicts) /\ recorded \in Seq(Conflicts) /\ A[Free] = recorded
  BY DEF TInv, TypeOK, Holders, Accounts
<1>3. A \in [Holders -> Seq(Conflicts)]
  BY <1>2, AccountsType DEF TInv, TypeOK
<1>4. evidence.resolved = n /\ told = Remembered(recorded)
  BY DEF Tally
<1>5. /\ n \in Nat /\ ConflictHistory \in Nat \ {0}
      /\ Len(told) = Cap(n) /\ DOMAIN told = 1 .. Cap(n)
      /\ \A i \in 1 .. Cap(n) : told[i] = recorded[n - Cap(n) + i]
  <2>1. /\ Remembered(recorded) \in Seq(Conflicts) /\ Len(Remembered(recorded)) = Cap(n)
        /\ \A i \in 1 .. Cap(n) : Remembered(recorded)[i] = recorded[n - Cap(n) + i]
    BY <1>2, RememberedIsTheEnd
  <2>2. QED
    BY <1>2, <1>4, <2>1, NodeAssumption, LenProperties
<1>6. Len(told) = IF n < ConflictHistory THEN n ELSE ConflictHistory
  BY <1>5 DEF Cap
<1>7. \A i \in DOMAIN told : told[i] = recorded[n - Len(told) + i]
  BY <1>5, Zenon
<1>8. Settled(from, A, published)
  BY <1>1
<1>9. (\A w \in Workers : pc[w] # "record") => n = Len(published)
  <2> SUFFICES ASSUME \A w \in Workers : pc[w] # "record"
               PROVE  n = Len(published)
    OBVIOUS
  <2>1. \A v \in Holders : v # Free => A[v] = << >>
    BY DEF Holders, Accounts
  <2> HIDE DEF A
  <2>2. QED
    BY <1>2, <1>3, <1>8, <2>1, AllRecorded
<1> HIDE DEF A
<1>10. ASSUME NEW c
       PROVE  Cardinality({i \in DOMAIN recorded : recorded[i] = c})
                 <= Cardinality({p \in DOMAIN published : published[p] = c})
  <2>1. Cardinality({i \in DOMAIN A[Free] : A[Free][i] = c})
           <= Cardinality({p \in DOMAIN published : published[p] = c})
    BY <1>2, <1>3, <1>8, RecordedWasPublished
  <2>2. QED
    BY <1>2, <2>1
<1>11. QED
  BY <1>4, <1>6, <1>7, <1>9, <1>10, Zenon DEF EvidenceAddsUp

\* GET /conflicts counts every recorded conflict and tells of the newest of them; what is
\* recorded is what the published requests resolved, each conflict once: for every order
\* in which workers publish and record, and across failed saves and restarts.
THEOREM Evidenced == Spec => []EvidenceAddsUp
<1>1. Init => Tally
  BY TallyOfNothing DEF Init
<1>2. TInv /\ Tally /\ [Next]_vars => Tally'
  BY NextTally
<1>3. Spec => [](TInv /\ Tally)
  BY <1>1, <1>2, InitType, NextType, PTL DEF Spec
<1>4. QED
  BY <1>3, TallyAddsUp, PTL
=============================================================================
