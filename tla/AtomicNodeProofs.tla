-------------------------- MODULE AtomicNodeProofs --------------------------
(***************************************************************************)
(* Proofs about AtomicNode: what a node promises about its map, for any    *)
(* keys, values and writers, and requests of any length.                   *)
(***************************************************************************)
EXTENDS AtomicNode, HandlersProofs

\* The map holds no generation that wrapped, nor a record that does not carry the
\* generation of its attempt; and the clock can pass it.
Inv == state \in SoundMaps(MaxU64) /\ ~ClockOverflows(state)

LEMMA InitInv == Init => Inv
<1>1. Held(Empty) = {} /\ Empty \in SoundMaps(MaxU64)
  BY EmptySound DEF Held, Empty
<1>2. ~ClockOverflows(Empty)
  BY <1>1, MapAssumption DEF ClockOverflows, NextLocalTime
<1>3. QED
  BY <1>1, <1>2 DEF Init, Inv

\* What a served request leaves.
LEMMA ServeInv ==
    ASSUME Inv, NEW r \in Requests, Serve(r)
    PROVE  /\ r \in AllRequests /\ state \in Maps /\ Accepts(r, state)
           /\ state' = After(r, state)
           /\ state' \in SoundMaps(MaxU64) /\ state' \in SoundMaps(TimeLimit(state))
           /\ ~ClockOverflows(state')
<1>1. r \in AllRequests /\ state \in SoundMaps(MaxU64) /\ state \in Maps
  BY RequestsAssumption DEF Inv, SoundMaps
<1>2. Accepts(r, state) /\ state' = After(r, state)
  BY DEF Serve
<1>3. ~ClockOverflows(Merged(r, state).map)
  BY <1>2, AcceptedParts
<1>4. After(r, state) = Merged(r, state).map
  BY <1>1, AfterType
<1>5. QED
  BY <1>1, <1>2, <1>3, <1>4, AcceptedSound

LEMMA NextInv == Inv /\ [Next]_state => Inv'
<1>1. ASSUME Inv, NEW r \in Requests, Serve(r) PROVE Inv'
  BY <1>1, ServeInv DEF Inv, ClockOverflows, NextLocalTime, Held, MaxTime
<1>2. ASSUME Inv, UNCHANGED state PROVE Inv'
  BY <1>2 DEF Inv, ClockOverflows, NextLocalTime, Held, MaxTime
<1>3. QED
  BY <1>1, <1>2 DEF Next

\* The invariant holds whatever was served.
THEOREM Invariance == Spec => []Inv
<1>1. QED
  BY InitInv, NextInv, PTL DEF Spec

\* The map of a node is always a map.
THEOREM TypeCorrect == Spec => []TypeOK
<1>1. Inv => TypeOK
  BY DEF Inv, SoundMaps, TypeOK
<1>2. QED
  BY <1>1, Invariance, PTL

\* A request that is delivered again changes nothing, and is accepted again but
\* for the two cases the property names.
THEOREM Retries == Spec => []RetryIsHarmless
<1>1. Inv => RetryIsHarmless
  <2> SUFFICES ASSUME Inv, NEW r \in Requests, Accepts(r, state)
               PROVE  /\ After(r, After(r, state)) = After(r, state)
                      /\ ~AddWins /\ MaxTime(state) <= MaxTime(After(r, state))
                             => Accepts(r, After(r, state))
    BY DEF RetryIsHarmless
  <2>1. r \in AllRequests /\ state \in Maps
    BY RequestsAssumption DEF Inv, SoundMaps
  <2>2. QED
    BY <2>1, RetryChangesNothing, RetryAccepted
<1>2. QED
  BY <1>1, Invariance, PTL

\* Two requests leave the same map in either order.
THEOREM Order == Spec => []OrderDoesNotMatter
<1>1. Inv => OrderDoesNotMatter
  <2> SUFFICES ASSUME Inv, NEW r \in Requests, NEW s \in Requests,
                      Accepts(r, state), Accepts(s, After(r, state)), Accepts(s, state)
               PROVE  After(s, After(r, state)) = After(r, After(s, state))
    BY DEF OrderDoesNotMatter
  <2>1. r \in AllRequests /\ s \in AllRequests /\ state \in SoundMaps(MaxU64)
    BY RequestsAssumption DEF Inv
  <2>2. QED
    BY <2>1, RequestsCommute
<1>2. QED
  BY <1>1, Invariance, PTL

\* The full state a node answers is all of its map, and is refused only where
\* that map would be.
THEOREM Lossless == Spec => []FullStateIsLossless
<1>1. Inv => FullStateIsLossless
  <2> SUFFICES ASSUME Inv, NEW m \in {Empty} \cup
                           {After(r, Empty) : r \in {q \in Requests : Accepts(q, Empty)}}
               PROVE  /\ Accepts(StateRequest(state), m) <=> AcceptsState(state, m)
                      /\ After(StateRequest(state), m) = Merge(m, state)
    BY Zenon DEF FullStateIsLossless, Accepts, After
  <2>1. state \in Maps /\ m \in Maps
    BY EmptyType, AfterType, RequestsAssumption DEF Inv, SoundMaps
  <2>2. QED
    BY <2>1, FullState
<1>2. QED
  BY <1>1, Invariance, PTL

\* Keys that a cell reports in order of time end as it wrote them last.
THEOREM EndsAsWritten == Spec => []CellsEndAsWritten
<1>1. Inv => CellsEndAsWritten
  <2> SUFFICES ASSUME Inv, NEW r \in Requests, r.kind = "reconcile", Len(r.cells) = 1,
                      Accepts(r, state),
                      \A j \in DOMAIN r.cells[1].writes :
                          /\ r.cells[1].writes[j].generation = Unstated
                          /\ j > 1 => r.cells[1].writes[j - 1].time < r.cells[1].writes[j].time,
                      NEW k \in Keys \ Held(state), NEW j \in DOMAIN r.cells[1].writes,
                      r.cells[1].writes[j].key = k,
                      \A l \in j + 1 .. Len(r.cells[1].writes) : r.cells[1].writes[l].key # k
               PROVE  After(r, state)[k].value = r.cells[1].writes[j].value
    BY DEF CellsEndAsWritten
  <2>1. r \in AllRequests /\ state \in Maps
    BY RequestsAssumption DEF Inv, SoundMaps
  <2>2. DOMAIN r.cells[1].writes = 1 .. Len(r.cells[1].writes)
    <3>1. r.cells \in Seq(Cells)
      BY <2>1, RequestType
    <3>2. r.cells[1] \in Cells
      BY <3>1
    <3>3. r.cells[1].writes \in Seq(Writes)
      BY <3>2 DEF Cells
    <3>4. QED
      BY <3>3
  <2>3. /\ j \in 1 .. Len(r.cells[1].writes)
        /\ \A i \in 1 .. Len(r.cells[1].writes) :
               /\ r.cells[1].writes[i].generation = Unstated
               /\ i > 1 => r.cells[1].writes[i - 1].time < r.cells[1].writes[i].time
    BY <2>2
  <2>4. QED
    BY <2>1, <2>3, InOrderEndsAsWritten
<1>2. QED
  BY <1>1, Invariance, PTL

\* One request moves the newest time at most MaxTimeJump further.
THEOREM TimeSteps == Spec => TimeStepBounded
<1>1. ASSUME Inv, NEW r \in Requests, Serve(r) PROVE MaxTime(state') <= TimeLimit(state)
  <2>1. state \in Maps /\ state' \in SoundMaps(TimeLimit(state)) /\ state' \in Maps
    BY <1>1, ServeInv DEF SoundMaps
  <2>2. TimeLimit(state) \in Nat
    BY <2>1, LimitType, MapAssumption DEF U64
  <2>3. MaxTime(state') = 0 \/ \E k \in Held(state') : state'[k].time = MaxTime(state')
    BY <2>1, MaxTimeIsNewest
  <2>4. \A k \in Held(state') : state'[k].time <= TimeLimit(state)
    BY <2>1 DEF SoundMaps
  <2>5. QED
    BY <2>2, <2>3, <2>4
<1>2. Inv /\ [Next]_state => [MaxTime(state') <= TimeLimit(state)]_state
  BY <1>1 DEF Next
<1>3. QED
  BY <1>2, Invariance, PTL DEF Spec, TimeStepBounded

\* Of two records of a key, one of which took the place of the other.
LEMMA Fencing ==
    ASSUME NEW k \in RecordKeys, NEW d \in Entries, NEW e \in Entries,
           ~IsTombstone(d), ~IsTombstone(e), WellStamped(k, d), WellStamped(k, e),
           Covers(e, d)
    PROVE  \/ Attempt[e.value] >= Attempt[d.value]
           \/ Attempt[d.value] = MaxU64 /\ Attempt[e.value] + 1 = MaxU64
<1>1. MaxU64 \in Nat
  BY MapAssumption
<1>2. ASSUME NEW f \in Entries, ~IsTombstone(f), WellStamped(k, f)
      PROVE  /\ Attempt[f.value] \in 0 .. MaxU64
             /\ f.generation = SaturatingAdd(Attempt[f.value], 1)
             /\ Rank(f)[1] = f.generation /\ f.generation \in Nat
  <2>1. f.value \in Values
    BY <1>2 DEF IsTombstone, Entries, Contents
  <2>2. Attempt[f.value] # NoAttempt /\ f.generation = SaturatingAdd(Attempt[f.value], 1)
    BY <1>2 DEF WellStamped, Malformed, RequiredGeneration
  <2>3. Attempt[f.value] \in U64
    BY <2>1, <2>2, RequestAssumption
  <2>4. Rank(f)[1] = f.generation
    BY <1>2 DEF Rank
  <2>5. QED
    BY <1>2, <2>2, <2>3, <2>4, StampType DEF U64
<1>3. d.generation <= e.generation
  <2>1. ~RankLess(Rank(e), Rank(d))
    BY MapAssumption DEF Covers
  <2>2. ~(Rank(e)[1] < Rank(d)[1])
    BY <2>1 DEF RankLess
  <2>3. QED
    BY <1>2, <2>2
<1>4. QED
  BY <1>1, <1>2, <1>3 DEF SaturatingAdd

\* A record is never replaced by one of an earlier attempt.
THEOREM Fenced == Spec => AttemptsAreFenced
<1> DEFINE Shows(m, k) == m[k] # NoEntry /\ ~IsTombstone(m[k])
           Fence(m, o) == \A k \in RecordKeys :
               Shows(m, k) /\ Shows(o, k) =>
                   \/ Attempt[o[k].value] >= Attempt[m[k].value]
                   \/ Attempt[m[k].value] = MaxU64 /\ Attempt[o[k].value] + 1 = MaxU64
<1>1. ASSUME NEW m \in SoundMaps(MaxU64), NEW o \in SoundMaps(MaxU64), MapCovers(o, m)
      PROVE  Fence(m, o)
  <2> SUFFICES ASSUME NEW k \in RecordKeys, Shows(m, k), Shows(o, k)
               PROVE  \/ Attempt[o[k].value] >= Attempt[m[k].value]
                      \/ Attempt[m[k].value] = MaxU64 /\ Attempt[o[k].value] + 1 = MaxU64
    OBVIOUS
  <2>1. k \in Keys /\ m \in Maps /\ o \in Maps
    BY RequestAssumption DEF SoundMaps
  <2>2. m[k] \in Entries /\ o[k] \in Entries /\ Covers(o[k], m[k])
    BY <1>1, <2>1, SlotType DEF Slots, MapCovers
  <2>3. WellStamped(k, m[k]) /\ WellStamped(k, o[k])
    BY <2>1 DEF SoundMaps, Held
  <2>4. QED
    BY <2>2, <2>3, Fencing
<1>2. ASSUME Inv, NEW r \in Requests, Serve(r) PROVE Fence(state, state')
  <2>1. /\ state \in SoundMaps(MaxU64) /\ state' \in SoundMaps(MaxU64)
        /\ state \in Maps /\ state' = After(r, state) /\ r \in AllRequests
    BY <1>2, ServeInv DEF Inv
  <2>2. MapCovers(state', state)
    <3>1. After(r, Empty) \in Maps /\ state' = Merge(state, After(r, Empty))
      BY <2>1, EmptyType, AfterType, RequestIsOneMap
    <3>2. QED
      BY <2>1, <3>1, MergeIsLeastUpperBound
  <2> HIDE DEF Fence
  <2>3. QED
    BY <1>1, <2>1, <2>2
<1>3. Inv /\ [Next]_state => [Fence(state, state')]_state
  BY <1>2 DEF Next
<1>4. Fence(state, state') =>
          \A k \in RecordKeys :
             LET shows(m) == m[k] # NoEntry /\ ~IsTombstone(m[k])
                 old == Attempt[state[k].value]
                 new == Attempt[state'[k].value]
             IN  shows(state) /\ shows(state') =>
                     new >= old \/ (old = MaxU64 /\ new + 1 = MaxU64)
  OBVIOUS
<1> HIDE DEF Fence
<1>5. QED
  BY <1>3, <1>4, Invariance, PTL DEF Spec, AttemptsAreFenced
=============================================================================
