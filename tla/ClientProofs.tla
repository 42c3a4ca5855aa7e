--------------------------- MODULE ClientProofs ---------------------------
(***************************************************************************)
(* What the parts that call a peer make of its answers: the clock estimate *)
(* of ClockSync is right for any peers, any window, any way time passes    *)
(* and any way clocks are set, and HttpAnswer understands any answer,      *)
(* however it is cut, in no way but as it was meant.                       *)
(***************************************************************************)
EXTENDS ClockSync, HttpAnswer, Loops, SequenceTheorems

-----------------------------------------------------------------------------
\* Arithmetic

\* A number that fits in 64 bits is cast to itself.
LEMMA CastKeeps ==
    ASSUME NEW n \in Int, -I64Limit <= n, n < I64Limit
    PROVE  AsI64(n) = n
<1>1. I64Limit \in Nat BY ClockAssumption
<1> DEFINE k == n + I64Limit
           d == 2 * I64Limit
<1>2. k \in Nat /\ d \in Nat /\ d > 0 /\ k < d BY <1>1
<1>3. k % d = k
  <2> HIDE DEF k, d
  <2>1. k \div d = 0 BY <1>2
  <2> QED BY <1>2, <2>1
<1> QED BY <1>1, <1>3 DEF AsI64

\* Half of a number, rounded towards zero.
LEMMA Halves ==
    ASSUME NEW n \in Int
    PROVE  /\ HalfTowardsZero(n) \in Int
           /\ 2 * HalfTowardsZero(n) - n \in -1..1
           /\ n >= 0 => HalfTowardsZero(n) \in 0..n
           /\ n < 0 => HalfTowardsZero(n) \in n..0
BY DEF HalfTowardsZero

\* The error of a sample is at most half its round trip, and the half a
\* division loses.
IsClose(s, ahead) == Abs(2 * (s.offset - ahead)) <= s.rtt + 1

\* A probe during which no clock was set: the request arrived after it was
\* sent and the answer after it was given, whatever the clocks show. Its
\* instants are plausible, and what is computed from them is close.
LEMMA SteadySampleIsClose ==
    ASSUME NEW t0 \in Instants, NEW t1 \in Instants, NEW t2 \in Instants, NEW t3 \in Instants,
           NEW ahead \in Int,
           t0 + ahead <= t1, t1 <= t2, t2 <= t3 + ahead
    PROVE  IsClose([offset |-> Offset(t0, t1, t2, t3), rtt |-> RoundTrip(t0, t1, t2, t3)], ahead)
<1> DEFINE n == (t1 - t0) + (t2 - t3)
           h == HalfTowardsZero(n)
           r == RoundTrip(t0, t1, t2, t3)
<1>1. /\ I64Limit \in Nat /\ MaxInstant \in Nat /\ MaxInstant < I64Limit
      /\ t0 \in 0..MaxInstant /\ t1 \in 0..MaxInstant /\ t2 \in 0..MaxInstant /\ t3 \in 0..MaxInstant
  BY ClockAssumption DEF Instants
<1>2. n \in Int BY <1>1
<1>3. /\ h \in Int /\ 2 * h - n \in -1..1
      /\ n >= 0 => h \in 0..n
      /\ n < 0 => h \in n..0
  BY <1>2, Halves
<1>4. -I64Limit <= h /\ h < I64Limit
  <2>1. -(2 * MaxInstant) <= n /\ n <= 2 * MaxInstant BY <1>1
  <2> QED BY <1>1, <1>2, <1>3, <2>1
<1>5. Offset(t0, t1, t2, t3) = h BY <1>3, <1>4, CastKeeps DEF Offset
<1>6. r \in Int /\ n - 2 * ahead <= r /\ -(n - 2 * ahead) <= r
  BY <1>1 DEF RoundTrip
<1>7. Abs(2 * (h - ahead)) <= r + 1
  <2> HIDE DEF h, n, r
  <2> QED BY <1>2, <1>3, <1>6 DEF Abs
<1> QED BY <1>5, <1>7 DEF IsClose

-----------------------------------------------------------------------------
\* Windows

\* A full window loses its oldest sample to a new one, and no other.
LEMMA RecordedWindow ==
    ASSUME NEW w \in Seq(Samples), Len(w) <= Window, NEW s \in Samples
    PROVE  LET r == Recorded(w, s)
           IN  /\ r \in Seq(Samples)
               /\ Len(r) \in 1..Window
               /\ Len(r) <= Len(w) + 1 /\ Len(w) <= Len(r)
               /\ r[Len(r)] = s
               /\ Len(w) < Window => Len(r) = Len(w) + 1
               /\ \A i \in 1..(Len(r) - 1) : r[i] = w[i + Len(w) + 1 - Len(r)]
<1>1. Window \in Nat /\ Window >= 1 BY ClockAssumption
<1>2. CASE Len(w) >= Window
  <2>1. w # << >> /\ Len(w) = Window BY <1>1, <1>2
  <2>2. /\ Tail(w) \in Seq(Samples) /\ Len(Tail(w)) = Len(w) - 1
        /\ \A i \in 1..(Len(w) - 1) : Tail(w)[i] = w[i + 1]
    BY <2>1, HeadTailProperties
  <2>3. Recorded(w, s) = Append(Tail(w), s) BY <1>2 DEF Recorded
  <2> QED BY <1>1, <2>1, <2>2, <2>3, AppendProperties
<1>3. CASE ~(Len(w) >= Window)
  <2>1. Recorded(w, s) = Append(w, s) BY <1>3 DEF Recorded
  <2> QED BY <1>1, <1>3, <2>1, AppendProperties
<1> QED BY <1>2, <1>3

-----------------------------------------------------------------------------
\* The jitter

\* The sum of the jumps is the loop it is written as.
LEMMA JumpsAreSummed ==
    ASSUME NEW w \in Seq(Samples), Len(w) >= 2
    PROVE  /\ Jumps(w)[0] = 0
           /\ \A n \in 1 .. Len(w) - 1 : Jumps(w)[n] = Jumps(w)[n - 1] + Jump(w, n)
<1> DEFINE last == Len(w) - 1
           step == [x \in (1 .. last) \X Int |-> x[2] + Jump(w, x[1])]
           Sums(f) == f = [n \in 0 .. last |-> IF n = 0 THEN 0 ELSE f[n - 1] + Jump(w, n)]
<1>1. last \in Nat /\ last >= 1
  OBVIOUS
<1>2. ASSUME NEW n \in 1 .. last PROVE Jump(w, n) \in Int
  <2>1. n \in 1 .. Len(w) /\ n + 1 \in 1 .. Len(w)
    OBVIOUS
  <2>2. w[n] \in Samples /\ w[n + 1] \in Samples
    BY <2>1
  <2>3. w[n].offset \in Int /\ w[n + 1].offset \in Int
    BY <2>2 DEF Samples
  <2> DEFINE between == w[n].offset - w[n + 1].offset
  <2>4. between \in Int /\ Jump(w, n) = Abs(between)
    BY <2>3 DEF Jump
  <2> HIDE DEF between
  <2> QED
    BY <2>4 DEF Abs
<1>3. step \in Rounds(last, Int)
  BY <1>2 DEF Rounds
<1>4. PICK f : IsLoop(f, last, Int, 0, step)
  <2> HIDE DEF last, step
  <2> QED
    BY <1>1, <1>3, Recursion
<1>5. f \in [0 .. last -> Int] /\ f[0] = 0
  BY <1>4 DEF IsLoop
<1>6. ASSUME NEW n \in 1 .. last PROVE f[n] = f[n - 1] + Jump(w, n)
  <2>1. n - 1 \in 0 .. last
    OBVIOUS
  <2>2. f[n - 1] \in Int
    BY <2>1, <1>5
  <2>3. f[n] = step[<<n, f[n - 1]>>]
    BY <1>4 DEF IsLoop
  <2> QED
    BY <2>2, <2>3
<1>7. Sums(f)
  <2> HIDE DEF last, step
  <2> QED
    BY <1>1, <1>5, <1>6
<1>8. Jumps(w) = CHOOSE g : Sums(g)
  BY DEF Jumps
<1>9. Sums(Jumps(w))
  <2> HIDE DEF Sums
  <2> QED
    BY <1>7, <1>8
<1>10. QED
  <2>1. 0 \in 0 .. last /\ \A n \in 1 .. last : n \in 0 .. last /\ n # 0
    BY <1>1
  <2> HIDE DEF last
  <2>2. Jumps(w)[0] = 0
    BY <1>9, <2>1
  <2>3. ASSUME NEW n \in 1 .. last PROVE Jumps(w)[n] = Jumps(w)[n - 1] + Jump(w, n)
    BY <1>9, <2>1
  <2> QED
    BY <2>2, <2>3 DEF last

\* Offsets that are all close to one another: the mean of their jumps is no
\* greater than the greatest.
LEMMA MeanOfJumps ==
    ASSUME NEW w \in Seq(Samples), NEW most \in Nat,
           \A n \in 1 .. Len(w) - 1 : Jump(w, n) \in 0 .. most
    PROVE  Jitter(w) <= most
<1>1. CASE Len(w) < 2
  BY <1>1 DEF Jitter
<1>2. CASE Len(w) >= 2
  <2> DEFINE last == Len(w) - 1
             Bounded == {n \in 0 .. last : Jumps(w)[n] \in 0 .. n * most}
  <2>1. last \in Nat /\ last >= 1
    BY <1>2
  <2>2. /\ Jumps(w)[0] = 0
        /\ \A n \in 1 .. last : Jumps(w)[n] = Jumps(w)[n - 1] + Jump(w, n)
    BY <1>2, JumpsAreSummed
  <2>3. 0 \in Bounded
    BY <2>1, <2>2
  <2>4. ASSUME NEW n \in 1 .. last, n - 1 \in Bounded PROVE n \in Bounded
    <3> DEFINE before == (n - 1) * most
    <3>1. before \in Nat /\ n * most = before + most
      OBVIOUS
    <3>2. Jumps(w)[n - 1] \in 0 .. before /\ Jump(w, n) \in 0 .. most /\ n \in 0 .. last
      BY <2>4
    <3>3. Jumps(w)[n] = Jumps(w)[n - 1] + Jump(w, n)
      BY <2>2
    <3> HIDE DEF before, last
    <3>4. Jumps(w)[n] \in 0 .. before + most
      BY <3>1, <3>2, <3>3
    <3> QED
      BY <3>1, <3>2, <3>4
  <2>5. last \in Bounded
    <3>1. \A n \in 0 .. last : n \in Bounded
      <4> HIDE DEF last, Bounded
      <4> QED
        BY <2>1, <2>3, <2>4, Induction
    <3> QED
      BY <2>1, <3>1
  <2> DEFINE sum == Jumps(w)[last]
             mean == sum \div last
  <2>6. sum \in Nat /\ sum <= last * most
    BY <2>5
  <2>7. mean <= most
    <3> HIDE DEF sum, last
    <3>1. mean \in Int /\ mean * last <= sum
      BY <2>1, <2>6
    <3> HIDE DEF mean
    <3>2. ASSUME mean >= most + 1 PROVE FALSE
      <4> DEFINE told == mean * last
                 bound == last * most
      <4>1. told >= (most + 1) * last
        BY <2>1, <3>1, <3>2
      <4>2. (most + 1) * last = bound + last
        BY <2>1
      <4>3. told \in Int /\ bound \in Int /\ told <= sum /\ sum <= bound /\ sum \in Int
        BY <2>1, <2>6, <3>1
      <4> HIDE DEF told, bound
      <4> QED
        BY <2>1, <4>1, <4>2, <4>3
    <3> QED
      BY <3>1, <3>2
  <2> QED
    BY <1>2, <2>7 DEF Jitter
<1> QED
  BY <1>1, <1>2

-----------------------------------------------------------------------------
\* The inductive invariant

\* While no clock is set, the instants of a probe lie in the order they were
\* taken once they are read on one clock.
ProbeIsOrdered ==
    LET p == probe.peer
    IN  probe.steady =>
            /\ probe.stage # "idle" => probe.t0 <= clock[Here]
            /\ probe.stage \in {"arrived", "answered"} =>
                   /\ p \notin Unreachable
                   /\ probe.t0 + Ahead(p) <= probe.t1
                   /\ probe.t1 <= clock[p]
            /\ probe.stage = "answered" => probe.t1 <= probe.t2 /\ probe.t2 <= clock[p]

\* The samples taken since a clock was set are close to how the clocks are now.
NewestAreClose ==
    \A p \in Peers \ Unreachable :
        \A i \in DOMAIN window[p] :
            i > Len(window[p]) - clean[p] => IsClose(window[p][i], Ahead(p))

WindowsFit == \A p \in Peers : Len(window[p]) <= Window /\ clean[p] <= Len(window[p])

\* Only a peer that can be reached answers, steady or not.
OnlyReached == probe.stage \in {"arrived", "answered"} => probe.peer \notin Unreachable

Inv == TypeOK /\ OnlyReached /\ ProbeIsOrdered /\ WindowsFit /\ NewestAreClose

\* The next peer is one of the peers, and nothing is under way.
LEMMA NextPeerIdle ==
    ASSUME probe.peer \in Peers
    PROVE  /\ NextPeer \in [stage : Stages, peer : Peers, t0 : Instants, t1 : Instants, t2 : Instants, steady : BOOLEAN]
           /\ NextPeer.stage = "idle"
<1>1. NPeers \in Nat /\ NPeers >= 1 /\ MaxInstant \in Nat BY ClockAssumption
<1>2. (probe.peer % NPeers) + 1 \in Peers BY <1>1 DEF Peers
<1> QED BY <1>1, <1>2 DEF NextPeer, Idle, Stages, Instants

\* The machines whose clocks matter show instants.
LEMMA ClockIsInstant ==
    ASSUME TypeOK
    PROVE  /\ clock[Here] \in Instants
           /\ \A p \in Peers \ Unreachable : clock[p] \in Instants /\ Ahead(p) \in Int
BY ClockAssumption DEF TypeOK, Machines, Ahead, Instants

\* No sample was taken and no probe is under way.
LEMMA InitInv == Init => Inv
<1> SUFFICES ASSUME Init PROVE Inv OBVIOUS
<1>1. NPeers \in Nat /\ NPeers >= 1 /\ MaxInstant \in Nat /\ Window \in Nat BY ClockAssumption
<1>2. TypeOK BY <1>1 DEF Init, TypeOK, Idle, Stages, Peers, Instants
<1>3. OnlyReached /\ ProbeIsOrdered BY DEF Init, Idle, OnlyReached, ProbeIsOrdered
<1>4. WindowsFit /\ NewestAreClose BY <1>1 DEF Init, WindowsFit, NewestAreClose
<1> QED BY <1>2, <1>3, <1>4 DEF Inv

\* A probe goes out, arrives and is answered: its instants are in order.
LEMMA ProbeSteps ==
    ASSUME Inv, Send \/ Arrive \/ Reply
    PROVE  Inv'
<1> USE DEF Inv
<1>1. /\ clock[Here] \in Instants
      /\ \A p \in Peers \ Unreachable : clock[p] \in Instants /\ Ahead(p) \in Int
  BY ClockIsInstant
<1>2. UNCHANGED <<clock, window, clean>> BY DEF Send, Arrive, Reply
<1>3. \A p : Ahead(p)' = Ahead(p) BY <1>2 DEF Ahead
<1>4. WindowsFit' /\ NewestAreClose' BY <1>2, <1>3 DEF WindowsFit, NewestAreClose
<1>5. probe.peer \in Peers BY DEF TypeOK
<1>6. CASE Send
  <2>1. TypeOK' BY <1>1, <1>2, <1>6 DEF TypeOK, Send, Stages
  <2>2. OnlyReached' BY <1>6 DEF Send, TypeOK, OnlyReached
  <2>3. ProbeIsOrdered' BY <1>1, <1>2, <1>6 DEF Send, TypeOK, ProbeIsOrdered, Instants
  <2> QED BY <1>4, <2>1, <2>2, <2>3
<1>7. CASE Arrive
  <2>1. clock[probe.peer] \in Instants BY <1>1, <1>5, <1>7 DEF Arrive
  <2>2. TypeOK' BY <1>2, <1>7, <2>1 DEF TypeOK, Arrive, Stages
  <2>3. OnlyReached' BY <1>7 DEF Arrive, TypeOK, OnlyReached
  <2>4. ProbeIsOrdered'
    <3> DEFINE p == probe.peer
    <3>1. p \in Peers \ Unreachable /\ probe.stage = "sent" BY <1>5, <1>7 DEF Arrive
    <3>2. /\ probe'.peer = p /\ probe'.t0 = probe.t0 /\ probe'.t1 = clock[p]
          /\ probe'.stage = "arrived" /\ probe'.steady = probe.steady
      BY <1>7 DEF Arrive, TypeOK
    <3>3. probe.steady => probe.t0 <= clock[Here] BY <3>1 DEF ProbeIsOrdered
    <3>4. probe.t0 \in Int /\ clock[Here] \in Int /\ clock[p] \in Int
      BY <1>1, <2>1, ClockAssumption DEF TypeOK, Instants
    <3>5. Ahead(p) = clock[p] - clock[Here] BY DEF Ahead
    <3>6. probe.steady => probe.t0 + Ahead(p) <= clock[p]
      <4> HIDE DEF p
      <4> QED BY <3>3, <3>4, <3>5
    <3> QED BY <1>2, <3>1, <3>2, <3>3, <3>4, <3>6 DEF ProbeIsOrdered, Ahead
  <2> QED BY <1>4, <2>2, <2>3, <2>4
<1>8. CASE Reply
  <2>1. clock[probe.peer] \in Instants BY <1>1, <1>5, <1>8 DEF Reply, OnlyReached
  <2>2. TypeOK' BY <1>2, <1>8, <2>1 DEF TypeOK, Reply, Stages
  <2>3. OnlyReached' BY <1>8 DEF Reply, TypeOK, OnlyReached
  <2>4. ProbeIsOrdered'
    BY <1>1, <1>2, <1>3, <1>5, <1>8, <2>1 DEF Reply, TypeOK, ProbeIsOrdered, Instants
  <2> QED BY <1>4, <2>2, <2>3, <2>4
<1> QED BY <1>6, <1>7, <1>8

\* A probe ends without a sample.
LEMMA ProbeLeft ==
    ASSUME Inv, probe' = NextPeer, UNCHANGED <<clock, window, clean>>
    PROVE  Inv'
<1> USE DEF Inv
<1>1. probe.peer \in Peers BY DEF TypeOK
<1>2. TypeOK' BY <1>1, NextPeerIdle DEF TypeOK
<1>3. OnlyReached' /\ ProbeIsOrdered' BY <1>1, NextPeerIdle DEF OnlyReached, ProbeIsOrdered
<1>4. WindowsFit' /\ NewestAreClose' BY DEF WindowsFit, NewestAreClose, Ahead
<1> QED BY <1>2, <1>3, <1>4

\* The answer comes back: a sample of a steady probe is one more close one.
LEMMA ReceiveStep == ASSUME Inv, Receive PROVE Inv'
<1> USE DEF Inv
<1> DEFINE p == probe.peer
           t3 == clock[Here]
           rtt == RoundTrip(probe.t0, probe.t1, probe.t2, t3)
           s == [offset |-> Offset(probe.t0, probe.t1, probe.t2, t3), rtt |-> rtt]
           accepted == Plausible(probe.t0, probe.t1, probe.t2, t3) /\ rtt <= MaxRtt
           w == window[p]
           r == Recorded(w, s)
<1>1. /\ p \in Peers \ Unreachable /\ t3 \in Instants /\ Ahead(p) \in Int
      /\ probe.t0 \in Instants /\ probe.t1 \in Instants /\ probe.t2 \in Instants
      /\ w \in Seq(Samples) /\ clean[p] \in 0..Window /\ Len(w) <= Window /\ clean[p] <= Len(w)
  BY ClockIsInstant DEF Receive, TypeOK, OnlyReached, WindowsFit
<1>2. CASE ~accepted
  BY <1>2, ProbeLeft DEF Receive
<1>3. CASE accepted
  <2>1. /\ window' = [window EXCEPT ![p] = r]
        /\ clean' = [clean EXCEPT ![p] = IF probe.steady THEN AtMost(clean[p] + 1, Window) ELSE 0]
        /\ probe' = NextPeer /\ UNCHANGED clock
    BY <1>3 DEF Receive
  <2>2. s \in Samples
    <3>1. MaxRtt \in Nat /\ MaxInstant \in Nat BY ClockAssumption
    <3>2. rtt \in 0..MaxRtt BY <1>1, <1>3, <3>1 DEF Plausible, RoundTrip, Instants
    <3>3. Offset(probe.t0, probe.t1, probe.t2, t3) \in Int
      <4> DEFINE n == (probe.t1 - probe.t0) + (probe.t2 - t3)
      <4>1. n \in Int BY <1>1, <3>1 DEF Instants
      <4>2. HalfTowardsZero(n) \in Int BY <4>1, Halves
      <4>3. I64Limit \in Nat /\ I64Limit > 0 BY <3>1, ClockAssumption
      <4> QED BY <4>2, <4>3 DEF Offset, AsI64
    <3> QED BY <3>2, <3>3 DEF Samples
  <2>3. /\ r \in Seq(Samples) /\ Len(r) \in 1..Window
        /\ Len(r) <= Len(w) + 1 /\ Len(w) <= Len(r)
        /\ r[Len(r)] = s
        /\ Len(w) < Window => Len(r) = Len(w) + 1
        /\ \A i \in 1..(Len(r) - 1) : r[i] = w[i + Len(w) + 1 - Len(r)]
    <3> HIDE DEF w, s
    <3> QED BY <1>1, <2>2, RecordedWindow
  <2>4. Window \in Nat /\ Window >= 1 BY ClockAssumption
  <2>5. clean'[p] = (IF probe.steady THEN AtMost(clean[p] + 1, Window) ELSE 0)
    BY <1>1, <2>1 DEF TypeOK
  <2>6. clean'[p] \in 0..Window /\ clean'[p] <= Len(r)
    <3> HIDE DEF r, w
    <3> QED BY <1>1, <2>3, <2>4, <2>5 DEF AtMost
  <2>7. window'[p] = r BY <1>1, <2>1 DEF TypeOK
  <2>8. \A q \in Peers : q # p => window'[q] = window[q] /\ clean'[q] = clean[q]
    BY <2>1 DEF TypeOK
  <2>9. TypeOK'
    <3>1. window' \in [Peers -> Seq(Samples)] BY <1>1, <2>1, <2>3 DEF TypeOK
    <3>2. clean' \in [Peers -> 0..Window] BY <1>1, <2>1, <2>5, <2>6 DEF TypeOK
    <3> QED BY <1>1, <2>1, <3>1, <3>2, NextPeerIdle DEF TypeOK
  <2>10. OnlyReached' /\ ProbeIsOrdered'
    BY <1>1, <2>1, NextPeerIdle DEF OnlyReached, ProbeIsOrdered
  <2>11. WindowsFit'
    <3>1. ASSUME NEW q \in Peers PROVE Len(window'[q]) <= Window /\ clean'[q] <= Len(window'[q])
      <4>1. CASE q = p BY <2>3, <2>4, <2>6, <2>7, <4>1
      <4>2. CASE q # p BY <2>8, <4>2 DEF WindowsFit
      <4> QED BY <4>1, <4>2
    <3> QED BY <3>1 DEF WindowsFit
  <2>12. \A q : Ahead(q)' = Ahead(q) BY <2>1 DEF Ahead
  <2>13. ASSUME probe.steady PROVE IsClose(s, Ahead(p))
    <3>1. /\ probe.t0 + Ahead(p) <= probe.t1 /\ probe.t1 <= probe.t2 /\ probe.t2 <= clock[p]
      BY <2>13 DEF Receive, ProbeIsOrdered
    <3>2. clock[p] = t3 + Ahead(p)
      <4>1. clock[p] \in Int /\ t3 \in Int
        BY <1>1, ClockIsInstant, ClockAssumption DEF Instants
      <4>2. Ahead(p) = clock[p] - t3
        BY DEF Ahead
      <4> HIDE DEF p, t3
      <4> QED BY <4>1, <4>2
    <3> QED BY <1>1, <3>1, <3>2, SteadySampleIsClose
  <2>14. ASSUME NEW i \in DOMAIN r, i > Len(r) - clean'[p]
         PROVE  IsClose(r[i], Ahead(p))
    <3>1. i \in 1..Len(r) BY <2>3
    <3>2. probe.steady /\ clean'[p] <= clean[p] + 1
      <4>1. clean'[p] > 0 BY <2>3, <2>6, <2>14, <3>1
      <4>2. probe.steady BY <2>5, <4>1
      <4> QED BY <1>1, <2>4, <2>5, <4>2 DEF AtMost
    <3>3. CASE i = Len(r) BY <2>3, <2>13, <3>2, <3>3
    <3>4. CASE i # Len(r)
      <4> DEFINE j == i + Len(w) + 1 - Len(r)
      <4>1. i \in 1..(Len(r) - 1) BY <2>3, <3>1, <3>4
      <4>2. r[i] = w[j] BY <2>3, <4>1
      <4>3. j \in DOMAIN w /\ j > Len(w) - clean[p]
        <5>1. DOMAIN w = 1..Len(w) /\ Len(w) \in Nat BY <1>1
        <5>2. Len(r) \in 1..Window /\ Len(r) <= Len(w) + 1 BY <2>3
        <5>3. clean[p] \in Nat /\ clean'[p] \in Nat BY <1>1, <2>4, <2>6
        <5>4. i > Len(r) - clean'[p] BY <2>14
        <5>5. clean'[p] <= clean[p] + 1 BY <3>2
        <5> HIDE DEF r, w, p
        <5>6. j \in Int /\ 1 <= j /\ j <= Len(w) BY <2>4, <4>1, <5>1, <5>2
        <5>7. j > Len(w) - clean[p]
          <6> DEFINE lw == Len(w)
                     lr == Len(r)
                     few == clean[p]
                     more == clean'[p]
          <6>1. lw \in Int /\ lr \in Int /\ few \in Int /\ more \in Int /\ i \in Int
            BY <2>4, <4>1, <5>1, <5>2, <5>3
          <6>2. i > lr - more /\ more <= few + 1 /\ j = i + lw + 1 - lr
            BY <5>4, <5>5
          <6> HIDE DEF lw, lr, few, more, j
          <6>3. j > lw - few BY <6>1, <6>2
          <6> QED BY <6>3 DEF lw, few
        <5> QED BY <5>1, <5>6, <5>7
      <4> QED BY <1>1, <4>2, <4>3 DEF NewestAreClose
    <3> QED BY <3>3, <3>4
  <2>15. NewestAreClose'
    <3>1. ASSUME NEW q \in Peers \ Unreachable, NEW i \in DOMAIN window'[q],
                 i > Len(window'[q]) - clean'[q]
          PROVE  IsClose(window'[q][i], Ahead(q)')
      <4>1. CASE q = p BY <2>7, <2>12, <2>14, <3>1, <4>1
      <4>2. CASE q # p BY <2>8, <2>12, <3>1, <4>2 DEF NewestAreClose
      <4> QED BY <4>1, <4>2
    <3> QED BY <3>1 DEF NewestAreClose, IsClose
  <2> QED BY <2>9, <2>10, <2>11, <2>15
<1> QED BY <1>2, <1>3

\* A clock that is set makes the samples taken before count no more.
LEMMA SetClockStep == ASSUME Inv, NEW m \in Machines, SetClock(m) PROVE Inv'
<1> USE DEF Inv
<1>1. Window \in Nat BY ClockAssumption
<1>2. TypeOK'
  <2>1. clock' \in [Machines -> Instants] BY DEF SetClock, TypeOK
  <2>2. probe' \in [stage : Stages, peer : Peers, t0 : Instants, t1 : Instants, t2 : Instants, steady : BOOLEAN]
    BY DEF SetClock, TypeOK
  <2>3. clean' \in [Peers -> 0..Window] BY <1>1 DEF SetClock, TypeOK
  <2> QED BY <2>1, <2>2, <2>3 DEF SetClock, TypeOK
<1>3. /\ probe'.stage = probe.stage /\ probe'.peer = probe.peer
      /\ probe'.t0 = probe.t0 /\ probe'.t1 = probe.t1 /\ probe'.t2 = probe.t2
      /\ probe'.steady = (probe.stage = "idle" \/ (probe.steady /\ m \notin {Here, probe.peer}))
  BY DEF SetClock, TypeOK
<1>4. \A q \in Machines : q # m => clock'[q] = clock[q] BY DEF SetClock, TypeOK
<1>5. OnlyReached' BY <1>3 DEF OnlyReached
<1>6. ProbeIsOrdered'
  <2> SUFFICES ASSUME probe'.steady, probe.stage # "idle" PROVE ProbeIsOrdered'
    BY <1>3 DEF ProbeIsOrdered
  <2>1. probe.steady /\ m \notin {Here, probe.peer} BY <1>3
  <2>2. clock'[Here] = clock[Here] BY <1>4, <2>1 DEF Machines
  <2>3. probe.peer \notin Unreachable => clock'[probe.peer] = clock[probe.peer]
    BY <1>4, <2>1 DEF Machines, TypeOK
  <2> QED BY <1>3, <2>1, <2>2, <2>3 DEF ProbeIsOrdered, Ahead
<1>7. WindowsFit'
  <2>1. \A q \in Peers : window'[q] = window[q] /\ clean'[q] \in {0, clean[q]} BY DEF SetClock
  <2>2. \A q \in Peers : Len(window[q]) \in Nat BY DEF TypeOK
  <2> QED BY <2>1, <2>2 DEF WindowsFit
<1>8. NewestAreClose'
  <2>1. ASSUME NEW q \in Peers \ Unreachable, NEW i \in DOMAIN window'[q],
               i > Len(window'[q]) - clean'[q]
        PROVE  IsClose(window'[q][i], Ahead(q)')
    <3>1. window'[q] = window[q] /\ window[q] \in Seq(Samples) BY DEF SetClock, TypeOK
    <3>2. i \in 1..Len(window[q]) BY <3>1
    <3>3. m \notin {Here, q} /\ clean'[q] = clean[q]
      <4>1. clean'[q] # 0 BY <2>1, <3>1, <3>2
      <4> QED BY <4>1 DEF SetClock
    <3>4. Ahead(q)' = Ahead(q) BY <1>4, <3>3 DEF Ahead, Machines
    <3> QED BY <2>1, <3>1, <3>3, <3>4 DEF NewestAreClose
  <2> QED BY <2>1 DEF NewestAreClose, IsClose
<1> QED BY <1>2, <1>5, <1>6, <1>7, <1>8

\* Time moves all clocks alike.
LEMMA PassStep == ASSUME Inv, Pass PROVE Inv'
<1> USE DEF Inv
<1>1. UNCHANGED <<probe, window, clean>> BY DEF Pass
<1>2. \A q \in Machines : clock[q] \in Instants /\ clock[q] < MaxInstant /\ clock'[q] = clock[q] + 1
  BY DEF Pass, TypeOK
<1>3. MaxInstant \in Nat BY ClockAssumption
<1>4. TypeOK'
  <2>1. clock' \in [Machines -> Instants] BY <1>2, <1>3 DEF Pass, Instants
  <2> QED BY <1>1, <2>1 DEF TypeOK
<1>5. \A q \in Peers \ Unreachable : Ahead(q)' = Ahead(q)
  BY <1>2, <1>3 DEF Ahead, Machines, Instants
<1>6. OnlyReached' /\ WindowsFit' BY <1>1 DEF OnlyReached, WindowsFit
<1>7. ProbeIsOrdered'
  <2>1. /\ probe.peer \in Peers /\ probe.t0 \in Instants /\ probe.t1 \in Instants /\ probe.t2 \in Instants
    BY DEF TypeOK
  <2>2. Here \in Machines /\ (probe.peer \notin Unreachable => probe.peer \in Machines)
    BY <2>1 DEF Machines
  <2>3. probe.steady /\ probe.stage # "idle" => probe.t0 <= clock'[Here]
    BY <1>2, <1>3, <2>1, <2>2 DEF ProbeIsOrdered, Instants
  <2>4. probe.peer \notin Unreachable => clock[probe.peer] \in Instants /\ clock'[probe.peer] = clock[probe.peer] + 1
    BY <1>2, <2>2
  <2>5. ASSUME probe.steady, probe.stage \in {"arrived", "answered"}
        PROVE  /\ probe.peer \notin Unreachable
               /\ probe.t0 + Ahead(probe.peer)' <= probe.t1
               /\ probe.t1 <= clock'[probe.peer]
               /\ probe.stage = "answered" => probe.t1 <= probe.t2 /\ probe.t2 <= clock'[probe.peer]
    <3>1. probe.peer \in Peers \ Unreachable BY <2>1, <2>5 DEF ProbeIsOrdered
    <3>2. Ahead(probe.peer)' = Ahead(probe.peer) /\ Ahead(probe.peer) \in Int
      BY <1>1, <1>2, <1>3, <2>2, <2>4, <3>1 DEF Ahead, Instants
    <3>3. clock'[probe.peer] = clock[probe.peer] + 1 /\ clock[probe.peer] \in Int
      BY <1>3, <2>4, <3>1 DEF Instants
    <3>4. probe.t1 \in Int /\ probe.t2 \in Int BY <1>3, <2>1 DEF Instants
    <3> QED BY <2>5, <3>1, <3>2, <3>3, <3>4 DEF ProbeIsOrdered
  <2> QED BY <1>1, <2>3, <2>5 DEF ProbeIsOrdered, Ahead
<1>8. NewestAreClose' BY <1>1, <1>5 DEF NewestAreClose
<1> QED BY <1>4, <1>6, <1>7, <1>8

\* Every step keeps the invariant.
LEMMA NextInv == Inv /\ [Next]_vars => Inv'
<1> SUFFICES ASSUME Inv, [Next]_vars PROVE Inv' OBVIOUS
<1>1. CASE Send \/ Arrive \/ Reply BY <1>1, ProbeSteps
<1>2. CASE Receive BY <1>2, ReceiveStep
<1>3. CASE Fail BY <1>3, ProbeLeft DEF Fail
<1>4. CASE Pass BY <1>4, PassStep
<1>5. ASSUME NEW m \in Machines, SetClock(m) PROVE Inv' BY <1>5, SetClockStep
<1>6. CASE UNCHANGED vars
  BY <1>6 DEF vars, Inv, TypeOK, OnlyReached, ProbeIsOrdered, WindowsFit, NewestAreClose, Ahead
<1> QED BY <1>1, <1>2, <1>3, <1>4, <1>5, <1>6 DEF Next, Probing

-----------------------------------------------------------------------------

\* The inductive invariant holds of every run of the clock thread.
THEOREM Invariance == Spec => []Inv
BY InitInv, NextInv, PTL DEF Spec

\* The windows, samples and instants of clocksync.rs keep their types.
THEOREM TypeCorrect == Spec => []TypeOK
<1>1. Inv => TypeOK BY DEF Inv
<1> QED BY <1>1, Invariance, PTL

\* The offset told of a peer is off by at most half the smallest round trip
\* of the window once as many probes were accepted since a clock was set as
\* the window holds, for any delays, any window and any number of peers.
THEOREM Accuracy == Spec => []EstimateIsClose
<1>1. ASSUME Inv PROVE EstimateIsClose
  <2>1. ASSUME NEW p \in Peers \ Unreachable, Settled(p),
               NEW i \in DOMAIN window[p], IsBest(window[p], i), NEW j \in DOMAIN window[p]
        PROVE  Abs(2 * (window[p][i].offset - Ahead(p))) <= window[p][j].rtt + 1
    <3>1. window[p] \in Seq(Samples) /\ Len(window[p]) <= Window /\ clean[p] <= Len(window[p])
      BY <1>1 DEF Inv, TypeOK, WindowsFit
    <3>2. clean[p] = Len(window[p]) BY <1>1, <2>1, <3>1, ClockAssumption DEF Settled, Inv, TypeOK
    <3>3. i \in 1..Len(window[p]) /\ window[p][i] \in Samples /\ window[p][j] \in Samples BY <3>1
    <3>4. IsClose(window[p][i], Ahead(p)) BY <1>1, <3>2, <3>3 DEF Inv, NewestAreClose
    <3>5. window[p][i].rtt <= window[p][j].rtt BY <2>1 DEF IsBest
    <3>6. Ahead(p) \in Int BY <1>1, ClockIsInstant DEF Inv
    <3> DEFINE a == Abs(2 * (window[p][i].offset - Ahead(p)))
    <3>7. a \in Int
      <4> DEFINE error == 2 * (window[p][i].offset - Ahead(p))
      <4>1. error \in Int BY <3>3, <3>6 DEF Samples
      <4> HIDE DEF error
      <4>2. Abs(error) \in Int BY <4>1 DEF Abs
      <4> QED BY <4>2 DEF error
    <3>8. a <= window[p][i].rtt + 1 BY <3>4 DEF IsClose
    <3>9. window[p][i].rtt \in Int /\ window[p][j].rtt \in Int BY <3>3, ClockAssumption DEF Samples
    <3> HIDE DEF a
    <3>10. a <= window[p][j].rtt + 1 BY <3>5, <3>7, <3>8, <3>9
    <3> QED BY <3>10 DEF a
  <2> QED BY <2>1 DEF EstimateIsClose
<1> QED BY <1>1, Invariance, PTL

\* The jitter told of a peer never exceeds the largest round trip of the
\* window (and one), however far apart the two clocks are, for any delays, any
\* window and any number of peers.
THEOREM Jittery == Spec => []JitterIsOfTheNetwork
<1>1. ASSUME Inv PROVE JitterIsOfTheNetwork
  <2>1. ASSUME NEW p \in Peers \ Unreachable, Settled(p), NEW i \in DOMAIN window[p],
               \A j \in DOMAIN window[p] : window[p][j].rtt <= window[p][i].rtt
        PROVE  Jitter(window[p]) <= window[p][i].rtt + 1
    <3> DEFINE w == window[p]
               most == w[i].rtt + 1
    <3>1. w \in Seq(Samples) /\ Len(w) <= Window /\ clean[p] <= Len(w)
      BY <1>1 DEF Inv, TypeOK, WindowsFit
    <3>2. clean[p] = Len(w)
      BY <1>1, <2>1, <3>1, ClockAssumption DEF Settled, Inv, TypeOK
    <3>3. Ahead(p) \in Int
      BY <1>1, ClockIsInstant DEF Inv
    <3>4. ASSUME NEW j \in 1 .. Len(w)
          PROVE  w[j] \in Samples /\ IsClose(w[j], Ahead(p)) /\ w[j].rtt + 1 <= most
      <4>1. j \in DOMAIN w /\ w[j] \in Samples /\ w[i] \in Samples /\ j > Len(w) - clean[p]
        BY <3>1, <3>2
      <4>2. IsClose(w[j], Ahead(p))
        BY <1>1, <4>1 DEF Inv, NewestAreClose
      <4>3. w[j].rtt <= w[i].rtt
        BY <2>1, <4>1
      <4>4. w[j].rtt \in Int /\ w[i].rtt \in Int
        BY <4>1, ClockAssumption DEF Samples
      <4> HIDE DEF w
      <4> QED
        BY <4>1, <4>2, <4>3, <4>4
    <3>5. most \in Nat
      <4>1. w[i] \in Samples
        BY <3>1
      <4> QED
        BY <4>1, ClockAssumption DEF Samples
    <3>6. ASSUME NEW n \in 1 .. Len(w) - 1 PROVE Jump(w, n) \in 0 .. most
      <4> DEFINE a == w[n].offset
                 b == w[n + 1].offset
                 ra == w[n].rtt
                 rb == w[n + 1].rtt
                 ahead == Ahead(p)
      <4>1. n \in 1 .. Len(w) /\ n + 1 \in 1 .. Len(w)
        BY <3>1
      <4>2. /\ Abs(2 * (a - ahead)) <= ra + 1 /\ ra + 1 <= most
            /\ Abs(2 * (b - ahead)) <= rb + 1 /\ rb + 1 <= most
        BY <3>4, <4>1 DEF IsClose
      <4>3. a \in Int /\ b \in Int /\ ra \in Int /\ rb \in Int
        <5>1. w[n] \in Samples /\ w[n + 1] \in Samples
          BY <3>4, <4>1
        <5> QED
          BY <5>1, ClockAssumption DEF Samples
      <4>4. ahead \in Int
        BY <3>3
      <4>5. Jump(w, n) = Abs(a - b)
        BY DEF Jump
      <4> HIDE DEF a, b, ra, rb, ahead, most
      <4>6. Abs(a - b) \in 0 .. most
        BY <3>5, <4>2, <4>3, <4>4 DEF Abs
      <4> QED
        BY <4>5, <4>6
    <3>7. Jitter(w) <= most
      <4> HIDE DEF w, most
      <4> QED
        BY <3>1, <3>5, <3>6, MeanOfJumps
    <3> QED
      BY <3>7
  <2> QED
    BY <2>1 DEF JitterIsOfTheNetwork
<1> QED
  BY <1>1, Invariance, PTL

-----------------------------------------------------------------------------
(* Finding a pattern. *)

\* The first bytes of others.
Begins(bytes, all) ==
    Len(bytes) <= Len(all) /\ \A i \in 1 .. Len(bytes) : bytes[i] = all[i]

\* A place that was found is the first, and none is found where there is none.
LEMMA FindFirst ==
    ASSUME NEW bytes \in Seq(Bytes), NEW pattern \in Seq(Bytes), NEW i \in Nat \ {0}
    PROVE  \/ /\ Find(bytes, pattern, i) = 0
              /\ \A j \in i .. Len(bytes) : ~Stands(pattern, bytes, j)
           \/ /\ Find(bytes, pattern, i) \in i .. Len(bytes)
              /\ Stands(pattern, bytes, Find(bytes, pattern, i))
              /\ \A j \in i .. Find(bytes, pattern, i) - 1 : ~Stands(pattern, bytes, j)
<1> DEFINE places == {j \in i .. Len(bytes) : Stands(pattern, bytes, j)}
<1>1. Find(bytes, pattern, i) = IF places = {} THEN 0 ELSE Min(places)
  BY DEF Find
<1>2. CASE places = {}
  BY <1>1, <1>2
<1>3. CASE places # {}
  <2>1. Len(bytes) \in Nat /\ places \subseteq Nat
    OBVIOUS
  <2>2. \E n \in places : \A j \in places : n <= j
    <3> HIDE DEF places
    <3> QED BY <1>3, <2>1, LeastNatural
  <2>3. Min(places) \in places /\ \A j \in places : Min(places) <= j
    <3> HIDE DEF places
    <3> QED BY <2>2 DEF Min
  <2> DEFINE f == Find(bytes, pattern, i)
  <2>4. f \in places /\ \A j \in places : f <= j
    <3> HIDE DEF places
    <3> QED BY <1>1, <1>3, <2>3
  <2>5. f \in i .. Len(bytes) /\ Stands(pattern, bytes, f)
    BY <2>4
  <2>6. ASSUME NEW j \in i .. f - 1 PROVE ~Stands(pattern, bytes, j)
    <3>1. j \in i .. Len(bytes) /\ ~(f <= j)
      <4> HIDE DEF f
      <4> QED BY <2>1, <2>5
    <3>2. j \notin places
      <4> HIDE DEF f, places
      <4> QED BY <2>4, <3>1
    <3>3. QED
      BY <3>1, <3>2
  <2>7. QED
    BY <2>5, <2>6
<1>4. QED
  BY <1>2, <1>3

\* What stands at a place and at none before is found there.
LEMMA FindIs ==
    ASSUME NEW bytes \in Seq(Bytes), NEW pattern \in Seq(Bytes), NEW i \in Nat \ {0},
           NEW f \in i .. Len(bytes), Stands(pattern, bytes, f),
           \A j \in i .. f - 1 : ~Stands(pattern, bytes, j)
    PROVE  Find(bytes, pattern, i) = f
<1> DEFINE g == Find(bytes, pattern, i)
<1>1. \/ g = 0 /\ \A j \in i .. Len(bytes) : ~Stands(pattern, bytes, j)
      \/ /\ g \in i .. Len(bytes) /\ Stands(pattern, bytes, g)
         /\ \A j \in i .. g - 1 : ~Stands(pattern, bytes, j)
  BY FindFirst
<1> HIDE DEF g
<1>2. g \in i .. Len(bytes) /\ ~(g < f) /\ ~(f < g)
  BY <1>1
<1>3. g = f
  BY <1>2
<1>4. QED
  BY <1>3 DEF g

\* A pattern stands in the first bytes of others where it stands in these and
\* ends soon enough.
LEMMA StandsInPrefix ==
    ASSUME NEW bytes \in Seq(Bytes), NEW all \in Seq(Bytes), Begins(bytes, all),
           NEW pattern \in Seq(Bytes), NEW j \in Nat \ {0}
    PROVE  Stands(pattern, bytes, j)
               <=> j + Len(pattern) <= Len(bytes) + 1 /\ Stands(pattern, all, j)
<1>1. Len(pattern) \in Nat /\ Len(bytes) \in Nat /\ Len(all) \in Nat
  OBVIOUS
<1>2. CASE j + Len(pattern) <= Len(bytes) + 1
  <2>1. j + Len(pattern) <= Len(all) + 1
    BY <1>1, <1>2 DEF Begins
  <2>2. \A n \in 1 .. Len(pattern) : j + n - 1 \in 1 .. Len(bytes)
    BY <1>1, <1>2
  <2>3. \A n \in 1 .. Len(pattern) : bytes[j + n - 1] = all[j + n - 1]
    BY <2>2 DEF Begins
  <2>4. QED
    BY <1>2, <2>1, <2>3 DEF Stands
<1>3. CASE ~(j + Len(pattern) <= Len(bytes) + 1)
  BY <1>3 DEF Stands
<1>4. QED
  BY <1>2, <1>3

\* A pattern is found in the first bytes of others where it is found in these,
\* if it ends soon enough, and else not at all.
LEMMA FindInPrefix ==
    ASSUME NEW bytes \in Seq(Bytes), NEW all \in Seq(Bytes), Begins(bytes, all),
           NEW pattern \in Seq(Bytes), pattern # << >>, NEW i \in Nat \ {0}
    PROVE  Find(bytes, pattern, i) =
               IF Find(all, pattern, i) # 0
                  /\ Find(all, pattern, i) + Len(pattern) <= Len(bytes) + 1
               THEN Find(all, pattern, i) ELSE 0
<1> DEFINE f == Find(all, pattern, i)
           g == Find(bytes, pattern, i)
<1>1. /\ Len(pattern) \in Nat \ {0} /\ Len(bytes) \in Nat /\ Len(all) \in Nat
      /\ Len(bytes) <= Len(all)
  BY EmptySeq DEF Begins
<1>2. \/ f = 0 /\ \A j \in i .. Len(all) : ~Stands(pattern, all, j)
      \/ /\ f \in i .. Len(all) /\ Stands(pattern, all, f)
         /\ \A j \in i .. f - 1 : ~Stands(pattern, all, j)
  BY FindFirst
<1>3. \/ g = 0 /\ \A j \in i .. Len(bytes) : ~Stands(pattern, bytes, j)
      \/ /\ g \in i .. Len(bytes) /\ Stands(pattern, bytes, g)
         /\ \A j \in i .. g - 1 : ~Stands(pattern, bytes, j)
  BY FindFirst
<1>4. \A j \in Nat \ {0} : Stands(pattern, bytes, j)
               <=> j + Len(pattern) <= Len(bytes) + 1 /\ Stands(pattern, all, j)
  BY StandsInPrefix
<1> HIDE DEF f, g
<1>5. CASE f # 0 /\ f + Len(pattern) <= Len(bytes) + 1
  <2>1. /\ f \in Nat \ {0} /\ f \in i .. Len(all) /\ Stands(pattern, all, f)
        /\ \A j \in i .. f - 1 : ~Stands(pattern, all, j)
    BY <1>1, <1>2, <1>5
  <2>2. f \in i .. Len(bytes)
    BY <1>1, <1>5, <2>1
  <2>3. Stands(pattern, bytes, f)
    BY <1>4, <1>5, <2>1
  <2>4. \A j \in i .. f - 1 : j \in Nat \ {0}
    BY <2>1
  <2>5. \A j \in i .. f - 1 : ~Stands(pattern, bytes, j)
    BY <1>4, <2>1, <2>4
  <2>6. g = f
    BY <2>2, <2>3, <2>5, FindIs DEF g
  <2>7. QED
    BY <1>5, <2>6 DEF f, g
<1>6. CASE ~(f # 0 /\ f + Len(pattern) <= Len(bytes) + 1)
  <2>1. ASSUME g # 0 PROVE FALSE
    <3>1. g \in i .. Len(bytes) /\ g \in Nat \ {0} /\ Stands(pattern, bytes, g)
      BY <1>1, <1>3, <2>1
    <3>2. g + Len(pattern) <= Len(bytes) + 1 /\ Stands(pattern, all, g)
      BY <1>4, <3>1
    <3>3. g \in i .. Len(all)
      BY <1>1, <3>1
    <3>4. f \in i .. Len(all) /\ f # 0 /\ f <= g
      BY <1>1, <1>2, <3>1, <3>2, <3>3
    <3>5. f + Len(pattern) <= Len(bytes) + 1
      BY <1>1, <3>1, <3>2, <3>4
    <3>6. QED
      BY <1>6, <3>4, <3>5
  <2>2. QED
    BY <1>6, <2>1 DEF f, g
<1>7. QED
  BY <1>5, <1>6

\* The bytes of a line end, and of an empty line.
LEMMA LineEndBytes ==
    /\ LineEnd \in Seq(Bytes) /\ Len(LineEnd) = 2
    /\ LineEnd[1] = Byte("cr", 0) /\ LineEnd[2] = Byte("lf", 0)
    /\ EmptyLine \in Seq(Bytes) /\ Len(EmptyLine) = 4 /\ EmptyLine # << >>
<1>1. Byte("cr", 0) \in Bytes /\ Byte("lf", 0) \in Bytes
  BY HttpAssumption DEF Byte, Bytes
<1>2. /\ LineEnd \in Seq(Bytes) /\ Len(LineEnd) = 2
      /\ LineEnd[1] = Byte("cr", 0) /\ LineEnd[2] = Byte("lf", 0)
  BY <1>1 DEF LineEnd
<1>3. EmptyLine \in Seq(Bytes) /\ Len(EmptyLine) = Len(LineEnd) + Len(LineEnd)
  <2>1. EmptyLine = LineEnd \o LineEnd
    BY DEF EmptyLine
  <2>2. \A s \in Seq(Bytes) : s \o s \in Seq(Bytes) /\ Len(s \o s) = Len(s) + Len(s)
    BY ConcatProperties
  <2>3. QED
    BY <1>2, <2>1, <2>2, Zenon
<1>4. QED
  BY <1>2, <1>3

-----------------------------------------------------------------------------
(* Decoding chunks. *)

\* What the text at place j is, once those at later places are known.
DecodesAt(bytes, j, later) ==
    LET start == j + 3
        size == bytes[j].n
        rest == later[start + size + 2]
    IN  IF Find(bytes, LineEnd, j) # j + 1 \/ bytes[j].is # "size" THEN NoChunk
        ELSE IF size = 0 THEN Response(0, << >>)
        ELSE IF Len(bytes) - start + 1 < size + 2 THEN Error
        ELSE IF rest.ok THEN Response(0, SubSeq(bytes, start, start + size - 1) \o rest.body)
        ELSE Error

\* It depends on later places only.
LEMMA DecodesAtLater ==
    ASSUME NEW bytes \in Seq(Bytes), NEW j \in 1 .. Len(bytes) + 1, NEW f, NEW g,
           \A i \in j + 1 .. Len(bytes) + 1 : f[i] = g[i]
    PROVE  DecodesAt(bytes, j, f) = DecodesAt(bytes, j, g)
<1> DEFINE start == j + 3
           size == bytes[j].n
           next == start + size + 2
<1>1. CASE Find(bytes, LineEnd, j) # j + 1 \/ bytes[j].is # "size"
  BY <1>1, Zenon DEF DecodesAt
<1>2. CASE Find(bytes, LineEnd, j) = j + 1 /\ bytes[j].is = "size"
  <2>1. Len(bytes) \in Nat /\ j \in Nat \ {0}
    OBVIOUS
  <2>2. j + 1 \in j .. Len(bytes)
    BY <1>2, <2>1, FindFirst, LineEndBytes
  <2>3. bytes[j] \in Bytes
    BY <2>1, <2>2
  <2>4. size \in Nat
    BY <2>3 DEF Bytes
  <2>5. CASE Len(bytes) - start + 1 < size + 2
    BY <1>2, <2>5, Zenon DEF DecodesAt
  <2>6. CASE ~(Len(bytes) - start + 1 < size + 2)
    <3>1. next \in j + 1 .. Len(bytes) + 1
      <4> HIDE DEF size
      <4> QED BY <2>1, <2>4, <2>6
    <3>2. f[next] = g[next]
      <4> HIDE DEF next
      <4> QED BY <3>1
    <3>3. QED
      BY <3>2, Zenon DEF DecodesAt
  <2>7. QED
    BY <2>5, <2>6
<1>3. QED
  BY <1>1, <1>2

\* The recursion ends: every place has its text.
LEMMA DecodesIsDefined ==
    ASSUME NEW bytes \in Seq(Bytes)
    PROVE  \A j \in 1 .. Len(bytes) + 1 : Decodes(bytes)[j] = DecodesAt(bytes, j, Decodes(bytes))
<1> DEFINE last == Len(bytes) + 1
           IsUpto(f, m) == \A j \in last + 1 - m .. last : f[j] = DecodesAt(bytes, j, f)
           Done == {m \in 0 .. last : \E f : IsUpto(f, m)}
           IsDecode(f) == f = [j \in 1 .. Len(bytes) + 1 |-> DecodesAt(bytes, j, f)]
<1>1. last \in Nat /\ last = Len(bytes) + 1
  OBVIOUS
<1>2. 0 \in Done
  <2> HIDE DEF last
  <2>1. \A f : IsUpto(f, 0)
    BY <1>1
  <2> HIDE DEF IsUpto
  <2>2. QED
    BY <1>1, <2>1
<1>3. ASSUME NEW m \in 1 .. last, m - 1 \in Done PROVE m \in Done
  <2> HIDE DEF last
  <2> DEFINE first == last + 1 - m
  <2>1. PICK f : IsUpto(f, m - 1)
    BY <1>3
  <2> DEFINE g == [j \in first .. last |-> IF j = first THEN DecodesAt(bytes, first, f) ELSE f[j]]
  <2>2. first \in 1 .. last /\ last + 1 - (m - 1) = first + 1
    BY <1>1
  <2>3. \A j \in first + 1 .. last : f[j] = DecodesAt(bytes, j, f) /\ j \in 1 .. last
    BY <1>1, <2>1, <2>2
  <2> HIDE DEF first
  <2>4. \A j \in first + 1 .. last : j # first /\ j \in first .. last
    BY <1>1, <2>2
  <2>5. /\ \A j \in first + 1 .. last : g[j] = f[j]
        /\ g[first] = DecodesAt(bytes, first, f)
    <3>1. first \in first .. last
      BY <1>1, <2>2
    <3>2. QED
      BY <2>4, <3>1, Zenon
  <2> HIDE DEF g, IsUpto
  <2>6. ASSUME NEW j \in first .. last PROVE g[j] = DecodesAt(bytes, j, g)
    <3>1. j \in 1 .. Len(bytes) + 1
      BY <1>1, <2>2
    <3>2. \A i \in j + 1 .. Len(bytes) + 1 : i \in first + 1 .. last
      BY <1>1, <2>2
    <3>3. \A i \in j + 1 .. Len(bytes) + 1 : f[i] = g[i]
      BY <2>5, <3>2, Zenon
    <3>4. DecodesAt(bytes, j, f) = DecodesAt(bytes, j, g)
      BY <3>1, <3>3, DecodesAtLater
    <3>5. CASE j = first
      BY <2>5, <3>4, <3>5
    <3>6. CASE j # first
      <4>1. j \in first + 1 .. last
        BY <1>1, <2>2, <3>6
      <4>2. QED
        BY <2>3, <2>5, <3>4, <4>1
    <3>7. QED
      BY <3>5, <3>6
  <2>7. IsUpto(g, m)
    BY <2>6 DEF IsUpto, first
  <2>8. QED
    BY <2>7
<1>4. last \in Done
  <2> HIDE DEF Done, last
  <2>1. \A i \in 0 .. last : i \in Done
    <3>1. last \in Nat /\ 0 \in Done /\ \A i \in 1 .. last : i - 1 \in Done => i \in Done
      BY <1>1, <1>2, <1>3
    <3>2. QED
      BY <3>1, Induction
  <2>2. QED
    BY <1>1, <2>1
<1>5. PICK f : IsUpto(f, last)
  BY <1>4
<1>6. \A j \in 1 .. Len(bytes) + 1 : f[j] = DecodesAt(bytes, j, f)
  <2> HIDE DEF last
  <2> QED BY <1>1, <1>5
<1> DEFINE h == [j \in 1 .. Len(bytes) + 1 |-> f[j]]
<1>7. \A j \in 1 .. Len(bytes) + 1 : DecodesAt(bytes, j, f) = DecodesAt(bytes, j, h)
  <2> SUFFICES ASSUME NEW j \in 1 .. Len(bytes) + 1
               PROVE  DecodesAt(bytes, j, f) = DecodesAt(bytes, j, h)
    OBVIOUS
  <2>1. \A i \in j + 1 .. Len(bytes) + 1 : i \in 1 .. Len(bytes) + 1
    OBVIOUS
  <2>2. \A i \in j + 1 .. Len(bytes) + 1 : f[i] = h[i]
    BY <2>1, Zenon
  <2> HIDE DEF h
  <2>3. QED
    BY <2>2, DecodesAtLater
<1>8. IsDecode(h)
  <2>1. \A j \in 1 .. Len(bytes) + 1 : f[j] = DecodesAt(bytes, j, h)
    <3> HIDE DEF h
    <3> QED BY <1>6, <1>7, Zenon
  <2>2. QED
    BY <2>1, Zenon
<1>9. Decodes(bytes) = CHOOSE g : IsDecode(g)
  BY Zenon DEF Decodes, DecodesAt
<1>10. IsDecode(Decodes(bytes))
  <2> HIDE DEF IsDecode
  <2> QED BY <1>8, <1>9, Zenon
<1>11. QED
  BY <1>10, Zenon

\* A size line is one that ends behind the size.
LEMMA SizeLine ==
    ASSUME NEW bytes \in Seq(Bytes), NEW j \in 1 .. Len(bytes) + 1
    PROVE  /\ j + 2 > Len(bytes) => Find(bytes, LineEnd, j) # j + 1
           /\ j + 2 <= Len(bytes) /\ bytes[j].is = "size" /\ Stands(LineEnd, bytes, j + 1)
              => Find(bytes, LineEnd, j) = j + 1
<1>1. Len(bytes) \in Nat /\ j \in Nat \ {0}
  OBVIOUS
<1>2. ASSUME j + 2 > Len(bytes) PROVE Find(bytes, LineEnd, j) # j + 1
  <2>1. ~Stands(LineEnd, bytes, j + 1)
    BY <1>1, <1>2, LineEndBytes DEF Stands
  <2>2. Find(bytes, LineEnd, j) = 0 \/ Stands(LineEnd, bytes, Find(bytes, LineEnd, j))
    BY <1>1, FindFirst, LineEndBytes
  <2>3. j + 1 # 0
    BY <1>1
  <2>4. QED
    BY <2>1, <2>2, <2>3
<1>3. ASSUME j + 2 <= Len(bytes), bytes[j].is = "size", Stands(LineEnd, bytes, j + 1)
      PROVE  Find(bytes, LineEnd, j) = j + 1
  <2>1. j + 1 \in j .. Len(bytes)
    BY <1>1, <1>3
  <2>2. ~Stands(LineEnd, bytes, j)
    <3>1. SUFFICES ASSUME bytes[j + 1 - 1] = LineEnd[1] PROVE FALSE
      BY LineEndBytes DEF Stands
    <3>2. bytes[j].is = "cr"
      BY <1>1, <3>1, LineEndBytes DEF Byte
    <3>3. QED
      BY <1>3, <3>2
  <2>3. \A i \in j .. (j + 1) - 1 : ~Stands(LineEnd, bytes, i)
    BY <1>1, <2>2
  <2>4. QED
    BY <1>1, <1>3, <2>1, <2>3, FindIs, LineEndBytes
<1>4. QED
  BY <1>2, <1>3

\* A slice of a sequence.
LEMMA Slice ==
    ASSUME NEW S, NEW s \in Seq(S), NEW a \in Nat, NEW n \in Nat, a + n <= Len(s)
    PROVE  /\ SubSeq(s, a + 1, a + n) \in Seq(S) /\ Len(SubSeq(s, a + 1, a + n)) = n
           /\ \A i \in 1 .. n : SubSeq(s, a + 1, a + n)[i] = s[a + i]
<1>1. Len(s) \in Nat
  OBVIOUS
<1>2. \A i \in a + 1 .. a + n : s[i] \in S
  BY <1>1
<1>3. \A i \in 1 .. n : i \in 1 .. (a + n) - (a + 1) + 1 /\ (a + 1) + i - 1 = a + i
  OBVIOUS
<1>4. Len(SubSeq(s, a + 1, a + n)) = n
  BY <1>2
<1>5. SubSeq(s, a + 1, a + n) \in Seq(S)
  BY <1>2
<1>6. \A i \in 1 .. n : SubSeq(s, a + 1, a + n)[i] = s[a + i]
  BY <1>2, <1>3
<1>7. QED
  BY <1>4, <1>5, <1>6

\* The bytes of a chunk.
LEMMA ChunkBytes ==
    ASSUME NEW part \in Seq(Bytes), NEW body \in Seq(Bytes), NEW p \in Nat \ {0},
           Stands(Chunk(part), body, p)
    PROVE  /\ p + Len(part) + 4 <= Len(body)
           /\ body[p] = Byte("size", Len(part))
           /\ Stands(LineEnd, body, p + 1)
           /\ \A j \in 1 .. Len(part) : body[p + 2 + j] = part[j]
<1> DEFINE size == <<Byte("size", Len(part))>>
           line == size \o LineEnd
           filled == line \o part
           chunk == filled \o LineEnd
<1>1. Len(part) \in Nat /\ Len(body) \in Nat /\ LineEnd \in Seq(Bytes) /\ Len(LineEnd) = 2
  BY LineEndBytes
<1>2. size \in Seq(Bytes) /\ Len(size) = 1 /\ size[1] = Byte("size", Len(part))
  BY <1>1, HttpAssumption DEF Byte, Bytes
<1> HIDE DEF size
<1>3. /\ line \in Seq(Bytes) /\ Len(line) = 3
      /\ line[1] = Byte("size", Len(part)) /\ line[2] = LineEnd[1] /\ line[3] = LineEnd[2]
  <2>1. /\ line \in Seq(Bytes) /\ Len(line) = Len(size) + Len(LineEnd)
        /\ \A i \in 1 .. Len(size) + Len(LineEnd) :
              line[i] = IF i <= Len(size) THEN size[i] ELSE LineEnd[i - Len(size)]
    BY <1>1, <1>2, ConcatProperties, Zenon
  <2> HIDE DEF line
  <2>2. QED
    BY <1>1, <1>2, <2>1
<1> HIDE DEF line
<1>4. /\ filled \in Seq(Bytes) /\ Len(filled) = 3 + Len(part)
      /\ \A i \in 1 .. 3 : filled[i] = line[i]
      /\ \A i \in 1 .. Len(part) : filled[3 + i] = part[i]
  <2>1. /\ filled \in Seq(Bytes) /\ Len(filled) = Len(line) + Len(part)
        /\ \A i \in 1 .. Len(line) + Len(part) :
              filled[i] = IF i <= Len(line) THEN line[i] ELSE part[i - Len(line)]
    BY <1>3, ConcatProperties, Zenon
  <2> HIDE DEF filled
  <2>2. \A i \in 1 .. Len(part) : filled[3 + i] = part[(3 + i) - 3]
    BY <1>1, <1>3, <2>1
  <2>3. \A i \in 1 .. Len(part) : (3 + i) - 3 = i
    BY <1>1
  <2>4. QED
    BY <1>1, <1>3, <2>1, <2>2, <2>3
<1> HIDE DEF filled
<1>5. /\ Len(chunk) = 5 + Len(part)
      /\ \A i \in 1 .. 3 + Len(part) : chunk[i] = filled[i]
  <2>1. /\ Len(chunk) = Len(filled) + Len(LineEnd)
        /\ \A i \in 1 .. Len(filled) + Len(LineEnd) :
              chunk[i] = IF i <= Len(filled) THEN filled[i] ELSE LineEnd[i - Len(filled)]
    <3>1. filled \in Seq(Bytes) /\ LineEnd \in Seq(Bytes)
      BY <1>1, <1>4
    <3>2. QED
      BY <3>1, ConcatProperties, Zenon
  <2> HIDE DEF chunk
  <2>2. QED
    BY <1>1, <1>4, <2>1
<1> HIDE DEF chunk
<1>6. Chunk(part) = chunk
  <2>1. \A s, l \in Seq(Bytes) : s \o l \o part \o l = ((s \o l) \o part) \o l
    OBVIOUS
  <2>2. QED
    BY <1>1, <1>2, <2>1, Zenon DEF Chunk, chunk, filled, line, size
<1>7. /\ p + Len(chunk) <= Len(body) + 1
      /\ \A i \in 1 .. Len(chunk) : body[p + i - 1] = chunk[i]
  BY <1>6 DEF Stands
<1>8. \A i \in 1 .. 3 + Len(part) : body[p + i - 1] = filled[i]
  <2>1. \A i \in 1 .. 3 + Len(part) : i \in 1 .. Len(chunk)
    BY <1>1, <1>5
  <2>2. QED
    BY <1>5, <1>7, <2>1, Zenon
<1>9. /\ body[p] = Byte("size", Len(part))
      /\ body[p + 1] = LineEnd[1] /\ body[p + 2] = LineEnd[2]
  <2>1. 1 \in 1 .. 3 + Len(part) /\ 2 \in 1 .. 3 + Len(part) /\ 3 \in 1 .. 3 + Len(part)
    BY <1>1
  <2>2. body[p + 1 - 1] = line[1] /\ body[p + 2 - 1] = line[2] /\ body[p + 3 - 1] = line[3]
    BY <1>4, <1>8, <2>1
  <2>3. p + 1 - 1 = p /\ p + 2 - 1 = p + 1 /\ p + 3 - 1 = p + 2
    OBVIOUS
  <2>4. QED
    BY <1>3, <2>2, <2>3
<1>10. Stands(LineEnd, body, p + 1)
  <2>1. \A n \in 1 .. Len(LineEnd) : body[(p + 1) + n - 1] = LineEnd[n]
    BY <1>1, <1>9
  <2>2. (p + 1) + Len(LineEnd) <= Len(body) + 1
    BY <1>1, <1>5, <1>7
  <2>3. QED
    BY <2>1, <2>2 DEF Stands
<1>11. ASSUME NEW j \in 1 .. Len(part) PROVE body[p + 2 + j] = part[j]
  <2>1. 3 + j \in 1 .. 3 + Len(part) /\ p + (3 + j) - 1 = p + 2 + j
    BY <1>1
  <2>2. QED
    BY <1>4, <1>8, <2>1
<1>12. p + Len(part) + 4 <= Len(body)
  BY <1>1, <1>5, <1>7
<1>13. QED
  BY <1>9, <1>10, <1>11, <1>12

-----------------------------------------------------------------------------
(* A text in chunks, of which the first bytes were read. *)

\* The text is cut into k parts, and the body has a chunk for each and an empty one.
IsCut(body, text, k, cut) ==
    /\ cut \in [0 .. k -> 0 .. Len(text)]
    /\ cut[0] = 0 /\ cut[k] = Len(text)
    /\ \A i \in 1 .. k :
          /\ cut[i - 1] < cut[i]
          /\ Stands(Chunk(SubSeq(text, cut[i - 1] + 1, cut[i])), body, cut[i - 1] + 5 * i - 4)
    /\ Stands(Chunk(<< >>), body, Len(text) + 5 * k + 1)
    /\ Len(body) = Len(text) + 5 * k + 5

\* Where chunk i + 1 begins.
Place(h, cut, i) == h + cut[i] + 5 * i + 1

\* The size of chunk i + 1, the last one's being zero.
SizeAt(text, k, cut, i) == IF i = k THEN 0 ELSE cut[i + 1] - cut[i]

\* What is left of the text before chunk i + 1.
Left(text, cut, i) == SubSeq(text, cut[i] + 1, Len(text))

\* Where the text is cut and how much is between the cuts.
LEMMA CutParts ==
    ASSUME NEW text \in Seq(Bytes), NEW k \in Nat, NEW cut, NEW body, IsCut(body, text, k, cut),
           NEW i \in 0 .. k
    PROVE  /\ cut[i] \in 0 .. Len(text) /\ SizeAt(text, k, cut, i) \in Nat
           /\ cut[i] + SizeAt(text, k, cut, i) <= Len(text)
           /\ i = k => SizeAt(text, k, cut, i) = 0 /\ cut[i] = Len(text)
           /\ i # k => /\ i + 1 \in 1 .. k /\ i + 1 - 1 = i
                       /\ cut[i + 1] \in 0 .. Len(text)
                       /\ SizeAt(text, k, cut, i) > 0
                       /\ SizeAt(text, k, cut, i) = cut[i + 1] - cut[i]
<1>1. cut[i] \in 0 .. Len(text) /\ Len(text) \in Nat
  BY DEF IsCut
<1>2. CASE i = k
  BY <1>1, <1>2 DEF SizeAt, IsCut
<1>3. CASE i # k
  <2>1. i + 1 \in 1 .. k /\ i + 1 \in 0 .. k /\ i + 1 - 1 = i
    BY <1>3
  <2>2. cut[i + 1 - 1] < cut[i + 1]
    BY <2>1 DEF IsCut
  <2>3. cut[i + 1] \in 0 .. Len(text) /\ cut[i] < cut[i + 1]
    BY <2>1, <2>2 DEF IsCut
  <2>4. QED
    BY <1>1, <1>3, <2>1, <2>3 DEF SizeAt
<1>4. QED
  BY <1>2, <1>3

\* What the wire holds where a chunk begins.
HasChunk(wire, text, a, size, j) ==
    /\ a \in Nat /\ size \in Nat /\ a + size <= Len(text)
    /\ j \in Nat \ {0} /\ j + size + 4 <= Len(wire)
    /\ wire[j] = Byte("size", size) /\ Stands(LineEnd, wire, j + 1)
    /\ \A n \in 1 .. size : wire[j + 2 + n] = text[a + n]

\* Every part of the text is in a chunk.
LEMMA ChunkOnWire ==
    ASSUME NEW wire \in Seq(Bytes), NEW h \in 1 .. Len(wire), NEW text \in Seq(Bytes),
           NEW k \in Nat, NEW cut, IsCut(SubSeq(wire, h + 1, Len(wire)), text, k, cut),
           NEW i \in 0 .. k
    PROVE  HasChunk(wire, text, cut[i], SizeAt(text, k, cut, i), Place(h, cut, i))
<1> DEFINE body == SubSeq(wire, h + 1, Len(wire))
           a == cut[i]
           p == a + 5 * i + 1
           j == Place(h, cut, i)
           size == SizeAt(text, k, cut, i)
           part == SubSeq(text, a + 1, a + size)
<1>1. /\ Len(wire) \in Nat /\ Len(text) \in Nat /\ h \in Nat /\ i \in Nat /\ h <= Len(wire)
      /\ LineEnd \in Seq(Bytes) /\ Len(LineEnd) = 2
  BY LineEndBytes
<1>2. /\ a \in 0 .. Len(text) /\ size \in Nat /\ a + size <= Len(text)
      /\ i = k => size = 0 /\ a = Len(text)
      /\ i # k => /\ i + 1 \in 1 .. k /\ i + 1 - 1 = i
                  /\ cut[i + 1] \in 0 .. Len(text) /\ size = cut[i + 1] - a
  BY CutParts
<1>3. i = k => part = << >>
  <2> HIDE DEF a, size
  <2> QED BY <1>1, <1>2, SubSeqEmpty
<1>4. i # k => part = SubSeq(text, a + 1, cut[i + 1])
  <2> HIDE DEF a, size
  <2>1. SUFFICES ASSUME i # k PROVE part = SubSeq(text, a + 1, cut[i + 1])
    OBVIOUS
  <2>2. a \in Int /\ cut[i + 1] \in Int /\ size = cut[i + 1] - a
    BY <1>2, <2>1
  <2>3. a + size = cut[i + 1]
    BY <2>2
  <2>4. QED
    BY <2>3
<1>5. /\ part \in Seq(Bytes) /\ Len(part) = size
      /\ \A n \in 1 .. size : part[n] = text[a + n]
  <2> HIDE DEF a, size
  <2>1. a \in Nat /\ size \in Nat /\ a + size <= Len(text)
    BY <1>1, <1>2
  <2>2. QED
    BY <2>1, Slice
<1>6. Stands(Chunk(part), body, p)
  <2> HIDE DEF part, size
  <2>1. CASE i = k
    <3>1. p = Len(text) + 5 * k + 1
      BY <1>2, <2>1
    <3>2. Stands(Chunk(<< >>), body, Len(text) + 5 * k + 1)
      BY DEF IsCut
    <3> HIDE DEF p, body
    <3>3. QED
      BY <1>3, <2>1, <3>1, <3>2
  <2>2. CASE i # k
    <3>1. Stands(Chunk(SubSeq(text, cut[i + 1 - 1] + 1, cut[i + 1])), body, cut[i + 1 - 1] + 5 * (i + 1) - 4)
      BY <1>2, <2>2 DEF IsCut
    <3>2. Stands(Chunk(SubSeq(text, a + 1, cut[i + 1])), body, a + 5 * (i + 1) - 4)
      <4>1. i + 1 - 1 = i
        BY <1>1
      <4> HIDE DEF body
      <4>2. QED
        BY <3>1, <4>1
    <3> HIDE DEF a, body
    <3>3. a + 5 * (i + 1) - 4 = p
      BY <1>1, <1>2
    <3> HIDE DEF p
    <3>4. QED
      BY <1>4, <2>2, <3>2, <3>3
  <2>3. QED
    BY <2>1, <2>2
<1>7. /\ body \in Seq(Bytes) /\ Len(body) = Len(wire) - h
      /\ \A n \in 1 .. Len(wire) - h : body[n] = wire[h + n]
  OBVIOUS
<1>8. p \in Nat \ {0} /\ j = h + p
  <2>1. j = h + a + 5 * i + 1
    BY DEF Place
  <2> HIDE DEF a, j
  <2>2. QED
    BY <1>1, <1>2, <2>1
<1> HIDE DEF a, body, p, j, size, part
<1>9. /\ p + size + 4 <= Len(body)
      /\ body[p] = Byte("size", size)
      /\ Stands(LineEnd, body, p + 1)
      /\ \A n \in 1 .. size : body[p + 2 + n] = part[n]
  <2>1. part \in Seq(Bytes) /\ body \in Seq(Bytes) /\ p \in Nat \ {0}
    BY <1>5, <1>7, <1>8
  <2>2. /\ p + Len(part) + 4 <= Len(body)
        /\ body[p] = Byte("size", Len(part))
        /\ Stands(LineEnd, body, p + 1)
        /\ \A n \in 1 .. Len(part) : body[p + 2 + n] = part[n]
    BY <1>6, <2>1, ChunkBytes
  <2>3. Len(part) = size
    BY <1>5
  <2>4. QED
    BY <2>2, <2>3
<1>10. j \in Nat \ {0} /\ j + size + 4 <= Len(wire)
  BY <1>1, <1>2, <1>7, <1>8, <1>9
<1>11. wire[j] = Byte("size", size)
  <2>1. p \in 1 .. Len(wire) - h
    BY <1>1, <1>2, <1>7, <1>8, <1>9
  <2>2. QED
    BY <1>7, <1>8, <1>9, <2>1
<1>12. Stands(LineEnd, wire, j + 1)
  <2>1. \A n \in 1 .. Len(LineEnd) : p + n \in 1 .. Len(wire) - h /\ (p + 1) + n - 1 = p + n
                                     /\ (j + 1) + n - 1 = h + (p + n)
    BY <1>1, <1>2, <1>7, <1>8, <1>9
  <2>2. \A n \in 1 .. Len(LineEnd) : wire[(j + 1) + n - 1] = LineEnd[n]
    <3> TAKE n \in 1 .. Len(LineEnd)
    <3>1. body[(p + 1) + n - 1] = LineEnd[n]
      BY <1>9 DEF Stands
    <3>2. body[p + n] = wire[h + (p + n)]
      BY <1>7, <2>1
    <3>3. (p + 1) + n - 1 = p + n /\ (j + 1) + n - 1 = h + (p + n)
      BY <2>1
    <3>4. QED
      BY <3>1, <3>2, <3>3, Zenon
  <2>3. (j + 1) + Len(LineEnd) <= Len(wire) + 1
    BY <1>1, <1>2, <1>10
  <2>4. QED
    BY <2>2, <2>3 DEF Stands
<1>13. ASSUME NEW n \in 1 .. size PROVE wire[j + 2 + n] = text[a + n]
  <2>1. p + 2 + n \in 1 .. Len(wire) - h /\ j + 2 + n = h + (p + 2 + n)
    BY <1>1, <1>2, <1>7, <1>8, <1>9
  <2>2. QED
    BY <1>5, <1>7, <1>9, <2>1
<1>14. a \in Nat
  BY <1>1, <1>2
<1>15. HasChunk(wire, text, a, size, j)
  BY <1>2, <1>10, <1>11, <1>12, <1>13, <1>14 DEF HasChunk
<1>16. QED
  BY <1>15 DEF a, size, j

\* One chunk of which the first bytes were read: it is noticed that it is cut
\* off, or it is the last one, or its part comes before what is decoded next.
LEMMA ChunkDecoded ==
    ASSUME NEW wire \in Seq(Bytes), NEW bytes \in Seq(Bytes), Begins(bytes, wire),
           NEW text \in Seq(Bytes), NEW a, NEW size, NEW j,
           HasChunk(wire, text, a, size, j), j <= Len(bytes) + 1
    PROVE  LET r == Decodes(bytes)[j]
               rest == Decodes(bytes)[j + size + 5]
           IN  \/ r = Error /\ Len(bytes) < Len(wire)
               \/ size = 0 /\ r = Response(0, << >>)
               \/ /\ size > 0 /\ j + size + 5 <= Len(bytes) + 1
                  /\ r = IF rest.ok THEN Response(0, SubSeq(text, a + 1, a + size) \o rest.body)
                         ELSE Error
<1> DEFINE r == Decodes(bytes)[j]
           rest == Decodes(bytes)[j + size + 5]
           part == SubSeq(bytes, (j + 2) + 1, (j + 2) + size)
<1>1. /\ Len(bytes) \in Nat /\ Len(wire) \in Nat /\ Len(text) \in Nat
      /\ Len(bytes) <= Len(wire)
      /\ a \in Nat /\ size \in Nat /\ a + size <= Len(text)
      /\ j \in Nat \ {0} /\ j + size + 4 <= Len(wire)
  BY DEF Begins, HasChunk
<1>0. /\ wire[j] = Byte("size", size) /\ Stands(LineEnd, wire, j + 1)
      /\ \A n \in 1 .. size : wire[j + 2 + n] = text[a + n]
  BY DEF HasChunk
<1>2. j \in 1 .. Len(bytes) + 1
  BY <1>1
<1>3. r = DecodesAt(bytes, j, Decodes(bytes))
  BY <1>2, DecodesIsDefined
<1> HIDE DEF rest, part
<1>4. CASE j + 2 > Len(bytes)
  <2>1. Find(bytes, LineEnd, j) # j + 1
    BY <1>2, <1>4, SizeLine
  <2>2. r = Error
    BY <1>3, <2>1 DEF DecodesAt, NoChunk
  <2>3. Len(bytes) < Len(wire)
    BY <1>1, <1>4
  <2>4. QED
    BY <2>2, <2>3
<1>5. CASE j + 2 <= Len(bytes)
  <2>1. j \in 1 .. Len(bytes)
    BY <1>1, <1>5
  <2>2. bytes[j] = Byte("size", size)
    BY <1>0, <1>1, <2>1 DEF Begins
  <2>3. bytes[j].is = "size" /\ bytes[j].n = size
    BY <2>2 DEF Byte
  <2>4. Stands(LineEnd, bytes, j + 1)
    <3>1. (j + 1) + Len(LineEnd) <= Len(bytes) + 1
      BY <1>1, <1>5, LineEndBytes
    <3>2. j + 1 \in Nat \ {0}
      BY <1>1
    <3>3. QED
      BY <1>0, <1>1, <3>1, <3>2, StandsInPrefix, LineEndBytes
  <2>5. Find(bytes, LineEnd, j) = j + 1
    BY <1>2, <1>5, <2>3, <2>4, SizeLine
  <2>6. CASE size = 0
    <3>1. r = Response(0, << >>)
      BY <1>3, <2>3, <2>5, <2>6 DEF DecodesAt
    <3>2. QED
      BY <2>6, <3>1
  <2>7. CASE size > 0 /\ Len(bytes) - (j + 3) + 1 < size + 2
    <3>1. r = Error
      BY <1>3, <2>3, <2>5, <2>7 DEF DecodesAt
    <3>2. Len(bytes) < Len(wire)
      BY <1>1, <2>7
    <3>3. QED
      BY <3>1, <3>2
  <2>8. CASE size > 0 /\ ~(Len(bytes) - (j + 3) + 1 < size + 2)
    <3> HIDE DEF r, rest, part
    <3>0. j + 2 \in Nat
      BY <1>1
    <3>1. /\ j + 3 + size + 2 = j + size + 5 /\ j + size + 5 <= Len(bytes) + 1
          /\ j + 3 = (j + 2) + 1 /\ j + 3 + size - 1 = (j + 2) + size
          /\ (j + 2) + size <= Len(bytes)
      <4>1. /\ Len(bytes) \in Int /\ j \in Int /\ size \in Int
            /\ Len(bytes) - (j + 3) + 1 >= size + 2
        BY <1>1, <2>8
      <4>2. QED
        BY <4>1
    <3>2. r = IF rest.ok THEN Response(0, part \o rest.body) ELSE Error
      <4> DEFINE next == j + 3 + size + 2
                 from == j + 3
                 to == j + 3 + size - 1
                 later == Decodes(bytes)
      <4>1. r = IF later[next].ok THEN Response(0, SubSeq(bytes, from, to) \o later[next].body)
                ELSE Error
        <5>1. size # 0 /\ ~(Len(bytes) - from + 1 < size + 2)
          BY <1>1, <2>8
        <5> HIDE DEF from, to, later
        <5>2. r = DecodesAt(bytes, j, later)
          BY <1>3 DEF later
        <5>3. QED
          BY <2>3, <2>5, <5>1, <5>2, Zenon DEF DecodesAt, from, to
      <4>2. next = j + size + 5 /\ from = (j + 2) + 1 /\ to = (j + 2) + size
        BY <3>1
      <4> HIDE DEF next, from, to, later
      <4>3. QED
        BY <4>1, <4>2, Zenon DEF rest, part, later
    <3>3. part = SubSeq(text, a + 1, a + size)
      <4> DEFINE other == SubSeq(text, a + 1, a + size)
      <4>1. /\ part \in Seq(Bytes) /\ Len(part) = size
            /\ \A n \in 1 .. size : part[n] = bytes[(j + 2) + n]
        BY <1>1, <3>0, <3>1, Slice DEF part
      <4>2. /\ other \in Seq(Bytes) /\ Len(other) = size
            /\ \A n \in 1 .. size : other[n] = text[a + n]
        <5> HIDE DEF other
        <5>1. a \in Nat /\ size \in Nat /\ a + size <= Len(text)
          BY <1>1
        <5>2. QED
          BY <5>1, Slice DEF other
      <4>3. \A n \in 1 .. size : bytes[(j + 2) + n] = wire[(j + 2) + n]
        <5> TAKE n \in 1 .. size
        <5>1. (j + 2) + n \in 1 .. Len(bytes)
          BY <1>1, <3>1
        <5>2. QED
          BY <5>1 DEF Begins
      <4> HIDE DEF other
      <4>4. \A n \in 1 .. size : part[n] = other[n]
        <5> TAKE n \in 1 .. size
        <5>1. (j + 2) + n = j + 2 + n
          BY <1>1
        <5>2. wire[j + 2 + n] = text[a + n]
          BY <1>0
        <5>3. QED
          BY <4>1, <4>2, <4>3, <5>1, <5>2
      <4>5. part = other
        BY <1>1, <4>1, <4>2, <4>4, SeqEqual
      <4>6. QED
        BY <4>5 DEF other
    <3>4. QED
      BY <2>8, <3>1, <3>2, <3>3 DEF r, rest
  <2>9. QED
    BY <1>1, <2>6, <2>7, <2>8 DEF r, rest
<1>6. QED
  BY <1>1, <1>4, <1>5

\* What is decoded from a place on is the text or an error, and no error if all
\* bytes were read.
IsDecoded(bytes, wire, place, text) ==
    LET r == Decodes(bytes)[place]
    IN  /\ r = Error \/ r = Response(0, text)
        /\ Len(bytes) = Len(wire) => r # Error

\* Of the chunks that begin among the bytes read, either all that is left of the
\* text is decoded, or an error is noticed; and none is if all bytes were read.
LEMMA ChunksDecoded ==
    ASSUME NEW wire \in Seq(Bytes), NEW h \in 1 .. Len(wire), NEW text \in Seq(Bytes),
           NEW k \in Nat, NEW cut, IsCut(SubSeq(wire, h + 1, Len(wire)), text, k, cut),
           NEW bytes \in Seq(Bytes), Begins(bytes, wire)
    PROVE  \A i \in 0 .. k :
               Place(h, cut, i) <= Len(bytes) + 1 =>
                   IsDecoded(bytes, wire, Place(h, cut, i), Left(text, cut, i))
<1> DEFINE Right(i) == Place(h, cut, i) <= Len(bytes) + 1 =>
                           LET r == Decodes(bytes)[Place(h, cut, i)]
                           IN  /\ r = Error \/ r = Response(0, Left(text, cut, i))
                               /\ Len(bytes) = Len(wire) => r # Error
           Done == {m \in 0 .. k : Right(k - m)}
<1>1. /\ Len(bytes) \in Nat /\ Len(wire) \in Nat /\ Len(text) \in Nat /\ h \in Nat
      /\ Len(bytes) <= Len(wire)
  BY DEF Begins
<1>2. \A body : Response(0, body) # Error
  BY DEF Response, Error
<1>3. ASSUME NEW i \in 0 .. k, i # k => Right(i + 1), Place(h, cut, i) <= Len(bytes) + 1
      PROVE  LET r == Decodes(bytes)[Place(h, cut, i)]
             IN  /\ r = Error \/ r = Response(0, Left(text, cut, i))
                 /\ Len(bytes) = Len(wire) => r # Error
  <2> DEFINE j == Place(h, cut, i)
             size == SizeAt(text, k, cut, i)
             a == cut[i]
             b == cut[i + 1]
             r == Decodes(bytes)[j]
             next == j + size + 5
             rest == Decodes(bytes)[next]
  <2>1. HasChunk(wire, text, a, size, j)
    BY ChunkOnWire
  <2>2. /\ a \in 0 .. Len(text) /\ size \in Nat /\ a + size <= Len(text)
        /\ i = k => size = 0 /\ a = Len(text)
        /\ i # k => /\ i + 1 \in 0 .. k /\ b \in 0 .. Len(text)
                    /\ size > 0 /\ size = b - a
    BY CutParts
  <2>3. j <= Len(bytes) + 1
    BY <1>3
  <2>4. i # k => next = Place(h, cut, i + 1)
    <3> SUFFICES ASSUME i # k PROVE next = Place(h, cut, i + 1)
      OBVIOUS
    <3>1. j = h + a + 5 * i + 1
      BY DEF Place
    <3>2. Place(h, cut, i + 1) = h + b + 5 * (i + 1) + 1
      BY DEF Place
    <3> HIDE DEF a, b, j, size
    <3>3. size = b - a /\ a \in Int /\ b \in Int
      BY <2>2
    <3>4. QED
      BY <1>1, <3>1, <3>2, <3>3
  <2>5. i # k => SubSeq(text, a + 1, b) \o Left(text, cut, i + 1) = Left(text, cut, i)
    <3> SUFFICES ASSUME i # k
                 PROVE SubSeq(text, a + 1, b) \o Left(text, cut, i + 1) = Left(text, cut, i)
      OBVIOUS
    <3>1. Left(text, cut, i) = SubSeq(text, a + 1, Len(text))
          /\ Left(text, cut, i + 1) = SubSeq(text, b + 1, Len(text))
      BY DEF Left
    <3> HIDE DEF a, b, size
    <3>2. a + 1 \in 1 .. Len(text) + 1 /\ b \in (a + 1) - 1 .. Len(text) /\ Len(text) \in b .. Len(text)
      BY <1>1, <2>2
    <3>3. QED
      BY <3>1, <3>2, ConcatAdjacentSubSeq
  <2>6. i = k => Left(text, cut, i) = << >>
    <3>1. Left(text, cut, i) = SubSeq(text, a + 1, Len(text))
      BY DEF Left
    <3> HIDE DEF a
    <3>2. QED
      BY <1>1, <2>2, <3>1, SubSeqEmpty
  <2>7. i # k /\ next <= Len(bytes) + 1
        => /\ rest = Error \/ rest = Response(0, Left(text, cut, i + 1))
           /\ Len(bytes) = Len(wire) => rest # Error
    <3> HIDE DEF next
    <3> QED BY <1>3, <2>4
  <2> HIDE DEF a, b, j, size
  <2>8. \/ r = Error /\ Len(bytes) < Len(wire)
        \/ size = 0 /\ r = Response(0, << >>)
        \/ /\ size > 0 /\ next <= Len(bytes) + 1
           /\ r = IF rest.ok THEN Response(0, SubSeq(text, a + 1, a + size) \o rest.body)
                  ELSE Error
    BY <2>1, <2>3, ChunkDecoded
  <2> HIDE DEF r, rest, next
  <2>9. /\ r = Error \/ r = Response(0, Left(text, cut, i))
        /\ Len(bytes) = Len(wire) => r # Error
    <3>1. CASE r = Error /\ Len(bytes) < Len(wire)
      BY <1>1, <3>1
    <3>2. CASE size = 0 /\ r = Response(0, << >>)
      BY <1>2, <2>2, <2>6, <3>2
    <3>3. CASE /\ size > 0 /\ next <= Len(bytes) + 1
               /\ r = IF rest.ok THEN Response(0, SubSeq(text, a + 1, a + size) \o rest.body)
                      ELSE Error
      <4>1. i # k
        BY <2>2, <3>3
      <4>2. a + size = b
        BY <1>1, <2>2, <4>1
      <4>3. CASE rest = Error
        <5>1. ~rest.ok
          BY <4>3 DEF Error
        <5>2. r = Error /\ Len(bytes) # Len(wire)
          BY <2>7, <3>3, <4>1, <4>3, <5>1
        <5>3. QED
          BY <5>2
      <4>4. CASE rest = Response(0, Left(text, cut, i + 1))
        <5>1. rest.ok /\ rest.body = Left(text, cut, i + 1)
          BY <4>4 DEF Response
        <5>2. r = Response(0, Left(text, cut, i))
          BY <2>5, <3>3, <4>1, <4>2, <5>1
        <5>3. QED
          BY <1>2, <5>2
      <4>5. QED
        BY <2>7, <3>3, <4>1, <4>3, <4>4
    <3>4. QED
      BY <2>8, <3>1, <3>2, <3>3
  <2>10. QED
    BY <2>9 DEF r, j
<1>4. ASSUME NEW i \in 0 .. k, i # k => Right(i + 1) PROVE Right(i)
  BY <1>3, <1>4
<1> HIDE DEF Right
<1>5. 0 \in Done
  <2>1. Right(k)
    BY <1>4
  <2>2. QED
    BY <2>1
<1>6. ASSUME NEW m \in 1 .. k, m - 1 \in Done PROVE m \in Done
  <2>1. k - m \in 0 .. k /\ (k - m) + 1 = k - (m - 1)
    OBVIOUS
  <2>2. Right(k - m)
    BY <1>4, <1>6, <2>1
  <2>3. QED
    BY <2>2
<1>7. \A m \in 0 .. k : m \in Done
  <2> HIDE DEF Done
  <2> QED BY <1>5, <1>6, Induction
<1>8. \A i \in 0 .. k : Right(i)
  <2> TAKE i \in 0 .. k
  <2>1. k - i \in 0 .. k /\ k - (k - i) = i
    OBVIOUS
  <2>2. QED
    BY <1>7, <2>1
<1>9. QED
  BY <1>8 DEF Right, IsDecoded

-----------------------------------------------------------------------------
(* What is made of the first bytes of an answer. *)

\* The head of an answer, and the empty line that ends it.
LEMMA HeadOfWire ==
    ASSUME NEW wire \in Seq(Bytes), NEW h \in 5 .. Len(wire),
           Find(SubSeq(wire, 1, h), EmptyLine, 1) = h - 3
    PROVE  Find(wire, EmptyLine, 1) = h - 3 /\ wire[1] = SubSeq(wire, 1, h)[1]
<1> DEFINE head == SubSeq(wire, 1, h)
           f == Find(wire, EmptyLine, 1)
<1>1. Len(wire) \in Nat /\ h \in Nat /\ h > 4 /\ h <= Len(wire)
  OBVIOUS
<1>2. head \in Seq(Bytes) /\ Len(head) = h /\ \A i \in 1 .. h : head[i] = wire[i]
  OBVIOUS
<1>3. Find(head, EmptyLine, 1) = h - 3
  OBVIOUS
<1> HIDE DEF head
<1>4. Begins(head, wire)
  BY <1>1, <1>2 DEF Begins
<1>5. Find(head, EmptyLine, 1) = IF f # 0 /\ f + 4 <= h + 1 THEN f ELSE 0
  <2>1. Find(head, EmptyLine, 1) = IF f # 0 /\ f + Len(EmptyLine) <= Len(head) + 1 THEN f ELSE 0
    <3>1. 1 \in Nat \ {0} /\ EmptyLine \in Seq(Bytes) /\ EmptyLine # << >>
      BY LineEndBytes
    <3>2. QED
      BY <1>2, <1>4, <3>1, FindInPrefix
  <2>2. QED
    BY <1>2, <2>1, LineEndBytes
<1>6. f = h - 3
  <2> HIDE DEF f
  <2> QED BY <1>1, <1>3, <1>5
<1>7. QED
  BY <1>1, <1>2, <1>6 DEF head

\* The fields are those of the head, once it was read to its end.
LEMMA FieldsOfHead ==
    ASSUME NEW s \in Seq(Bytes), NEW t \in Seq(Bytes), NEW kind, NEW split \in Nat,
           Find(s, EmptyLine, 1) = split, Find(t, EmptyLine, 1) = split,
           \A i \in 2 .. split : s[i] = t[i]
    PROVE  Fields(s, kind) = Fields(t, kind)
<1>1. \A i : i \in {j \in 2 .. split : s[j].is = kind} <=> i \in {j \in 2 .. split : t[j].is = kind}
  OBVIOUS
<1>2. {j \in 2 .. split : s[j].is = kind} = {j \in 2 .. split : t[j].is = kind}
  BY <1>1
<1>3. \A i \in {j \in 2 .. split : t[j].is = kind} : s[i].n = t[i].n
  OBVIOUS
<1>4. {s[i].n : i \in {j \in 2 .. split : s[j].is = kind}}
      = {t[i].n : i \in {j \in 2 .. split : t[j].is = kind}}
  BY <1>2, <1>3
<1>5. QED
  BY <1>4 DEF Fields

\* What the first bytes of an answer may be understood as: an error, the answer,
\* or a beginning of its text if nothing says how long that is.
IsUnderstood(a, bytes, r) ==
    /\ \/ r = Error
       \/ r = Response(a.status, a.text)
       \/ /\ Fields(bytes, "content-length") \cup Fields(bytes, "chunked") = {}
          /\ \E n \in 0 .. Len(a.text) : r = Response(a.status, SubSeq(a.text, 1, n))
    /\ Len(bytes) = Len(a.wire) => r = Response(a.status, a.text)

\* Of a text in chunks all is understood, or an error.
LEMMA ChunkedUnderstood ==
    ASSUME NEW wire \in Seq(Bytes), NEW h \in 5 .. Len(wire), NEW text \in Seq(Bytes),
           IsChunked(SubSeq(wire, h + 1, Len(wire)), text),
           NEW bytes \in Seq(Bytes), Begins(bytes, wire), h <= Len(bytes)
    PROVE  LET chunks == Decodes(bytes)[h + 1]
           IN  /\ chunks = Error \/ chunks = Response(0, text)
               /\ Len(bytes) = Len(wire) => chunks # Error
<1> DEFINE body == SubSeq(wire, h + 1, Len(wire))
<1>1. PICK k \in 0 .. Len(text) : \E cut \in [0 .. k -> 0 .. Len(text)] :
        /\ cut[0] = 0 /\ cut[k] = Len(text)
        /\ \A i \in 1 .. k :
              /\ cut[i - 1] < cut[i]
              /\ Stands(Chunk(SubSeq(text, cut[i - 1] + 1, cut[i])), body, cut[i - 1] + 5 * i - 4)
        /\ Stands(Chunk(<< >>), body, Len(text) + 5 * k + 1)
        /\ Len(body) = Len(text) + 5 * k + 5
  BY Zenon DEF IsChunked
<1>2. PICK cut : IsCut(body, text, k, cut)
  BY <1>1, Zenon DEF IsCut
<1>3. k \in Nat /\ h \in 1 .. Len(wire) /\ h \in Nat /\ 0 \in 0 .. k
  OBVIOUS
<1>4. cut[0] = 0
  BY <1>2 DEF IsCut
<1>5. Place(h, cut, 0) = h + 1 /\ Left(text, cut, 0) = text
  <2>1. h + 0 + 5 * 0 + 1 = h + 1 /\ 0 + 1 = 1
    BY <1>3
  <2>2. SubSeq(text, 1, Len(text)) = text
    BY SubSeqFull
  <2>3. QED
    BY <1>4, <2>1, <2>2 DEF Place, Left
<1>6. h + 1 <= Len(bytes) + 1
  BY <1>3
<1>7. \A i \in 0 .. k :
          Place(h, cut, i) <= Len(bytes) + 1 =>
              IsDecoded(bytes, wire, Place(h, cut, i), Left(text, cut, i))
  <2>1. IsCut(SubSeq(wire, h + 1, Len(wire)), text, k, cut)
    BY <1>2
  <2> HIDE DEF body
  <2>2. QED
    BY <1>3, <2>1, ChunksDecoded
<1>8. IsDecoded(bytes, wire, h + 1, text)
  BY <1>3, <1>5, <1>6, <1>7
<1>9. QED
  BY <1>8 DEF IsDecoded

\* The first n bytes of a text, and all of it if it has no more.
IsBeginning(rest, n, text) ==
    /\ n \in 0 .. Len(text) /\ rest = SubSeq(text, 1, n) /\ Len(rest) = n
    /\ n = Len(text) => rest = text /\ SubSeq(rest, 1, n) = text

\* Of a text that is sent as it is, the beginning that was read.
LEMMA RestRead ==
    ASSUME NEW wire \in Seq(Bytes), NEW h \in 5 .. Len(wire), NEW text \in Seq(Bytes),
           SubSeq(wire, h + 1, Len(wire)) = text,
           NEW bytes \in Seq(Bytes), Begins(bytes, wire), h <= Len(bytes)
    PROVE  /\ IsBeginning(SubSeq(bytes, h + 1, Len(bytes)), Len(bytes) - h, text)
           /\ Len(text) = Len(wire) - h
<1> DEFINE n == Len(bytes) - h
           read == SubSeq(bytes, h + 1, Len(bytes))
           start == SubSeq(text, 1, n)
<1>1. /\ Len(wire) \in Nat /\ Len(bytes) \in Nat /\ Len(bytes) <= Len(wire)
      /\ h \in Nat /\ n \in Nat
  BY DEF Begins
<1>2. Len(text) = Len(wire) - h /\ \A i \in 1 .. Len(wire) - h : text[i] = wire[h + i]
  <2> DEFINE body == SubSeq(wire, h + 1, Len(wire))
  <2>1. Len(body) = Len(wire) - h /\ \A i \in 1 .. Len(wire) - h : body[i] = wire[h + i]
    OBVIOUS
  <2>2. body = text
    OBVIOUS
  <2> HIDE DEF body
  <2>3. QED
    BY <2>1, <2>2
<1>3. n \in 0 .. Len(text)
  BY <1>1, <1>2
<1>4. read \in Seq(Bytes) /\ Len(read) = n /\ \A i \in 1 .. n : read[i] = bytes[h + i]
  OBVIOUS
<1>5. start \in Seq(Bytes) /\ Len(start) = n /\ \A i \in 1 .. n : start[i] = text[i]
  <2> HIDE DEF n
  <2> QED BY <1>3
<1>6. \A i \in 1 .. n : read[i] = start[i]
  <2> HIDE DEF read, start
  <2> TAKE i \in 1 .. n
  <2>1. h + i \in 1 .. Len(bytes) /\ i \in 1 .. Len(wire) - h
    BY <1>1
  <2>2. bytes[h + i] = wire[h + i]
    BY <2>1 DEF Begins
  <2>3. QED
    BY <1>2, <1>4, <1>5, <2>1, <2>2
<1>7. n = Len(bytes) - h /\ read = SubSeq(bytes, h + 1, Len(bytes))
  OBVIOUS
<1> HIDE DEF read, start, n
<1>8. read = start
  BY <1>4, <1>5, <1>6, SeqEqual
<1>9. n = Len(text) => read = text /\ SubSeq(read, 1, n) = text
  BY <1>8, SubSeqFull DEF start
<1>10. IsBeginning(read, n, text)
  BY <1>3, <1>4, <1>8, <1>9 DEF IsBeginning, start
<1>11. QED
  BY <1>2, <1>7, <1>10

\* Whatever part of an answer was read, it is understood in one of these ways.
LEMMA PrefixUnderstood ==
    ASSUME NEW a \in Answers, NEW bytes \in Seq(Bytes), Begins(bytes, a.wire)
    PROVE  IsUnderstood(a, bytes, ParseResponse(bytes))
<1> DEFINE wire == a.wire
           text == a.text
           split == Find(bytes, EmptyLine, 1)
           stated == Fields(bytes, "content-length")
           chunked == Fields(bytes, "chunked")
           rest == SubSeq(bytes, split + 4, Len(bytes))
           chunks == Decodes(bytes)[split + 4]
           r == ParseResponse(bytes)
<1>1. a.status \in Nat /\ text \in Seq(Bytes) /\ wire \in Seq(Bytes) /\ Framed(a)
  BY HttpAssumption
<1>2. PICK h \in 5 .. Len(wire) :
        /\ SubSeq(wire, 1, h)[1] = Byte("status", a.status)
        /\ Find(SubSeq(wire, 1, h), EmptyLine, 1) = h - 3
        /\ IF Fields(SubSeq(wire, 1, h), "chunked") # {}
           THEN IsChunked(SubSeq(wire, h + 1, Len(wire)), text)
           ELSE /\ SubSeq(wire, h + 1, Len(wire)) = text
                /\ Fields(SubSeq(wire, 1, h), "content-length") \subseteq {Len(text)}
  BY <1>1, Zenon DEF Framed
<1> DEFINE head == SubSeq(wire, 1, h)
           body == SubSeq(wire, h + 1, Len(wire))
<1>3. r = IF split = 0 \/ bytes[1].is # "status" THEN Error
          ELSE IF chunked # {}
               THEN IF chunks.ok THEN Response(bytes[1].n, chunks.body) ELSE Error
          ELSE IF stated = {} THEN Response(bytes[1].n, rest)
          ELSE IF Len(rest) < Max(stated) THEN Error
          ELSE Response(bytes[1].n, SubSeq(rest, 1, Max(stated)))
  BY Zenon DEF ParseResponse
<1>4. /\ Len(wire) \in Nat /\ Len(bytes) \in Nat /\ Len(text) \in Nat /\ h \in Nat
      /\ Len(bytes) <= Len(wire) /\ h \in 5 .. Len(wire)
      /\ Begins(bytes, wire)
  BY <1>1 DEF Begins
<1>5. /\ head \in Seq(Bytes) /\ Len(head) = h /\ \A i \in 1 .. h : head[i] = wire[i]
      /\ head[1] = Byte("status", a.status) /\ Find(head, EmptyLine, 1) = h - 3
      /\ IF Fields(head, "chunked") # {} THEN IsChunked(body, text)
         ELSE body = text /\ Fields(head, "content-length") \subseteq {Len(text)}
  <2>1. head \in Seq(Bytes) /\ Len(head) = h /\ \A i \in 1 .. h : head[i] = wire[i]
    <3> HIDE DEF wire
    <3> QED BY <1>1
  <2>2. head[1] = Byte("status", a.status) /\ Find(head, EmptyLine, 1) = h - 3
    BY <1>2
  <2>3. IF Fields(head, "chunked") # {} THEN IsChunked(body, text)
        ELSE body = text /\ Fields(head, "content-length") \subseteq {Len(text)}
    BY <1>2
  <2> HIDE DEF head, body, wire, text
  <2>4. QED
    BY <2>1, <2>2, <2>3
<1> HIDE DEF wire, text, head, body, split, stated, chunked, rest, chunks, r
<1>6. Find(wire, EmptyLine, 1) = h - 3 /\ wire[1] = Byte("status", a.status)
  <2>1. Find(wire, EmptyLine, 1) = h - 3 /\ wire[1] = SubSeq(wire, 1, h)[1]
    BY <1>1, <1>5, HeadOfWire DEF head
  <2>2. QED
    BY <1>5, <2>1 DEF head
<1>7. split = IF h <= Len(bytes) THEN h - 3 ELSE 0
  <2> DEFINE f == Find(wire, EmptyLine, 1)
  <2>1. split = IF f # 0 /\ f + Len(EmptyLine) <= Len(bytes) + 1 THEN f ELSE 0
    <3>1. 1 \in Nat \ {0} /\ EmptyLine \in Seq(Bytes) /\ EmptyLine # << >>
      BY LineEndBytes
    <3>2. QED
      BY <1>1, <1>4, <3>1, FindInPrefix DEF split
  <2>2. f = h - 3 /\ Len(EmptyLine) = 4
    BY <1>6, LineEndBytes
  <2> HIDE DEF f
  <2>3. QED
    BY <1>4, <2>1, <2>2
<1>8. CASE ~(h <= Len(bytes))
  <2>1. r = Error
    BY <1>3, <1>7, <1>8
  <2>2. Len(bytes) # Len(wire)
    BY <1>4, <1>8
  <2>3. QED
    BY <2>1, <2>2 DEF IsUnderstood, r, wire
<1>9. CASE h <= Len(bytes)
  <2>1. split = h - 3 /\ split \in Nat /\ split # 0 /\ split + 4 = h + 1
    BY <1>4, <1>7, <1>9
  <2>2. bytes[1].is = "status" /\ bytes[1].n = a.status
    <3>1. 1 \in 1 .. Len(bytes)
      BY <1>4, <1>9
    <3>2. bytes[1] = wire[1]
      BY <1>4, <3>1 DEF Begins
    <3>3. QED
      BY <1>6, <3>2 DEF Byte
  <2>3. \A kind : Fields(bytes, kind) = Fields(head, kind)
    <3>1. \A i \in 2 .. split : i \in 1 .. Len(bytes) /\ i \in 1 .. h
      BY <1>4, <1>9, <2>1
    <3>2. \A i \in 2 .. split : bytes[i] = head[i]
      BY <1>4, <1>5, <3>1 DEF Begins
    <3>3. Find(bytes, EmptyLine, 1) = split /\ Find(head, EmptyLine, 1) = split
      BY <1>5, <2>1 DEF split
    <3>4. QED
      BY <1>5, <2>1, <3>2, <3>3, FieldsOfHead
  <2>4. CASE chunked # {}
    <3>1. IsChunked(body, text)
      BY <1>5, <2>3, <2>4 DEF chunked
    <3>2. /\ chunks = Error \/ chunks = Response(0, text)
          /\ Len(bytes) = Len(wire) => chunks # Error
      BY <1>1, <1>4, <1>9, <2>1, <3>1, ChunkedUnderstood DEF body, chunks
    <3>3. r = IF chunks.ok THEN Response(a.status, chunks.body) ELSE Error
      BY <1>3, <2>1, <2>2, <2>4
    <3>4. /\ r = Error \/ r = Response(a.status, text)
          /\ Len(bytes) = Len(wire) => r = Response(a.status, text)
      <4>1. CASE chunks = Error
        BY <3>2, <3>3, <4>1 DEF Error
      <4>2. CASE chunks = Response(0, text)
        <5>1. chunks.ok /\ chunks.body = text
          BY <4>2 DEF Response
        <5>2. QED
          BY <3>3, <5>1
      <4>3. QED
        BY <3>2, <4>1, <4>2
    <3>5. QED
      BY <3>4 DEF IsUnderstood, r, wire, text
  <2>5. CASE chunked = {}
    <3>1. body = text /\ stated \subseteq {Len(text)}
      BY <1>5, <2>3, <2>5 DEF chunked, stated
    <3> DEFINE n == Len(bytes) - h
    <3>2. IsBeginning(rest, n, text) /\ n = Len(bytes) - h /\ Len(text) = Len(wire) - h
      <4>1. rest = SubSeq(bytes, h + 1, Len(bytes))
        BY <2>1 DEF rest
      <4>2. SubSeq(wire, h + 1, Len(wire)) = text
        BY <3>1 DEF body
      <4>3. IsBeginning(SubSeq(bytes, h + 1, Len(bytes)), n, text) /\ Len(text) = Len(wire) - h
        BY <1>1, <1>4, <1>9, <4>2, RestRead
      <4>4. QED
        BY <4>1, <4>3
    <3> HIDE DEF n
    <3>3. /\ n \in 0 .. Len(text) /\ n = Len(bytes) - h /\ Len(text) = Len(wire) - h
          /\ rest = SubSeq(text, 1, n) /\ Len(rest) = n
          /\ n = Len(text) => rest = text /\ SubSeq(rest, 1, n) = text
      BY <3>2 DEF IsBeginning
    <3>4. Len(bytes) = Len(wire) => n = Len(text)
      BY <1>4, <3>3
    <3>5. CASE stated = {}
      <4>1. r = Response(a.status, rest)
        BY <1>3, <2>1, <2>2, <2>5, <3>5
      <4>2. Len(bytes) = Len(wire) => r = Response(a.status, text)
        BY <3>3, <3>4, <4>1
      <4>3. Fields(bytes, "content-length") \cup Fields(bytes, "chunked") = {}
        BY <2>5, <3>5 DEF chunked, stated
      <4>4. \E m \in 0 .. Len(text) : r = Response(a.status, SubSeq(text, 1, m))
        BY <3>3, <4>1
      <4>5. QED
        BY <4>2, <4>3, <4>4 DEF IsUnderstood, r, wire, text
    <3>6. CASE stated # {}
      <4>1. stated = {Len(text)}
        BY <3>1, <3>6
      <4>2. Max(stated) = Len(text)
        BY <1>4, <4>1 DEF Max
      <4>3. r = IF n < Len(text) THEN Error
                ELSE Response(a.status, SubSeq(rest, 1, Len(text)))
        BY <1>3, <2>1, <2>2, <2>5, <3>3, <3>6, <4>2
      <4>4. /\ r = Error \/ r = Response(a.status, text)
            /\ Len(bytes) = Len(wire) => r = Response(a.status, text)
        <5>1. CASE n < Len(text)
          BY <1>4, <3>3, <3>4, <4>3, <5>1
        <5>2. CASE ~(n < Len(text))
          <6>1. n = Len(text)
            <7>1. n \in 0 .. Len(text) /\ Len(text) \in Nat
              BY <1>4, <3>3
            <7>2. QED
              BY <5>2, <7>1
          <6>2. QED
            BY <3>3, <4>3, <5>2, <6>1
        <5>3. QED
          BY <5>1, <5>2
      <4>5. QED
        BY <4>4 DEF IsUnderstood, r, wire, text
    <3>7. QED
      BY <3>5, <3>6
  <2>6. QED
    BY <2>4, <2>5
<1>10. QED
  BY <1>8, <1>9

-----------------------------------------------------------------------------
(* One exchange. *)

\* What was read and what is unsent make up the answer, and what exchange
\* returned it made of all that was read.
HttpInv ==
    /\ answer \in Answers
    /\ raw \in Seq(Bytes) /\ unsent \in Seq(Bytes)
    /\ raw \o unsent = answer.wire
    /\ \/ response = NotYet
       \/ response = Error /\ (stream = "broken" \/ Len(raw) > MaxResponse)
       \/ response = ParseResponse(raw) /\ stream = "closed" /\ Len(raw) <= MaxResponse

\* It holds at first.
LEMMA HttpInvInit == HttpInit => HttpInv
<1> SUFFICES ASSUME HttpInit PROVE HttpInv
  OBVIOUS
<1>1. answer.wire \in Seq(Bytes)
  BY HttpAssumption DEF HttpInit
<1>2. << >> \o answer.wire = answer.wire
  BY <1>1, ConcatEmptySeq
<1>3. QED
  BY <1>1, <1>2 DEF HttpInit, HttpInv

\* No step breaks it.
LEMMA HttpInvNext == HttpInv /\ [HttpNext]_httpVars => HttpInv'
<1> SUFFICES ASSUME HttpInv, [HttpNext]_httpVars PROVE HttpInv'
  OBVIOUS
<1>1. CASE ByteArrives
  <2>1. /\ raw \in Seq(Bytes) /\ unsent \in Seq(Bytes) /\ unsent # << >>
        /\ raw' = Append(raw, Head(unsent)) /\ unsent' = Tail(unsent)
    BY <1>1 DEF ByteArrives, HttpInv
  <2>2. raw' \in Seq(Bytes) /\ unsent' \in Seq(Bytes)
    BY <2>1, HeadTailProperties, AppendProperties
  <2>3. raw' \o unsent' = raw \o unsent
    <3>1. Append(raw, Head(unsent)) \o Tail(unsent) = raw \o unsent
      BY <2>1
    <3>2. QED
      BY <2>1, <3>1
  <2>4. response = NotYet
    <3>1. Len(raw) \in Nat /\ MaxResponse \in Nat
      BY HttpAssumption DEF HttpInv
    <3>2. QED
      BY <1>1, <3>1 DEF ByteArrives, HttpInv
  <2>5. QED
    BY <1>1, <2>2, <2>3, <2>4 DEF ByteArrives, HttpInv
<1>2. CASE Close
  <2>1. response = NotYet \/ (response = Error /\ Len(raw) > MaxResponse)
    BY <1>2 DEF Close, HttpInv
  <2>2. QED
    BY <1>2, <2>1 DEF Close, HttpInv
<1>3. CASE TimesOut
  BY <1>3 DEF TimesOut, HttpInv
<1>4. CASE Finish
  <2>1. Len(raw) \in Nat /\ MaxResponse \in Nat
    BY HttpAssumption DEF HttpInv
  <2>2. CASE Len(raw) > MaxResponse
    BY <1>4, <2>2 DEF Finish, HttpInv
  <2>3. CASE ~(Len(raw) > MaxResponse)
    BY <1>4, <2>1, <2>3 DEF Finish, HttpInv
  <2>4. QED
    BY <2>2, <2>3
<1>5. CASE UNCHANGED httpVars
  BY <1>5 DEF httpVars, HttpInv
<1>6. QED
  BY <1>1, <1>2, <1>3, <1>4, <1>5 DEF HttpNext

\* The invariant of an exchange.
LEMMA HttpInvariance == HttpSpec => []HttpInv
BY HttpInvInit, HttpInvNext, PTL DEF HttpSpec

\* A response is what was read of the answer understood, unless it is an error.
LEMMA ResponseUnderstood ==
    ASSUME HttpInv, response # NotYet, response # Error
    PROVE  IsUnderstood(answer, raw, response)
<1>1. response = ParseResponse(raw) /\ answer \in Answers /\ raw \in Seq(Bytes)
  BY DEF HttpInv
<1>2. Begins(raw, answer.wire)
  <2>1. raw \in Seq(Bytes) /\ unsent \in Seq(Bytes) /\ raw \o unsent = answer.wire
    BY DEF HttpInv
  <2>2. \A i \in 1 .. Len(raw) : (raw \o unsent)[i] = raw[i]
    BY <2>1
  <2>3. Len(raw \o unsent) = Len(raw) + Len(unsent) /\ Len(raw) \in Nat /\ Len(unsent) \in Nat
    <3>1. raw \in Seq(Bytes) /\ unsent \in Seq(Bytes)
      BY <2>1
    <3>2. QED
      BY <3>1, ConcatProperties
  <2>4. QED
    BY <2>1, <2>2, <2>3 DEF Begins
<1>3. QED
  BY <1>1, <1>2, PrefixUnderstood

\* An answer that was cut off is noticed, and none is merged in part.
THEOREM CutNoticed == HttpSpec => []CutIsNoticed
<1>1. HttpInv => CutIsNoticed
  <2> SUFFICES ASSUME HttpInv, response.ok
               PROVE  /\ Fields(raw, "content-length") \cup Fields(raw, "chunked") # {}
                         => response.body = answer.text
                      /\ Pulled(response) => response = Response(200, answer.text)
    BY DEF CutIsNoticed, Pulled
  <2>1. response # NotYet /\ response # Error
    BY DEF NotYet, Error
  <2>2. IsUnderstood(answer, raw, response)
    BY <2>1, ResponseUnderstood
  <2>3. \A status, body : Response(status, body).status = status /\ Response(status, body).body = body
    BY DEF Response
  <2>4. CASE response = Response(answer.status, answer.text)
    <3>1. response.body = answer.text /\ response.status = answer.status
      BY <2>3, <2>4
    <3>2. Pulled(response) => response = Response(200, answer.text)
      BY <2>4, <3>1 DEF Pulled
    <3>3. QED
      BY <3>1, <3>2
  <2>5. CASE /\ Fields(raw, "content-length") \cup Fields(raw, "chunked") = {}
             /\ \E n \in 0 .. Len(answer.text) :
                   response = Response(answer.status, SubSeq(answer.text, 1, n))
    <3>1. PICK n \in 0 .. Len(answer.text) : response = Response(answer.status, SubSeq(answer.text, 1, n))
      BY <2>5
    <3>2. response.body = SubSeq(answer.text, 1, n) /\ response.status = answer.status
      BY <2>3, <3>1
    <3>3. ASSUME Pulled(response) PROVE response = Response(200, answer.text)
      <4>1. PICK b \in Answers : SubSeq(answer.text, 1, n) = b.text
        BY <3>2, <3>3 DEF Pulled, Readable
      <4>2. answer \in Answers /\ answer.text \in Seq(Bytes) /\ b.text \in Seq(Bytes)
        BY HttpAssumption DEF HttpInv
      <4>3. Len(b.text) = n
        <5> DEFINE t == answer.text
        <5>1. t \in Seq(Bytes) /\ n \in 0 .. Len(t)
          BY <4>2
        <5> HIDE DEF t
        <5>2. Len(SubSeq(t, 1, n)) = n
          BY <5>1
        <5>3. QED
          BY <4>1, <5>2 DEF t
      <4>4. SubSeq(b.text, 1, n) = b.text
        BY <4>2, <4>3, SubSeqFull
      <4>5. n <= Len(answer.text)
        BY <4>2
      <4>6. IsPrefix(b.text, answer.text)
        BY <4>1, <4>3, <4>4, <4>5 DEF IsPrefix
      <4>7. b.text = answer.text
        BY <4>2, <4>6, HttpAssumption
      <4>8. response.status = 200
        BY <3>3 DEF Pulled
      <4>9. QED
        BY <3>1, <3>2, <4>1, <4>7, <4>8
    <3>4. QED
      BY <2>5, <3>3
  <2>6. QED
    BY <2>1, <2>2, <2>4, <2>5 DEF IsUnderstood
<1>2. QED
  BY <1>1, HttpInvariance, PTL

\* An answer that arrived in full is understood as it was meant.
THEOREM WholeTaken == HttpSpec => []WholeIsTaken
<1>1. HttpInv => WholeIsTaken
  <2> SUFFICES ASSUME HttpInv, response # NotYet, stream = "closed", unsent = << >>,
                      Len(answer.wire) <= MaxResponse
               PROVE  response = Response(answer.status, answer.text)
    BY DEF WholeIsTaken
  <2>1. raw = answer.wire
    <3>1. raw \in Seq(Bytes) /\ raw \o << >> = answer.wire
      BY DEF HttpInv
    <3>2. QED
      BY <3>1, ConcatEmptySeq
  <2>2. ~(Len(raw) > MaxResponse)
    <3>1. Len(raw) \in Nat /\ MaxResponse \in Nat
      BY HttpAssumption DEF HttpInv
    <3>2. QED
      BY <2>1, <3>1
  <2>3. response = ParseResponse(raw) /\ answer \in Answers /\ raw \in Seq(Bytes)
    BY <2>2 DEF HttpInv
  <2>4. Begins(raw, answer.wire)
    BY <2>1, <2>3 DEF Begins
  <2>5. IsUnderstood(answer, raw, response)
    BY <2>3, <2>4, PrefixUnderstood
  <2>6. QED
    BY <2>1, <2>5 DEF IsUnderstood
<1>2. QED
  BY <1>1, HttpInvariance, PTL
=============================================================================
