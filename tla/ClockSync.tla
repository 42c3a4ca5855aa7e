----------------------------- MODULE ClockSync -----------------------------
(***************************************************************************)
(* The clock measurements of src/clocksync.rs, driven by the clock thread  *)
(* of src/server.rs: one probe at a time, the peers in turn.  Every machine *)
(* has a clock of its own; time passes for all of them together, and any   *)
(* of them may be set, also while a probe is under way.                    *)
(***************************************************************************)
EXTENDS Integers, Sequences

CONSTANTS
    NPeers,      \* how many --peer there are
    Window,      \* clock_sync.window
    MaxRtt,      \* clock_sync.max_rtt_ms
    Unreachable, \* the peers that never answer
    MaxInstant,  \* bound: the latest instant a clock shows
    I64Limit     \* 2^63

ASSUME ClockAssumption ==
    /\ NPeers \in Nat \ {0}
    /\ Window \in Nat \ {0}
    /\ MaxRtt \in Nat
    /\ Unreachable \subseteq 1..NPeers
    /\ MaxInstant \in Nat /\ I64Limit \in Nat
    /\ MaxInstant < I64Limit

VARIABLES
    clock,   \* what the clock of each machine shows
    probe,   \* the exchange under way, or the peer to probe next
    window,  \* per peer: the samples the estimate looks at, oldest first
    clean    \* kept by the model: how many of the newest samples of each peer
             \* were taken with the clocks as they are set now, up to Window

vars == <<clock, probe, window, clean>>

Here == 0
Peers == 1..NPeers
Machines == {Here} \cup (Peers \ Unreachable)  \* whose clocks matter
Instants == 0..MaxInstant
Samples == [offset : Int, rtt : 0..MaxRtt]

Stages == {"idle", "sent", "arrived", "answered"}

Abs(n) == IF n >= 0 THEN n ELSE -n
AtMost(n, limit) == IF n < limit THEN n ELSE limit

-----------------------------------------------------------------------------
\* One probe and the window of samples

\* Rust divides towards zero, TLA+ towards minus infinity.
HalfTowardsZero(n) == IF n >= 0 THEN n \div 2 ELSE -((-n) \div 2)

\* The cast of a wide integer to 64 bits keeps its low bits.
AsI64(n) == ((n + I64Limit) % (2 * I64Limit)) - I64Limit

\* Bug: the time the peer took is not looked at.
PlausibleHere(t0, t1, t2, t3) == t0 <= t3 /\ t1 <= t2

Plausible(t0, t1, t2, t3) == t0 <= t3 /\ t1 <= t2 /\ t2 - t1 <= t3 - t0

Offset(t0, t1, t2, t3) == AsI64(HalfTowardsZero((t1 - t0) + (t2 - t3)))
RoundTrip(t0, t1, t2, t3) == (t3 - t0) - (t2 - t1)

\* Bug: the window holds one sample too many.
RecordedTooMany(w, s) == IF Len(w) > Window THEN Append(Tail(w), s) ELSE Append(w, s)

\* The oldest sample makes room for the newest.
Recorded(w, s) == IF Len(w) >= Window THEN Append(Tail(w), s) ELSE Append(w, s)

\* Bug: the newest sample is the estimate.
IsBestNewest(w, i) == i = Len(w)

\* The estimate is the offset of the sample of the smallest round trip, the
\* oldest such.
IsBest(w, i) ==
    /\ \A j \in DOMAIN w : w[i].rtt <= w[j].rtt
    /\ \A j \in 1..(i - 1) : w[i].rtt < w[j].rtt

Jump(w, i) == Abs(w[i].offset - w[i + 1].offset)

\* The jumps up to each sample, added up.
Jumps(w) ==
    LET sum[n \in 0 .. Len(w) - 1] == IF n = 0 THEN 0 ELSE sum[n - 1] + Jump(w, n)
    IN  sum

\* The mean difference of consecutive offsets.
Jitter(w) ==
    IF Len(w) < 2 THEN 0 ELSE Jumps(w)[Len(w) - 1] \div (Len(w) - 1)

-----------------------------------------------------------------------------

Idle(p) == [stage |-> "idle", peer |-> p, t0 |-> 0, t1 |-> 0, t2 |-> 0, steady |-> TRUE]

Init ==
    /\ clock \in [Machines -> Instants]
    /\ probe = Idle(1)
    /\ window = [p \in Peers |-> << >>]
    /\ clean = [p \in Peers |-> 0]

\* After the last peer the thread sleeps and starts over.
NextPeer == Idle((probe.peer % NPeers) + 1)

\* The request goes out; t0.
Send ==
    /\ probe.stage = "idle"
    /\ probe' = [probe EXCEPT !.stage = "sent", !.t0 = clock[Here]]
    /\ UNCHANGED <<clock, window, clean>>

\* A worker of the peer sees the request; t1.
Arrive ==
    /\ probe.stage = "sent" /\ probe.peer \notin Unreachable
    /\ probe' = [probe EXCEPT !.stage = "arrived", !.t1 = clock[probe.peer]]
    /\ UNCHANGED <<clock, window, clean>>

\* It answers; t2.
Reply ==
    /\ probe.stage = "arrived"
    /\ probe' = [probe EXCEPT !.stage = "answered", !.t2 = clock[probe.peer]]
    /\ UNCHANGED <<clock, window, clean>>

\* The answer is back; t3. A probe that cannot be right, or that took too
\* long, leaves the window as it is.
Receive ==
    LET p == probe.peer
        t3 == clock[Here]
        rtt == RoundTrip(probe.t0, probe.t1, probe.t2, t3)
        sample == [offset |-> Offset(probe.t0, probe.t1, probe.t2, t3), rtt |-> rtt]
        accepted == Plausible(probe.t0, probe.t1, probe.t2, t3) /\ rtt <= MaxRtt
    IN  /\ probe.stage = "answered"
        /\ IF accepted
           THEN /\ window' = [window EXCEPT ![p] = Recorded(@, sample)]
                /\ clean' = [clean EXCEPT ![p] = IF probe.steady THEN AtMost(@ + 1, Window) ELSE 0]
           ELSE UNCHANGED <<window, clean>>
        /\ probe' = NextPeer
        /\ UNCHANGED clock

\* Bug: the round ends at the first peer that does not answer.
FailEndsRound ==
    /\ probe.stage \in {"sent", "arrived", "answered"}
    /\ probe' = Idle(1)
    /\ UNCHANGED <<clock, window, clean>>

\* No connection, no answer in time, or one that is no 200 (a peer that does
\* not measure answers 404): nothing is recorded, the next peer is probed.
Fail ==
    /\ probe.stage \in {"sent", "arrived", "answered"}
    /\ probe' = NextPeer
    /\ UNCHANGED <<clock, window, clean>>

-----------------------------------------------------------------------------
\* The clocks

Pass ==
    /\ \A m \in Machines : clock[m] < MaxInstant
    /\ clock' = [m \in Machines |-> clock[m] + 1]
    /\ UNCHANGED <<probe, window, clean>>

\* The clock of a machine is set, forward or back. Samples taken before say
\* nothing of the clocks as they are now.
SetClock(m) ==
    /\ \E t \in Instants \ {clock[m]} : clock' = [clock EXCEPT ![m] = t]
    /\ clean' = [p \in Peers |-> IF m \in {Here, p} THEN 0 ELSE clean[p]]
    /\ probe' = [probe EXCEPT !.steady = (probe.stage = "idle") \/ (@ /\ m \notin {Here, probe.peer})]
    /\ UNCHANGED window

Probing == Send \/ Arrive \/ Reply \/ Receive \/ Fail

Next == Probing \/ Pass \/ \E m \in Machines : SetClock(m)

Spec == Init /\ [][Next]_vars

\* The clock thread is a loop whose every exchange has a timeout.
FairSpec == Spec /\ WF_vars(Probing)

-----------------------------------------------------------------------------
\* Properties

\* PeerClock.window, Sample and the instants of a probe keep their types.
TypeOK ==
    /\ clock \in [Machines -> Instants]
    /\ probe \in [stage : Stages, peer : Peers, t0 : Instants, t1 : Instants, t2 : Instants, steady : BOOLEAN]
    /\ window \in [Peers -> Seq(Samples)]
    /\ clean \in [Peers -> 0..Window]

\* How far the clock of a peer is ahead of ours.
Ahead(p) == clock[p] - clock[Here]

\* As many probes were accepted since a clock was set as the window holds:
\* no more are needed for the estimate to be right again.
Settled(p) == clean[p] = Window \/ clean[p] = Len(window[p])

\* The offset told is off by no more than half the smallest round trip of the
\* window (and a half for the division), whatever the two ways took. It is so
\* again Window accepted probes after a clock was set (stats, record, compute).
EstimateIsClose ==
    \A p \in Peers \ Unreachable : Settled(p) =>
        LET w == window[p]
        IN  \A i \in DOMAIN w : IsBest(w, i) =>
                \A j \in DOMAIN w : Abs(2 * (w[i].offset - Ahead(p))) <= w[j].rtt + 1

\* The jitter told (stats) is that of the network: it never exceeds the
\* largest round trip of the window, however far apart the clocks are.
JitterIsOfTheNetwork ==
    \A p \in Peers \ Unreachable : Settled(p) =>
        \A i \in DOMAIN window[p] :
            (\A j \in DOMAIN window[p] : window[p][j].rtt <= window[p][i].rtt)
                => Jitter(window[p]) <= window[p][i].rtt + 1

\* A peer that cannot be reached does not keep the others from being probed,
\* again and again (clock_round, clock_loop).
EveryPeerProbed == \A p \in Peers : []<>(probe.stage = "sent" /\ probe.peer = p)
=============================================================================
