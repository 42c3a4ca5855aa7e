---------------------------- MODULE StartupProofs ----------------------------
(***************************************************************************)
(* What a node keeps to while its processes start, fail, serve and are     *)
(* killed, for any command lines, writes and number of processes.          *)
(***************************************************************************)
EXTENDS Startup, TLAPS

Alone == \A q \in ByHand : proc[q] = Off("never")

\* Whoever got past its flags has none that is fatal, and only a process that
\* serves owes an answer.
Vetted ==
    \A p \in Processes :
        /\ proc[p].stage \in {"load", "bind", "serving"} => ~Fatal(setup)
        /\ proc[p].unanswered # {} => proc[p].stage = "serving"

\* Whatever was merged reached the node and was let in.
LetIn(w) == Reaches(setup, w) /\ Authorized(setup, w) /\ ~Fatal(setup)
Admitted ==
    /\ \A w \in answered : LetIn(w)
    /\ \A p \in Processes : \A w \in proc[p].unanswered : LetIn(w)

\* A lone process that persists holds what the file holds, and the file holds
\* what was merged.
Remembered ==
    Alone /\ Persistent(setup) =>
        /\ answered \cup proc[Service].unanswered \subseteq Loaded
        /\ proc[Service].stage \in {"bind", "serving"} => proc[Service].mem = Loaded

IInv == TypeOK /\ Vetted /\ Admitted /\ Remembered

Proc == [stage: Stages, mem: SUBSET Writes, unanswered: SUBSET Writes, exit: Exits]

\* A process that has ended is one.
LEMMA OffIsProc == \A exit \in Exits : Off(exit) \in Proc
  BY DEF Off, Proc, Stages, Exits

\* What a load finds is a map.
LEMMA LoadedIsMap == TypeOK => Loaded \in SUBSET Writes
  BY DEF TypeOK, Loaded

\* The first state of a node satisfies the invariant (Init, run_serve).
LEMMA InitInv == Init => IInv
<1> SUFFICES ASSUME Init PROVE IInv
  OBVIOUS
<1> USE StartupAssumption DEF Init
<1>1. \A p \in Processes : proc[p] = Off("never")
  OBVIOUS
<1>2. TypeOK
  BY <1>1, OffIsProc DEF TypeOK, Proc, Exits, Off, Processes, Stages
<1>3. Vetted /\ Admitted
  BY <1>1 DEF Vetted, Admitted, Off
<1>4. Remembered
  BY <1>1 DEF Remembered, Off, Processes
<1> QED
  BY <1>2, <1>3, <1>4 DEF IInv

\* The end of a process, by itself or killed, keeps the invariant (End).
LEMMA EndInv ==
  ASSUME IInv, NEW p \in Processes, NEW exit \in Exits \ {"never"}, End(p, exit),
         UNCHANGED <<setup, file, readable, answered>>, trouble' \in 0 .. MaxTrouble
  PROVE  IInv'
<1> USE DEF IInv
<1>1. proc' = [proc EXCEPT ![p] = Off(exit)] /\ proc \in [Processes -> Proc]
  BY DEF End, TypeOK, Proc
<1>2. \A q \in Processes : proc'[q] = IF q = p THEN Off(exit) ELSE proc[q]
  BY <1>1
<1>3. port' = IF port = p THEN Nobody ELSE port
  BY DEF End
<1>4. TypeOK'
  <2>1. proc' \in [Processes -> Proc]
    BY <1>1, OffIsProc
  <2>2. \A q \in Processes : port' = q <=> proc'[q].stage = "serving"
    BY <1>2, <1>3, StartupAssumption DEF TypeOK, Off, Processes
  <2> QED
    BY <2>1, <2>2, <1>3 DEF TypeOK, Proc
<1>5. Vetted'
  BY <1>2 DEF Vetted, Off
<1>6. Admitted'
  BY <1>2 DEF Admitted, LetIn, Off
<1>7. Remembered'
  <2> SUFFICES ASSUME Alone', Persistent(setup) PROVE Remembered'
    BY DEF Remembered
  <2>1. p = Service
    BY <1>2 DEF Alone, Off, Processes
  <2>2. Alone
    BY <1>2, <2>1, StartupAssumption DEF Alone, Processes
  <2> QED
    BY <1>2, <2>1, <2>2 DEF Remembered, Off, Loaded, Processes
<1> QED
  BY <1>4, <1>5, <1>6, <1>7

\* A stage that is passed keeps the invariant, if what it takes is there (Pass).
LEMMA PassInv ==
  ASSUME IInv, NEW p \in Processes, NEW map \in SUBSET Writes,
         proc[p].stage \in {"flags", "load", "bind"}, Pass(p, map), ~Fatal(setup),
         proc[p].stage # "flags" => map = Loaded \/ ~(Alone /\ Persistent(setup)) \/ p # Service,
         IF proc[p].stage = "bind" THEN port = Nobody /\ port' = p ELSE UNCHANGED port,
         UNCHANGED <<setup, file, readable, answered, trouble>>
  PROVE  IInv'
<1> USE DEF IInv
<1> DEFINE next == NextStage(proc[p].stage)
<1>1. /\ next \in Stages \ {"off"} /\ next # "flags"
      /\ next = "serving" <=> proc[p].stage = "bind"
      /\ next = "load" <=> proc[p].stage = "flags"
  BY DEF NextStage, Stages
<1>2. proc' = [proc EXCEPT ![p].stage = next, ![p].mem = map] /\ proc \in [Processes -> Proc]
  BY DEF Pass, TypeOK, Proc
<1> HIDE DEF next
<1>3. \A q \in Processes \ {p} : proc'[q] = proc[q]
  BY <1>2
<1>4. /\ proc'[p].stage = next /\ proc'[p].mem = map
      /\ proc'[p].unanswered = proc[p].unanswered /\ proc'[p].exit = proc[p].exit
  BY <1>2 DEF Proc
<1>5. TypeOK'
  <2>1. proc' \in [Processes -> Proc]
    BY <1>1, <1>2 DEF Proc
  <2>2. ASSUME NEW q \in Processes PROVE port' = q <=> proc'[q].stage = "serving"
    BY <1>1, <1>3, <1>4, StartupAssumption DEF TypeOK, Processes
  <2>3. port' \in Processes \cup {Foreign, Nobody}
    BY DEF TypeOK
  <2> QED
    BY <2>1, <2>2, <2>3 DEF TypeOK, Proc
<1>6. Vetted'
  BY <1>3, <1>4 DEF Vetted
<1>7. Admitted'
  BY <1>3, <1>4 DEF Admitted, LetIn
<1>8. Remembered'
  <2> SUFFICES ASSUME Alone', Persistent(setup) PROVE Remembered'
    BY DEF Remembered
  <2>1. p = Service
    <3>1. SUFFICES ASSUME p \in ByHand PROVE FALSE
      BY DEF Processes
    <3> QED
      BY <1>1, <1>4, <3>1 DEF Alone, Off
  <2>2. Alone
    BY <1>3, <2>1, StartupAssumption DEF Alone, Processes
  <2> QED
    BY <1>1, <1>4, <2>1, <2>2 DEF Remembered, Loaded
<1> QED
  BY <1>5, <1>6, <1>7, <1>8

\* The command line is never one that serves and is unknown (Launch).
LEMMA LaunchInv == ASSUME IInv, NEW p \in Processes, Launch(p) PROVE IInv'
<1>1. CASE ~IsServe(setup)
  <2>1. End(p, OneShotExit(setup)) /\ OneShotExit(setup) \in Exits \ {"never"}
    BY <1>1 DEF Launch, OneShotExit, Exits
  <2> QED
    BY <2>1, EndInv DEF Launch, IInv, TypeOK
<1>2. CASE IsServe(setup)
  <2> USE DEF IInv
  <2>1. proc' = [proc EXCEPT ![p].stage = "flags"] /\ proc \in [Processes -> Proc] /\ port' = port
    BY <1>2 DEF Launch, TypeOK, Proc
  <2>2. \A q \in Processes \ {p} : proc'[q] = proc[q]
    BY <2>1
  <2>3. /\ proc'[p].stage = "flags" /\ proc'[p].unanswered = proc[p].unanswered
        /\ proc[p].stage = "off"
    BY <2>1 DEF Launch, Proc
  <2>4. TypeOK'
    <3>1. proc' \in [Processes -> Proc]
      BY <2>1 DEF Proc, Stages
    <3>2. \A q \in Processes : port' = q <=> proc'[q].stage = "serving"
      BY <2>1, <2>2, <2>3 DEF TypeOK
    <3> QED
      BY <2>1, <3>1, <3>2 DEF TypeOK, Proc, Launch
  <2>5. Vetted'
    BY <2>2, <2>3 DEF Vetted, Launch
  <2>6. Admitted'
    BY <2>2, <2>3 DEF Admitted, LetIn, Launch
  <2>7. Remembered'
    <3> SUFFICES ASSUME Alone', Persistent(setup) PROVE Remembered'
      BY DEF Remembered, Launch
    <3>1. p = Service
      BY <2>3 DEF Alone, Off, Processes
    <3>2. Alone
      BY <2>2, <3>1, StartupAssumption DEF Alone, Processes
    <3> QED
      BY <2>3, <3>1, <3>2 DEF Remembered, Loaded, Launch
  <2> QED
    BY <2>4, <2>5, <2>6, <2>7
<1> QED
  BY <1>1, <1>2

\* Checking the flags, reading the file and binding keep the invariant.
LEMMA StartsInv == ASSUME IInv, NEW p \in Processes, Flags(p) \/ Load(p) \/ Bind(p) PROVE IInv'
<1>0. TypeOK /\ "2" \in Exits \ {"never"} /\ trouble \in 0 .. MaxTrouble
  BY DEF IInv, TypeOK, Exits
<1>1. CASE Flags(p)
  <2>1. CASE Fatal(setup)
    BY <1>0, <1>1, <2>1, EndInv DEF Flags
  <2>2. CASE ~Fatal(setup)
    BY <1>1, <2>2, PassInv DEF Flags
  <2> QED
    BY <2>1, <2>2
<1>2. CASE Load(p)
  <2>1. CASE Persistent(setup) /\ ~readable
    BY <1>0, <1>2, <2>1, EndInv DEF Load
  <2>2. CASE ~(Persistent(setup) /\ ~readable)
    <3>1. Pass(p, Loaded) /\ UNCHANGED port /\ Loaded \in SUBSET Writes /\ proc[p].stage = "load"
      BY <1>0, <1>2, <2>2, LoadedIsMap DEF Load
    <3>2. ~Fatal(setup)
      BY <3>1 DEF IInv, Vetted
    <3> QED
      BY <1>2, <3>1, <3>2, PassInv DEF Load
  <2> QED
    BY <2>1, <2>2
<1>3. CASE Bind(p)
  <2>1. CASE port # Nobody
    BY <1>0, <1>3, <2>1, EndInv DEF Bind
  <2>2. CASE port = Nobody
    <3>1. /\ Pass(p, proc[p].mem) /\ proc[p].stage = "bind" /\ port' = p
          /\ proc[p].mem \in SUBSET Writes
      BY <1>0, <1>3, <2>2 DEF Bind, TypeOK
    <3>2. ~Fatal(setup)
      BY <3>1 DEF IInv, Vetted
    <3>3. proc[p].mem = Loaded \/ ~(Alone /\ Persistent(setup)) \/ p # Service
      BY <3>1 DEF IInv, Remembered
    <3> QED
      BY <1>3, <2>2, <3>1, <3>2, <3>3, PassInv DEF Bind
  <2> QED
    BY <2>1, <2>2
<1> QED
  BY <1>1, <1>2, <1>3

\* A write that is merged was let in, and is in the file (reconcile_request).
LEMMA MergeInv == ASSUME IInv, NEW p \in Processes, NEW w \in Writes, Merge(p, w) PROVE IInv'
<1> USE DEF IInv
<1> DEFINE merged == proc[p].mem \cup {w}
<1>1. /\ proc' = [proc EXCEPT ![p].mem = merged, ![p].unanswered = @ \cup {w}]
      /\ proc \in [Processes -> Proc] /\ proc[p].stage = "serving"
      /\ UNCHANGED <<setup, port, answered, trouble>>
  BY DEF Merge, TypeOK, Proc
<1>2. \A q \in Processes \ {p} : proc'[q] = proc[q]
  BY <1>1
<1>3. merged \in SUBSET Writes
  BY <1>1 DEF Proc
<1>4. /\ proc'[p].stage = "serving" /\ proc'[p].mem = merged
      /\ proc'[p].unanswered = proc[p].unanswered \cup {w}
  BY <1>1 DEF Proc
<1>5. IF Persistent(setup) THEN file' = merged /\ readable' = TRUE ELSE UNCHANGED <<file, readable>>
  BY DEF Merge
<1>6. TypeOK'
  <2>1. proc' \in [Processes -> Proc]
    BY <1>1, <1>3 DEF Proc
  <2>2. \A q \in Processes : port' = q <=> proc'[q].stage = "serving"
    BY <1>1, <1>2, <1>4 DEF TypeOK
  <2> QED
    BY <1>1, <1>3, <1>5, <2>1, <2>2 DEF TypeOK, Proc
<1>7. Vetted'
  BY <1>1, <1>2, <1>4 DEF Vetted
<1>8. LetIn(w)
  BY <1>1 DEF LetIn, Merge, Vetted
<1>9. Admitted'
  BY <1>1, <1>2, <1>4, <1>8 DEF Admitted, LetIn
<1>10. Remembered'
  <2> SUFFICES ASSUME Alone', Persistent(setup) PROVE Remembered'
    BY <1>1 DEF Remembered
  <2>1. p = Service
    BY <1>4 DEF Alone, Off, Processes
  <2>2. Alone
    BY <1>2, <2>1, StartupAssumption DEF Alone, Processes
  <2>3. /\ answered \cup proc[p].unanswered \subseteq Loaded /\ proc[p].mem = Loaded
        /\ Loaded' = merged
    BY <1>1, <1>3, <1>5, <2>1, <2>2, StartupAssumption DEF Remembered, Loaded
  <2> QED
    BY <1>1, <1>4, <2>1, <2>3 DEF Remembered
<1> QED
  BY <1>6, <1>7, <1>9, <1>10

\* An answer tells of nothing that was not merged (write_json).
LEMMA AnswerInv == ASSUME IInv, NEW p \in Processes, Answer(p) PROVE IInv'
<1> USE DEF IInv
<1>1. /\ proc' = [proc EXCEPT ![p].unanswered = {}] /\ proc \in [Processes -> Proc]
      /\ answered' = answered \cup proc[p].unanswered /\ proc[p].unanswered # {}
      /\ UNCHANGED <<setup, file, readable, port, trouble>>
  BY DEF Answer, TypeOK, Proc
<1>2. \A q \in Processes \ {p} : proc'[q] = proc[q]
  BY <1>1
<1>3. /\ proc'[p].stage = proc[p].stage /\ proc'[p].mem = proc[p].mem
      /\ proc'[p].unanswered = {} /\ proc[p].unanswered \in SUBSET Writes
      /\ proc'[p].exit = proc[p].exit
  BY <1>1 DEF Proc
<1>4. TypeOK'
  <2>1. proc' \in [Processes -> Proc]
    BY <1>1 DEF Proc
  <2>2. \A q \in Processes : port' = q <=> proc'[q].stage = "serving"
    BY <1>1, <1>2, <1>3 DEF TypeOK
  <2> QED
    BY <1>1, <1>3, <2>1, <2>2 DEF TypeOK, Proc
<1>5. Vetted'
  BY <1>1, <1>2, <1>3 DEF Vetted
<1>6. Admitted'
  BY <1>1, <1>2, <1>3 DEF Admitted, LetIn
<1>7. Remembered'
  <2> SUFFICES ASSUME Alone', Persistent(setup) PROVE Remembered'
    BY <1>1 DEF Remembered
  <2>1. \A q \in ByHand : q # p => proc[q] = Off("never")
    BY <1>2 DEF Alone, Processes
  <2>2. CASE p = Service
    <3>1. Alone
      BY <2>1, <2>2, StartupAssumption DEF Alone
    <3> QED
      BY <1>1, <1>3, <2>2, <3>1 DEF Remembered, Loaded
  <2>3. CASE p # Service
    <3>1. p \in ByHand /\ proc[p].stage = "off"
      BY <1>3, <2>3 DEF Alone, Off, Processes
    <3> QED
      BY <1>1, <3>1 DEF Vetted
  <2> QED
    BY <2>2, <2>3
<1> QED
  BY <1>4, <1>5, <1>6, <1>7

\* What goes wrong outside touches neither processes nor promises (Damage,
\* Repair, ForeignBinds, ForeignLeaves).
LEMMA OutsideInv ==
  ASSUME IInv, Damage \/ Repair \/ ForeignBinds \/ ForeignLeaves
  PROVE  IInv'
<1>1. /\ UNCHANGED <<setup, file, proc, answered>> /\ readable' \in BOOLEAN
      /\ trouble' \in 0 .. MaxTrouble /\ port' \in {port, Foreign, Nobody}
      /\ port \in Processes => port' = port
  <2>1. /\ TypeOK /\ MaxTrouble \in Nat /\ trouble \in 0 .. MaxTrouble
        /\ Nobody \notin Processes /\ Foreign \notin Processes
    BY StartupAssumption DEF IInv, TypeOK, Processes
  <2>2. CASE Damage
    <3>1. trouble' \in 0 .. MaxTrouble
      BY <2>1, <2>2 DEF Damage, GoesWrong
    <3>2. UNCHANGED <<setup, file, proc, answered, port>> /\ readable' \in BOOLEAN
      BY <2>2 DEF Damage
    <3> QED
      BY <3>1, <3>2
  <2>3. CASE Repair
    BY <2>1, <2>3 DEF TypeOK, Repair
  <2>4. CASE ForeignBinds
    BY <2>1, <2>4 DEF TypeOK, ForeignBinds, GoesWrong
  <2>5. CASE ForeignLeaves
    BY <2>1, <2>5 DEF TypeOK, ForeignLeaves
  <2> QED
    BY <2>2, <2>3, <2>4, <2>5
<1>2. \A q \in Processes : port' = q <=> port = q
  BY <1>1, StartupAssumption DEF Processes
<1>3. TypeOK'
  BY <1>1, <1>2 DEF IInv, TypeOK
<1>4. Vetted' /\ Admitted' /\ Remembered'
  BY <1>1 DEF IInv, Vetted, Admitted, LetIn, Remembered, Alone, Loaded
<1> QED
  BY <1>3, <1>4 DEF IInv

\* Every step of a node keeps the invariant.
LEMMA NextInv == IInv /\ [Next]_vars => IInv'
<1> SUFFICES ASSUME IInv, [Next]_vars PROVE IInv'
  OBVIOUS
<1>1. ASSUME NEW p \in Processes, Starts(p) PROVE IInv'
  BY <1>1, LaunchInv, StartsInv DEF Starts
<1>2. ASSUME NEW p \in Processes, Answer(p) PROVE IInv'
  BY <1>2, AnswerInv
<1>3. ASSUME NEW p \in Processes, Kill(p) PROVE IInv'
  <2>1. trouble' \in 0 .. MaxTrouble /\ "killed" \in Exits \ {"never"}
    BY <1>3, StartupAssumption DEF Kill, GoesWrong, IInv, TypeOK, Exits
  <2> QED
    BY <1>3, <2>1, EndInv DEF Kill
<1>4. ASSUME NEW p \in Processes, NEW w \in Writes, Merge(p, w) PROVE IInv'
  BY <1>4, MergeInv
<1>5. CASE UNCHANGED vars
  BY <1>5 DEF vars, IInv, TypeOK, Vetted, Admitted, LetIn, Remembered, Alone, Loaded
<1> QED
  BY <1>1, <1>2, <1>3, <1>4, <1>5, OutsideInv DEF Next

\* The invariant holds of every node, whatever fails or is killed.
THEOREM Invariance == Spec => []IInv
BY InitInv, NextInv, PTL DEF Spec

\* Processes, port and file keep their types, and whoever serves is the one that
\* listens (run_serve, bind).
THEOREM TypeCorrect == Spec => []TypeOK
<1>1. IInv => TypeOK
  BY DEF IInv
<1> QED
  BY <1>1, Invariance, PTL

\* A lone process serves all that was answered 200 before it, for any number of
\* kills, failed starts and repairs (load, save).
THEOREM AnsweredServed == Spec => []AnsweredIsServed
<1>1. IInv => AnsweredIsServed
  <2> SUFFICES ASSUME IInv, Persistent(setup), \A q \in ByHand : proc[q] = Off("never"),
                      proc[Service].stage = "serving"
               PROVE  answered \subseteq proc[Service].mem
    BY DEF AnsweredIsServed
  <2> QED
    BY DEF IInv, Remembered, Alone
<1> QED
  BY <1>1, Invariance, PTL

\* No combination of flags and environment lets a stranger in who was not let in
\* on purpose (startup_problem, is_authorized).
THEOREM OpenByChoice == Spec => []OpenOnlyOnPurpose
<1>1. IInv => OpenOnlyOnPurpose
  <2> SUFFICES ASSUME IInv, NEW w \in (answered \cap Remote) \ Knowing
               PROVE  Secret(setup) = Absent /\ Given(setup.args, "--allow-anonymous")
    BY DEF OpenOnlyOnPurpose
  <2>1. LetIn(w)
    BY DEF IInv, Admitted
  <2> QED
    BY <2>1 DEF LetIn, Reaches, Authorized, Fatal, OpenByMistake
<1> QED
  BY <1>1, Invariance, PTL

\* Nothing but its being killed ends a process that listens, and none takes the
\* port from another (run_serve).
THEOREM ListenerKept == Spec => ListenerIsKept
<1>1. IInv /\ [Next]_vars =>
          [\A p \in Processes : port = p /\ port' # p => proc'[p].exit = "killed"]_vars
  <2> SUFFICES ASSUME IInv, Next, NEW p \in Processes, port = p, port' # p
               PROVE  proc'[p].exit = "killed"
    OBVIOUS
  <2>1. proc[p].stage = "serving" /\ p # Nobody /\ p # Foreign
    BY StartupAssumption DEF IInv, TypeOK, Processes
  <2>2. ASSUME NEW q \in Processes, Starts(q) PROVE FALSE
    BY <2>1, <2>2
       DEF Starts, Launch, Flags, Load, Bind, End, IInv, TypeOK
  <2>3. ASSUME NEW q \in Processes, Kill(q) PROVE proc'[p].exit = "killed"
    <3>1. p = q
      BY <2>3 DEF Kill, End
    <3> QED
      BY <2>3, <3>1 DEF Kill, End, Off, IInv, TypeOK
  <2>4. CASE Damage \/ Repair \/ ForeignBinds \/ ForeignLeaves
    BY <2>1, <2>4 DEF Damage, Repair, ForeignBinds, ForeignLeaves
  <2>5. ASSUME NEW q \in Processes, Answer(q) \/ \E w \in Writes : Merge(q, w) PROVE FALSE
    BY <2>5 DEF Answer, Merge
  <2> QED
    BY <2>2, <2>3, <2>4, <2>5 DEF Next
<1> QED
  BY <1>1, Invariance, PTL DEF Spec, ListenerIsKept
=============================================================================
