------------------------------- MODULE Startup -------------------------------
(***************************************************************************)
(* The processes of one node: how src/main.rs reads its command line, what *)
(* keeps it from serving, the state file it loads and the port it binds,   *)
(* and the supervisor that starts it again.  A map is the set of the       *)
(* writes merged into it, and a merge with its save is one step            *)
(* (SwarmNode says what either does).                                      *)
(***************************************************************************)
EXTENDS Integers, Sequences, FiniteSetsExt

CONSTANTS
    Setups,        \* command lines, with the environment they run in
    Absent,        \* no such flag or variable
    Loopback,      \* the addresses only this machine reaches
    Numerals,      \* the texts that are whole numbers, and which
    PeerTexts,     \* the texts that are addresses of peers
    ConfigFiles,   \* the files --clock-sync-config may name, and what is in them
    Scenarios,     \* the scenario files that exist and merge
    Writes,        \* what callers post
    Remote,        \* those posted from another machine
    Knowing,       \* those that present the secret
    Service,       \* the process of the unit file
    ByHand,        \* processes started beside it, with the same command line
    Foreign,       \* another program that uses the port
    Nobody,
    Missing,       \* the state file does not exist
    Malformed,     \* a configuration file that cannot be parsed
    MaxTrouble     \* bound: how often something outside goes wrong

\* What a configuration file says of the measurements; no section is one that
\* does not turn them on.
ClockSection ==
    [enabled: BOOLEAN, interval_ms: Nat \cup {Absent},
     window: Nat \cup {Absent}, max_rtt_ms: Nat \cup {Absent}]

ASSUME StartupAssumption ==
    /\ Setups \subseteq [args: Seq(STRING), secret: STRING \cup {Absent},
                         stateFile: STRING \cup {Absent}, clockConfig: STRING \cup {Absent}]
    /\ \A t \in DOMAIN Numerals : Numerals[t] \in Nat
    /\ \A t \in DOMAIN ConfigFiles : ConfigFiles[t] = Malformed \/ ConfigFiles[t] \in ClockSection
    /\ Remote \subseteq Writes /\ Knowing \subseteq Writes
    /\ Service \notin ByHand
    /\ {Foreign, Nobody} \cap (ByHand \cup {Service}) = {} /\ Foreign # Nobody
    /\ \A map \in SUBSET Writes : Missing # map
    /\ MaxTrouble \in Nat

VARIABLES
    setup,     \* the command line and the environment, the same for every process
    file,      \* the state file: a map, or Missing
    readable,  \* it can be read
    port,      \* who listens
    proc,      \* each process: how far it is, what it holds, how the last one ended
    answered,  \* the writes a 200 was sent for
    trouble

vars == <<setup, file, readable, port, proc, answered, trouble>>

Processes == {Service} \cup ByHand
Stages == {"off", "flags", "load", "bind", "serving"}
Exits == {"never", "0", "1", "2", "killed"}
Off(exit) == [stage |-> "off", mem |-> {}, unanswered |-> {}, exit |-> exit]

Init ==
    /\ setup \in Setups
    /\ file = Missing /\ readable = TRUE
    /\ port = Nobody
    /\ proc = [p \in Processes |-> Off("never")]
    /\ answered = {} /\ trouble = 0

-----------------------------------------------------------------------------
(* The command line. *)

\* The text after the first place a flag stands at; none if that is the end.
FindFlag(args, flag) ==
    LET places == {i \in DOMAIN args : args[i] = flag}
    IN  IF places = {} \/ Min(places) = Len(args) THEN Absent ELSE args[Min(places) + 1]

Given(args, flag) == \E i \in DOMAIN args : args[i] = flag

Or(text, other) == IF text = Absent THEN other ELSE text

\* A number that is stated has to be one, and no less than this.
NotANumberFrom(least, text) ==
    /\ text # Absent
    /\ text \notin DOMAIN Numerals \/ Numerals[text] < least

\* Every --peer is followed by an address.
BadPeer(args) ==
    \E i \in DOMAIN args :
        args[i] = "--peer" /\ (i = Len(args) \/ args[i + 1] \notin PeerTexts)

BadFlags(args) ==
    \/ NotANumberFrom(0, FindFlag(args, "--max-time-jump"))
    \/ FindFlag(args, "--presence") \notin {Absent, "delete-wins", "add-wins"}
    \/ NotANumberFrom(1, FindFlag(args, "--max-generation-jump"))
    \/ BadPeer(args)
    \/ NotANumberFrom(1000, FindFlag(args, "--gossip-interval-ms"))

Outside(number, least, most) == number # Absent /\ number \notin least .. most

\* The numbers of the section count only where it turns the measurements on.
BadSection(section) ==
    /\ section.enabled
    /\ \/ Outside(section.interval_ms, 1000, 3600000)
       \/ Outside(section.window, 1, 1000)
       \/ Outside(section.max_rtt_ms, 1, 60000)

\* A configuration file that is named has to be there and well formed.
BadConfig(s) ==
    LET path == Or(FindFlag(s.args, "--clock-sync-config"), s.clockConfig)
    IN  /\ path \notin {Absent, ""}
        /\ path \in DOMAIN ConfigFiles =>
               ConfigFiles[path] = Malformed \/ BadSection(ConfigFiles[path])

StateFile(s) == Or(FindFlag(s.args, "--state-file"), s.stateFile)
Persistent(s) == StateFile(s) # Absent
Address(s) == Or(FindFlag(s.args, "--addr"), "127.0.0.1")
\* An empty secret is none.
Secret(s) == IF s.secret = "" THEN Absent ELSE s.secret

\* Bug: a secret that is set and empty counts as one.
OpenByMistakeEmpty(s) ==
    /\ Address(s) \notin Loopback
    /\ s.secret = Absent
    /\ ~Given(s.args, "--allow-anonymous")

\* A node the network reaches and nobody asks for a secret, unless on purpose.
OpenByMistake(s) ==
    /\ Address(s) \notin Loopback
    /\ Secret(s) = Absent
    /\ ~Given(s.args, "--allow-anonymous")

Fatal(s) == BadFlags(s.args) \/ BadConfig(s) \/ OpenByMistake(s)

-----------------------------------------------------------------------------
(* Starting. *)

IsServe(s) == s.args # << >> /\ s.args[1] = "serve"

\* A process ends, and the port it may have held is free.
End(p, exit) ==
    /\ proc' = [proc EXCEPT ![p] = Off(exit)]
    /\ port' = IF port = p THEN Nobody ELSE port

\* Without arguments the usage is told; a scenario file is merged or refused.
OneShotExit(s) == IF s.args = << >> \/ s.args[1] \in Scenarios THEN "0" ELSE "1"

\* The supervisor starts the service again when it failed (Restart=on-failure);
\* anybody may start another.
Launch(p) ==
    /\ proc[p].stage = "off"
    /\ p = Service => proc[p].exit # "0"
    /\ IF IsServe(setup)
       THEN proc' = [proc EXCEPT ![p].stage = "flags"] /\ UNCHANGED port
       ELSE End(p, OneShotExit(setup))
    /\ UNCHANGED <<setup, file, readable, answered, trouble>>

\* Bug: the port is bound before the state is loaded.
NextStageBindFirst(stage) ==
    CASE stage = "flags" -> "bind" [] stage = "bind" -> "load" [] stage = "load" -> "serving"

\* The state is read before the port is bound.
NextStage(stage) ==
    CASE stage = "flags" -> "load" [] stage = "load" -> "bind" [] stage = "bind" -> "serving"

\* p passes the stage it is at, with this map.
Pass(p, map) ==
    proc' = [proc EXCEPT ![p].stage = NextStage(proc[p].stage), ![p].mem = map]

Flags(p) ==
    /\ proc[p].stage = "flags"
    /\ IF Fatal(setup) THEN End(p, "2") ELSE Pass(p, {}) /\ UNCHANGED port
    /\ UNCHANGED <<setup, file, readable, answered, trouble>>

\* No file is an empty map.
Loaded == IF Persistent(setup) /\ file # Missing THEN file ELSE {}

\* Bug: a file that cannot be read is taken for an empty one.
LoadAnyway(p) ==
    /\ proc[p].stage = "load"
    /\ Pass(p, IF readable THEN Loaded ELSE {}) /\ UNCHANGED port
    /\ UNCHANGED <<setup, file, readable, answered, trouble>>

Load(p) ==
    /\ proc[p].stage = "load"
    /\ IF Persistent(setup) /\ ~readable THEN End(p, "2")
                                         ELSE Pass(p, Loaded) /\ UNCHANGED port
    /\ UNCHANGED <<setup, file, readable, answered, trouble>>

\* Bug: a port that is taken ends the process as if all were well.
BindQuietly(p) ==
    /\ proc[p].stage = "bind"
    /\ IF port = Nobody THEN Pass(p, proc[p].mem) /\ port' = p ELSE End(p, "0")
    /\ UNCHANGED <<setup, file, readable, answered, trouble>>

Bind(p) ==
    /\ proc[p].stage = "bind"
    /\ IF port = Nobody THEN Pass(p, proc[p].mem) /\ port' = p ELSE End(p, "2")
    /\ UNCHANGED <<setup, file, readable, answered, trouble>>

-----------------------------------------------------------------------------
(* Serving. *)

Reaches(s, w) == w \in Remote => Address(s) \notin Loopback
Authorized(s, w) == Secret(s) = Absent \/ w \in Knowing

\* A write is merged and saved; the file is there from now on. A path that is
\* there and empty names no file: no save to it succeeds, so nothing is merged.
Merge(p, w) ==
    LET merged == proc[p].mem \cup {w}
    IN  /\ proc[p].stage = "serving"
        /\ Reaches(setup, w) /\ Authorized(setup, w)
        /\ StateFile(setup) # ""
        /\ proc' = [proc EXCEPT ![p].mem = merged, ![p].unanswered = @ \cup {w}]
        /\ IF Persistent(setup) THEN file' = merged /\ readable' = TRUE
                                ELSE UNCHANGED <<file, readable>>
        /\ UNCHANGED <<setup, port, answered, trouble>>

Answer(p) ==
    /\ proc[p].unanswered # {}
    /\ answered' = answered \cup proc[p].unanswered
    /\ proc' = [proc EXCEPT ![p].unanswered = {}]
    /\ UNCHANGED <<setup, file, readable, port, trouble>>

-----------------------------------------------------------------------------
(* What goes wrong outside, a bounded number of times. *)

GoesWrong == trouble < MaxTrouble /\ trouble' = trouble + 1

Kill(p) ==
    /\ proc[p].stage # "off" /\ GoesWrong
    /\ End(p, "killed")
    /\ UNCHANGED <<setup, file, readable, answered>>

\* The file is there and cannot be read: its owner, its disk.
Damage ==
    /\ file # Missing /\ readable /\ GoesWrong
    /\ readable' = FALSE
    /\ UNCHANGED <<setup, file, port, proc, answered>>
Repair ==
    /\ ~readable /\ readable' = TRUE
    /\ UNCHANGED <<setup, file, port, proc, answered, trouble>>

ForeignBinds ==
    /\ port = Nobody /\ GoesWrong
    /\ port' = Foreign
    /\ UNCHANGED <<setup, file, readable, proc, answered>>
ForeignLeaves ==
    /\ port = Foreign /\ port' = Nobody
    /\ UNCHANGED <<setup, file, readable, proc, answered, trouble>>

Starts(p) == Launch(p) \/ Flags(p) \/ Load(p) \/ Bind(p)

Next ==
    \/ \E p \in Processes : \/ Starts(p) \/ Answer(p) \/ Kill(p)
                            \/ \E w \in Writes : Merge(p, w)
    \/ Damage \/ Repair \/ ForeignBinds \/ ForeignLeaves

Spec == Init /\ [][Next]_vars

\* The service is started and goes on; the file is repaired, the port given back.
FairSpec == Spec /\ WF_vars(Starts(Service)) /\ WF_vars(Repair) /\ WF_vars(ForeignLeaves)

-----------------------------------------------------------------------------
(* Correctness. *)

TypeOK ==
    /\ setup \in Setups
    /\ (file = Missing \/ file \in SUBSET Writes) /\ readable \in BOOLEAN
    /\ port \in Processes \cup {Foreign, Nobody}
    /\ proc \in [Processes -> [stage: Stages, mem: SUBSET Writes,
                               unanswered: SUBSET Writes, exit: Exits]]
    /\ \A p \in Processes : port = p <=> proc[p].stage = "serving"
    /\ answered \subseteq Writes /\ trouble \in 0 .. MaxTrouble

\* A node with a state file serves every write it ever answered 200 for, after
\* any number of kills, failed starts and repairs: server.rs promises "this
\* node's own next /reconcile (or a restart) actually remembers it". The promise
\* is that of a node with one process: one started beside it reads the file
\* first and takes the port later, and may hold less than was answered since.
AnsweredIsServed ==
    Persistent(setup) =>
        \/ \E q \in ByHand : proc[q] # Off("never")
        \/ proc[Service].stage = "serving" => answered \subseteq proc[Service].mem

\* Whoever listens goes on until it is killed: a start that fails, for any
\* reason, fails before it listens ("a node never announces a listener it will
\* not keep", CLI_REFERENCE), and never takes the port from another.
ListenerIsKept ==
    [][\A p \in Processes : port = p /\ port' # p => proc'[p].exit = "killed"]_vars

\* Nobody from another machine who does not present the secret has a write
\* accepted, unless the node has no secret and was told to be open.
OpenOnlyOnPurpose ==
    \A w \in (answered \cap Remote) \ Knowing :
        Secret(setup) = Absent /\ Given(setup.args, "--allow-anonymous")

\* A command line that can serve is served in the end, and for good: the
\* supervisor starts the node again whatever its start failed on.
ServesInTheEnd ==
    IsServe(setup) /\ ~Fatal(setup) => <>[](\E p \in Processes : proc[p].stage = "serving")
=============================================================================
