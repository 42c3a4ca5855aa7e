------------------------------ MODULE MCStartup ------------------------------
(***************************************************************************)
(* Startup with the command line of the unit file, one of a node on the    *)
(* network, an open and a careless one, one for each way to get a flag     *)
(* wrong, and those that do not serve.                                     *)
(***************************************************************************)
EXTENDS Startup, TLC

CONSTANTS here, there, known

MCNumerals == ("0" :> 0) @@ ("500" :> 500) @@ ("1000" :> 1000)
Section(enabled, interval, window, rtt) ==
    [enabled |-> enabled, interval_ms |-> interval, window |-> window, max_rtt_ms |-> rtt]
MCConfigFiles ==
    ("off.json" :> Section(FALSE, 10, Absent, Absent))
    @@ ("on.json" :> Section(TRUE, 1000, 1, 60000))
    @@ ("often.json" :> Section(TRUE, 999, Absent, Absent))
    @@ ("seldom.json" :> Section(TRUE, 3600001, Absent, Absent))
    @@ ("narrow.json" :> Section(TRUE, Absent, 0, Absent))
    @@ ("wide.json" :> Section(TRUE, Absent, Absent, 60001))
    @@ ("text.json" :> Malformed)

Unit == <<"serve", "--addr", "127.0.0.1", "--state-file", "state.json">>
Network == <<"serve", "--addr", "0.0.0.0", "--state-file", "state.json">>

Line(args, secret) ==
    [args |-> args, secret |-> secret, stateFile |-> Absent, clockConfig |-> Absent]
Extended(s, more) == [s EXCEPT !.args = @ \o more]

MCSetups ==
    {Line(args, secret) : args \in {Unit, Network}, secret \in {Absent, "", "secret"}}
    \cup {Extended(Line(Network, secret), <<"--allow-anonymous">>) : secret \in {Absent, "secret"}}
    \cup {[Line(<<"serve", "--addr">>, Absent) EXCEPT !.stateFile = "state.json"],
          Line(<<"serve", "--addr", "0.0.0.0", "--allow-anonymous", "--state-file">>, ""),
          [Line(Unit, Absent) EXCEPT !.clockConfig = ""],
          Line(<<"serve", "--state-file", "">>, Absent)}
    \cup {Extended(Line(Unit, Absent), more) :
             more \in {<<"--max-time-jump", "0">>, <<"--max-time-jump", "soon">>,
                       <<"--max-generation-jump", "0">>, <<"--gossip-interval-ms", "500">>,
                       <<"--gossip-interval-ms", "1000">>, <<"--presence", "add-wins">>,
                       <<"--presence", "both">>, <<"--peer">>, <<"--peer", "nowhere">>,
                       <<"--peer", "http://10.0.0.7:8112", "--peer", "http://10.0.0.8:8112">>,
                       <<"--clock-sync-config", "none.json">>}}
    \cup {[Line(Unit, Absent) EXCEPT !.clockConfig = path] : path \in DOMAIN MCConfigFiles}
    \cup {Line(args, Absent) : args \in {<< >>, <<"example.json">>, <<"absent.json">>}}
=============================================================================
