----------------------------- MODULE MCSession -----------------------------
(* Instances of Session for TLC: the configurations to execute.            *)
EXTENDS Session

Yaml(actions) == [file |-> "ok", actions |-> actions]
File(kind)    == [file |-> kind, actions |-> <<>>]

\* Every failure of a run, and the monitors stopped by a later action.
ClosedConfs ==
    {File("missing"), File("noModules"), File("unparsable"), File("noActions"),
     Yaml(<<"pass", "fail">>), Yaml(<<"pass", "badProperty">>),
     Yaml(<<"badModule">>), Yaml(<<"throw">>),
     Yaml(<<"pesmOn", "pesmOn", "pass", "pesmOff">>),
     Yaml(<<"pesmOff", "gmOn", "pass", "gmOff">>)}

\* Monitors left running when the list of actions ends or is abandoned.
OpenConfs ==
    {Yaml(<<"gmOn", "pesmOn">>), Yaml(<<"pesmOn", "badProperty">>)}
=============================================================================
