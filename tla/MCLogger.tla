------------------------------ MODULE MCLogger ------------------------------
(* Runs of the logger for TLC.                                             *)
EXTENDS Logger

Listed(kind)   == [list |-> TRUE, does |-> kind]
Unlisted(kind) == [list |-> FALSE, does |-> kind]
Of(append, actions) == [append |-> append, actions |-> actions]

\* Actions with workers only, and every way main meets a monitor.
AllRuns ==
    {Of(FALSE, <<Listed("work"), Listed("work")>>),
     Of(TRUE,  <<Listed("work")>>),
     Of(FALSE, <<Listed("pesmOn"), Listed("work"), Listed("pesmOn"), Listed("pesmOff")>>),
     Of(FALSE, <<Unlisted("gmOn"), Listed("fail"), Listed("work"), Unlisted("gmOff")>>),
     Of(FALSE, <<Listed("pesmOff"), Unlisted("gmOff"), Listed("pesmOn"),
                 Unlisted("gmOn"), Unlisted("gmOn")>>)}
=============================================================================
