------------------------------- MODULE Logger -------------------------------
(***************************************************************************)
(* rvs::logger's JSON log: main opens and closes the document and a list   *)
(* per action, the threads of the actions and the monitors flush records   *)
(* into it, and the gm monitor may stop all logging.                       *)
(*                                                                         *)
(* Rows go to the file one at a time, under json_log_mutex; the flags that *)
(* decide about the commas are shared, and only some of their accesses are *)
(* under that mutex.  The file is kept as what a JSON parser has made of   *)
(* it so far, and the number of records in it.                             *)
(***************************************************************************)
EXTENDS Naturals, Sequences

CONSTANTS Workers,    \* the threads of an action that log
          MaxRecords, \* bound: records a worker, or a monitor, flushes
          Runs,       \* the runs of the program, see Run
          main, pesm, gm, NoThread

Monitors == {pesm, gm}
Threads  == Workers \union Monitors \union {main}

ASSUME ThreadsAssumption ==
    /\ main # pesm /\ main # gm /\ pesm # gm /\ NoThread \notin Threads
    /\ Workers \intersect {main, pesm, gm} = {}
ASSUME BoundAssumption == MaxRecords \in Nat \ {0}

\* What an action does: let workers log, fail before that (pbqt when
\* create_threads fails), start or stop a monitor; and whether its module
\* opens a list for the action (gm, smqt, edp and perf do not).
Kinds  == {"work", "fail", "pesmOn", "pesmOff", "gmOn", "gmOff"}
Action == [list : BOOLEAN, does : Kinds]

\* A run: the -a option and the list of actions.
Run == [append : BOOLEAN, actions : Seq(Action)]

ASSUME RunsAssumption == Runs \subseteq Run

VARIABLES run,
          pc,            \* where main is
          pos,           \* the action main is at
          lock,          \* who holds json_log_mutex
          todo,          \* per thread, records it has still to flush
          watching,      \* per monitor: "off", "on", "forcing", "stopped"
          initModule, isfirstaction, isfirstrecord,
          bStop, stop_flags,
          shape,         \* what the parser has made of the file
          flushed,       \* records given to ToFile (history)
          written        \* records in the file (history)

flagVars == <<initModule, isfirstaction, isfirstrecord>>
stopVars == <<bStop, stop_flags>>
fileVars == <<shape, flushed, written>>
vars == <<run, pc, pos, lock, todo, watching, flagVars, stopVars, fileVars>>

Actions == run.actions
Current == Actions[pos]

Init ==
    /\ run \in Runs
    /\ pc = "next" /\ pos = 1
    /\ lock = NoThread
    /\ todo = [t \in Threads |-> 0]
    /\ watching = [m \in Monitors |-> "off"]
    /\ initModule = TRUE /\ isfirstaction = TRUE /\ isfirstrecord = TRUE
    /\ bStop = FALSE /\ stop_flags = 0
    /\ shape = "empty" /\ flushed = 0 /\ written = 0

-----------------------------------------------------------------------------
(* The file.                                                               *)

\* What JSON allows next: <<so far, with a comma, the row, after it>>.
Grammar ==
    {<<"empty", FALSE, "document", "object">>,
     <<"object", FALSE, "list", "array">>, <<"lists", TRUE, "list", "array">>,
     <<"array", FALSE, "record", "records">>,
     <<"records", TRUE, "record", "records">>,
     <<"array", FALSE, "listEnd", "lists">>,
     <<"records", FALSE, "listEnd", "lists">>,
     <<"object", FALSE, "end", "closed">>, <<"lists", FALSE, "end", "closed">>}

Parsed(comma, row) ==
    LET rule == {g \in Grammar : g[1] = shape /\ g[2] = comma /\ g[3] = row}
    IN  IF rule = {} THEN "malformed" ELSE (CHOOSE g \in rule : TRUE)[4]

\* Seeded fault: any stop suppresses the row.
ToFileStopped(comma, row) ==
    \/ bStop /\ UNCHANGED <<shape, written>>
    \/ /\ ~bStop
       /\ shape' = Parsed(comma, row)
       /\ written' = IF row = "record" THEN written + 1 ELSE written

\* ToFile: the row is appended to the file, unless a forced stop suppresses it.
ToFile(comma, row) ==
    \/ bStop /\ stop_flags # 0 /\ UNCHANGED <<shape, written>>
    \/ /\ ~bStop \/ stop_flags = 0
       /\ shape' = Parsed(comma, row)
       /\ written' = IF row = "record" THEN written + 1 ELSE written

-----------------------------------------------------------------------------
(* LogRecordFlush, in any thread.                                          *)

\* A record is written, after a comma unless it is the first (or -a is given).
Row(t) ==
    /\ todo[t] > 0
    /\ todo' = [todo EXCEPT ![t] = @ - 1]
    /\ ToFile(run.append \/ ~isfirstrecord, "record")
    /\ flushed' = flushed + 1
    /\ UNCHANGED <<run, pc, pos, watching, flagVars, stopVars>>

\* Seeded fault: the mutex is not waited for.
FlushUnlocked(t) == Row(t) /\ lock' = t

\* The mutex is taken, the record written ...
Flush(t) == Row(t) /\ lock = NoThread /\ lock' = t

\* Seeded fault: the mutex is not released.
FlushEndsLocked(t) ==
    /\ lock = t /\ isfirstrecord
    /\ isfirstrecord' = FALSE
    /\ UNCHANGED <<run, pc, pos, lock, todo, watching, initModule, isfirstaction,
                   stopVars, fileVars>>

\* ... it is the first no more, and the mutex is released.
FlushEnds(t) ==
    /\ lock = t /\ lock' = NoThread
    /\ isfirstrecord' = FALSE
    /\ UNCHANGED <<run, pc, pos, todo, watching, initModule, isfirstaction,
                   stopVars, fileVars>>

\* A record above the log level is dropped.
FlushIgnored(t) ==
    /\ todo[t] > 0
    /\ lock = NoThread
    /\ todo' = [todo EXCEPT ![t] = @ - 1]
    /\ UNCHANGED <<run, pc, pos, lock, watching, flagVars, stopVars, fileVars>>

Flushed(t) == todo[t] = 0 /\ lock # t

-----------------------------------------------------------------------------
(* Main: do_yaml and the actions.                                          *)

\* A row of main's own, under the mutex.
MainWrites(comma, row, to) ==
    /\ lock = NoThread
    /\ ToFile(comma, row)
    /\ pc' = to
    /\ UNCHANGED <<run, lock, todo, watching, stopVars, flushed>>

MainGoes(to) ==
    /\ pc' = to
    /\ UNCHANGED <<run, lock, todo, watching, stopVars, fileVars>>

\* The next action, or the end of the list, or a stop that was requested.
NextAction ==
    /\ pc = "next"
    /\ \/ pos > Len(Actions) /\ MainGoes("end")
       \/ pos <= Len(Actions) /\ bStop /\ MainGoes("terminate")
       \/ /\ pos <= Len(Actions) /\ ~bStop
          /\ MainGoes(IF Current.list THEN "document" ELSE "act")
    /\ UNCHANGED <<pos, flagVars>>

\* JsonActionStartNodeCreate: the first action opens the document ...
OpenDocument ==
    /\ pc = "document"
    /\ \/ initModule /\ MainWrites(FALSE, "document", "reset")
       \/ ~initModule /\ MainGoes("reset")
    /\ initModule' = FALSE
    /\ UNCHANGED <<pos, isfirstaction, isfirstrecord>>

\* ... isfirstrecord_m is set, without the mutex ...
ResetFirst ==
    /\ pc = "reset"
    /\ MainGoes("list")
    /\ isfirstrecord' = TRUE
    /\ UNCHANGED <<pos, initModule, isfirstaction>>

\* ... and the action's list is opened.
OpenList ==
    /\ pc = "list"
    /\ MainWrites(~isfirstaction, "list", "act")
    /\ isfirstaction' = FALSE
    /\ UNCHANGED <<pos, initModule, isfirstrecord>>

\* The action runs: its workers are started ...
StartWorkers ==
    /\ pc = "act" /\ Current.does = "work"
    /\ todo' = [t \in Threads |-> IF t \in Workers THEN MaxRecords ELSE todo[t]]
    /\ pc' = "join"
    /\ UNCHANGED <<run, pos, lock, watching, flagVars, stopVars, fileVars>>

\* ... and joined.
JoinWorkers ==
    /\ pc = "join"
    /\ \A w \in Workers : Flushed(w)
    /\ MainGoes("close") /\ UNCHANGED <<pos, flagVars>>

\* It fails, and its list is left open.
FailAction ==
    /\ pc = "act" /\ Current.does = "fail"
    /\ MainGoes("next") /\ pos' = pos + 1
    /\ UNCHANGED flagVars

\* Worker::stop of a monitor: pesm's thread has records about what it saw to
\* flush, gm's may flush its samples, and stop() itself flushes the averages.
Signal(m) ==
    /\ watching' = [watching EXCEPT ![m] = "stopped"]
    /\ todo' = IF m = gm THEN [todo EXCEPT ![main] = 1]
                         ELSE [todo EXCEPT ![pesm] = @ + MaxRecords]

\* A monitor action: gm stops a monitor that runs, pesm leaves it alone unless
\* it is to be stopped ...
Monitor ==
    /\ pc = "act"
    /\ \E m \in Monitors :
         /\ Current.does \in (IF m = gm THEN {"gmOn", "gmOff"} ELSE {"pesmOn", "pesmOff"})
         /\ \/ /\ watching[m] # "off"
               /\ m = gm \/ Current.does = "pesmOff"
               /\ Signal(m) /\ pc' = "joinMonitor"
            \/ /\ watching[m] # "off" /\ Current.does = "pesmOn"
               /\ pc' = "close" /\ UNCHANGED <<todo, watching>>
            \/ /\ watching[m] = "off" /\ Current.does \in {"gmOn", "pesmOn"}
               /\ watching' = [watching EXCEPT ![m] = "on"]
               /\ todo' = [todo EXCEPT ![m] = IF m = gm THEN MaxRecords ELSE 1]
               /\ pc' = "close"
            \/ /\ watching[m] = "off" /\ Current.does \in {"gmOff", "pesmOff"}
               /\ pc' = "close" /\ UNCHANGED <<todo, watching>>
    /\ UNCHANGED <<run, pos, lock, flagVars, stopVars, fileVars>>

\* ... and waits for it to end: gm then starts anew.
JoinMonitor ==
    /\ pc \in {"joinMonitor", "joinLast"}
    /\ Flushed(main)
    /\ \E m \in Monitors :
         /\ watching[m] = "stopped" /\ Flushed(m)
         /\ watching' = [watching EXCEPT ![m] = "off"]
    /\ pc' = IF pc = "joinLast" THEN "terminate" ELSE "act"
    /\ UNCHANGED <<run, pos, lock, todo, flagVars, stopVars, fileVars>>

\* Seeded fault: the next action is skipped.
CloseListSkips ==
    /\ pc = "close"
    /\ \/ Current.list /\ MainWrites(FALSE, "listEnd", "next")
       \/ ~Current.list /\ MainGoes("next")
    /\ pos' = pos + 2
    /\ UNCHANGED flagVars

\* JsonActionEndNodeCreate.
CloseList ==
    /\ pc = "close"
    /\ \/ Current.list /\ MainWrites(FALSE, "listEnd", "next")
       \/ ~Current.list /\ MainGoes("next")
    /\ pos' = pos + 1
    /\ UNCHANGED flagVars

\* JsonEndNodeCreate, at the end of the list of actions.
CloseDocument ==
    /\ pc = "end"
    /\ MainWrites(FALSE, "end", "terminate")
    /\ UNCHANGED <<pos, flagVars>>

\* module::terminate stops the monitors that are left, in the modules' order.
TerminateModules ==
    /\ pc = "terminate"
    /\ \/ \E m \in Monitors :
            /\ watching[m] # "off" /\ (m = gm \/ watching[gm] = "off")
            /\ Signal(m) /\ pc' = "joinLast"
       \/ /\ \A m \in Monitors : watching[m] = "off"
          /\ pc' = "done" /\ UNCHANGED <<todo, watching>>
    /\ UNCHANGED <<run, pos, lock, flagVars, stopVars, fileVars>>

-----------------------------------------------------------------------------
(* A gm monitor that sees a bounds violation and is to terminate the run.  *)

\* Stop(0): processing is to stop, logging goes on.
StopProcessing ==
    /\ watching[gm] = "on"
    /\ bStop' = TRUE
    /\ UNCHANGED <<run, pc, pos, lock, todo, watching, flagVars, stop_flags, fileVars>>

\* Stop(1): bStop first, then the flags ...
ForceStop ==
    /\ \/ /\ watching[gm] = "on"
          /\ watching' = [watching EXCEPT ![gm] = "forcing"]
          /\ bStop' = TRUE /\ UNCHANGED stop_flags
       \/ /\ watching[gm] = "forcing" /\ stop_flags = 0
          /\ stop_flags' = 1 /\ UNCHANGED <<watching, bStop>>
    /\ UNCHANGED <<run, pc, pos, lock, todo, flagVars, fileVars>>

\* ... and exit().
Exit ==
    /\ watching[gm] = "forcing" /\ stop_flags = 1
    /\ pc' = "exited"
    /\ UNCHANGED <<run, pos, lock, todo, watching, flagVars, stopVars, fileVars>>

-----------------------------------------------------------------------------

Main ==
    \/ NextAction \/ OpenDocument \/ ResetFirst \/ OpenList
    \/ StartWorkers \/ JoinWorkers \/ FailAction \/ Monitor \/ JoinMonitor
    \/ CloseList \/ CloseDocument \/ TerminateModules

Record(t) == Flush(t) \/ FlushEnds(t) \/ FlushIgnored(t)

Ended == pc \in {"done", "exited"}

Next ==
    \/ ~Ended /\ (Main \/ StopProcessing \/ ForceStop \/ Exit)
    \/ ~Ended /\ \E t \in Threads : Record(t)
    \/ Ended /\ UNCHANGED vars

Spec == Init /\ [][Next]_vars

\* Main and every thread that has something to flush are scheduled.
Fairness ==
    /\ WF_vars(~Ended /\ Main)
    /\ \A t \in Threads : SF_vars(~Ended /\ Record(t))
    /\ WF_vars(~Ended /\ watching[gm] = "forcing" /\ (ForceStop \/ Exit))

FairSpec == Spec /\ Fairness
-----------------------------------------------------------------------------

TypeOK ==
    /\ run \in Runs
    /\ pc \in {"next", "document", "reset", "list", "act", "join", "joinMonitor",
               "close", "end", "terminate", "joinLast", "done", "exited"}
    /\ pos \in 1..(Len(Actions) + 1)
    /\ lock \in Threads \union {NoThread}
    /\ todo \in [Threads -> Nat]
    /\ watching \in [Monitors -> {"off", "on", "forcing", "stopped"}]
    /\ initModule \in BOOLEAN /\ isfirstaction \in BOOLEAN
    /\ isfirstrecord \in BOOLEAN /\ bStop \in BOOLEAN /\ stop_flags \in {0, 1}
    /\ shape \in {g[1] : g \in Grammar} \union {"closed", "malformed"}
    /\ flushed \in Nat /\ written \in Nat

\* Without -a, and with actions, of which there is one at least (the end of the
\* document is written whether or not an action opened it), that open a list and
\* are done with their threads when they close it ...
Orderly ==
    /\ ~run.append /\ Len(Actions) > 0
    /\ \A i \in 1..Len(Actions) : Actions[i] = [list |-> TRUE, does |-> "work"]

\* ... the file parses as JSON at any moment, whatever the workers' order and
\* the records the log level drops, and is complete at the end
\* (isfirstrecord_m and isfirstaction_m against json_log_mutex).
WellFormed ==
    Orderly => /\ shape # "malformed"
               /\ pc = "done" => shape = "closed"

\* Unless a stop was forced every record that was to be written is in the
\* file, those after Stop(0) as well (ToFile against bStop and stop_flags).
RecordsKept == stop_flags = 0 => written = flushed

\* The run ends: nobody waits for ever for the mutex or a monitor.
RunEnds == <>Ended
=============================================================================
