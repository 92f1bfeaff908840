------------------------------ MODULE Session ------------------------------
(***************************************************************************)
(* The session API of librvs and the executor behind it.                   *)
(*                                                                         *)
(* Application threads (Clients) call rvs_initialize, rvs_session_create,  *)
(* rvs_session_set_property, rvs_session_execute, rvs_session_destroy and  *)
(* rvs_terminate.  Every call holds rvs_mutex from its first check to its  *)
(* return; all but rvs_session_execute are one step here.  Execute runs    *)
(* rvs::exec::run in the caller's thread: it loads the modules and walks   *)
(* the actions of the configuration (rvs::exec::do_yaml).  While it does,  *)
(* the monitor threads that pesm and gm actions leave behind run on, and   *)
(* report to the session through the same rvs_callback, which takes no     *)
(* lock.  rvs_callback writes the session's state, then calls the          *)
(* application: two steps.                                                 *)
(*                                                                         *)
(* The handshake by which a monitor thread is started and stopped is       *)
(* abstracted to a flag here; module Monitor opens it.                     *)
(***************************************************************************)
EXTENDS Naturals, Sequences

CONSTANTS Clients,      \* application threads
          NoClient,     \* the holder of a free rvs_mutex
          MaxSessions,  \* RVS_MAX_SESSIONS
          Confs         \* the configurations an application may execute

\* What exec::run finds at the path (or in the string) of a configuration.
FileKinds == {"ok", "missing", "noModules", "unparsable", "noActions"}

\* What do_yaml meets in one entry of "actions": an action that passes or
\* fails, one whose module, object or if1 interface cannot be had, one with
\* a property that is refused, one that makes yaml-cpp throw, and the actions
\* that start and stop the pesm and gm (terminate: true) monitors.
ActionKinds == {"pass", "fail", "badModule", "badProperty", "throw",
                "pesmOn", "pesmOff", "gmOn", "gmOff"}

Conf == [file : FileKinds, actions : Seq(ActionKinds)]

ASSUME ClientsAssumption  == NoClient \notin Clients
ASSUME SessionsAssumption == MaxSessions \in Nat \ {0}
ASSUME ConfsAssumption    == Confs \subseteq Conf
ASSUME NamesAssumption    == Clients \cap {"gm", "pesm", "none"} = {}

Slots    == 1..MaxSessions
Ids      == 0..MaxSessions     \* session identifiers; 0 is never handed out
Monitors == {"gm", "pesm"}
Threads  == Clients \cup Monitors
NoResult == [status |-> "none", state |-> "none", s |-> 0]
NoConf   == [file |-> "none", actions |-> <<>>]   \* a zeroed property
IdleSlot == [id |-> 0, state |-> "IDLE", callback |-> FALSE,
             executor |-> FALSE, conf |-> NoConf]
NoRun    == [pc |-> "idle", s |-> 1, i |-> 0, sts |-> 0, join |-> "none"]
NoWorker == [pc |-> "none", brun |-> FALSE, s |-> 1]

VARIABLES initialized,  \* rvs_state = RVS_STATE_INITIALIZED
          mutex,        \* the holder of rvs_mutex
          sess,         \* rvs_session[]
          run,          \* per client, the execution it is in
          mon,          \* per monitor module, its pworker thread
          cb,           \* per thread, the result it is about to hand over
          bStop,        \* logger's "stop was requested"
          told,         \* per slot, the last result the application got of
                        \* the current execution (history)
          ret           \* per client, the status of its last call

vars == <<initialized, mutex, sess, run, mon, cb, bStop, told, ret>>

Init ==
    /\ initialized = FALSE
    /\ mutex = NoClient
    /\ sess = [s \in Slots |-> IdleSlot]
    /\ run = [c \in Clients |-> NoRun]
    /\ mon = [m \in Monitors |-> NoWorker]
    /\ cb = [t \in Threads |-> NoResult]
    /\ bStop = FALSE
    /\ told = [s \in Slots |-> NoResult]
    /\ ret = [c \in Clients |-> "none"]

-----------------------------------------------------------------------------
(* The API calls that are one critical section.                            *)

Returns(c, status) == ret' = [ret EXCEPT ![c] = status]

\* c is between calls and gets the mutex.
Enters(c) == run[c].pc = "idle" /\ mutex = NoClient

\* The call returns an error and changes nothing.
Refused(c, status) ==
    /\ Returns(c, status)
    /\ UNCHANGED <<initialized, mutex, sess, run, mon, cb, bStop, told>>

\* rvs_validate_session: the first slot that carries the identifier.
Found(id) == {s \in Slots : /\ sess[s].id = id
                            /\ \A t \in Slots : sess[t].id = id => s <= t}

\* A NULL argument, refused before the mutex is taken.
NullArgument(c) ==
    /\ run[c].pc = "idle"
    /\ Refused(c, "INVALID_ARGUMENT")

Initialize(c) ==
    /\ Enters(c)
    /\ \/ initialized /\ Refused(c, "INVALID_STATE")
       \/ /\ ~initialized
          /\ initialized' = TRUE
          /\ sess' = [s \in Slots |-> IdleSlot]
          /\ told' = [s \in Slots |-> NoResult]
          /\ Returns(c, "SUCCESS")
          /\ UNCHANGED <<mutex, run, mon, cb, bStop>>

Terminate(c) ==
    /\ Enters(c)
    /\ \/ ~initialized /\ Refused(c, "INVALID_STATE")
       \/ /\ initialized
          /\ initialized' = FALSE
          /\ Returns(c, "SUCCESS")
          /\ UNCHANGED <<mutex, sess, run, mon, cb, bStop, told>>

\* rvs_get_session_instance takes the first idle slot.
Create(c) ==
    /\ Enters(c)
    /\ \/ ~initialized /\ Refused(c, "INVALID_STATE")
       \/ /\ initialized
          /\ \A s \in Slots : sess[s].state # "IDLE"
          /\ Refused(c, "FAILED")
       \/ /\ initialized
          /\ \E s \in Slots :
                /\ sess[s].state = "IDLE"
                /\ \A t \in Slots : sess[t].state = "IDLE" => s <= t
                /\ sess' = [sess EXCEPT ![s].id = s,
                                        ![s].state = "CREATED",
                                        ![s].callback = TRUE]
                /\ told' = [told EXCEPT ![s] = NoResult]
          /\ Returns(c, "SUCCESS")
          /\ UNCHANGED <<initialized, mutex, run, mon, cb, bStop>>

\* The checks that set_property, execute and destroy start with: the
\* library's state, then the session identifier.
Unusable(c, id) ==
    \/ ~initialized /\ Refused(c, "INVALID_STATE")
    \/ initialized /\ Found(id) = {} /\ Refused(c, "INVALID_SESSION")

SetProperty(c, id, conf) ==
    /\ Enters(c)
    /\ \/ Unusable(c, id)
       \/ initialized /\ Found(id) # {} /\ Refused(c, "INVALID_ARGUMENT") \* type
       \/ \E s \in Found(id) :
             /\ initialized
             /\ sess[s].state \notin {"CREATED", "COMPLETED"}
             /\ Refused(c, "INVALID_SESSION_STATE")
       \/ \E s \in Found(id) :
             /\ initialized
             /\ sess[s].state \in {"CREATED", "COMPLETED"}
             /\ sess' = [sess EXCEPT ![s].state = "READY", ![s].conf = conf]
             /\ Returns(c, "SUCCESS")
             /\ UNCHANGED <<initialized, mutex, run, mon, cb, bStop, told>>

\* Seeded fault: the identifier of a destroyed session is not cleared.
DestroyKeepsId(c, id) ==
    /\ Enters(c)
    /\ \/ Unusable(c, id)
       \/ \E s \in Found(id) :
             /\ initialized
             /\ sess[s].state # "INPROGRESS"
             /\ sess' = [sess EXCEPT ![s] = [IdleSlot EXCEPT !.id = id]]
             /\ Returns(c, "SUCCESS")
             /\ UNCHANGED <<initialized, mutex, run, mon, cb, bStop, told>>

Destroy(c, id) ==
    /\ Enters(c)
    /\ \/ Unusable(c, id)
       \/ \E s \in Found(id) :
             /\ initialized
             /\ sess[s].state = "INPROGRESS"
             /\ Refused(c, "INVALID_SESSION_STATE")
       \/ \E s \in Found(id) :
             /\ initialized
             /\ sess[s].state # "INPROGRESS"
             /\ sess' = [sess EXCEPT ![s] = IdleSlot]
             /\ Returns(c, "SUCCESS")
             /\ UNCHANGED <<initialized, mutex, run, mon, cb, bStop, told>>

\* The first part of rvs_session_execute; the mutex stays held.
Execute(c, id) ==
    /\ Enters(c)
    /\ \/ Unusable(c, id)
       \/ \E s \in Found(id) :
             /\ initialized
             /\ sess[s].state # "READY"
             /\ Refused(c, "INVALID_SESSION_STATE")
       \/ \E s \in Found(id) :
             /\ initialized
             /\ sess[s].state = "READY"
             /\ mutex' = c
             /\ sess' = [sess EXCEPT ![s].state = "INITIATED",
                                     ![s].executor = TRUE]
             /\ run' = [run EXCEPT ![c] = [NoRun EXCEPT !.pc = "run", !.s = s]]
             /\ told' = [told EXCEPT ![s] = NoResult]
             /\ Returns(c, "none")
             /\ UNCHANGED <<initialized, mon, cb, bStop>>

-----------------------------------------------------------------------------
(* rvs_callback, in the thread that reports.                               *)

\* Seeded fault: status and state are mixed up.
PostSwapped(t, s, status, state) ==
    /\ sess' = [sess EXCEPT ![s].state = status]
    /\ cb' = [cb EXCEPT ![t] = [status |-> status, state |-> state, s |-> s]]

\* Thread t reports to slot s: rvs_callback writes the session's state ...
Post(t, s, status, state) ==
    /\ sess' = [sess EXCEPT ![s].state = state]
    /\ cb' = [cb EXCEPT ![t] = [status |-> status, state |-> state, s |-> s]]

\* ... and calls the application.
Deliver(t) ==
    /\ cb[t] # NoResult
    /\ told' = [told EXCEPT ![cb[t].s] = cb[t]]
    /\ cb' = [cb EXCEPT ![t] = NoResult]
    /\ UNCHANGED <<initialized, mutex, sess, run, mon, bStop, ret>>

-----------------------------------------------------------------------------
(* rvs::exec::run and do_yaml, in the thread of client c.                  *)

\* c executes at pc, and is neither inside the application's callback nor
\* waiting for a monitor thread.
At(c, pc) == /\ run[c].pc = pc
             /\ cb[c] = NoResult
             /\ run[c].join = "none"

Actions(c) == sess[run[c].s].conf.actions
Kind(c)    == Actions(c)[run[c].i]

Goes(c, pc, sts) == run' = [run EXCEPT ![c].pc = pc, ![c].sts = sts]

\* On to the next action of the list.
NextAction(c) == run' = [run EXCEPT ![c].pc = "action", ![c].i = @ + 1]

\* exec::run up to do_yaml: the configuration file and .rvsmodules.config.
\* Nothing has been loaded when one is missing, and run returns at once.
Prepare(c) ==
    /\ At(c, "run")
    /\ LET file == sess[run[c].s].conf.file
       IN  \/ file \in {"missing", "noModules"} /\ Goes(c, "return", 1)
           \/ file \notin {"missing", "noModules"} /\ Goes(c, "yaml", 0)
    /\ UNCHANGED <<initialized, mutex, sess, mon, cb, bStop, told, ret>>

\* do_yaml loads the document and looks for its "actions".
LoadYaml(c) ==
    /\ At(c, "yaml")
    /\ LET file == sess[run[c].s].conf.file
       IN  \/ file \in {"unparsable", "noActions"} /\ Goes(c, "terminate", 1)
           \/ file = "ok" /\ NextAction(c)
    /\ UNCHANGED <<initialized, mutex, sess, mon, cb, bStop, told, ret>>

\* Seeded fault: a list that ends well leaves without rvs::module::terminate.
EndWithoutTerminate(c) ==
    /\ At(c, "action")
    /\ run[c].i > Len(Actions(c))
    /\ Post(c, run[c].s, "SUCCESS", "COMPLETED")
    /\ Goes(c, "return", 0)
    /\ UNCHANGED <<initialized, mutex, mon, bStop, told, ret>>

\* The loop over the actions is over: the session is reported completed.
EndOfActions(c) ==
    /\ At(c, "action")
    /\ run[c].i > Len(Actions(c))
    /\ Post(c, run[c].s, "SUCCESS", "COMPLETED")
    /\ Goes(c, "terminate", 0)
    /\ UNCHANGED <<initialized, mutex, mon, bStop, told, ret>>

\* One turn of the loop up to pif1->run(), or out of the loop.
BeginAction(c) ==
    /\ At(c, "action")
    /\ run[c].i \in 1..Len(Actions(c))
    /\ \/ /\ bStop \/ Kind(c) = "badModule"
          /\ Post(c, run[c].s, "FAILED", "COMPLETED")
          /\ Goes(c, "terminate", 1)
       \/ /\ Kind(c) = "throw" \/ (~bStop /\ Kind(c) = "badProperty")
          /\ Goes(c, "terminate", 1)
          /\ UNCHANGED <<sess, cb>>
       \/ /\ ~bStop
          /\ Kind(c) \notin {"badModule", "badProperty", "throw"}
          /\ Goes(c, "body", 0)
          /\ UNCHANGED <<sess, cb>>
    /\ UNCHANGED <<initialized, mutex, mon, bStop, told, ret>>

\* An action reports a result of its own (exec::callback turns every one
\* into RVS_SESSION_STATE_INPROGRESS).
Progress(c) ==
    /\ At(c, "body")
    /\ Kind(c) \in {"pass", "fail"}
    /\ \E status \in {"SUCCESS", "FAILED"} : Post(c, run[c].s, status, "INPROGRESS")
    /\ UNCHANGED <<initialized, mutex, run, mon, bStop, told, ret>>

\* The action returns; a failed one is reported and the loop goes on.
EndAction(c) ==
    /\ At(c, "body")
    /\ \/ Kind(c) = "pass" /\ UNCHANGED <<sess, cb>>
       \/ Kind(c) = "fail" /\ Post(c, run[c].s, "FAILED", "COMPLETED")
    /\ NextAction(c)
    /\ UNCHANGED <<initialized, mutex, mon, bStop, told, ret>>

\* Seeded fault: the thread is waited for, but not told to stop.
StopWorkerUnsignalled(c, m) ==
    /\ run' = [run EXCEPT ![c].join = m]
    /\ UNCHANGED mon

\* pworker->stop(): signal the thread, then wait for it.
StopWorker(c, m) ==
    /\ mon' = [mon EXCEPT ![m].brun = FALSE]
    /\ run' = [run EXCEPT ![c].join = m]

\* The thread has ended: join returns, pworker is deleted.
Join(c) ==
    /\ run[c].join \in Monitors
    /\ mon[run[c].join].pc = "exited"
    /\ cb[run[c].join] = NoResult
    /\ mon' = [mon EXCEPT ![run[c].join] = NoWorker]
    /\ run' = [run EXCEPT ![c].join = "none"]
    /\ UNCHANGED <<initialized, mutex, sess, cb, bStop, told, ret>>

StartWorker(c, m) ==
    mon' = [mon EXCEPT ![m] = [pc |-> "loop", brun |-> TRUE, s |-> run[c].s]]

\* pesm_action::run
PesmAction(c) ==
    /\ At(c, "body")
    /\ \/ /\ Kind(c) = "pesmOn" /\ mon["pesm"].pc = "none"
          /\ StartWorker(c, "pesm")
          /\ NextAction(c)
       \/ /\ Kind(c) = "pesmOn" /\ mon["pesm"].pc # "none"  \* already started
          /\ NextAction(c)
          /\ UNCHANGED mon
       \/ /\ Kind(c) = "pesmOff" /\ mon["pesm"].pc # "none"
          /\ StopWorker(c, "pesm")
       \/ /\ Kind(c) = "pesmOff" /\ mon["pesm"].pc = "none"
          /\ NextAction(c)
          /\ UNCHANGED mon
    /\ UNCHANGED <<initialized, mutex, sess, cb, bStop, told, ret>>

\* gm_action::run: a running monitor is stopped first in either case.
GmAction(c) ==
    /\ At(c, "body")
    /\ Kind(c) \in {"gmOn", "gmOff"}
    /\ \/ /\ mon["gm"].pc # "none"
          /\ StopWorker(c, "gm")
          /\ UNCHANGED <<sess, cb>>
       \/ /\ mon["gm"].pc = "none" /\ Kind(c) = "gmOn"
          /\ StartWorker(c, "gm")
          /\ Post(c, run[c].s, "SUCCESS", "INPROGRESS")
          /\ NextAction(c)
       \/ /\ mon["gm"].pc = "none" /\ Kind(c) = "gmOff"
          /\ Post(c, run[c].s, "FAILED", "INPROGRESS")
          /\ NextAction(c)
          /\ UNCHANGED mon
    /\ UNCHANGED <<initialized, mutex, bStop, told, ret>>

\* rvs::module::terminate: every loaded module stops its worker, in the
\* order of modulemap; then run returns to rvs_session_execute.
TerminateModules(c) ==
    /\ At(c, "terminate")
    /\ \/ \E m \in Monitors :
             /\ mon[m].pc # "none"
             /\ m = "gm" \/ mon["gm"].pc = "none"
             /\ StopWorker(c, m)
       \/ /\ \A m \in Monitors : mon[m].pc = "none"
          /\ Goes(c, "return", run[c].sts)
          /\ UNCHANGED mon
    /\ UNCHANGED <<initialized, mutex, sess, cb, bStop, told, ret>>

\* Seeded fault: what run() returned is dropped.
ReturnsIgnoringStatus(c) ==
    /\ At(c, "return")
    /\ Returns(c, IF bStop THEN "FAILED" ELSE "SUCCESS")
    /\ run' = [run EXCEPT ![c] = NoRun]
    /\ mutex' = NoClient
    /\ UNCHANGED <<initialized, sess, mon, cb, bStop, told>>

\* Seeded fault: a requested stop does not count as a failure.
ReturnsIgnoringStop(c) ==
    /\ At(c, "return")
    /\ Returns(c, IF run[c].sts # 0 THEN "FAILED" ELSE "SUCCESS")
    /\ run' = [run EXCEPT ![c] = NoRun]
    /\ mutex' = NoClient
    /\ UNCHANGED <<initialized, sess, mon, cb, bStop, told>>

\* Seeded fault: the mutex is not given back.
ReturnsLocked(c) ==
    /\ At(c, "return")
    /\ Returns(c, IF run[c].sts # 0 \/ bStop THEN "FAILED" ELSE "SUCCESS")
    /\ run' = [run EXCEPT ![c] = NoRun]
    /\ UNCHANGED <<initialized, mutex, sess, mon, cb, bStop, told>>

ExecuteReturns(c) ==
    /\ At(c, "return")
    /\ Returns(c, IF run[c].sts # 0 \/ bStop THEN "FAILED" ELSE "SUCCESS")
    /\ run' = [run EXCEPT ![c] = NoRun]
    /\ mutex' = NoClient
    /\ UNCHANGED <<initialized, sess, mon, cb, bStop, told>>

-----------------------------------------------------------------------------
(* The monitor threads.                                                    *)

\* One pass over the devices is over.
PassEnds(m) ==
    /\ mon[m].pc = "pass" /\ cb[m] = NoResult
    /\ mon' = [mon EXCEPT ![m].pc = "loop"]
    /\ UNCHANGED <<initialized, mutex, sess, run, cb, bStop, told, ret>>

\* Worker::run of pesm: while brun it passes over the devices and reports the
\* changes it sees; it reports its end.
PesmWorker ==
    \/ PassEnds("pesm")
    \/ /\ cb["pesm"] = NoResult
       /\ \/ /\ mon["pesm"].pc = "loop" /\ mon["pesm"].brun
             /\ mon' = [mon EXCEPT !["pesm"].pc = "pass"]
             /\ UNCHANGED <<sess, cb>>
          \/ /\ mon["pesm"].pc = "pass"
             /\ Post("pesm", mon["pesm"].s, "SUCCESS", "INPROGRESS")
             /\ UNCHANGED mon
          \/ /\ mon["pesm"].pc = "loop" /\ ~mon["pesm"].brun
             /\ Post("pesm", mon["pesm"].s, "SUCCESS", "INPROGRESS")
             /\ mon' = [mon EXCEPT !["pesm"].pc = "exited"]
       /\ UNCHANGED <<initialized, mutex, run, bStop, told, ret>>

\* Worker::run of gm: a bounds violation met in a pass is reported, then
\* Stop(0) is called; the pass is carried through.
GmWorker ==
    \/ PassEnds("gm")
    \/ /\ cb["gm"] = NoResult
       /\ \/ /\ mon["gm"].pc = "loop"
             /\ mon' = [mon EXCEPT !["gm"].pc =
                           IF mon["gm"].brun THEN "pass" ELSE "exited"]
             /\ UNCHANGED <<sess, cb, bStop>>
          \/ /\ mon["gm"].pc = "pass"
             /\ Post("gm", mon["gm"].s, "SUCCESS", "INPROGRESS")
             /\ mon' = [mon EXCEPT !["gm"].pc = "violation"]
             /\ UNCHANGED bStop
          \/ /\ mon["gm"].pc = "violation"
             /\ bStop' = TRUE
             /\ mon' = [mon EXCEPT !["gm"].pc = "pass", !["gm"].brun = FALSE]
             /\ UNCHANGED <<sess, cb>>
       /\ UNCHANGED <<initialized, mutex, run, told, ret>>

-----------------------------------------------------------------------------

Call(c) ==
    \/ NullArgument(c) \/ Initialize(c) \/ Terminate(c) \/ Create(c)
    \/ \E id \in Ids : \/ Execute(c, id)
                       \/ Destroy(c, id)
                       \/ \E conf \in Confs : SetProperty(c, id, conf)

Exec(c) ==
    \/ Prepare(c) \/ LoadYaml(c) \/ EndOfActions(c) \/ BeginAction(c)
    \/ Progress(c) \/ EndAction(c) \/ PesmAction(c) \/ GmAction(c)
    \/ Join(c) \/ TerminateModules(c) \/ ExecuteReturns(c)

Next ==
    \/ \E c \in Clients : Call(c) \/ Exec(c)
    \/ \E t \in Threads : Deliver(t)
    \/ PesmWorker \/ GmWorker

Spec == Init /\ [][Next]_vars

\* Every thread of the process is scheduled; an action's run() ends (it may
\* report as often as it likes before, hence the strong fairness of EndAction,
\* which the reports in between disable), and so does a monitor's pass.
Fairness ==
    /\ \A c \in Clients :
          /\ WF_vars(Prepare(c) \/ LoadYaml(c) \/ EndOfActions(c)
                     \/ BeginAction(c) \/ PesmAction(c) \/ GmAction(c)
                     \/ Join(c) \/ TerminateModules(c) \/ ExecuteReturns(c))
          /\ SF_vars(EndAction(c))
    /\ \A t \in Threads : WF_vars(Deliver(t))
    /\ WF_vars(PesmWorker) /\ WF_vars(GmWorker)
    /\ \A m \in Monitors : SF_vars(PassEnds(m))

FairSpec == Spec /\ Fairness
-----------------------------------------------------------------------------
(* Properties.                                                             *)

Results == [status : {"none", "SUCCESS", "FAILED"},
            state  : {"none", "INPROGRESS", "COMPLETED"},
            s      : 0..MaxSessions]

States == {"IDLE", "CREATED", "READY", "INITIATED", "INPROGRESS", "COMPLETED"}

Sessions == [id : Ids, state : States, callback : BOOLEAN, executor : BOOLEAN,
             conf : Confs \cup {NoConf}]

Runs == [pc : {"idle", "run", "yaml", "action", "body", "terminate", "return"},
         s : Slots, i : Nat, sts : {0, 1}, join : Monitors \cup {"none"}]

Workers == [pc : {"none", "loop", "pass", "violation", "exited"},
            brun : BOOLEAN, s : Slots]

Statuses == {"none", "SUCCESS", "FAILED", "INVALID_ARGUMENT", "INVALID_STATE",
             "INVALID_SESSION", "INVALID_SESSION_STATE"}

\* The types of the variables.
TypeOK ==
    /\ initialized \in BOOLEAN
    /\ mutex \in Clients \cup {NoClient}
    /\ sess \in [Slots -> Sessions]
    /\ run \in [Clients -> Runs]
    /\ mon \in [Monitors -> Workers]
    /\ cb \in [Threads -> Results]
    /\ bStop \in BOOLEAN
    /\ told \in [Slots -> Results]
    /\ ret \in [Clients -> Statuses]

Executing(c) == run[c].pc # "idle"

\* A session is being executed exactly while its caller holds rvs_mutex, so
\* two executions never overlap although each takes many steps
\* (rvs_interface.cpp:166-244).
OneExecution == \A c \in Clients : Executing(c) <=> mutex = c

\* Slot s can be reported to: its executor exists, the application's callback
\* is set, the library is initialized and the slot is in use.
Reportable(s) ==
    /\ initialized
    /\ sess[s].id = s /\ sess[s].callback /\ sess[s].executor
    /\ \E c \in Clients : Executing(c) /\ run[c].s = s

\* No thread ever reports to a session that is gone: whatever a pesm or gm
\* thread still holds (a pointer to the executor, a user parameter) is valid,
\* because the modules are terminated before the execution that started the
\* thread returns, on each of its paths that loaded one (rvsexec.cpp:520-533).
NoDanglingReport ==
    /\ \A t \in Threads : cb[t] # NoResult => Reportable(cb[t].s)
    /\ \A m \in Monitors : mon[m].pc # "none" => Reportable(mon[m].s)

\* The fields of a slot agree: the identifier 0 and no callback mark exactly
\* the idle slots, and a session from READY on has a property to execute.
SlotsConsistent ==
    \A s \in Slots :
       /\ sess[s].id = (IF sess[s].state = "IDLE" THEN 0 ELSE s)
       /\ sess[s].callback <=> sess[s].state # "IDLE"
       /\ sess[s].state \notin {"IDLE", "CREATED"} => sess[s].conf \in Confs
       /\ sess[s].state \in {"INITIATED", "INPROGRESS"} => sess[s].executor

\* Between the calls of all the application's threads, one of which may hold rvs_mutex
\* for a whole execution, the slots stay consistent and one execution is under way.
ApiGuarded == OneExecution /\ SlotsConsistent

\* The sessions live the life that module SessionLifecycle describes.
Lifecycle == INSTANCE SessionLifecycle
                WITH state <- [s \in Slots |-> sess[s].state],
                     busy  <- {run[c].s : c \in {d \in Clients : Executing(d)}}
ImplementsLifecycle == Lifecycle!LifecycleSpec

\* Execution of c returns in this step.
Ends(c) == run[c].pc = "return" /\ run'[c].pc = "idle"

\* When rvs_session_execute returns SUCCESS the session is COMPLETED, and the
\* last thing the application was told is that it was, successfully.  (For
\* configurations that stop the monitors they start.)
SuccessMeansCompleted ==
    [][\A c \in Clients :
          Ends(c) /\ ret'[c] = "SUCCESS" =>
             /\ sess'[run[c].s].state = "COMPLETED"
             /\ told[run[c].s] = [status |-> "SUCCESS", state |-> "COMPLETED",
                                  s |-> run[c].s]]_vars

\* An execution during which a stop was requested by the gm monitor fails,
\* even when every action passed; and it starts no action any more.
StopFailsExecution ==
    [][\A c \in Clients :
          bStop => /\ Ends(c) => ret'[c] = "FAILED"
                   /\ run[c].pc = "action" => run'[c].pc # "body"]_vars

\* Every execution comes to an end and gives the mutex back.
ExecutionEnds == \A c \in Clients : Executing(c) ~> ~Executing(c)
=============================================================================
