--------------------------- MODULE Session_proof ---------------------------
(***************************************************************************)
(* Proofs about Session, for any set of clients, any number of sessions    *)
(* and any set of configurations.                                          *)
(***************************************************************************)
EXTENDS Session, TLAPS

LEMMA ConstantTypes ==
    /\ Slots \subseteq Ids /\ 1 \in Slots /\ 0 \notin Slots
    /\ IdleSlot \in Sessions
    /\ NoRun \in Runs
    /\ NoWorker \in Workers
    /\ NoResult \in Results
    /\ \A st \in {"SUCCESS", "FAILED"}, e \in {"INPROGRESS", "COMPLETED"},
          s \in Slots : [status |-> st, state |-> e, s |-> s] \in Results
<1>1. Slots \subseteq Ids /\ 1 \in Slots /\ 0 \in Ids /\ 0 \notin Slots
  BY SessionsAssumption DEF Slots, Ids
<1>2. IdleSlot \in Sessions
  BY <1>1 DEF IdleSlot, Sessions, States
<1>3. NoRun \in Runs /\ NoWorker \in Workers
  BY <1>1 DEF NoRun, Runs, NoWorker, Workers
<1>4. NoResult \in Results
  BY SessionsAssumption DEF NoResult, Results
<1>5. \A st \in {"SUCCESS", "FAILED"}, e \in {"INPROGRESS", "COMPLETED"},
         s \in Slots : [status |-> st, state |-> e, s |-> s] \in Results
  BY <1>1 DEF Results, Ids
<1>. QED  BY <1>1, <1>2, <1>3, <1>4, <1>5

-----------------------------------------------------------------------------
(* Type correctness.                                                       *)

LEMMA TypeInit == Init => TypeOK
<1>. SUFFICES ASSUME Init PROVE TypeOK
  OBVIOUS
<1>1. sess \in [Slots -> Sessions] /\ run \in [Clients -> Runs]
  BY ConstantTypes DEF Init
<1>2. mon \in [Monitors -> Workers] /\ cb \in [Threads -> Results]
  BY ConstantTypes DEF Init
<1>3. told \in [Slots -> Results] /\ ret \in [Clients -> Statuses]
  BY ConstantTypes DEF Init, Statuses
<1>. QED  BY <1>1, <1>2, <1>3 DEF TypeOK, Init

\* A refused call changes only the caller's status.
LEMMA TypeRefused ==
  ASSUME TypeOK, NEW c \in Clients, NEW st \in Statuses, Refused(c, st)
  PROVE  TypeOK'
  BY DEF TypeOK, Refused, Returns

\* What a call makes of the record of a slot is a record of a slot.
LEMMA UpdatedRecord ==
  ASSUME NEW r \in Sessions, NEW st \in States
  PROVE  /\ \A i \in Ids :
               [r EXCEPT !.id = i, !.state = st, !.callback = TRUE] \in Sessions
         /\ [r EXCEPT !.state = st, !.executor = TRUE] \in Sessions
         /\ \A c \in Confs : [r EXCEPT !.state = st, !.conf = c] \in Sessions
<1>1. \A i \in Ids :
         [r EXCEPT !.id = i, !.state = st, !.callback = TRUE] \in Sessions
  BY DEF Sessions
<1>2. [r EXCEPT !.state = st, !.executor = TRUE] \in Sessions
  BY DEF Sessions
<1>3. \A c \in Confs : [r EXCEPT !.state = st, !.conf = c] \in Sessions
  BY DEF Sessions
<1>. QED  BY <1>1, <1>2, <1>3

\* A call changes the record of one slot.
LEMMA UpdatedSlot ==
  ASSUME TypeOK, NEW s \in Slots, NEW r \in Sessions,
         sess' = [sess EXCEPT ![s] = r]
  PROVE  sess' \in [Slots -> Sessions]
  BY DEF TypeOK

\* A report changes the state of one slot and the reporter's pending result.
LEMMA TypePost ==
  ASSUME TypeOK, NEW t \in Threads, NEW s \in Slots,
         NEW st \in {"SUCCESS", "FAILED"}, NEW e \in {"INPROGRESS", "COMPLETED"},
         Post(t, s, st, e)
  PROVE  sess' \in [Slots -> Sessions] /\ cb' \in [Threads -> Results]
<1>1. sess' \in [Slots -> Sessions]
  BY DEF TypeOK, Post, Sessions, States
<1>2. cb' \in [Threads -> Results]
  BY ConstantTypes DEF TypeOK, Post
<1>. QED  BY <1>1, <1>2

LEMMA TypeInitialize ==
  ASSUME TypeOK, NEW c \in Clients, Initialize(c)
  PROVE  TypeOK'
<1>1. CASE Refused(c, "INVALID_STATE")
  BY <1>1, TypeRefused DEF Statuses
<1>2. CASE ~Refused(c, "INVALID_STATE")
  <2>1. /\ sess' \in [Slots -> Sessions]
        /\ told' \in [Slots -> Results]
        /\ ret' \in [Clients -> Statuses]
    BY <1>2, ConstantTypes DEF Initialize, TypeOK, Returns, Statuses
  <2>. QED  BY <1>2, <2>1 DEF Initialize, TypeOK
<1>. QED  BY <1>1, <1>2

LEMMA TypeTerminate ==
  ASSUME TypeOK, NEW c \in Clients, Terminate(c)
  PROVE  TypeOK'
<1>1. CASE Refused(c, "INVALID_STATE")
  BY <1>1, TypeRefused DEF Statuses
<1>2. CASE ~Refused(c, "INVALID_STATE")
  BY <1>2 DEF Terminate, TypeOK, Returns, Statuses
<1>. QED  BY <1>1, <1>2

LEMMA TypeCreate ==
  ASSUME TypeOK, NEW c \in Clients, Create(c)
  PROVE  TypeOK'
<1>1. CASE Refused(c, "INVALID_STATE") \/ Refused(c, "FAILED")
  BY <1>1, TypeRefused DEF Statuses
<1>2. CASE ~(Refused(c, "INVALID_STATE") \/ Refused(c, "FAILED"))
  <2>1. PICK s \in Slots :
           /\ sess' = [sess EXCEPT ![s].id = s, ![s].state = "CREATED",
                                   ![s].callback = TRUE]
           /\ told' = [told EXCEPT ![s] = NoResult]
           /\ Returns(c, "SUCCESS")
           /\ UNCHANGED <<initialized, mutex, run, mon, cb, bStop>>
    BY <1>2 DEF Create
  <2>2. sess' \in [Slots -> Sessions]
    <3>1. PICK r \in Sessions : r = sess[s]
      BY DEF TypeOK
    <3>2. "CREATED" \in States
      BY DEF States
    <3>3. [r EXCEPT !.id = s, !.state = "CREATED", !.callback = TRUE] \in Sessions
      BY <3>2, ConstantTypes, UpdatedRecord
    <3>4. sess' = [sess EXCEPT ![s] = [r EXCEPT !.id = s, !.state = "CREATED", !.callback = TRUE]]
      BY <2>1, <3>1
    <3>. QED  BY <3>3, <3>4, UpdatedSlot
  <2>3. told' \in [Slots -> Results]
    BY <2>1, ConstantTypes DEF TypeOK
  <2>4. ret' \in [Clients -> Statuses]
    BY <2>1 DEF TypeOK, Returns, Statuses
  <2>. QED  BY <2>1, <2>2, <2>3, <2>4 DEF TypeOK
<1>. QED  BY <1>1, <1>2

LEMMA TypeExecute ==
  ASSUME TypeOK, NEW c \in Clients, NEW id \in Ids, Execute(c, id)
  PROVE  TypeOK'
<1>1. CASE Unusable(c, id) \/ Refused(c, "INVALID_SESSION_STATE")
  BY <1>1, TypeRefused DEF Unusable, Statuses
<1>2. CASE ~(Unusable(c, id) \/ Refused(c, "INVALID_SESSION_STATE"))
  <2>1. PICK s \in Slots :
           /\ mutex' = c
           /\ sess' = [sess EXCEPT ![s].state = "INITIATED",
                                   ![s].executor = TRUE]
           /\ run' = [run EXCEPT ![c] = [NoRun EXCEPT !.pc = "run", !.s = s]]
           /\ told' = [told EXCEPT ![s] = NoResult]
           /\ Returns(c, "none")
           /\ UNCHANGED <<initialized, mon, cb, bStop>>
    BY <1>2 DEF Execute, Found
  <2>2. sess' \in [Slots -> Sessions]
    <3>1. PICK r \in Sessions : r = sess[s]
      BY DEF TypeOK
    <3>2. "INITIATED" \in States
      BY DEF States
    <3>3. [r EXCEPT !.state = "INITIATED", !.executor = TRUE] \in Sessions
      BY <3>2, UpdatedRecord
    <3>4. sess' = [sess EXCEPT ![s] = [r EXCEPT !.state = "INITIATED", !.executor = TRUE]]
      BY <2>1, <3>1
    <3>. QED  BY <3>3, <3>4, UpdatedSlot
  <2>3. run' \in [Clients -> Runs]
    BY <2>1, ConstantTypes DEF TypeOK, Runs, NoRun
  <2>4. told' \in [Slots -> Results] /\ ret' \in [Clients -> Statuses]
    BY <2>1, ConstantTypes DEF TypeOK, Returns, Statuses
  <2>. QED  BY <2>1, <2>2, <2>3, <2>4 DEF TypeOK
<1>. QED  BY <1>1, <1>2

LEMMA TypeDestroy ==
  ASSUME TypeOK, NEW c \in Clients, NEW id \in Ids, Destroy(c, id)
  PROVE  TypeOK'
<1>1. CASE Unusable(c, id) \/ Refused(c, "INVALID_SESSION_STATE")
  BY <1>1, TypeRefused DEF Unusable, Statuses
<1>2. CASE ~(Unusable(c, id) \/ Refused(c, "INVALID_SESSION_STATE"))
  <2>1. PICK s \in Slots :
           /\ sess' = [sess EXCEPT ![s] = IdleSlot]
           /\ Returns(c, "SUCCESS")
           /\ UNCHANGED <<initialized, mutex, run, mon, cb, bStop, told>>
    BY <1>2 DEF Destroy, Found
  <2>. QED  BY <2>1, ConstantTypes DEF TypeOK, Returns, Statuses
<1>. QED  BY <1>1, <1>2

LEMMA TypeSetProperty ==
  ASSUME TypeOK, NEW c \in Clients, NEW id \in Ids, NEW conf \in Confs,
         SetProperty(c, id, conf)
  PROVE  TypeOK'
<1>1. CASE \/ Unusable(c, id) \/ Refused(c, "INVALID_ARGUMENT")
           \/ Refused(c, "INVALID_SESSION_STATE")
  BY <1>1, TypeRefused DEF Unusable, Statuses
<1>2. CASE ~ \/ Unusable(c, id) \/ Refused(c, "INVALID_ARGUMENT")
             \/ Refused(c, "INVALID_SESSION_STATE")
  <2>1. PICK s \in Slots :
           /\ sess' = [sess EXCEPT ![s].state = "READY", ![s].conf = conf]
           /\ Returns(c, "SUCCESS")
           /\ UNCHANGED <<initialized, mutex, run, mon, cb, bStop, told>>
    BY <1>2 DEF SetProperty, Found
  <2>2. sess' \in [Slots -> Sessions]
    <3>1. PICK r \in Sessions : r = sess[s]
      BY DEF TypeOK
    <3>2. "READY" \in States
      BY DEF States
    <3>3. [r EXCEPT !.state = "READY", !.conf = conf] \in Sessions
      BY <3>2, UpdatedRecord
    <3>4. sess' = [sess EXCEPT ![s] = [r EXCEPT !.state = "READY", !.conf = conf]]
      BY <2>1, <3>1
    <3>. QED  BY <3>3, <3>4, UpdatedSlot
  <2>3. ret' \in [Clients -> Statuses]
    BY <2>1 DEF TypeOK, Returns, Statuses
  <2>. QED  BY <2>1, <2>2, <2>3 DEF TypeOK
<1>. QED  BY <1>1, <1>2

LEMMA TypeCall ==
  ASSUME TypeOK, NEW c \in Clients, Call(c)
  PROVE  TypeOK'
<1>1. CASE NullArgument(c)
  BY <1>1, TypeRefused DEF NullArgument, Statuses
<1>2. CASE Initialize(c) \/ Terminate(c) \/ Create(c)
  BY <1>2, TypeInitialize, TypeTerminate, TypeCreate
<1>3. ASSUME NEW id \in Ids, Execute(c, id) \/ Destroy(c, id)
      PROVE  TypeOK'
  BY <1>3, TypeExecute, TypeDestroy
<1>4. ASSUME NEW id \in Ids, NEW conf \in Confs, SetProperty(c, id, conf)
      PROVE  TypeOK'
  BY <1>4, TypeSetProperty
<1>. QED  BY <1>1, <1>2, <1>3, <1>4 DEF Call

LEMMA TypeGoes ==
  ASSUME TypeOK, NEW c \in Clients, NEW pc \in {"yaml", "body", "terminate", "return"},
         NEW sts \in {0, 1}, Goes(c, pc, sts)
  PROVE  run' \in [Clients -> Runs]
<1>1. run[c] \in Runs
  BY DEF TypeOK
<1>2. [run[c] EXCEPT !.pc = pc, !.sts = sts] \in Runs
  BY <1>1 DEF Runs
<1>. QED  BY <1>2 DEF TypeOK, Goes

LEMMA TypeNextAction ==
  ASSUME TypeOK, NEW c \in Clients, NextAction(c)
  PROVE  run' \in [Clients -> Runs]
  BY DEF TypeOK, NextAction, Runs

LEMMA TypeStopWorker ==
  ASSUME TypeOK, NEW c \in Clients, NEW m \in Monitors, StopWorker(c, m)
  PROVE  run' \in [Clients -> Runs] /\ mon' \in [Monitors -> Workers]
<1>1. run[c] \in Runs /\ mon[m] \in Workers
  BY DEF TypeOK
<1>2. [run[c] EXCEPT !.join = m] \in Runs
  BY <1>1 DEF Runs
<1>3. [mon[m] EXCEPT !.brun = FALSE] \in Workers
  BY <1>1 DEF Workers
<1>. QED  BY <1>2, <1>3 DEF TypeOK, StopWorker

LEMMA TypeStartWorker ==
  ASSUME TypeOK, NEW c \in Clients, NEW m \in Monitors, StartWorker(c, m)
  PROVE  mon' \in [Monitors -> Workers]
  BY DEF TypeOK, StartWorker, Runs, Workers

LEMMA TypeExec ==
  ASSUME TypeOK, NEW c \in Clients, Exec(c)
  PROVE  TypeOK'
<1>t. c \in Threads /\ run[c].s \in Slots /\ run[c].sts \in {0, 1}
  BY DEF TypeOK, Threads, Runs
<1>m. "gm" \in Monitors /\ "pesm" \in Monitors
  BY DEF Monitors
<1>1. CASE Prepare(c)
  <2>1. run' \in [Clients -> Runs]
    BY <1>1, TypeGoes DEF Prepare
  <2>. QED  BY <1>1, <2>1 DEF Prepare, TypeOK
<1>2. CASE LoadYaml(c)
  <2>1. run' \in [Clients -> Runs]
    BY <1>2, TypeGoes, TypeNextAction DEF LoadYaml
  <2>. QED  BY <1>2, <2>1 DEF LoadYaml, TypeOK
<1>3. CASE EndOfActions(c)
  <2>1. /\ run' \in [Clients -> Runs]
        /\ sess' \in [Slots -> Sessions] /\ cb' \in [Threads -> Results]
    BY <1>t, <1>3, TypeGoes, TypePost DEF EndOfActions
  <2>. QED  BY <1>3, <2>1 DEF EndOfActions, TypeOK
<1>4. CASE BeginAction(c)
  <2>1. run' \in [Clients -> Runs]
    BY <1>4, TypeGoes DEF BeginAction
  <2>2. sess' \in [Slots -> Sessions] /\ cb' \in [Threads -> Results]
    <3>1. CASE Post(c, run[c].s, "FAILED", "COMPLETED")
      BY <3>1, <1>t, TypePost
    <3>2. CASE UNCHANGED <<sess, cb>>
      BY <3>2 DEF TypeOK
    <3>. QED  BY <1>4, <3>1, <3>2 DEF BeginAction
  <2>. QED  BY <1>4, <2>1, <2>2 DEF BeginAction, TypeOK
<1>5. CASE Progress(c)
  <2>1. sess' \in [Slots -> Sessions] /\ cb' \in [Threads -> Results]
    BY <1>t, <1>5, TypePost DEF Progress
  <2>. QED  BY <1>5, <2>1 DEF Progress, TypeOK
<1>6. CASE EndAction(c)
  <2>1. run' \in [Clients -> Runs]
    BY <1>6, TypeNextAction DEF EndAction
  <2>2. sess' \in [Slots -> Sessions] /\ cb' \in [Threads -> Results]
    <3>1. CASE Post(c, run[c].s, "FAILED", "COMPLETED")
      BY <3>1, <1>t, TypePost
    <3>2. CASE UNCHANGED <<sess, cb>>
      BY <3>2 DEF TypeOK
    <3>. QED  BY <1>6, <3>1, <3>2 DEF EndAction
  <2>. QED  BY <1>6, <2>1, <2>2 DEF EndAction, TypeOK
<1>7. CASE PesmAction(c)
  <2>1. run' \in [Clients -> Runs] /\ mon' \in [Monitors -> Workers]
    <3>1. CASE StopWorker(c, "pesm")
      BY <3>1, <1>m, TypeStopWorker
    <3>2. CASE NextAction(c) /\ (StartWorker(c, "pesm") \/ UNCHANGED mon)
      BY <3>2, <1>m, TypeNextAction, TypeStartWorker DEF TypeOK
    <3>. QED  BY <1>7, <3>1, <3>2 DEF PesmAction
  <2>. QED  BY <1>7, <2>1 DEF PesmAction, TypeOK
<1>8. CASE GmAction(c)
  <2>1. run' \in [Clients -> Runs] /\ mon' \in [Monitors -> Workers]
    <3>1. CASE StopWorker(c, "gm")
      BY <3>1, <1>m, TypeStopWorker
    <3>2. CASE NextAction(c) /\ (StartWorker(c, "gm") \/ UNCHANGED mon)
      BY <3>2, <1>m, TypeNextAction, TypeStartWorker DEF TypeOK
    <3>. QED  BY <1>8, <3>1, <3>2 DEF GmAction
  <2>2. sess' \in [Slots -> Sessions] /\ cb' \in [Threads -> Results]
    <3>1. CASE \E st \in {"SUCCESS", "FAILED"} : Post(c, run[c].s, st, "INPROGRESS")
      BY <3>1, <1>t, TypePost
    <3>2. CASE UNCHANGED <<sess, cb>>
      BY <3>2 DEF TypeOK
    <3>. QED  BY <1>8, <3>1, <3>2 DEF GmAction
  <2>. QED  BY <1>8, <2>1, <2>2 DEF GmAction, TypeOK
<1>9. CASE Join(c)
  <2>1. run' \in [Clients -> Runs]
    BY <1>9 DEF Join, TypeOK, Runs
  <2>2. mon' \in [Monitors -> Workers]
    BY <1>9, ConstantTypes DEF Join, TypeOK
  <2>. QED  BY <1>9, <2>1, <2>2 DEF Join, TypeOK
<1>10. CASE TerminateModules(c)
  <2>1. run' \in [Clients -> Runs] /\ mon' \in [Monitors -> Workers]
    <3>1. CASE \E m \in Monitors : StopWorker(c, m)
      BY <3>1, TypeStopWorker
    <3>2. CASE Goes(c, "return", run[c].sts) /\ UNCHANGED mon
      BY <3>2, <1>t, TypeGoes DEF TypeOK
    <3>. QED  BY <1>10, <3>1, <3>2 DEF TerminateModules
  <2>. QED  BY <1>10, <2>1 DEF TerminateModules, TypeOK
<1>11. CASE ExecuteReturns(c)
  <2>1. run' \in [Clients -> Runs] /\ ret' \in [Clients -> Statuses]
    BY <1>11, ConstantTypes DEF ExecuteReturns, Returns, TypeOK, Statuses
  <2>. QED  BY <1>11, <2>1 DEF ExecuteReturns, TypeOK
<1>. QED  BY <1>1, <1>2, <1>3, <1>4, <1>5, <1>6, <1>7, <1>8, <1>9, <1>10,
             <1>11 DEF Exec

LEMMA TypeOther ==
  ASSUME TypeOK, PesmWorker \/ GmWorker \/ \E t \in Threads : Deliver(t)
  PROVE  TypeOK'
<1>m. /\ "gm" \in Monitors /\ "pesm" \in Monitors
      /\ "gm" \in Threads /\ "pesm" \in Threads
      /\ mon["gm"].s \in Slots /\ mon["pesm"].s \in Slots
  BY DEF Monitors, Threads, TypeOK, Workers
<1>1. CASE PesmWorker
  <2>1. sess' \in [Slots -> Sessions] /\ cb' \in [Threads -> Results]
    <3>1. CASE Post("pesm", mon["pesm"].s, "SUCCESS", "INPROGRESS")
      BY <3>1, <1>m, TypePost
    <3>2. CASE UNCHANGED <<sess, cb>>
      BY <3>2 DEF TypeOK
    <3>. QED  BY <1>1, <3>1, <3>2 DEF PesmWorker, PassEnds
  <2>2. mon' \in [Monitors -> Workers]
    BY <1>1, <1>m DEF PesmWorker, PassEnds, TypeOK, Workers
  <2>. QED  BY <1>1, <2>1, <2>2 DEF PesmWorker, PassEnds, TypeOK
<1>2. CASE GmWorker
  <2>1. sess' \in [Slots -> Sessions] /\ cb' \in [Threads -> Results]
    <3>1. CASE Post("gm", mon["gm"].s, "SUCCESS", "INPROGRESS")
      BY <3>1, <1>m, TypePost
    <3>2. CASE UNCHANGED <<sess, cb>>
      BY <3>2 DEF TypeOK
    <3>. QED  BY <1>2, <3>1, <3>2 DEF GmWorker, PassEnds
  <2>2. mon' \in [Monitors -> Workers]
    BY <1>2, <1>m DEF GmWorker, PassEnds, TypeOK, Workers
  <2>3. bStop' \in BOOLEAN
    BY <1>2 DEF GmWorker, PassEnds, TypeOK
  <2>. QED  BY <1>2, <2>1, <2>2, <2>3 DEF GmWorker, PassEnds, TypeOK
<1>3. ASSUME NEW t \in Threads, Deliver(t)
      PROVE  TypeOK'
  <2>1. told' \in [Slots -> Results] /\ cb' \in [Threads -> Results]
    BY <1>3, ConstantTypes DEF Deliver, TypeOK
  <2>. QED  BY <1>3, <2>1 DEF Deliver, TypeOK
<1>. QED  BY <1>1, <1>2, <1>3

\* Every variable keeps its type, whatever the calls, the reports and the
\* monitor threads do in whatever order.
THEOREM TypeCorrect == Spec => []TypeOK
<1>1. TypeOK /\ [Next]_vars => TypeOK'
  <2>1. TypeOK /\ UNCHANGED vars => TypeOK'
    BY DEF TypeOK, vars
  <2>. QED  BY <2>1, TypeCall, TypeExec, TypeOther DEF Next
<1>. QED  BY <1>1, TypeInit, PTL DEF Spec
-----------------------------------------------------------------------------
(* The safety invariants.                                                  *)

\* Slot s belongs to a session whose executor and callback exist.
Live(s) ==
    /\ initialized
    /\ sess[s].id = s /\ sess[s].callback /\ sess[s].executor
    /\ sess[s].state \in {"INITIATED", "INPROGRESS", "COMPLETED"}

\* The execution of c has loaded modules and not yet terminated them.
Loaded(c) == run[c].pc \in {"action", "body", "terminate"}

\* What is executed is live; a monitor thread runs only inside the execution
\* that owns it; a thread reports only to the session it works for.
RunsLive      == \A c \in Clients : Executing(c) => Live(run[c].s)
MonitorsOwned == \A m \in Monitors : mon[m].pc # "none" =>
                    \E c \in Clients : Loaded(c) /\ run[c].s = mon[m].s
ReportsOwned  ==
    /\ \A m \in Monitors : cb[m] # NoResult =>
          mon[m].pc # "none" /\ cb[m].s = mon[m].s
    /\ \A c \in Clients : cb[c] # NoResult => Loaded(c) /\ cb[c].s = run[c].s

\* Only an execution waits for a monitor thread.
JoinsInside == \A c \in Clients : run[c].join # "none" => Executing(c)

\* The inductive invariant.
SessionInv ==
    /\ TypeOK
    /\ OneExecution
    /\ SlotsConsistent
    /\ RunsLive
    /\ MonitorsOwned
    /\ ReportsOwned
    /\ JoinsInside

LEMMA SessionInvInit == Init => SessionInv
<1>. SUFFICES ASSUME Init PROVE SessionInv
  OBVIOUS
<1>1. TypeOK
  BY TypeInit
<1>2. OneExecution /\ RunsLive /\ JoinsInside
  BY ClientsAssumption DEF Init, OneExecution, RunsLive, JoinsInside, Executing, NoRun
<1>3. SlotsConsistent
  BY DEF Init, SlotsConsistent, IdleSlot
<1>4. MonitorsOwned /\ ReportsOwned
  BY DEF Init, MonitorsOwned, ReportsOwned, NoWorker, Threads
<1>. QED  BY <1>1, <1>2, <1>3, <1>4 DEF SessionInv

\* NoDanglingReport follows from the ownership of threads and reports.
LEMMA OwnedIsReportable == SessionInv => NoDanglingReport
<1>. SUFFICES ASSUME SessionInv PROVE NoDanglingReport
  OBVIOUS
<1>1. \A c \in Clients : Loaded(c) => Reportable(run[c].s)
  BY DEF SessionInv, RunsLive, Live, Reportable, Loaded, Executing
<1>2. \A m \in Monitors : mon[m].pc # "none" => Reportable(mon[m].s)
  BY <1>1 DEF SessionInv, MonitorsOwned
<1>3. \A t \in Threads : cb[t] # NoResult => Reportable(cb[t].s)
  BY <1>1, <1>2 DEF SessionInv, ReportsOwned, Threads
<1>. QED  BY <1>2, <1>3 DEF NoDanglingReport

\* A step that does at most report: of the slots only the state of s changes,
\* and only to a state a report carries.
AtMostReports(s) ==
    /\ UNCHANGED initialized
    /\ \A u \in Slots :
          /\ sess'[u].id = sess[u].id /\ sess'[u].callback = sess[u].callback
          /\ sess'[u].executor = sess[u].executor /\ sess'[u].conf = sess[u].conf
          /\ \/ sess'[u].state = sess[u].state
             \/ u = s /\ sess'[u].state \in {"INPROGRESS", "COMPLETED"}

LEMMA PostReports ==
  ASSUME TypeOK, UNCHANGED initialized, NEW t \in Threads, NEW s \in Slots,
         NEW st, NEW e \in {"INPROGRESS", "COMPLETED"}, Post(t, s, st, e)
  PROVE  AtMostReports(s)
  BY DEF TypeOK, Post, AtMostReports, Sessions

\* Reporting to the slot of an execution keeps the slots consistent and live.
LEMMA ReportsKeepSlots ==
  ASSUME SessionInv, NEW c \in Clients, Executing(c), AtMostReports(run[c].s)
  PROVE  /\ SlotsConsistent'
         /\ \A u \in Slots : Live(u) => Live(u)'
<1>1. Live(run[c].s) /\ run[c].s \in Slots
  BY DEF SessionInv, RunsLive, TypeOK, Runs
<1>2. \A u \in Slots : Live(u) => Live(u)'
  BY DEF AtMostReports, Live
<1>3. SlotsConsistent'
  <2>. SUFFICES ASSUME NEW u \in Slots
                PROVE  /\ sess'[u].id = (IF sess'[u].state = "IDLE" THEN 0 ELSE u)
                       /\ sess'[u].callback <=> sess'[u].state # "IDLE"
                       /\ sess'[u].state \notin {"IDLE", "CREATED"} => sess'[u].conf \in Confs
                       /\ sess'[u].state \in {"INITIATED", "INPROGRESS"} => sess'[u].executor
    BY DEF SlotsConsistent
  <2>1. CASE sess'[u].state = sess[u].state
    BY <2>1 DEF AtMostReports, SessionInv, SlotsConsistent
  <2>2. CASE u = run[c].s /\ sess'[u].state \in {"INPROGRESS", "COMPLETED"}
    BY <2>2, <1>1 DEF AtMostReports, SessionInv, SlotsConsistent, Live
  <2>. QED  BY <2>1, <2>2 DEF AtMostReports
<1>. QED  BY <1>2, <1>3

\* A step of c's execution that does not end it: only c's record of it and
\* its session's state change.
Continues(c) ==
    /\ UNCHANGED mutex
    /\ Executing(c) /\ run'[c].pc # "idle"
    /\ run'[c].s = run[c].s
    /\ \A d \in Clients \ {c} : run'[d] = run[d]
    /\ AtMostReports(run[c].s)

LEMMA ContinuesKeeps ==
  ASSUME SessionInv, NEW c \in Clients, Continues(c)
  PROVE  OneExecution' /\ SlotsConsistent' /\ RunsLive' /\ JoinsInside'
<1>1. OneExecution' /\ JoinsInside'
  BY DEF Continues, SessionInv, OneExecution, JoinsInside, Executing
<1>2. SlotsConsistent'
  BY ReportsKeepSlots DEF Continues
<1>3. RunsLive'
  BY ReportsKeepSlots DEF Continues, SessionInv, RunsLive, Executing, TypeOK, Runs
<1>. QED  BY <1>1, <1>2, <1>3
\* Between two executions no thread is left that could report.
LEMMA QuietBetweenRuns ==
  ASSUME SessionInv, mutex = NoClient
  PROVE  /\ \A c \in Clients : ~Executing(c)
         /\ \A m \in Monitors : mon[m].pc = "none"
         /\ \A t \in Threads : cb[t] = NoResult
<1>1. \A c \in Clients : ~Executing(c) /\ ~Loaded(c)
  BY ClientsAssumption DEF SessionInv, OneExecution, Executing, Loaded
<1>2. \A m \in Monitors : mon[m].pc = "none"
  BY <1>1 DEF SessionInv, MonitorsOwned
<1>3. \A t \in Threads : cb[t] = NoResult
  BY <1>1, <1>2 DEF SessionInv, ReportsOwned, Threads
<1>. QED  BY <1>1, <1>2, <1>3

\* A call between two executions that starts none.
LEMMA QuietCall ==
  ASSUME SessionInv, mutex = NoClient, UNCHANGED <<mutex, run, mon, cb>>
  PROVE  /\ OneExecution' /\ RunsLive' /\ JoinsInside'
         /\ MonitorsOwned' /\ ReportsOwned'
  BY QuietBetweenRuns
     DEF SessionInv, OneExecution, RunsLive, JoinsInside, MonitorsOwned,
         ReportsOwned, Executing, Threads

LEMMA RefusedKeeps ==
  ASSUME SessionInv, NEW c \in Clients, NEW st \in Statuses, Refused(c, st)
  PROVE  SessionInv'
<1>1. OneExecution' /\ SlotsConsistent'
  BY DEF SessionInv, Refused, OneExecution, SlotsConsistent, Executing
<1>2. RunsLive' /\ JoinsInside'
  BY DEF SessionInv, Refused, RunsLive, JoinsInside, Executing, Live
<1>3. MonitorsOwned' /\ ReportsOwned'
  BY DEF SessionInv, Refused, MonitorsOwned, ReportsOwned, Loaded
<1>. QED  BY <1>1, <1>2, <1>3, TypeRefused DEF SessionInv

LEMMA CallKeeps ==
  ASSUME SessionInv, NEW c \in Clients, Call(c)
  PROVE  SessionInv'
<1>t. TypeOK /\ TypeOK'
  BY TypeCall DEF SessionInv
<1>1. CASE \E st \in Statuses : Refused(c, st)
  BY <1>1, RefusedKeeps
<1>2. CASE \A st \in Statuses : ~Refused(c, st)
  <2>1. CASE Initialize(c)
    <3>1. /\ mutex = NoClient /\ UNCHANGED <<mutex, run, mon, cb>>
          /\ sess' = [s \in Slots |-> IdleSlot]
      BY <1>2, <2>1 DEF Initialize, Enters, Statuses
    <3>2. SlotsConsistent'
      BY <3>1 DEF SlotsConsistent, IdleSlot
    <3>. QED  BY <1>t, <3>1, <3>2, QuietCall DEF SessionInv
  <2>2. CASE Terminate(c)
    <3>1. mutex = NoClient /\ UNCHANGED <<mutex, run, mon, cb, sess>>
      BY <1>2, <2>2 DEF Terminate, Enters, Statuses
    <3>2. SlotsConsistent'
      BY <3>1 DEF SlotsConsistent, SessionInv
    <3>. QED  BY <1>t, <3>1, <3>2, QuietCall DEF SessionInv
  <2>3. CASE Create(c)
    <3>1. PICK s \in Slots :
             /\ sess[s].state = "IDLE"
             /\ mutex = NoClient /\ UNCHANGED <<mutex, run, mon, cb>>
             /\ sess' = [sess EXCEPT ![s].id = s, ![s].state = "CREATED",
                                     ![s].callback = TRUE]
      BY <1>2, <2>3 DEF Create, Enters, Statuses
    <3>2. sess'[s].id = s /\ sess'[s].state = "CREATED" /\ sess'[s].callback
      BY <1>t, <3>1 DEF TypeOK, Sessions
    <3>3. \A u \in Slots \ {s} : sess'[u] = sess[u]
      BY <1>t, <3>1 DEF TypeOK
    <3>4. SlotsConsistent'
      BY <3>2, <3>3 DEF SlotsConsistent, SessionInv
    <3>. QED  BY <1>t, <3>1, <3>4, QuietCall DEF SessionInv
  <2>4. ASSUME NEW id \in Ids, Destroy(c, id)
        PROVE  SessionInv'
    <3>1. PICK s \in Slots :
             /\ mutex = NoClient /\ UNCHANGED <<mutex, run, mon, cb>>
             /\ sess' = [sess EXCEPT ![s] = IdleSlot]
      BY <1>2, <2>4 DEF Destroy, Enters, Statuses, Found, Unusable
    <3>2. sess'[s] = IdleSlot /\ \A u \in Slots \ {s} : sess'[u] = sess[u]
      BY <1>t, <3>1 DEF TypeOK
    <3>3. SlotsConsistent'
      BY <3>2 DEF SlotsConsistent, SessionInv, IdleSlot
    <3>. QED  BY <1>t, <3>1, <3>3, QuietCall DEF SessionInv
  <2>5. ASSUME NEW id \in Ids, NEW conf \in Confs, SetProperty(c, id, conf)
        PROVE  SessionInv'
    <3>1. PICK s \in Slots :
             /\ sess[s].state \in {"CREATED", "COMPLETED"}
             /\ mutex = NoClient /\ UNCHANGED <<mutex, run, mon, cb>>
             /\ sess' = [sess EXCEPT ![s].state = "READY", ![s].conf = conf]
      BY <1>2, <2>5 DEF SetProperty, Enters, Statuses, Found, Unusable
    <3>2. /\ sess'[s].id = sess[s].id /\ sess'[s].callback = sess[s].callback
          /\ sess'[s].state = "READY" /\ sess'[s].conf = conf
          /\ \A u \in Slots \ {s} : sess'[u] = sess[u]
      BY <1>t, <3>1 DEF TypeOK, Sessions
    <3>a. sess[s].id = s /\ sess[s].callback
      BY <3>1 DEF SlotsConsistent, SessionInv
    <3>b. \A u \in Slots \ {s} :
             /\ sess'[u].id = (IF sess'[u].state = "IDLE" THEN 0 ELSE u)
             /\ sess'[u].callback <=> sess'[u].state # "IDLE"
             /\ sess'[u].state \notin {"IDLE", "CREATED"} => sess'[u].conf \in Confs
             /\ sess'[u].state \in {"INITIATED", "INPROGRESS"} => sess'[u].executor
      BY <3>2 DEF SlotsConsistent, SessionInv
    <3>c. sess'[s].id = s /\ sess'[s].callback /\ sess'[s].conf \in Confs
      BY <3>a, <3>2
    <3>3. SlotsConsistent'
      BY <3>b, <3>c, <3>2 DEF SlotsConsistent
    <3>. QED  BY <1>t, <3>1, <3>3, QuietCall DEF SessionInv
  <2>6. ASSUME NEW id \in Ids, Execute(c, id)
        PROVE  SessionInv'
    <3>1. PICK s \in Slots :
             /\ initialized /\ sess[s].state = "READY"
             /\ mutex = NoClient /\ mutex' = c /\ UNCHANGED <<initialized, mon, cb>>
             /\ sess' = [sess EXCEPT ![s].state = "INITIATED",
                                     ![s].executor = TRUE]
             /\ run' = [run EXCEPT ![c] = [NoRun EXCEPT !.pc = "run", !.s = s]]
      BY <1>2, <2>6 DEF Execute, Enters, Statuses, Found, Unusable
    <3>2. /\ sess'[s].id = sess[s].id /\ sess'[s].callback = sess[s].callback
          /\ sess'[s].state = "INITIATED" /\ sess'[s].conf = sess[s].conf
          /\ sess'[s].executor
          /\ \A u \in Slots \ {s} : sess'[u] = sess[u]
      BY <1>t, <3>1 DEF TypeOK, Sessions
    <3>a. sess[s].id = s /\ sess[s].callback /\ sess[s].conf \in Confs
      BY <3>1 DEF SlotsConsistent, SessionInv
    <3>b. sess'[s].id = s /\ sess'[s].callback /\ sess'[s].conf \in Confs
      BY <3>a, <3>2
    <3>c. \A u \in Slots \ {s} :
             /\ sess'[u].id = (IF sess'[u].state = "IDLE" THEN 0 ELSE u)
             /\ sess'[u].callback <=> sess'[u].state # "IDLE"
             /\ sess'[u].state \notin {"IDLE", "CREATED"} => sess'[u].conf \in Confs
             /\ sess'[u].state \in {"INITIATED", "INPROGRESS"} => sess'[u].executor
      BY <3>2 DEF SlotsConsistent, SessionInv
    <3>3. SlotsConsistent'
      BY <3>b, <3>c, <3>2 DEF SlotsConsistent
    <3>4. /\ run'[c].pc = "run" /\ run'[c].s = s
          /\ \A d \in Clients \ {c} : run'[d] = run[d]
      BY <1>t, <3>1 DEF TypeOK, NoRun
    <3>5. OneExecution'
      BY <3>1, <3>4, QuietBetweenRuns DEF OneExecution, Executing
    <3>6. Live(s)'
      BY <3>1, <3>2, <3>b DEF Live
    <3>7. RunsLive' /\ JoinsInside'
      BY <3>1, <3>4, <3>6, QuietBetweenRuns DEF SessionInv, RunsLive, JoinsInside, Executing
    <3>8. MonitorsOwned' /\ ReportsOwned'
      BY <3>1, QuietBetweenRuns DEF MonitorsOwned, ReportsOwned, Threads
    <3>. QED  BY <1>t, <3>3, <3>5, <3>7, <3>8 DEF SessionInv
  <2>7. CASE NullArgument(c)
    BY <1>2, <2>7 DEF NullArgument, Statuses
  <2>. QED  BY <2>1, <2>2, <2>3, <2>4, <2>5, <2>6, <2>7 DEF Call
<1>. QED  BY <1>1, <1>2
\* How the steps of an execution fit Continues.
LEMMA GoesContinues ==
  ASSUME SessionInv, NEW c \in Clients, UNCHANGED mutex, Executing(c),
         \/ \E pc \in {"yaml", "body", "terminate", "return"}, sts \in {0, 1} :
               Goes(c, pc, sts)
         \/ NextAction(c)
         \/ \E m \in Monitors : StopWorker(c, m)
         \/ UNCHANGED run,
         AtMostReports(run[c].s)
  PROVE  Continues(c)
  BY DEF SessionInv, TypeOK, Runs, Goes, NextAction, StopWorker, Continues, Executing

LEMMA NoReport ==
  ASSUME UNCHANGED <<initialized, sess>>, NEW s
  PROVE  AtMostReports(s)
  BY DEF AtMostReports

LEMMA ExecReports ==
  ASSUME SessionInv, NEW c \in Clients, Exec(c)
  PROVE  AtMostReports(run[c].s)
<1>t. TypeOK /\ run[c].s \in Slots /\ c \in Threads
  BY DEF SessionInv, TypeOK, Runs, Threads
<1>1. UNCHANGED initialized
  BY DEF Exec, Prepare, LoadYaml, EndOfActions, BeginAction, Progress, EndAction,
         PesmAction, GmAction, Join, TerminateModules, ExecuteReturns
<1>2. CASE UNCHANGED sess
  BY <1>1, <1>2, NoReport
<1>3. CASE \E st \in {"SUCCESS", "FAILED"}, e \in {"INPROGRESS", "COMPLETED"} :
             Post(c, run[c].s, st, e)
  BY <1>t, <1>1, <1>3, PostReports
<1>4. \/ UNCHANGED sess
      \/ \E st \in {"SUCCESS", "FAILED"}, e \in {"INPROGRESS", "COMPLETED"} :
            Post(c, run[c].s, st, e)
  BY DEF Exec, Prepare, LoadYaml, EndOfActions, BeginAction, Progress, EndAction,
         PesmAction, GmAction, Join, TerminateModules, ExecuteReturns
<1>. QED  BY <1>2, <1>3, <1>4

\* Every step of an execution but its last continues it.
LEMMA ExecContinues ==
  ASSUME SessionInv, NEW c \in Clients, Exec(c), ~ExecuteReturns(c)
  PROVE  Continues(c)
<1>t. TypeOK /\ run[c] \in Runs
  BY DEF SessionInv, TypeOK
<1>s. run[c].sts \in {0, 1}
  BY <1>t DEF Runs
<1>r. AtMostReports(run[c].s)
  BY ExecReports
<1>1. CASE Join(c)
  <2>1. Executing(c)
    <3>1. run[c].join # "none"
      BY <1>1 DEF Join, Monitors
    <3>. QED  BY <3>1 DEF SessionInv, JoinsInside
  <2>. QED  BY <1>1, <1>t, <1>r, <2>1 DEF Join, Continues, Executing, TypeOK, Runs
<1>2. CASE ~Join(c)
  <2>1. Executing(c) /\ UNCHANGED mutex
    BY <1>2 DEF Exec, Prepare, LoadYaml, EndOfActions, BeginAction, Progress,
           EndAction, PesmAction, GmAction, TerminateModules, At, Executing
  <2>2. \/ \E pc \in {"yaml", "body", "terminate", "return"}, sts \in {0, 1} :
              Goes(c, pc, sts)
        \/ NextAction(c)
        \/ \E m \in Monitors : StopWorker(c, m)
        \/ UNCHANGED run
    BY <1>2, <1>s DEF Exec, Prepare, LoadYaml, EndOfActions, BeginAction, Progress,
           EndAction, PesmAction, GmAction, TerminateModules, Monitors
  <2>. QED  BY <1>r, <2>1, <2>2, GoesContinues
<1>. QED  BY <1>1, <1>2
\* Nobody but c has monitor threads or reports under way while c executes.
LEMMA OnlyOwner ==
  ASSUME SessionInv, NEW c \in Clients, Executing(c)
  PROVE  /\ \A d \in Clients \ {c} : ~Executing(d) /\ cb[d] = NoResult
         /\ \A m \in Monitors : mon[m].pc # "none" => Loaded(c) /\ mon[m].s = run[c].s
<1>1. \A d \in Clients \ {c} : ~Executing(d) /\ ~Loaded(d)
  BY DEF SessionInv, OneExecution, Executing, Loaded
<1>2. \A d \in Clients \ {c} : cb[d] = NoResult
  BY <1>1 DEF SessionInv, ReportsOwned
<1>3. \A m \in Monitors : mon[m].pc # "none" => Loaded(c) /\ mon[m].s = run[c].s
  BY <1>1 DEF SessionInv, MonitorsOwned
<1>. QED  BY <1>1, <1>2, <1>3

\* The monitors change, or c's place in the run does, with no report under way
\* from a thread that is not in the loop.
LEMMA OwnersAfter ==
  ASSUME SessionInv, NEW c \in Clients, Continues(c),
         \A m \in Monitors : mon'[m].pc # "none" => Loaded(c)' /\ mon'[m].s = run[c].s,
         \A m \in Monitors : cb'[m] # NoResult =>
             mon'[m].pc # "none" /\ cb'[m].s = mon'[m].s,
         \A d \in Clients \ {c} : cb'[d] = cb[d],
         cb'[c] # NoResult => Loaded(c)' /\ cb'[c].s = run[c].s
  PROVE  MonitorsOwned' /\ ReportsOwned'
<1>1. \A d \in Clients \ {c} : cb'[d] = NoResult
  BY OnlyOwner DEF Continues
<1>2. ReportsOwned'
  BY <1>1 DEF ReportsOwned, Continues
<1>3. MonitorsOwned'
  BY DEF MonitorsOwned, Continues
<1>. QED  BY <1>2, <1>3
\* The steps of an execution that touch no monitor thread.
LEMMA PlainStep ==
  ASSUME SessionInv, NEW c \in Clients, Continues(c), UNCHANGED mon,
         Loaded(c) => Loaded(c)',
         \/ UNCHANGED cb /\ (cb[c] = NoResult \/ Loaded(c))
         \/ /\ Loaded(c)
            /\ \E st, e : Post(c, run[c].s, st, e)
  PROVE  MonitorsOwned' /\ ReportsOwned'
<1>t. TypeOK /\ c \in Threads /\ Monitors \subseteq Threads /\ Clients \subseteq Threads
  BY DEF SessionInv, Threads
<1>n. c \notin Monitors
  BY NamesAssumption DEF Monitors
<1>1. \A t \in Threads \ {c} : cb'[t] = cb[t]
  BY <1>t DEF Post, TypeOK
<1>2. cb'[c] # NoResult => Loaded(c)' /\ cb'[c].s = run[c].s
  <2>1. CASE UNCHANGED cb
    BY <2>1 DEF SessionInv, ReportsOwned
  <2>2. CASE Loaded(c) /\ \E st, e : Post(c, run[c].s, st, e)
    BY <2>2, <1>t DEF Post, TypeOK
  <2>. QED  BY <2>1, <2>2
<1>3. \A m \in Monitors : mon[m].pc # "none" => Loaded(c)' /\ mon[m].s = run[c].s
  BY OnlyOwner DEF Continues
<1>4. \A m \in Monitors : cb'[m] # NoResult => mon[m].pc # "none" /\ cb'[m].s = mon[m].s
  BY <1>1, <1>t, <1>n DEF SessionInv, ReportsOwned
<1>. QED  BY <1>1, <1>2, <1>3, <1>4, <1>t, OwnersAfter

LEMMA ExecOwners ==
  ASSUME SessionInv, NEW c \in Clients, Exec(c), ~ExecuteReturns(c)
  PROVE  MonitorsOwned' /\ ReportsOwned'
<1>t. TypeOK /\ c \in Threads /\ Monitors \subseteq Threads /\ Continues(c)
  BY ExecContinues DEF SessionInv, Threads
<1>n. c \notin Monitors /\ "gm" \in Monitors /\ "pesm" \in Monitors
  BY NamesAssumption DEF Monitors
<1>o. \A m \in Monitors : mon[m].pc # "none" => Loaded(c) /\ mon[m].s = run[c].s
  BY <1>t, OnlyOwner DEF Continues
<1>1. CASE Prepare(c) \/ LoadYaml(c)
  BY <1>1, <1>t, PlainStep DEF Prepare, LoadYaml, At, Loaded
<1>2. CASE EndOfActions(c)
  <2>1. Loaded(c) /\ Loaded(c)'
    BY <1>2, <1>t DEF EndOfActions, At, Loaded, Goes, TypeOK, Runs
  <2>. QED  BY <1>2, <1>t, <2>1, PlainStep DEF EndOfActions
<1>3. CASE BeginAction(c)
  <2>1. Loaded(c) /\ Loaded(c)'
    BY <1>3, <1>t DEF BeginAction, At, Loaded, Goes, TypeOK, Runs
  <2>. QED  BY <1>3, <1>t, <2>1, PlainStep DEF BeginAction
<1>4. CASE Progress(c)
  <2>1. Loaded(c) /\ Loaded(c)'
    BY <1>4 DEF Progress, At, Loaded
  <2>. QED  BY <1>4, <1>t, <2>1, PlainStep DEF Progress
<1>5. CASE EndAction(c)
  <2>1. Loaded(c) /\ Loaded(c)'
    BY <1>5, <1>t DEF EndAction, At, Loaded, NextAction, TypeOK, Runs
  <2>. QED  BY <1>5, <1>t, <2>1, PlainStep DEF EndAction
<1>6. CASE PesmAction(c) \/ GmAction(c)
  <2>1. Loaded(c) /\ Loaded(c)'
    BY <1>6, <1>t DEF PesmAction, GmAction, At, Loaded, NextAction, StopWorker,
                      TypeOK, Runs
  <2>2. \A m \in Monitors : mon'[m].pc # "none" => mon'[m].s = run[c].s
    BY <1>6, <1>t, <1>n, <1>o
       DEF PesmAction, GmAction, StartWorker, StopWorker, TypeOK, Workers
  <2>3. \A m \in Monitors : mon[m].pc # "none" => mon'[m].pc # "none" /\ mon'[m].s = mon[m].s
    BY <1>6, <1>t, <1>n
       DEF PesmAction, GmAction, StartWorker, StopWorker, TypeOK, Workers
  <2>4. \A t \in Threads \ {c} : cb'[t] = cb[t]
    BY <1>6, <1>t DEF PesmAction, GmAction, Post, TypeOK
  <2>5. cb'[c] # NoResult => cb'[c].s = run[c].s
    BY <1>6, <1>t DEF PesmAction, GmAction, Post, At, TypeOK
  <2>6. \A m \in Monitors : cb'[m] # NoResult =>
             mon'[m].pc # "none" /\ cb'[m].s = mon'[m].s
    BY <1>t, <1>n, <2>3, <2>4 DEF SessionInv, ReportsOwned
  <2>7. \A d \in Clients \ {c} : cb'[d] = cb[d]
    BY <2>4 DEF Threads
  <2>. QED  BY <1>t, <2>1, <2>2, <2>5, <2>6, <2>7, OwnersAfter
<1>7. CASE Join(c)
  <2>1. /\ \A m \in Monitors : mon'[m].pc # "none" => mon'[m] = mon[m]
        /\ \A m \in Monitors : mon[m].pc # "none" /\ cb[m] # NoResult => mon'[m] = mon[m]
    BY <1>7, <1>t DEF Join, TypeOK, NoWorker
  <2>2. run'[c].pc = run[c].pc /\ UNCHANGED cb
    BY <1>7, <1>t DEF Join, TypeOK, Runs
  <2>3. \A m \in Monitors : mon'[m].pc # "none" => Loaded(c)' /\ mon'[m].s = run[c].s
    BY <1>o, <2>1, <2>2 DEF Loaded
  <2>4. \A m \in Monitors : cb'[m] # NoResult =>
             mon'[m].pc # "none" /\ cb'[m].s = mon'[m].s
    BY <2>1, <2>2 DEF SessionInv, ReportsOwned
  <2>5. cb'[c] # NoResult => Loaded(c)' /\ cb'[c].s = run[c].s
    BY <2>2 DEF SessionInv, ReportsOwned, Loaded
  <2>. QED  BY <1>t, <2>2, <2>3, <2>4, <2>5, OwnersAfter
<1>8. CASE TerminateModules(c)
  <2>1. CASE \E m \in Monitors : StopWorker(c, m)
    <3>1. Loaded(c) /\ Loaded(c)'
      BY <1>8, <1>t, <2>1 DEF TerminateModules, At, Loaded, StopWorker, TypeOK, Runs
    <3>2. \A m \in Monitors : mon'[m].pc = mon[m].pc /\ mon'[m].s = mon[m].s
      BY <1>t, <2>1 DEF StopWorker, TypeOK, Workers
    <3>3. UNCHANGED cb /\ cb[c] = NoResult
      BY <1>8 DEF TerminateModules, At
    <3>4. \A m \in Monitors : cb'[m] # NoResult =>
               mon'[m].pc # "none" /\ cb'[m].s = mon'[m].s
      BY <3>2, <3>3 DEF SessionInv, ReportsOwned
    <3>. QED  BY <1>t, <1>o, <3>1, <3>2, <3>3, <3>4, OwnersAfter
  <2>2. CASE /\ \A m \in Monitors : mon[m].pc = "none"
             /\ UNCHANGED mon
    <3>1. UNCHANGED cb /\ cb[c] = NoResult
      BY <1>8 DEF TerminateModules, At
    <3>2. \A m \in Monitors : cb[m] = NoResult
      BY <2>2 DEF SessionInv, ReportsOwned
    <3>. QED  BY <1>t, <2>2, <3>1, <3>2, OwnersAfter
  <2>. QED  BY <1>8, <2>1, <2>2 DEF TerminateModules
<1>. QED  BY <1>1, <1>2, <1>3, <1>4, <1>5, <1>6, <1>7, <1>8 DEF Exec

\* The last step of an execution: nothing of it is left behind.
LEMMA ReturnKeeps ==
  ASSUME SessionInv, NEW c \in Clients, ExecuteReturns(c)
  PROVE  SessionInv'
<1>t. TypeOK /\ TypeOK'
  BY TypeExec DEF SessionInv, Exec
<1>1. /\ Executing(c) /\ ~Loaded(c) /\ cb[c] = NoResult
      /\ UNCHANGED <<initialized, sess, mon, cb>> /\ mutex' = NoClient
      /\ run' = [run EXCEPT ![c] = NoRun]
  BY DEF ExecuteReturns, At, Executing, Loaded
<1>2. /\ \A d \in Clients : ~Executing(d)' /\ run'[d].join = "none"
  <2>1. run'[c] = NoRun /\ \A d \in Clients \ {c} : run'[d] = run[d]
    BY <1>t, <1>1 DEF TypeOK
  <2>2. \A d \in Clients \ {c} : ~Executing(d) /\ run[d].join = "none"
    BY <1>1, OnlyOwner DEF SessionInv, JoinsInside
  <2>. QED  BY <2>1, <2>2 DEF Executing, NoRun
<1>3. /\ \A m \in Monitors : mon[m].pc = "none" /\ cb[m] = NoResult
      /\ \A d \in Clients : cb[d] = NoResult
  <2>1. \A m \in Monitors : mon[m].pc = "none"
    BY <1>1, OnlyOwner
  <2>2. \A m \in Monitors : cb[m] = NoResult
    BY <2>1 DEF SessionInv, ReportsOwned
  <2>3. \A d \in Clients : cb[d] = NoResult
    BY <1>1, OnlyOwner
  <2>. QED  BY <2>1, <2>2, <2>3
<1>4. OneExecution' /\ RunsLive' /\ JoinsInside'
  BY <1>1, <1>2, ClientsAssumption DEF OneExecution, RunsLive, JoinsInside, Executing
<1>5. SlotsConsistent'
  BY <1>1 DEF SessionInv, SlotsConsistent
<1>6. MonitorsOwned' /\ ReportsOwned'
  BY <1>1, <1>3 DEF MonitorsOwned, ReportsOwned
<1>. QED  BY <1>t, <1>4, <1>5, <1>6 DEF SessionInv

LEMMA ExecKeeps ==
  ASSUME SessionInv, NEW c \in Clients, Exec(c)
  PROVE  SessionInv'
<1>1. CASE ExecuteReturns(c)
  BY <1>1, ReturnKeeps
<1>2. CASE ~ExecuteReturns(c)
  <2>1. TypeOK'
    BY TypeExec DEF SessionInv
  <2>2. OneExecution' /\ SlotsConsistent' /\ RunsLive' /\ JoinsInside'
    BY <1>2, ExecContinues, ContinuesKeeps
  <2>3. MonitorsOwned' /\ ReportsOwned'
    BY <1>2, ExecOwners
  <2>. QED  BY <2>1, <2>2, <2>3 DEF SessionInv
<1>. QED  BY <1>1, <1>2

\* A step of monitor thread m that reports at most to the session it works for.
LEMMA MonitorKeeps ==
  ASSUME SessionInv, TypeOK', NEW m \in Monitors,
         mon[m].pc # "none", mon'[m].pc # "none", mon'[m].s = mon[m].s,
         \A n \in Monitors \ {m} : mon'[n] = mon[n],
         UNCHANGED <<mutex, run>>, AtMostReports(mon[m].s),
         \A t \in Threads \ {m} : cb'[t] = cb[t],
         cb'[m] # NoResult => cb'[m].s = mon[m].s
  PROVE  SessionInv'
<1>1. PICK c \in Clients : Loaded(c) /\ run[c].s = mon[m].s
  BY DEF SessionInv, MonitorsOwned
<1>2. Continues(c) /\ Executing(c)
  BY <1>1 DEF Continues, Loaded, Executing
<1>3. OneExecution' /\ SlotsConsistent' /\ RunsLive' /\ JoinsInside'
  BY <1>2, ContinuesKeeps
<1>4. MonitorsOwned'
  <2>1. \A n \in Monitors : mon'[n].pc # "none" => mon[n].pc # "none" /\ mon'[n].s = mon[n].s
    OBVIOUS
  <2>. QED  BY <2>1 DEF SessionInv, MonitorsOwned, Loaded
<1>5. ReportsOwned'
  <2>1. m \notin Clients /\ Clients \subseteq Threads /\ Monitors \subseteq Threads
    BY NamesAssumption DEF Monitors, Threads
  <2>2. \A d \in Clients : cb'[d] # NoResult => Loaded(d)' /\ cb'[d].s = run'[d].s
    BY <2>1 DEF SessionInv, ReportsOwned, Loaded
  <2>3. \A n \in Monitors \ {m} :
           cb'[n] # NoResult => mon'[n].pc # "none" /\ cb'[n].s = mon'[n].s
    BY <2>1 DEF SessionInv, ReportsOwned
  <2>. QED  BY <2>2, <2>3 DEF ReportsOwned
<1>. QED  BY <1>3, <1>4, <1>5 DEF SessionInv

LEMMA WorkersKeep ==
  ASSUME SessionInv, PesmWorker \/ GmWorker
  PROVE  SessionInv'
<1>t. TypeOK /\ TypeOK'
  BY TypeOther DEF SessionInv
<1>m. "gm" \in Monitors /\ "pesm" \in Monitors /\ Monitors \subseteq Threads
  BY DEF Monitors, Threads
<1>s. \A m \in Monitors : mon[m].s \in Slots
  BY <1>t DEF TypeOK, Workers
<1>1. CASE PesmWorker
  <2>1. /\ UNCHANGED initialized
        /\ \/ Post("pesm", mon["pesm"].s, "SUCCESS", "INPROGRESS")
           \/ UNCHANGED <<sess, cb>>
    BY <1>1 DEF PesmWorker, PassEnds
  <2>2. AtMostReports(mon["pesm"].s)
    BY <1>t, <1>m, <1>s, <2>1, PostReports, NoReport
  <2>3. \A t \in Threads \ {"pesm"} : cb'[t] = cb[t]
    BY <1>t, <2>1 DEF Post, TypeOK
  <2>4. cb'["pesm"] # NoResult => cb'["pesm"].s = mon["pesm"].s
    BY <1>1, <1>t, <1>m, <2>1 DEF Post, TypeOK, PesmWorker, PassEnds
  <2>5. /\ mon["pesm"].pc # "none" /\ mon'["pesm"].pc # "none"
        /\ mon'["pesm"].s = mon["pesm"].s
        /\ \A n \in Monitors \ {"pesm"} : mon'[n] = mon[n]
    BY <1>1, <1>t, <1>m DEF PesmWorker, PassEnds, TypeOK, Workers
  <2>6. UNCHANGED <<mutex, run>>
    BY <1>1 DEF PesmWorker, PassEnds
  <2>. QED  BY <1>t, <1>m, <2>2, <2>3, <2>4, <2>5, <2>6, MonitorKeeps
<1>2. CASE GmWorker
  <2>1. /\ UNCHANGED initialized
        /\ \/ Post("gm", mon["gm"].s, "SUCCESS", "INPROGRESS")
           \/ UNCHANGED <<sess, cb>>
    BY <1>2 DEF GmWorker, PassEnds
  <2>2. AtMostReports(mon["gm"].s)
    BY <1>t, <1>m, <1>s, <2>1, PostReports, NoReport
  <2>3. \A t \in Threads \ {"gm"} : cb'[t] = cb[t]
    BY <1>t, <2>1 DEF Post, TypeOK
  <2>4. cb'["gm"] # NoResult => cb'["gm"].s = mon["gm"].s
    BY <1>2, <1>t, <1>m, <2>1 DEF Post, TypeOK, GmWorker, PassEnds
  <2>5. /\ mon["gm"].pc # "none" /\ mon'["gm"].pc # "none"
        /\ mon'["gm"].s = mon["gm"].s
        /\ \A n \in Monitors \ {"gm"} : mon'[n] = mon[n]
    BY <1>2, <1>t, <1>m DEF GmWorker, PassEnds, TypeOK, Workers
  <2>6. UNCHANGED <<mutex, run>>
    BY <1>2 DEF GmWorker, PassEnds
  <2>. QED  BY <1>t, <1>m, <2>2, <2>3, <2>4, <2>5, <2>6, MonitorKeeps
<1>. QED  BY <1>1, <1>2

LEMMA DeliverKeeps ==
  ASSUME SessionInv, NEW t \in Threads, Deliver(t)
  PROVE  SessionInv'
<1>t. TypeOK /\ TypeOK'
  BY TypeOther DEF SessionInv
<1>1. /\ UNCHANGED <<initialized, mutex, sess, run, mon>>
      /\ \A u \in Threads : cb'[u] # NoResult => cb'[u] = cb[u]
  BY <1>t DEF Deliver, TypeOK
<1>2. OneExecution' /\ SlotsConsistent'
  BY <1>1 DEF SessionInv, OneExecution, SlotsConsistent, Executing
<1>3. RunsLive' /\ JoinsInside'
  BY <1>1 DEF SessionInv, RunsLive, JoinsInside, Executing, Live
<1>4. MonitorsOwned' /\ ReportsOwned'
  BY <1>1 DEF SessionInv, MonitorsOwned, ReportsOwned, Loaded, Threads
<1>. QED  BY <1>t, <1>2, <1>3, <1>4 DEF SessionInv

LEMMA StutterKeeps ==
  ASSUME SessionInv, UNCHANGED vars
  PROVE  SessionInv'
<1>1. TypeOK'
  BY DEF SessionInv, TypeOK, vars
<1>2. OneExecution' /\ SlotsConsistent'
  BY DEF SessionInv, OneExecution, SlotsConsistent, Executing, vars
<1>3. RunsLive' /\ JoinsInside'
  BY DEF SessionInv, RunsLive, JoinsInside, Executing, Live, vars
<1>4. MonitorsOwned' /\ ReportsOwned'
  BY DEF SessionInv, MonitorsOwned, ReportsOwned, Loaded, vars
<1>. QED  BY <1>1, <1>2, <1>3, <1>4 DEF SessionInv

\* The ownership of executions, monitor threads and reports holds in every
\* reachable state.
THEOREM SessionInvHolds == Spec => []SessionInv
<1>1. SessionInv /\ [Next]_vars => SessionInv'
  BY CallKeeps, ExecKeeps, WorkersKeep, DeliverKeeps, StutterKeeps DEF Next
<1>. QED  BY <1>1, SessionInvInit, PTL DEF Spec

\* rvs_mutex admits one execution at a time, for all the steps it takes.
THEOREM OneExecutionHolds == Spec => []OneExecution
<1>1. SessionInv => OneExecution
  BY DEF SessionInv
<1>. QED  BY <1>1, SessionInvHolds, PTL

\* The fields of every session slot agree with its state.
THEOREM SlotsConsistentHolds == Spec => []SlotsConsistent
<1>1. SessionInv => SlotsConsistent
  BY DEF SessionInv
<1>. QED  BY <1>1, SessionInvHolds, PTL

\* Whatever the threads of the application call in whatever order, the mutex guards
\* one execution and the slots stay consistent.
THEOREM ApiGuardedHolds == Spec => []ApiGuarded
<1>1. OneExecution /\ SlotsConsistent => ApiGuarded
  BY DEF ApiGuarded
<1>. QED  BY <1>1, OneExecutionHolds, SlotsConsistentHolds, PTL

\* No thread of a pesm or gm monitor, and no execution, ever reports to a
\* session that is not there: terminating the modules before the execution
\* returns is enough, on every path.
THEOREM NoDanglingReportHolds == Spec => []NoDanglingReport
<1>. QED  BY OwnedIsReportable, SessionInvHolds, PTL

-----------------------------------------------------------------------------
(* The sessions live the life that SessionLifecycle describes: the initial *)
(* states map to an initial state, and every step maps to a step of the    *)
(* life of one slot, a reset, or a stutter.                                *)

\* The refinement mapping of Session!Lifecycle.
state == [s \in Slots |-> sess[s].state]
busy  == {run[c].s : c \in {d \in Clients : Executing(d)}}

LEMMA NobodyBusy ==
  ASSUME SessionInv, mutex = NoClient
  PROVE  busy = {}
  BY QuietBetweenRuns DEF busy

LEMMA OneBusy ==
  ASSUME SessionInv, NEW c \in Clients, Executing(c)
  PROVE  busy = {run[c].s}
  BY OnlyOwner DEF busy

LEMMA LifecycleStarts == Init => Lifecycle!LifecycleInit
<1>. SUFFICES ASSUME Init PROVE Lifecycle!LifecycleInit
  OBVIOUS
<1>1. state = [s \in Slots |-> "IDLE"]
  BY DEF Init, IdleSlot, state
<1>2. busy = {}
  BY DEF Init, Executing, NoRun, busy
<1>. QED  BY <1>1, <1>2 DEF Lifecycle!LifecycleInit, state, busy

\* A call between two executions that moves slot s.
LEMMA CallMoves ==
  ASSUME SessionInv, TypeOK', NEW s \in Slots, NEW e, mutex = NoClient,
         UNCHANGED run, sess'[s].state = e,
         \A u \in Slots \ {s} : sess'[u] = sess[u]
  PROVE  /\ busy = {} /\ UNCHANGED busy
         /\ state' = [state EXCEPT ![s] = e]
         /\ state[s] = sess[s].state
  BY NobodyBusy DEF state, busy, Executing

\* A step of an execution, or of a monitor thread that works for it.
LEMMA ContinuingSimulates ==
  ASSUME SessionInv, NEW c \in Clients, Continues(c)
  PROVE  [Lifecycle!LifecycleNext]_(Lifecycle!lifecycleVars)
<1>1. PICK s \in Slots : s = run[c].s
  BY DEF SessionInv, TypeOK, Runs
<1>2. s \in busy /\ UNCHANGED busy
  BY <1>1, OneBusy DEF Continues, Executing, busy
<1>3. \/ UNCHANGED state
      \/ \E e \in {"INPROGRESS", "COMPLETED"} : state' = [state EXCEPT ![s] = e]
  BY <1>1 DEF Continues, AtMostReports, state
<1>4. CASE UNCHANGED state
  BY <1>2, <1>4 DEF Lifecycle!lifecycleVars, state, busy
<1>5. CASE \E e \in {"INPROGRESS", "COMPLETED"} : state' = [state EXCEPT ![s] = e]
  <2>1. Lifecycle!Reported(s)
    BY <1>2, <1>5 DEF Lifecycle!Reported, state, busy
  <2>2. Lifecycle!LifecycleNext
    BY <2>1 DEF Lifecycle!LifecycleNext
  <2>. QED  BY <2>2
<1>. QED  BY <1>3, <1>4, <1>5

LEMMA CallSimulates ==
  ASSUME SessionInv, NEW c \in Clients, Call(c)
  PROVE  [Lifecycle!LifecycleNext]_(Lifecycle!lifecycleVars)
<1>t. TypeOK /\ TypeOK'
  BY TypeCall DEF SessionInv
<1>1. CASE UNCHANGED <<sess, run>>
  BY <1>1 DEF Lifecycle!lifecycleVars, Executing
<1>2. CASE ~UNCHANGED <<sess, run>>
  <2>0. \A st : ~Refused(c, st)
    BY <1>2 DEF Refused
  <2>1. CASE Initialize(c)
    <3>1. mutex = NoClient /\ UNCHANGED run /\ sess' = [s \in Slots |-> IdleSlot]
      BY <2>0, <2>1 DEF Initialize, Enters
    <3>2. busy = {} /\ UNCHANGED busy /\ state' = [s \in Slots |-> "IDLE"]
      BY <3>1, NobodyBusy DEF busy, state, Executing, IdleSlot
    <3>3. Lifecycle!Reset
      BY <3>2 DEF Lifecycle!Reset, busy, state
    <3>4. Lifecycle!LifecycleNext
      BY <3>3 DEF Lifecycle!LifecycleNext
    <3>. QED  BY <3>4
  <2>2. CASE Terminate(c) \/ NullArgument(c)
    BY <1>2, <2>0, <2>2 DEF Terminate, NullArgument
  <2>3. CASE Create(c)
    <3>1. PICK s \in Slots :
             /\ sess[s].state = "IDLE" /\ mutex = NoClient /\ UNCHANGED run
             /\ sess' = [sess EXCEPT ![s].id = s, ![s].state = "CREATED",
                                     ![s].callback = TRUE]
      BY <2>0, <2>3 DEF Create, Enters
    <3>2. sess'[s].state = "CREATED" /\ \A u \in Slots \ {s} : sess'[u] = sess[u]
      BY <1>t, <3>1 DEF TypeOK, Sessions
    <3>3. Lifecycle!Created(s)
      BY <1>t, <3>1, <3>2, CallMoves
         DEF Lifecycle!Created, Lifecycle!Moves, busy, state
    <3>4. Lifecycle!LifecycleNext
      BY <3>3 DEF Lifecycle!LifecycleNext
    <3>. QED  BY <3>4
  <2>4. ASSUME NEW id \in Ids, Destroy(c, id)
        PROVE  [Lifecycle!LifecycleNext]_(Lifecycle!lifecycleVars)
    <3>1. PICK s \in Slots :
             /\ sess[s].state # "INPROGRESS" /\ mutex = NoClient /\ UNCHANGED run
             /\ sess' = [sess EXCEPT ![s] = IdleSlot]
      BY <2>0, <2>4 DEF Destroy, Enters, Found, Unusable
    <3>2. sess'[s].state = "IDLE" /\ \A u \in Slots \ {s} : sess'[u] = sess[u]
      BY <1>t, <3>1 DEF TypeOK, IdleSlot
    <3>3. sess[s].state \in States
      BY <1>t DEF TypeOK, Sessions
    <3>4. CASE sess[s].state = "IDLE"
      <4>1. UNCHANGED <<state, busy>>
        BY <3>1, <3>2, <3>4 DEF state, busy, Executing
      <4>. QED  BY <4>1 DEF Lifecycle!lifecycleVars, state, busy
    <3>5. CASE sess[s].state # "IDLE"
      <4>1. Lifecycle!Freed(s)
        BY <1>t, <3>1, <3>2, <3>3, <3>5, CallMoves
           DEF Lifecycle!Freed, Lifecycle!Moves, busy, state, States
      <4>. QED  BY <4>1 DEF Lifecycle!LifecycleNext
    <3>. QED  BY <3>4, <3>5
  <2>5. ASSUME NEW id \in Ids, NEW conf \in Confs, SetProperty(c, id, conf)
        PROVE  Lifecycle!LifecycleNext
    <3>1. PICK s \in Slots :
             /\ sess[s].state \in {"CREATED", "COMPLETED"}
             /\ mutex = NoClient /\ UNCHANGED run
             /\ sess' = [sess EXCEPT ![s].state = "READY", ![s].conf = conf]
      BY <2>0, <2>5 DEF SetProperty, Enters, Found, Unusable
    <3>2. sess'[s].state = "READY" /\ \A u \in Slots \ {s} : sess'[u] = sess[u]
      BY <1>t, <3>1 DEF TypeOK, Sessions
    <3>3. Lifecycle!Configured(s)
      BY <1>t, <3>1, <3>2, CallMoves
         DEF Lifecycle!Configured, Lifecycle!Moves, busy, state
    <3>. QED  BY <3>3 DEF Lifecycle!LifecycleNext
  <2>6. ASSUME NEW id \in Ids, Execute(c, id)
        PROVE  Lifecycle!LifecycleNext
    <3>1. PICK s \in Slots :
             /\ sess[s].state = "READY" /\ mutex = NoClient
             /\ sess' = [sess EXCEPT ![s].state = "INITIATED",
                                     ![s].executor = TRUE]
             /\ run' = [run EXCEPT ![c] = [NoRun EXCEPT !.pc = "run", !.s = s]]
      BY <2>0, <2>6 DEF Execute, Enters, Found, Unusable
    <3>2. sess'[s].state = "INITIATED" /\ \A u \in Slots \ {s} : sess'[u] = sess[u]
      BY <1>t, <3>1 DEF TypeOK, Sessions
    <3>3. /\ run'[c].pc = "run" /\ run'[c].s = s
          /\ \A d \in Clients \ {c} : run'[d] = run[d]
      BY <1>t, <3>1 DEF TypeOK, NoRun
    <3>4. busy = {} /\ busy' = {s}
      BY <3>1, <3>3, QuietBetweenRuns DEF busy, Executing
    <3>5. state[s] = "READY" /\ state' = [state EXCEPT ![s] = "INITIATED"]
      <4>1. \A u \in Slots : sess'[u].state =
                                 (IF u = s THEN "INITIATED" ELSE sess[u].state)
        BY <3>2
      <4>. QED  BY <3>1, <4>1 DEF state
    <3>6. Lifecycle!Launched(s)
      BY <3>4, <3>5 DEF Lifecycle!Launched, busy, state
    <3>. QED  BY <3>6 DEF Lifecycle!LifecycleNext
  <2>. QED  BY <2>1, <2>2, <2>3, <2>4, <2>5, <2>6 DEF Call
<1>. QED  BY <1>1, <1>2

\* The last step of an execution frees its slot and moves no state.
LEMMA ReturnSimulates ==
  ASSUME SessionInv, NEW c \in Clients, ExecuteReturns(c)
  PROVE  Lifecycle!LifecycleNext
<1>1. PICK s \in Slots : s = run[c].s
  BY DEF SessionInv, TypeOK, Runs
<1>2. Executing(c) /\ UNCHANGED sess /\ mutex' = NoClient
  BY DEF ExecuteReturns, At, Executing
<1>3. SessionInv'
  BY ReturnKeeps
<1>4. busy' = {}
  BY <1>2, <1>3, ClientsAssumption DEF busy, SessionInv, OneExecution
<1>5. Lifecycle!Finished(s)
  BY <1>1, <1>2, <1>4, OneBusy DEF Lifecycle!Finished, busy, state
<1>. QED  BY <1>5 DEF Lifecycle!LifecycleNext

LEMMA OthersSimulate ==
  ASSUME SessionInv, PesmWorker \/ GmWorker \/ \E t \in Threads : Deliver(t)
  PROVE  [Lifecycle!LifecycleNext]_(Lifecycle!lifecycleVars)
<1>1. CASE UNCHANGED <<sess, run>>
  BY <1>1 DEF Lifecycle!lifecycleVars, Executing
<1>2. ASSUME NEW m \in Monitors, UNCHANGED <<initialized, mutex, run>>,
             mon[m].pc # "none", Post(m, mon[m].s, "SUCCESS", "INPROGRESS")
      PROVE  [Lifecycle!LifecycleNext]_(Lifecycle!lifecycleVars)
  <2>1. PICK c \in Clients : Loaded(c) /\ run[c].s = mon[m].s
    BY <1>2 DEF SessionInv, MonitorsOwned
  <2>2. m \in Threads /\ mon[m].s \in Slots /\ TypeOK
    BY DEF SessionInv, TypeOK, Workers, Threads
  <2>3. AtMostReports(mon[m].s)
    BY <1>2, <2>2, PostReports
  <2>4. Continues(c)
    BY <1>2, <2>1, <2>3 DEF Continues, Loaded, Executing
  <2>. QED  BY <2>4, ContinuingSimulates
<1>3. CASE PesmWorker
  BY <1>1, <1>2, <1>3 DEF PesmWorker, PassEnds, Monitors
<1>4. CASE GmWorker
  BY <1>1, <1>2, <1>4 DEF GmWorker, PassEnds, Monitors
<1>5. CASE \E t \in Threads : Deliver(t)
  BY <1>1, <1>5 DEF Deliver
<1>. QED  BY <1>3, <1>4, <1>5

\* Whatever is called, reported or monitored, the state of each session moves
\* as SessionLifecycle allows, and only the running session's moves during a
\* run.
THEOREM SessionRefinesLifecycle == Spec => ImplementsLifecycle
<1>1. /\ SessionInv
      /\ [Next]_vars
      => [Lifecycle!LifecycleNext]_(Lifecycle!lifecycleVars)
  <2>1. ASSUME SessionInv, UNCHANGED vars
        PROVE  UNCHANGED Lifecycle!lifecycleVars
    BY <2>1 DEF vars, Lifecycle!lifecycleVars, Executing
  <2>2. ASSUME SessionInv, NEW c \in Clients, Exec(c)
        PROVE  [Lifecycle!LifecycleNext]_(Lifecycle!lifecycleVars)
    BY <2>2, ReturnSimulates, ExecContinues, ContinuingSimulates
  <2>. QED  BY <2>1, <2>2, CallSimulates, OthersSimulate DEF Next
<1>. QED  BY <1>1, LifecycleStarts, SessionInvHolds, PTL
          DEF Spec, ImplementsLifecycle, Lifecycle!LifecycleSpec
-----------------------------------------------------------------------------
(* What an execution tells of its success.                                 *)

\* A request to stop that was made before an execution returns makes it fail, and
\* no action begins after it.
THEOREM StopFailsExecutionHolds == Spec => StopFailsExecution
<1>. DEFINE A == \A c \in Clients :
          bStop => /\ Ends(c) => ret'[c] = "FAILED"
                   /\ run[c].pc = "action" => run'[c].pc # "body"
<1>1. ASSUME TypeOK, [Next]_vars, NEW c \in Clients, bStop
      PROVE  /\ Ends(c) => ret'[c] = "FAILED"
             /\ run[c].pc = "action" => run'[c].pc # "body"
  <2>1. CASE UNCHANGED vars
    BY <2>1 DEF vars, Ends
  <2>2. CASE PesmWorker \/ GmWorker \/ \E t \in Threads : Deliver(t)
    <3>1. UNCHANGED run
      BY <2>2 DEF PesmWorker, GmWorker, PassEnds, Deliver
    <3>. QED  BY <3>1 DEF Ends
  <2>3. ASSUME NEW d \in Clients, Call(d) PROVE run[d].pc = "idle" /\ \A e \in Clients \ {d} : run'[e] = run[e]
    <3>1. run[d].pc = "idle" /\ (UNCHANGED run \/ \E r : run' = [run EXCEPT ![d] = r])
      BY <2>3 DEF Call, NullArgument, Initialize, Terminate, Create, Execute, Destroy, SetProperty,
                  Unusable, Refused, Enters
    <3>. QED  BY <1>1, <3>1 DEF TypeOK
  <2>4. ASSUME NEW d \in Clients, Exec(d), d # c PROVE run'[c] = run[c]
    <3>1. UNCHANGED run \/ \E r : run' = [run EXCEPT ![d] = r]
      BY <2>4 DEF Exec, Prepare, LoadYaml, EndOfActions, BeginAction, Progress, EndAction, PesmAction,
                  GmAction, Join, TerminateModules, ExecuteReturns, Goes, NextAction, StopWorker
    <3>. QED  BY <1>1, <2>4, <3>1 DEF TypeOK
  <2>5. CASE Exec(c)
    <3>1. CASE ExecuteReturns(c)
      <4>1. run[c].pc = "return" /\ ret' = [ret EXCEPT ![c] = "FAILED"]
        BY <1>1, <3>1 DEF ExecuteReturns, At, Returns
      <4>. QED  BY <1>1, <4>1 DEF TypeOK
    <3>2. CASE BeginAction(c) \/ EndOfActions(c)
      <4>1. run[c].pc = "action" /\ \E sts \in {0, 1} : Goes(c, "terminate", sts)
        BY <1>1, <3>2 DEF BeginAction, EndOfActions, At
      <4>2. run'[c].pc = "terminate"
        BY <1>1, <4>1 DEF Goes, TypeOK, Runs
      <4>. QED  BY <4>1, <4>2 DEF Ends
    <3>3. CASE Join(c)
      <4>1. run'[c].pc = run[c].pc
        BY <1>1, <3>3 DEF Join, TypeOK, Runs
      <4>. QED  BY <4>1 DEF Ends
    <3>4. CASE ~(ExecuteReturns(c) \/ BeginAction(c) \/ EndOfActions(c) \/ Join(c))
      <4>1. run[c].pc \notin {"return", "action"}
        BY <2>5, <3>4 DEF Exec, Prepare, LoadYaml, Progress, EndAction, PesmAction, GmAction,
                          TerminateModules, At
      <4>. QED  BY <4>1 DEF Ends
    <3>. QED  BY <3>1, <3>2, <3>3, <3>4
  <2>6. CASE \E d \in Clients : Call(d)
    <3>1. PICK d \in Clients : Call(d)
      BY <2>6
    <3>2. run[d].pc = "idle" /\ (d # c => run'[c] = run[c])
      BY <2>3, <3>1
    <3>. QED  BY <3>2 DEF Ends
  <2>7. CASE \E d \in Clients : d # c /\ Exec(d)
    <3>1. run'[c] = run[c]
      BY <2>4, <2>7
    <3>. QED  BY <3>1 DEF Ends
  <2>. QED  BY <1>1, <2>1, <2>2, <2>5, <2>6, <2>7 DEF Next
<1>2. TypeOK /\ [Next]_vars => A
  BY <1>1
<1>3. TypeOK /\ [Next]_vars => [A]_vars
  BY <1>2
<1>. QED  BY <1>3, TypeCorrect, PTL DEF Spec, StopFailsExecution, A

-----------------------------------------------------------------------------

On(m)  == IF m = "gm" THEN "gmOn" ELSE "pesmOn"
Off(m) == IF m = "gm" THEN "gmOff" ELSE "pesmOff"

\* The actions of a configuration stop every monitor that they start.
StopsMonitors(conf) ==
    \A i \in 1..Len(conf.actions), m \in Monitors : conf.actions[i] = On(m) =>
       \E j \in (i + 1)..Len(conf.actions) : conf.actions[j] = Off(m)

\* A monitor that runs was started by an action that was executed, and not stopped since.
Begun(c, m) ==
    \E j \in 1..(run[c].i - 1) :
       /\ Actions(c)[j] = On(m)
       /\ \A l \in (j + 1)..(run[c].i - 1) : Actions(c)[l] # Off(m)

\* Where the execution is in its actions.
Turn(c) ==
    /\ run[c].pc \in {"run", "yaml"} => run[c].i = 0
    /\ run[c].pc \in {"action", "body"} =>
          /\ run[c].i \in 1..(Len(Actions(c)) + 1)
          /\ run[c].pc = "body" => run[c].i <= Len(Actions(c))
          /\ \A m \in Monitors : mon[m].pc # "none" => Begun(c, m)

\* One that came to the end of its actions is all that reports, and its last report is
\* under way or delivered.
Finished(s) == [status |-> "SUCCESS", state |-> "COMPLETED", s |-> s]
Ended(c) ==
    run[c].pc \in {"terminate", "return"} /\ run[c].sts = 0 =>
       /\ \A m \in Monitors : mon[m].pc = "none"
       /\ sess[run[c].s].state = "COMPLETED"
       /\ cb[c] = Finished(run[c].s) \/ (cb[c] = NoResult /\ told[run[c].s] = Finished(run[c].s))

OutcomeInv == \A c \in Clients : Executing(c) => Turn(c) /\ Ended(c)

\* The actions of an execution are those of a configuration.
LEMMA ActionsOf ==
  ASSUME SessionInv, NEW c \in Clients, Executing(c)
  PROVE  /\ run[c].s \in Slots /\ sess[run[c].s].conf \in Confs
         /\ Actions(c) \in Seq(ActionKinds) /\ run[c].i \in Nat
<1>1. run[c].s \in Slots /\ run[c].i \in Nat /\ Live(run[c].s)
  BY DEF SessionInv, TypeOK, Runs, RunsLive
<1>2. sess[run[c].s].conf \in Confs
  BY <1>1 DEF Live, SessionInv, SlotsConsistent
<1>3. sess[run[c].s].conf \in Conf
  BY <1>2, ConfsAssumption
<1>. QED  BY <1>1, <1>2, <1>3 DEF Conf, Actions

\* A step that continues an execution leaves its actions alone.
LEMMA ActionsStay ==
  ASSUME SessionInv, NEW c \in Clients, Continues(c)
  PROVE  Actions(c)' = Actions(c)
<1>1. run[c].s \in Slots
  BY ActionsOf DEF Continues
<1>. QED  BY <1>1 DEF Continues, AtMostReports, Actions

\* An action that is over.
LEMMA NextTurn ==
  ASSUME SessionInv, NEW c \in Clients, Turn(c), Continues(c),
         run[c].pc = "body", NextAction(c),
         \A m \in Monitors : mon'[m].pc # "none" =>
            Kind(c) = On(m) \/ (mon[m].pc # "none" /\ Kind(c) # Off(m))
  PROVE  Turn(c)' /\ Ended(c)'
<1>0. Executing(c) /\ run[c].i \in Nat /\ Actions(c) \in Seq(ActionKinds) /\ Actions(c)' = Actions(c)
  BY ActionsOf, ActionsStay DEF Continues
<1>1. run'[c].pc = "action" /\ run'[c].i = run[c].i + 1
  BY DEF NextAction, SessionInv, TypeOK, Runs
<1>2. run[c].i \in 1..Len(Actions(c)) /\ Len(Actions(c)) \in Nat
  BY <1>0 DEF Turn
<1>3. ASSUME NEW m \in Monitors, mon'[m].pc # "none" PROVE Begun(c, m)'
  <2>1. CASE Kind(c) = On(m)
    <3>1. run[c].i \in 1..(run[c].i + 1 - 1) /\ (run[c].i + 1)..(run[c].i + 1 - 1) = {}
      BY <1>0, <1>2
    <3>. QED  BY <1>0, <1>1, <2>1, <3>1 DEF Begun, Kind
  <2>2. CASE mon[m].pc # "none" /\ Kind(c) # Off(m)
    <3>1. PICK j \in 1..(run[c].i - 1) :
             /\ Actions(c)[j] = On(m)
             /\ \A l \in (j + 1)..(run[c].i - 1) : Actions(c)[l] # Off(m)
      BY <2>2 DEF Turn, Begun
    <3>2. \A l \in (j + 1)..(run[c].i + 1 - 1) : l \in (j + 1)..(run[c].i - 1) \/ l = run[c].i
      BY <1>0
    <3>3. j \in 1..(run[c].i + 1 - 1)
      BY <1>0
    <3>. QED  BY <1>0, <1>1, <2>2, <3>1, <3>2, <3>3 DEF Begun, Kind
  <2>. QED  BY <1>3, <2>1, <2>2
<1>4. run'[c].i \in 1..(Len(Actions(c)) + 1)
  BY <1>1, <1>2
<1>. QED  BY <1>0, <1>1, <1>3, <1>4 DEF Turn, Ended

\* A step at an action that is not over.
LEMMA SameTurn ==
  ASSUME SessionInv, NEW c \in Clients, Turn(c), Continues(c),
         run[c].pc \in {"action", "body"}, run'[c].pc \in {run[c].pc, "body"},
         run'[c].i = run[c].i, run[c].pc = "body" \/ run[c].i <= Len(Actions(c)),
         \A m \in Monitors : mon'[m].pc # "none" => mon[m].pc # "none"
  PROVE  Turn(c)' /\ Ended(c)'
<1>0. Actions(c)' = Actions(c)
  BY ActionsStay
<1>1. \A m \in Monitors : mon'[m].pc # "none" => Begun(c, m)'
  BY <1>0 DEF Turn, Begun
<1>. QED  BY <1>0, <1>1 DEF Turn, Ended

\* When the actions are over no monitor is left.
LEMMA NoneLeft ==
  ASSUME SessionInv, \A conf \in Confs : StopsMonitors(conf), NEW c \in Clients, Turn(c),
         run[c].pc = "action", run[c].i > Len(Actions(c))
  PROVE  \A m \in Monitors : mon[m].pc = "none"
<1>0. Executing(c)
  BY DEF Executing
<1>1. /\ Actions(c) \in Seq(ActionKinds) /\ Len(Actions(c)) \in Nat /\ run[c].i \in Nat
      /\ StopsMonitors(sess[run[c].s].conf)
  BY <1>0, ActionsOf
<1>2. run[c].i = Len(Actions(c)) + 1
  BY <1>1 DEF Turn
<1>3. ASSUME NEW m \in Monitors, mon[m].pc # "none" PROVE FALSE
  <2>1. PICK j \in 1..(run[c].i - 1) :
           /\ Actions(c)[j] = On(m)
           /\ \A l \in (j + 1)..(run[c].i - 1) : Actions(c)[l] # Off(m)
    BY <1>3 DEF Turn, Begun
  <2>2. run[c].i - 1 = Len(Actions(c))
    BY <1>1, <1>2
  <2>. QED  BY <1>1, <2>1, <2>2 DEF StopsMonitors, Actions
<1>. QED  BY <1>3

LEMMA OutcomeOfExec ==
  ASSUME SessionInv, \A conf \in Confs : StopsMonitors(conf), NEW c \in Clients, Exec(c),
         ~ExecuteReturns(c), Turn(c), Ended(c)
  PROVE  Turn(c)' /\ Ended(c)'
<1>0. /\ TypeOK /\ Continues(c) /\ Executing(c) /\ c \in Threads /\ Monitors \subseteq Threads
      /\ run[c] \in Runs /\ Actions(c)' = Actions(c) /\ run[c].s \in Slots
      /\ Len(Actions(c)) \in Nat /\ run'[c].s = run[c].s
  BY ExecContinues, ActionsStay, ActionsOf DEF Continues, SessionInv, TypeOK, Threads
<1>n. /\ \A m \in Monitors : m = "gm" \/ m = "pesm"
      /\ \A m \in Monitors : On(m) # Off(m)
      /\ \A m, n \in Monitors : m # n => On(m) # On(n) /\ Off(m) # Off(n) /\ On(m) # Off(n)
  BY DEF Monitors, On, Off
<1>1. CASE Prepare(c)
  <2>1. run'[c].pc = "yaml" \/ (run'[c].pc = "return" /\ run'[c].sts = 1)
    BY <1>0, <1>1 DEF Prepare, Goes, TypeOK, Runs
  <2>2. run'[c].i = run[c].i /\ run[c].pc = "run"
    BY <1>0, <1>1 DEF Prepare, At, Goes, TypeOK, Runs
  <2>. QED  BY <2>1, <2>2 DEF Turn, Ended
<1>2. CASE LoadYaml(c)
  <2>1. run[c].pc = "yaml" /\ run[c].i = 0 /\ UNCHANGED mon
    BY <1>2 DEF LoadYaml, At, Turn
  <2>2. \A m \in Monitors : mon[m].pc = "none"
    BY <1>0, <2>1, OnlyOwner DEF Loaded
  <2>3. \/ run'[c].pc = "terminate" /\ run'[c].sts = 1
        \/ run'[c].pc = "action" /\ run'[c].i = 1
    BY <1>0, <1>2, <2>1 DEF LoadYaml, Goes, NextAction, TypeOK, Runs
  <2>. QED  BY <1>0, <2>1, <2>2, <2>3 DEF Turn, Ended
<1>3. CASE EndOfActions(c)
  <2>1. /\ run[c].pc = "action" /\ run'[c].pc = "terminate" /\ UNCHANGED <<mon, told>>
        /\ run[c].i > Len(Actions(c))
    BY <1>0, <1>3 DEF EndOfActions, At, Goes, TypeOK, Runs
  <2>2. \A m \in Monitors : mon[m].pc = "none"
    BY <2>1, NoneLeft
  <2>3. sess'[run[c].s].state = "COMPLETED" /\ cb'[c] = Finished(run[c].s)
    BY <1>0, <1>3 DEF EndOfActions, Post, Finished, TypeOK, Sessions
  <2>. QED  BY <1>0, <2>1, <2>2, <2>3 DEF Turn, Ended
<1>4. CASE BeginAction(c)
  <2>1. \/ run'[c].pc = "terminate" /\ run'[c].sts = 1
        \/ run'[c].pc = "body" /\ run'[c].i = run[c].i
    BY <1>0, <1>4 DEF BeginAction, Goes, TypeOK, Runs
  <2>2. run[c].pc = "action" /\ run[c].i <= Len(Actions(c)) /\ UNCHANGED mon
    BY <1>0, <1>4 DEF BeginAction, At
  <2>. QED  BY <1>0, <2>1, <2>2, SameTurn DEF Turn, Ended
<1>5. CASE Progress(c)
  <2>1. run[c].pc = "body" /\ UNCHANGED <<run, mon>>
    BY <1>5 DEF Progress, At
  <2>. QED  BY <1>0, <2>1, SameTurn
<1>6. CASE EndAction(c)
  <2>1. run[c].pc = "body" /\ UNCHANGED mon /\ NextAction(c) /\ Kind(c) \in {"pass", "fail"}
    BY <1>6 DEF EndAction, At
  <2>2. \A m \in Monitors : Kind(c) # Off(m)
    BY <2>1 DEF Off
  <2>. QED  BY <1>0, <2>1, <2>2, NextTurn
<1>7. CASE PesmAction(c)
  <2>1. run[c].pc = "body"
    BY <1>7 DEF PesmAction, At
  <2>2. CASE NextAction(c)
    <3>1. \A m \in Monitors : mon'[m].pc # "none" =>
             Kind(c) = On(m) \/ (mon[m].pc # "none" /\ Kind(c) # Off(m))
      BY <1>0, <1>7, <1>n, <2>2 DEF PesmAction, StartWorker, StopWorker, On, Off, TypeOK, Monitors, NextAction, Runs
    <3>. QED  BY <1>0, <2>1, <2>2, <3>1, NextTurn
  <2>3. CASE StopWorker(c, "pesm")
    <3>1. run'[c].pc = "body" /\ run'[c].i = run[c].i
      BY <1>0, <2>1, <2>3 DEF StopWorker, TypeOK, Runs
    <3>2. \A m \in Monitors : mon'[m].pc = mon[m].pc
      BY <1>0, <2>3 DEF StopWorker, TypeOK, Workers
    <3>. QED  BY <1>0, <2>1, <3>1, <3>2, SameTurn
  <2>. QED  BY <1>7, <2>2, <2>3 DEF PesmAction
<1>8. CASE GmAction(c)
  <2>1. run[c].pc = "body"
    BY <1>8 DEF GmAction, At
  <2>2. CASE NextAction(c)
    <3>1. \A m \in Monitors : mon'[m].pc # "none" =>
             Kind(c) = On(m) \/ (mon[m].pc # "none" /\ Kind(c) # Off(m))
      BY <1>0, <1>8, <1>n, <2>2 DEF GmAction, StartWorker, StopWorker, On, Off, TypeOK, Monitors, NextAction, Runs
    <3>. QED  BY <1>0, <2>1, <2>2, <3>1, NextTurn
  <2>3. CASE StopWorker(c, "gm")
    <3>1. run'[c].pc = "body" /\ run'[c].i = run[c].i
      BY <1>0, <2>1, <2>3 DEF StopWorker, TypeOK, Runs
    <3>2. \A m \in Monitors : mon'[m].pc = mon[m].pc
      BY <1>0, <2>3 DEF StopWorker, TypeOK, Workers
    <3>. QED  BY <1>0, <2>1, <3>1, <3>2, SameTurn
  <2>. QED  BY <1>8, <2>2, <2>3 DEF GmAction
<1>9. CASE Join(c)
  <2>1. run'[c].pc = run[c].pc /\ run'[c].i = run[c].i /\ run'[c].sts = run[c].sts
        /\ UNCHANGED <<sess, cb, told>>
    BY <1>0, <1>9 DEF Join, TypeOK, Runs
  <2>2. \A m \in Monitors : mon'[m].pc # "none" => mon[m].pc # "none"
    BY <1>0, <1>9 DEF Join, TypeOK, NoWorker
  <2>3. \E m \in Monitors : mon[m].pc # "none"
    BY <1>9 DEF Join
  <2>4. Loaded(c)
    BY <1>0, <2>3, OnlyOwner
  <2>5. \A m \in Monitors : mon'[m].pc # "none" => (run[c].pc \in {"action", "body"} => Begun(c, m)')
    BY <1>0, <2>1, <2>2 DEF Turn, Begun
  <2>6. Turn(c)'
    BY <1>0, <2>1, <2>5 DEF Turn
  <2>. QED  BY <1>0, <2>1, <2>2, <2>6 DEF Ended
<1>10. CASE TerminateModules(c)
  <2>1. run[c].pc = "terminate" /\ UNCHANGED <<sess, cb, told>>
    BY <1>10 DEF TerminateModules, At
  <2>2. CASE \E m \in Monitors : mon[m].pc # "none" /\ StopWorker(c, m)
    <3>1. run'[c].pc = "terminate" /\ run'[c].sts = run[c].sts /\ run[c].sts # 0
      BY <1>0, <2>1, <2>2 DEF StopWorker, TypeOK, Runs, Ended
    <3>. QED  BY <3>1 DEF Turn, Ended
  <2>3. CASE Goes(c, "return", run[c].sts) /\ UNCHANGED mon
    <3>1. run'[c].pc = "return" /\ run'[c].sts = run[c].sts
      BY <1>0, <2>3 DEF Goes, TypeOK, Runs
    <3>. QED  BY <1>0, <2>1, <2>3, <3>1 DEF Turn, Ended
  <2>. QED  BY <1>10, <2>2, <2>3 DEF TerminateModules
<1>. QED  BY <1>1, <1>2, <1>3, <1>4, <1>5, <1>6, <1>7, <1>8, <1>9, <1>10 DEF Exec

\* A step of no client keeps every place, but may report.
LEMMA OutcomeOfOthers ==
  ASSUME SessionInv, OutcomeInv,
         (PesmWorker \/ GmWorker) \/ (\E t \in Threads : Deliver(t))
  PROVE  OutcomeInv'
<1>0. TypeOK /\ Monitors \subseteq Threads /\ Clients \subseteq Threads
  BY DEF SessionInv, Threads
<1>1. /\ UNCHANGED run
      /\ \A m \in Monitors : mon[m].pc = "none" => mon'[m].pc = "none"
  BY <1>0 DEF PesmWorker, GmWorker, PassEnds, Deliver, TypeOK, Monitors
<1>2. ASSUME NEW c \in Clients, Executing(c)' PROVE Turn(c)' /\ Ended(c)'
  <2>0. Executing(c) /\ Turn(c) /\ Ended(c) /\ run[c].s \in Slots
    BY <1>1, <1>2, ActionsOf DEF Executing, OutcomeInv
  <2>1. CASE Actions(c)' = Actions(c)
    <3>1. \A m \in Monitors : Begun(c, m)' <=> Begun(c, m)
      BY <1>1, <2>1 DEF Begun
    <3>2. Turn(c)'
      BY <1>1, <2>0, <2>1, <3>1 DEF Turn
    <3>3. CASE \E t \in Threads : Deliver(t)
      <4>1. PICK t \in Threads : Deliver(t)
        BY <3>3
      <4>2. CASE t = c
        <5>1. /\ UNCHANGED <<run, sess, mon>> /\ cb'[c] = NoResult /\ cb[c] # NoResult
              /\ cb[c].s = run[c].s => told'[run[c].s] = cb[c]
          BY <1>0, <2>0, <4>1, <4>2 DEF Deliver, TypeOK
        <5>2. cb[c].s = run[c].s
          BY <5>1 DEF SessionInv, ReportsOwned
        <5>. QED  BY <2>0, <3>2, <5>1, <5>2 DEF Ended
      <4>3. CASE t # c
        <5>1. t \in Monitors /\ mon[t].pc # "none"
          BY <2>0, <4>1, <4>3, OnlyOwner DEF Deliver, Threads, SessionInv, ReportsOwned
        <5>. QED  BY <1>1, <2>0, <3>2, <5>1 DEF Ended
      <4>. QED  BY <4>2, <4>3
    <3>4. CASE PesmWorker \/ GmWorker
      <4>1. \E m \in Monitors : mon[m].pc # "none"
        BY <3>4 DEF PesmWorker, GmWorker, PassEnds, Monitors
      <4>. QED  BY <1>1, <2>0, <3>2, <4>1 DEF Ended
    <3>. QED  BY <3>3, <3>4
  <2>2. Actions(c)' = Actions(c)
    <3>1. UNCHANGED sess \/ \E s, e : s \in Slots /\ sess' = [sess EXCEPT ![s].state = e]
      BY <1>0 DEF PesmWorker, GmWorker, PassEnds, Deliver, Post, TypeOK, Workers, Monitors
    <3>2. sess'[run[c].s].conf = sess[run[c].s].conf
      BY <1>0, <2>0, <3>1 DEF TypeOK, Sessions
    <3>. QED  BY <1>1, <3>2 DEF Actions
  <2>. QED  BY <2>1, <2>2
<1>. QED  BY <1>2 DEF OutcomeInv

\* A call between two executions, that may start one.
LEMMA OutcomeOfCall ==
  ASSUME SessionInv, OutcomeInv, NEW c \in Clients, Call(c)
  PROVE  OutcomeInv'
<1>0. TypeOK
  BY DEF SessionInv
<1>1. CASE UNCHANGED run /\ mutex = NoClient
  BY <1>1, QuietBetweenRuns DEF OutcomeInv, Executing
<1>2. CASE \E st \in Statuses : Refused(c, st)
  <2>1. UNCHANGED <<sess, run, mon, cb, told>>
    BY <1>2 DEF Refused
  <2>2. ASSUME NEW d \in Clients, Executing(d)' PROVE Turn(d)' /\ Ended(d)'
    <3>1. Turn(d) /\ Ended(d) /\ Actions(d)' = Actions(d)
      BY <2>1, <2>2 DEF OutcomeInv, Executing, Actions
    <3>2. Turn(d)'
      BY <2>1, <3>1 DEF Turn, Begun
    <3>. QED  BY <2>1, <3>1, <3>2 DEF Ended
  <2>. QED  BY <2>2 DEF OutcomeInv
<1>3. CASE \E id \in Ids : Execute(c, id) /\ run' # run
  <2>1. PICK s \in Slots : run' = [run EXCEPT ![c] = [NoRun EXCEPT !.pc = "run", !.s = s]]
    BY <1>3 DEF Execute, Unusable, Refused, Found
  <2>2. mutex = NoClient
    BY <1>3 DEF Execute, Enters
  <2>3. run'[c].pc = "run" /\ run'[c].i = 0 /\ \A d \in Clients \ {c} : run'[d] = run[d]
    BY <1>0, <2>1 DEF TypeOK, NoRun
  <2>. QED  BY <2>2, <2>3, QuietBetweenRuns DEF OutcomeInv, Executing, Turn, Ended
<1>4. \/ UNCHANGED run /\ mutex = NoClient
      \/ \E st \in Statuses : Refused(c, st)
      \/ \E id \in Ids : Execute(c, id) /\ run' # run
  <2>1. CASE NullArgument(c)
    BY <2>1 DEF NullArgument, Statuses
  <2>2. CASE \E id \in Ids : Execute(c, id)
    BY <2>2 DEF Execute, Enters
  <2>3. CASE ~NullArgument(c) /\ ~(\E id \in Ids : Execute(c, id))
    BY <2>3 DEF Call, Initialize, Terminate, Create, Destroy, SetProperty, Unusable, Refused, Enters
  <2>. QED  BY <2>1, <2>2, <2>3
<1>. QED  BY <1>1, <1>2, <1>3, <1>4

LEMMA OutcomeKept ==
  ASSUME SessionInv, OutcomeInv, [Next]_vars, \A conf \in Confs : StopsMonitors(conf)
  PROVE  OutcomeInv'
<1>0. TypeOK
  BY DEF SessionInv
<1>1. CASE \E c \in Clients : Call(c)
  BY <1>1, OutcomeOfCall
<1>2. ASSUME NEW c \in Clients, ExecuteReturns(c) PROVE OutcomeInv'
  <2>1. Executing(c) /\ run' = [run EXCEPT ![c] = NoRun]
    BY <1>2 DEF ExecuteReturns, At, Executing
  <2>2. \A d \in Clients : ~Executing(d)'
    BY <1>0, <2>1, OnlyOwner DEF Executing, NoRun, TypeOK
  <2>. QED  BY <2>2 DEF OutcomeInv
<1>3. ASSUME NEW c \in Clients, Exec(c), ~ExecuteReturns(c) PROVE OutcomeInv'
  <2>1. Continues(c) /\ Executing(c)
    BY <1>3, ExecContinues DEF Continues
  <2>2. Turn(c)' /\ Ended(c)'
    BY <1>3, <2>1, OutcomeOfExec DEF OutcomeInv
  <2>3. \A d \in Clients \ {c} : ~Executing(d)'
    BY <2>1, OnlyOwner DEF Continues, Executing
  <2>. QED  BY <2>2, <2>3 DEF OutcomeInv
<1>4. CASE PesmWorker \/ GmWorker \/ \E t \in Threads : Deliver(t)
  BY <1>4, OutcomeOfOthers
<1>5. CASE UNCHANGED vars
  BY <1>5 DEF vars, OutcomeInv, Turn, Ended, Begun, Actions, Executing
<1>. QED  BY <1>1, <1>2, <1>3, <1>4, <1>5 DEF Next

\* When rvs_session_execute returns SUCCESS, the session is COMPLETED and the application was
\* last told so, for any configurations that stop the monitors they start: no thread that reports
\* is left when the end of the actions is reported.
THEOREM SuccessMeansCompletedHolds ==
  (\A conf \in Confs : StopsMonitors(conf)) => (Spec => SuccessMeansCompleted)
<1>. SUFFICES ASSUME \A conf \in Confs : StopsMonitors(conf) PROVE Spec => SuccessMeansCompleted
  OBVIOUS
<1>. DEFINE A == \A c \in Clients :
          Ends(c) /\ ret'[c] = "SUCCESS" =>
             /\ sess'[run[c].s].state = "COMPLETED"
             /\ told[run[c].s] = [status |-> "SUCCESS", state |-> "COMPLETED", s |-> run[c].s]
<1>1. Init => OutcomeInv
  BY DEF Init, OutcomeInv, Executing, NoRun
<1>2. SessionInv /\ OutcomeInv /\ [Next]_vars => OutcomeInv'
  BY OutcomeKept
<1>3. ASSUME SessionInv, OutcomeInv, [Next]_vars, NEW c \in Clients, Ends(c), ret'[c] = "SUCCESS"
      PROVE  /\ sess'[run[c].s].state = "COMPLETED"
             /\ told[run[c].s] = [status |-> "SUCCESS", state |-> "COMPLETED", s |-> run[c].s]
  <2>0. /\ TypeOK /\ Executing(c) /\ run[c] \in Runs /\ run'[c] # run[c] /\ run'[c].pc # run[c].pc
        /\ ~Executing(c)'
    BY <1>3 DEF SessionInv, TypeOK, Ends, Executing
  <2>1. ~(\E d \in Clients : Call(d))
    <3>1. ASSUME NEW d \in Clients, Call(d) PROVE run'[c] = run[c]
      <4>1. UNCHANGED run \/ (mutex = NoClient)
        BY <3>1 DEF Call, NullArgument, Initialize, Terminate, Create, Execute, Destroy, SetProperty,
                    Unusable, Refused, Enters
      <4>. QED  BY <1>3, <2>0, <4>1, QuietBetweenRuns
    <3>. QED  BY <2>0, <3>1
  <2>2. ~(PesmWorker \/ GmWorker \/ \E t \in Threads : Deliver(t)) /\ ~(UNCHANGED vars)
    BY <2>0 DEF PesmWorker, GmWorker, PassEnds, Deliver, vars
  <2>3. PICK d \in Clients : Exec(d)
    BY <1>3, <2>1, <2>2 DEF Next
  <2>4. ExecuteReturns(d)
    <3>1. SUFFICES ASSUME Continues(d) PROVE FALSE
      BY <1>3, <2>3, ExecContinues
    <3>. QED  BY <2>0, <3>1 DEF Continues, Executing
  <2>5. d = c
    BY <1>3, <2>0, <2>4, OnlyOwner DEF ExecuteReturns, At, Executing
  <2>6. run[c].pc = "return" /\ cb[c] = NoResult /\ UNCHANGED sess
        /\ ret'[c] = IF run[c].sts # 0 \/ bStop THEN "FAILED" ELSE "SUCCESS"
    BY <2>0, <2>4, <2>5 DEF ExecuteReturns, At, Returns, TypeOK
  <2>7. Ended(c) /\ run[c].sts = 0
    BY <1>3, <2>0, <2>6 DEF OutcomeInv
  <2>8. Finished(run[c].s) # NoResult
    BY DEF Finished, NoResult
  <2>. QED  BY <2>6, <2>7, <2>8 DEF Ended, Finished
<1>4. SessionInv /\ OutcomeInv /\ [Next]_vars => [A]_vars
  BY <1>3
<1>. QED  BY <1>1, <1>2, <1>4, SessionInvHolds, PTL DEF Spec, SuccessMeansCompleted, A
=============================================================================
