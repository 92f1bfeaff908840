------------------------------ MODULE Monitors ------------------------------
(***************************************************************************)
(* The monitors pesm and gm: an action starts a worker thread, which       *)
(* passes over the devices until its brun is reset; a later action, or     *)
(* rvs::module::terminate, stops and joins it.  This is one life of one    *)
(* monitor, seen from its two threads, which share brun and gm's sums      *)
(* without a lock; module Session shows the monitors among the actions.    *)
(*                                                                         *)
(* pesm compares the link speed and the power state of each GPU with what  *)
(* it read before; gm adds its readings up, checks them against bounds,    *)
(* and prints averages when it is stopped.  A reading of gm is a small     *)
(* number, of which 1 is within the bounds.                                *)
(***************************************************************************)
EXTENDS Naturals, Sequences

CONSTANTS Configs,    \* the monitors to run
          MaxPasses,  \* bound: passes that are accounted for
          MaxReading  \* bound: readings are 1..MaxReading

Order   == <<"mem_clock", "clock", "temp", "fan", "power">>
Metrics == {Order[i] : i \in DOMAIN Order}
Kinds   == {"speed", "power"}

\* What the worker is given, and whether its thread begins to run before it is
\* stopped: the 2 ms that some callers of stop() wait are to see to that.
MonitorConfig ==
    [module : {"pesm", "gm"}, devices : Nat \ {0}, metrics : SUBSET Metrics,
     checked : SUBSET Metrics, term : BOOLEAN, force : BOOLEAN,
     prompt : BOOLEAN]

ASSUME ConfigsAssumption == Configs \subseteq MonitorConfig
ASSUME BoundsAssumption  == MaxPasses \in Nat \ {0} /\ MaxReading \in Nat \ {0}

VARIABLES conf,     \* the monitor
          main,     \* where the thread is that starts and stops it
          row,      \* the device stop() of gm reports next
          shown,    \* gm, per device, the sums and the count stop() printed (history)
          brun,     \* Worker::brun
          thread,   \* where Worker::run is
          dev,      \* the device a pass is at
          met,      \* gm, the index in Order a pass is at
          count,    \* gm, passes done; the constructor does not set it
          sum,      \* gm, met_avg
          bad,      \* gm, met_violation
          bStop,    \* rvs::lp::Stopping()
          old,      \* pesm, the readings kept of each GPU; 0: none
          change,   \* pesm, speed_change and power_change
          passes,   \* passes begun (history)
          low, high,\* gm, least and greatest reading (history)
          missed,   \* gm, a reading was not available or was skipped (history)
          first,    \* pesm, the first readings of each GPU (history)
          differs   \* pesm, a later reading differed from the first (history)

mainVars  == <<main, row, shown>>
placeVars == <<thread, dev, met, passes>>
gmVars    == <<count, sum, bad, low, high, missed>>
pesmVars  == <<old, change, first, differs>>
vars == <<conf, mainVars, brun, placeVars, gmVars, bStop, pesmVars>>

Devices == 1..conf.devices
Each(S, v) == [d \in Devices |-> [m \in S |-> v]]

Init ==
    /\ conf \in Configs
    /\ main = "start" /\ row = 1
    /\ shown = [d \in Devices |-> [count |-> 0, sum |-> [m \in conf.metrics |-> 0]]]
    /\ brun = FALSE /\ thread = "none" /\ dev = 1 /\ met = 1 /\ passes = 0
    /\ count \in {0, 1}          \* whatever was in the memory of the worker
    /\ sum = Each(conf.metrics, 0) /\ bad = Each(conf.metrics, 0)
    /\ low = Each(conf.metrics, MaxReading) /\ high = Each(conf.metrics, 0)
    /\ missed = FALSE /\ bStop = FALSE
    /\ old = Each(Kinds, 0) /\ first = Each(Kinds, 0)
    /\ change = Each(Kinds, "") /\ differs = Each(Kinds, FALSE)

-----------------------------------------------------------------------------
(* The thread that starts and stops the monitor.                           *)

\* ThreadBase::start
Start ==
    /\ main = "start"
    /\ main' = "running" /\ thread' = "begin"
    /\ UNCHANGED <<conf, row, shown, brun, dev, met, passes, gmVars, bStop, pesmVars>>

\* Worker::stop resets brun ...
Signal ==
    /\ main = "running"
    /\ conf.prompt => thread # "begin"
    /\ main' = IF conf.module = "gm" THEN "report" ELSE "join"
    /\ brun' = FALSE
    /\ UNCHANGED <<conf, row, shown, placeVars, gmVars, bStop, pesmVars>>

\* ... and sleeps 200 ms, which orders nothing; gm's prints what there is then:
\* the entries of met_avg, unless no pass is done ...
ReportRow ==
    /\ main = "report"
    /\ \/ /\ count # 0 /\ thread # "begin" /\ row \in Devices
          /\ shown' = [shown EXCEPT ![row] = [count |-> count, sum |-> sum[row]]]
          /\ row' = row + 1 /\ UNCHANGED main
       \/ /\ count = 0 \/ thread = "begin" \/ row \notin Devices
          /\ main' = "join" /\ UNCHANGED <<row, shown>>
    /\ UNCHANGED <<conf, brun, placeVars, gmVars, bStop, pesmVars>>

\* ... and joins the thread.
Join ==
    /\ main = "join" /\ thread = "exited"
    /\ main' = "done"
    /\ UNCHANGED <<conf, row, shown, brun, placeVars, gmVars, bStop, pesmVars>>

-----------------------------------------------------------------------------
(* Worker::run.                                                            *)

\* The thread begins: brun is set, whatever it is.
Begin ==
    /\ thread = "begin"
    /\ brun' = TRUE
    /\ thread' = IF conf.module = "gm" THEN "filled" ELSE "loop"
    /\ UNCHANGED <<conf, mainVars, dev, met, passes, gmVars, bStop, pesmVars>>

\* gm sets count after it has filled its maps.
ResetCount ==
    /\ thread = "filled"
    /\ count' = 0
    /\ thread' = "loop"
    /\ UNCHANGED <<conf, mainVars, brun, dev, met, passes, sum, bad, low, high,
                   missed, bStop, pesmVars>>

\* Seeded fault: the loop has no end.
TurnForever ==
    /\ thread = "loop"
    /\ thread' = "pass"
    /\ passes' = IF passes > MaxPasses THEN passes ELSE passes + 1
    /\ dev' = 1 /\ met' = 1
    /\ UNCHANGED <<conf, mainVars, brun, gmVars, bStop, pesmVars>>

\* while (brun): a pass begins, or the loop is left.
Turn ==
    /\ thread = "loop"
    /\ \/ /\ brun /\ thread' = "pass"
          /\ passes' = IF passes > MaxPasses THEN passes ELSE passes + 1
       \/ ~brun /\ thread' = "exited" /\ UNCHANGED passes
    /\ dev' = 1 /\ met' = 1
    /\ UNCHANGED <<conf, mainVars, brun, gmVars, bStop, pesmVars>>

\* The bound: what a pass beyond MaxPasses reads is not accounted for.
Accounted == passes <= MaxPasses

\* Seeded fault: the metrics are counted from zero.
MovesBeyond ==
    /\ \/ met <= Len(Order) /\ met' = met + 1 /\ UNCHANGED dev
       \/ met > Len(Order) /\ met' = 1 /\ dev' = dev + 1
    /\ UNCHANGED <<thread, passes>>

\* A pass moves on, to the next metric of a device or to the next device.
Moves ==
    /\ \/ met < Len(Order) /\ met' = met + 1 /\ UNCHANGED dev
       \/ met = Len(Order) /\ met' = 1 /\ dev' = dev + 1
    /\ UNCHANGED <<thread, passes>>

\* The break on a violation of the fan's bounds leaves the loop over devices.
Breaks == dev' = conf.devices + 1 /\ UNCHANGED <<thread, met, passes>>

Sampling(m) ==
    /\ thread = "pass" /\ conf.module = "gm" /\ dev \in Devices
    /\ Order[met] = m

\* A metric that is not monitored is passed over.
Skip(m) ==
    /\ Sampling(m) /\ m \notin conf.metrics
    /\ Moves
    /\ UNCHANGED <<conf, mainVars, brun, gmVars, bStop, pesmVars>>

\* A reading is added to the sum of its metric.
Add(m, v) ==
    IF Accounted
    THEN /\ sum' = [sum EXCEPT ![dev][m] = @ + v]
         /\ low' = [low EXCEPT ![dev][m] = IF v < @ THEN v ELSE @]
         /\ high' = [high EXCEPT ![dev][m] = IF v > @ THEN v ELSE @]
    ELSE UNCHANGED <<sum, low, high>>

\* Seeded fault: a violation stops the run, but not the monitor.
ViolationOnly(m) ==
    /\ bad' = IF Accounted THEN [bad EXCEPT ![dev][m] = @ + 1] ELSE bad
    /\ bStop' = (bStop \/ conf.term)
    /\ UNCHANGED <<brun, mainVars>>

\* A bounds violation is counted, and told to the application; it stops the
\* run and the monitor when "terminate" says so.
Violation(m) ==
    /\ bad' = IF Accounted THEN [bad EXCEPT ![dev][m] = @ + 1] ELSE bad
    /\ bStop' = (bStop \/ conf.term)
    /\ brun' = (brun /\ ~conf.term)
    /\ UNCHANGED mainVars

\* With "force" the process exits there and then.
Exits(m) ==
    /\ conf.term /\ conf.force
    /\ bad' = [bad EXCEPT ![dev][m] = @ + 1]
    /\ bStop' = TRUE
    /\ main' = "gone" /\ thread' = "gone"
    /\ UNCHANGED <<conf, row, shown, brun, dev, met, passes, count, sum, low,
                   high, missed, pesmVars>>

Fine == UNCHANGED <<bad, bStop, brun, mainVars>>

\* The clocks: added whatever the status of the query.
SampleClock(m) ==
    /\ Sampling(m) /\ m \in conf.metrics
    /\ \E v \in 1..MaxReading :
          \/ v # 1 /\ m \in conf.checked /\ Exits(m)
          \/ /\ Add(m, v) /\ Moves
             /\ \/ v # 1 /\ m \in conf.checked /\ ~(conf.term /\ conf.force)
                   /\ Violation(m)
                \/ (v = 1 \/ m \notin conf.checked) /\ Fine
             /\ UNCHANGED <<conf, count, missed, pesmVars>>

\* The temperature, which may not be available.
SampleTemp ==
    \/ SampleClock("temp")
    \/ /\ Sampling("temp") /\ "temp" \in conf.metrics
       /\ missed' = TRUE
       /\ Moves /\ Fine
       /\ UNCHANGED <<conf, count, sum, low, high, pesmVars>>

\* The fan, which may not be available either.
SampleFan ==
    /\ Sampling("fan") /\ "fan" \in conf.metrics
    /\ \/ missed' = TRUE /\ Moves /\ Fine /\ UNCHANGED <<conf, count, sum, low, high, pesmVars>>
       \/ \E v \in 1..MaxReading :
             \/ v # 1 /\ "fan" \in conf.checked /\ Exits("fan")
             \/ /\ Add("fan", v)
                /\ \/ /\ v # 1 /\ "fan" \in conf.checked /\ ~(conf.term /\ conf.force)
                      /\ Violation("fan")
                      /\ \/ conf.term /\ Breaks /\ missed' = TRUE
                         \/ ~conf.term /\ Moves /\ UNCHANGED missed
                   \/ /\ v = 1 \/ "fan" \notin conf.checked
                      /\ Fine /\ Moves /\ UNCHANGED missed
                /\ UNCHANGED <<conf, count, pesmVars>>

\* The power: what is checked is not the reading but a variable that is never
\* set, so a check may find a violation whatever was read.
SamplePower ==
    /\ Sampling("power") /\ "power" \in conf.metrics
    /\ \E v \in 1..MaxReading :
          \/ "power" \in conf.checked /\ Exits("power")
          \/ /\ Add("power", v) /\ Moves
             /\ \/ "power" \in conf.checked /\ ~(conf.term /\ conf.force)
                   /\ Violation("power")
                \/ Fine
             /\ UNCHANGED <<conf, count, missed, pesmVars>>

\* Seeded fault: the devices are counted, not the passes.
PassEndsPerDevice ==
    /\ thread = "pass" /\ dev \notin Devices
    /\ thread' = "loop"
    /\ count' = IF conf.module = "gm" /\ Accounted THEN count + conf.devices ELSE count
    /\ UNCHANGED <<conf, mainVars, brun, dev, met, passes, sum, bad, low, high,
                   missed, bStop, pesmVars>>

\* Seeded fault: the first pass is not counted.
PassEndsLate ==
    /\ thread = "pass" /\ dev \notin Devices
    /\ thread' = "loop"
    /\ count' = IF conf.module = "gm" /\ Accounted THEN passes - 1 ELSE count
    /\ UNCHANGED <<conf, mainVars, brun, dev, met, passes, sum, bad, low, high,
                   missed, bStop, pesmVars>>

\* The pass is over; gm counts it.
PassEnds ==
    /\ thread = "pass" /\ dev \notin Devices
    /\ thread' = "loop"
    /\ count' = IF conf.module = "gm" /\ Accounted THEN count + 1 ELSE count
    /\ UNCHANGED <<conf, mainVars, brun, dev, met, passes, sum, bad, low, high,
                   missed, bStop, pesmVars>>

-----------------------------------------------------------------------------
(* The pass of pesm over a GPU that its filters select.                    *)

\* Seeded fault: the last comparison decides.
ChangedLast(k, v) ==
    IF old[dev][k] # v THEN "true" ELSE "false"

\* Once a change was seen it stays; "false" is only for a GPU without an entry.
Changed(k, v) ==
    IF old[dev][k] # v THEN "true"
    ELSE IF change[dev][k] = "" THEN "false" ELSE change[dev][k]

\* The first readings are kept, without a comparison; later ones are compared
\* with those before and kept when they differ.
LookAt ==
    /\ thread = "pass" /\ conf.module = "pesm" /\ dev \in Devices
    /\ dev' = dev + 1
    /\ \E now \in [Kinds -> 1..MaxReading] :
          /\ old' = [old EXCEPT ![dev] = now]
          /\ \/ /\ old[dev]["power"] = 0
                /\ first' = [first EXCEPT ![dev] = now]
                /\ UNCHANGED <<change, differs>>
             \/ /\ old[dev]["power"] # 0
                /\ change' = [change EXCEPT ![dev] = [k \in Kinds |-> Changed(k, now[k])]]
                /\ differs' = [differs EXCEPT ![dev] =
                                 [k \in Kinds |-> @[k] \/ now[k] # first[dev][k]]]
                /\ UNCHANGED first
    /\ UNCHANGED <<conf, mainVars, brun, thread, met, passes, gmVars, bStop>>

Done == main \in {"done", "gone"} /\ UNCHANGED vars

-----------------------------------------------------------------------------

Main == Start \/ Signal \/ ReportRow \/ Join

Sample ==
    \/ \E m \in Metrics : Skip(m)
    \/ \E m \in {"mem_clock", "clock"} : SampleClock(m)
    \/ SampleTemp \/ SampleFan \/ SamplePower

Worker == Begin \/ ResetCount \/ Turn \/ Sample \/ PassEnds \/ LookAt

Next == Main \/ Worker \/ Done

Spec == Init /\ [][Next]_vars

\* Both threads are scheduled; nobody has to call stop().
Fairness == WF_vars(Worker) /\ WF_vars(ReportRow \/ Join)

FairSpec == Spec /\ Fairness
-----------------------------------------------------------------------------

Counters(S) == [Devices -> [S -> Nat]]

TypeOK ==
    /\ conf \in Configs
    /\ main \in {"start", "running", "report", "join", "done", "gone"}
    /\ row \in 1..(conf.devices + 1)
    /\ shown \in [Devices -> [count : Nat, sum : [conf.metrics -> Nat]]]
    /\ brun \in BOOLEAN /\ bStop \in BOOLEAN /\ missed \in BOOLEAN
    /\ thread \in {"none", "begin", "filled", "loop", "pass", "exited", "gone"}
    /\ dev \in 1..(conf.devices + 1) /\ met \in DOMAIN Order
    /\ passes \in 0..(MaxPasses + 1) /\ count \in Nat
    /\ \A c \in {sum, bad, low, high} : c \in Counters(conf.metrics)
    /\ \A c \in {old, first} : c \in Counters(Kinds)
    /\ change \in [Devices -> [Kinds -> {"", "true", "false"}]]
    /\ differs \in [Devices -> [Kinds -> BOOLEAN]]

\* Between two passes the sums and count belong together: while every reading
\* was there, the average of each metric of each device, as stop() prints it,
\* lies between the least and the greatest reading.
AverageOfReadings ==
    thread \in {"loop", "exited"} /\ conf.module = "gm" /\ ~missed /\ count # 0 =>
       \A d \in Devices, m \in conf.metrics :
          /\ sum[d][m] >= count * low[d][m]
          /\ sum[d][m] <= count * high[d][m]

\* stop() prints while the thread may be in the middle of a pass: then a sum has
\* at most one reading more than count says, so that while every reading was
\* there no average is printed that count + 1 of the greatest readings exceed.
PrintedNearly ==
    ~missed => \A d \in Devices, m \in conf.metrics :
                  shown[d].sum[m] <= (shown[d].count + 1) * high[d][m]

\* What pesm says at its end of a GPU it has read more than once is whether the
\* link speed, or the power state, was ever another than at the beginning,
\* although it only compares each reading with the one before.
ChangeIsKnown ==
    conf.module = "pesm" =>
       \A d \in Devices, k \in Kinds :
          change[d][k] # "" => (change[d][k] = "true" <=> differs[d][k])

\* gm with "terminate" ends after a bounds violation, by itself and with the
\* log told to stop, without a stop() of another thread.
TerminateEnds ==
    conf.term /\ (\E d \in Devices, m \in conf.metrics : bad[d][m] > 0) ~>
       bStop /\ thread \in {"exited", "gone"}

\* A thread that has begun before it is stopped is joined.
StopOfRunningReturns ==
    conf.prompt /\ main \in {"report", "join"} ~> main \in {"done", "gone"}

\* What gm says of a metric is an average of its readings, or nearly one when the
\* report meets a pass.
AveragesRight == AverageOfReadings /\ PrintedNearly

\* A monitor ends, by a violation it is told to end at or by a stop, once it runs.
MonitorsEnd == TerminateEnds /\ StopOfRunningReturns
=============================================================================
