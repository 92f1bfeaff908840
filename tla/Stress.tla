------------------------------- MODULE Stress -------------------------------
(***************************************************************************)
(* The stress modules perf, tst, iet and pulse beside gst.  Their actions  *)
(* start, join and count their workers as that of gst does (module Gst,    *)
(* whose variables place, result, best, ended, hit and told mean the same  *)
(* here); what a worker does, and what becomes of its result, differs:     *)
(*                                                                         *)
(*   perf   runs its GEMMs once and tells whether the target is reached;   *)
(*   tst    watches the temperature while a thread of its own runs GEMMs,  *)
(*          each of which ends with a callback that wakes the thread;      *)
(*   iet    watches the power, with a thread for GEMMs and one for loads   *)
(*          from memory;                                                   *)
(*   pulse  alternates load and rest, all GPUs in step: their threads meet *)
(*          at a barrier twice, their GPUs at a counter in host memory.    *)
(*                                                                         *)
(* While such a worker runs, place is "stress" and step says where it is.  *)
(***************************************************************************)
EXTENDS Gst

CONSTANT MaxPulses  \* bound: pulses are counted up to here

ASSUME MaxPulsesAssumption == MaxPulses \in Nat \ {0}

VARIABLES step,     \* per GPU, where the worker's thread is
          load,     \* per GPU, the GEMM thread of tst or iet
          band,     \* per GPU, iet's bandwidth thread
          endtest,  \* per GPU, endtest, which only the constructor resets
          pending,  \* per GPU, tst: a callback is queued in the stream
          done,     \* pulse, done_flag
          arrival,  \* pulse, *gpu_arrival_count
          release,  \* pulse, *gpu_release_flag
          passed,   \* per GPU, pulse: test_passed
          pulses,   \* per GPU, pulse: pulse_count
          clock     \* per GPU, pulse: the clock levels the driver may use

loadVars  == <<load, band, endtest, pending>>
syncVars  == <<done, arrival, release>>
pulseVars == <<syncVars, passed, pulses, clock>>
newVars    == <<step, loadVars, pulseVars>>
stressVars == <<vars, newVars>>

Is(module) == conf.module = module
Secondary(i) == conf.secondary /\ i = N

StressInit ==
    /\ Init
    /\ Is("gst") \/ Is("iet") \/ result = [i \in Gpus |-> FALSE]  \* pulse sets it, perf and tst have none
    /\ step = [i \in Gpus |-> "none"]
    /\ load = [i \in Gpus |-> "none"] /\ band = [i \in Gpus |-> "none"]
    /\ endtest = [i \in Gpus |-> FALSE] /\ pending = [i \in Gpus |-> FALSE]
    /\ done = FALSE /\ arrival = 0 /\ release = 0
    /\ passed = [i \in Gpus |-> TRUE] /\ pulses = [i \in Gpus |-> 0]
    /\ clock = [i \in Gpus |-> "auto"]

-----------------------------------------------------------------------------
(* The action's thread.                                                    *)

\* pulse runs once, whatever count says.
CountOnce ==
    /\ pc = "count" /\ Is("pulse")
    /\ Goes("verdict") /\ cur' = 1
    /\ UNCHANGED <<conf, stopping, workerVars>>

\* perf looks at Stopping() only, tst at nothing, iet and pulse at the results.
VerdictOfModule ==
    /\ pc = "verdict" /\ ~Is("gst")
    /\ pc' = "done"
    /\ sts' = IF \/ Is("perf") /\ ~stopping
                 \/ Is("tst")
                 \/ (Is("iet") \/ Is("pulse")) /\ \A i \in Gpus : result[i]
              THEN "pass" ELSE "fail"
    /\ UNCHANGED <<conf, cur, k, stopping, workerVars>>

\* The memory of the GPUs' barrier cannot be had: said before any worker starts.
NoBarrier ==
    /\ pc = "start" /\ cur = 1 /\ Is("pulse") /\ conf.parallel /\ N > 1
    /\ place[1] = "none"
    /\ pc' = "done" /\ sts' = "fail"
    /\ told' = [told EXCEPT ![1] = TRUE]
    /\ UNCHANGED <<conf, cur, k, stopping, place, result, best, ended, hit>>

MainStep ==
    /\ \/ StartWorker \/ Join \/ Joined \/ NoBarrier
       \/ ~Is("pulse") /\ Count
       \/ CountOnce
       \/ Is("gst") /\ Verdict
       \/ VerdictOfModule
    /\ UNCHANGED newVars

-----------------------------------------------------------------------------
(* A worker's thread.                                                      *)

SetUp(i, module, to) ==
    /\ Is(module) /\ WorkerGoes(i, "setup", "stress")
    /\ step' = [step EXCEPT ![i] = to]

Steps(i, from, to) ==
    /\ place[i] = "stress" /\ step[i] = from
    /\ step' = [step EXCEPT ![i] = to]
    /\ UNCHANGED <<conf, mainVars, stopping, place>>

Exits(i, from) ==
    /\ step[i] = from /\ WorkerGoes(i, "stress", "exited")
    /\ step' = [step EXCEPT ![i] = "none"]

EndsAs(i, how) == ended' = [ended EXCEPT ![i] = how]

-----------------------------------------------------------------------------
(* perf.                                                                   *)

\* A set-up that fails ends the worker without a word.
PerfFails(i) ==
    /\ Is("perf") /\ WorkerGoes(i, "setup", "exited")
    /\ EndsAs(i, "error")
    /\ UNCHANGED <<result, best, hit, told, newVars>>

PerfSetUp(i) ==
    SetUp(i, "perf", "gemm") /\ Silent /\ UNCHANGED <<loadVars, pulseVars>>

\* The GEMMs are timed, whether or not they succeed, unless there is no duration;
\* their rate is compared with the target, and told.  A stop is looked at after
\* GEMMs only.
PerfGemm(i) ==
    /\ Exits(i, "gemm")
    /\ \E reaches \in BOOLEAN :
          /\ best' = [best EXCEPT ![i] = reaches]
          /\ hit' = [hit EXCEPT ![i] = reaches]
          /\ \/ conf.duration /\ stopping /\ EndsAs(i, "stop") /\ UNCHANGED told
             \/ /\ ~(conf.duration /\ stopping) /\ EndsAs(i, "checked")
                /\ told' = [told EXCEPT ![i] = ~reaches]
    /\ UNCHANGED <<result, loadVars, pulseVars>>

-----------------------------------------------------------------------------
(* tst and iet: the thread that watches.                                   *)

Watches(i) == Is("tst") \/ Is("iet")

\* The load threads are started, and the watch begins.
WatchBegins(i) ==
    /\ Watches(i)
    /\ SetUp(i, conf.module, "watch")
    /\ load' = [load EXCEPT ![i] =
                  IF Is("tst") \/ "compute" \in conf.loads THEN "loop" ELSE "none"]
    /\ band' = [band EXCEPT ![i] =
                  IF Is("iet") /\ "bandwidth" \in conf.loads THEN "setup" ELSE "none"]
    /\ Silent /\ UNCHANGED <<endtest, pending, pulseVars>>

\* A reading, which may be the highest so far.
Reading(i, to) ==
    /\ ~stopping
    /\ Steps(i, "watch", to)
    /\ \E reaches \in BOOLEAN :
          /\ best' = [best EXCEPT ![i] = @ \/ reaches]
          /\ hit' = [hit EXCEPT ![i] = @ \/ reaches]
    /\ UNCHANGED <<result, ended, told, loadVars, pulseVars>>

WatchGoesOn(i) == Watches(i) /\ Reading(i, "nap")
WatchOver(i)   == Watches(i) /\ Reading(i, "judge")

\* A stop seen at the head of the loop leads to a verdict over what was read so
\* far ...
WatchStopped(i) ==
    /\ Watches(i) /\ stopping
    /\ Steps(i, "watch", "judge")
    /\ Silent /\ UNCHANGED <<loadVars, pulseVars>>

\* ... one seen after the nap makes the result true.
Nap(i) ==
    /\ \/ /\ stopping /\ Steps(i, "nap", "stopLoad")
          /\ result' = [result EXCEPT ![i] = IF Is("iet") THEN TRUE ELSE @]
       \/ ~stopping /\ Steps(i, "nap", "watch") /\ UNCHANGED result
    /\ UNCHANGED <<best, historyVars, loadVars, pulseVars>>

\* The verdict is told; iet keeps it as its result, and lets a GPU pass whose
\* power nobody reports.
Judge(i) ==
    /\ Steps(i, "judge", "stopLoad")
    /\ LET met == best[i] \/ (Is("iet") /\ Secondary(i)) IN
          /\ result' = [result EXCEPT ![i] = IF Is("iet") THEN met ELSE @]
          /\ told' = [told EXCEPT ![i] = ~met]
    /\ UNCHANGED <<best, ended, hit, loadVars, pulseVars>>

\* Seeded fault: nobody tells the load threads to end.
StopLoadNot(i) ==
    Steps(i, "stopLoad", "join") /\ Silent /\ UNCHANGED <<loadVars, pulseVars>>

\* The load threads are told to end ...
StopLoad(i) ==
    /\ Steps(i, "stopLoad", "join")
    /\ endtest' = [endtest EXCEPT ![i] = TRUE]
    /\ Silent /\ UNCHANGED <<load, band, pending, pulseVars>>

\* ... and joined.
JoinLoad(i) ==
    /\ load[i] = "none" /\ band[i] = "none"
    /\ Exits(i, "join")
    /\ EndsAs(i, IF stopping THEN "stop" ELSE "checked")
    /\ UNCHANGED <<result, best, hit, told, loadVars, pulseVars>>

-----------------------------------------------------------------------------
(* tst and iet: the threads that load the GPU.                             *)

Loads(i, to) ==
    /\ load' = [load EXCEPT ![i] = to]
    /\ UNCHANGED <<vars, step, band, pulseVars>>

\* A turn, unless the duration is over or endtest is set.
LoadTurn(i) ==
    /\ load[i] = "loop"
    /\ \/ ~endtest[i] /\ Loads(i, IF Is("tst") THEN "queued" ELSE "gemm")
          /\ pending' = [pending EXCEPT ![i] = Is("tst")]
       \/ Loads(i, "none") /\ UNCHANGED pending
    /\ UNCHANGED endtest

\* tst: hipStreamAddCallback fails, which nobody notices.
CallbackRefused(i) ==
    /\ load[i] = "loop" /\ ~endtest[i] /\ Is("tst")
    /\ Loads(i, "queued") /\ UNCHANGED <<endtest, pending>>

\* tst: the thread waits, without looking whether what it waits for has come
\* (it may also wake for no reason, which is left out).
Wait(i) ==
    load[i] = "queued" /\ Loads(i, "waiting") /\ UNCHANGED <<endtest, pending>>

\* tst: the GEMM is complete and the callback wakes who waits.
Callback(i) ==
    /\ pending[i]
    /\ pending' = [pending EXCEPT ![i] = FALSE]
    /\ Loads(i, IF load[i] = "waiting" THEN "loop" ELSE load[i])
    /\ UNCHANGED endtest

\* iet: the GEMM is complete, or it failed and ends the load, not the watch.
IetGemm(i) ==
    /\ load[i] = "gemm" /\ UNCHANGED pending
    /\ \/ Loads(i, "loop") /\ UNCHANGED endtest
       \/ Loads(i, "none") /\ endtest' = [endtest EXCEPT ![i] = TRUE]

\* iet's bandwidth thread: what it needs cannot be had, or a kernel runs, and
\* another one, until it fails, the duration is over or endtest is set.
Bandwidth(i) ==
    /\ \/ band[i] = "setup" /\ \E to \in {"none", "kernel"} : band' = [band EXCEPT ![i] = to]
       \/ band[i] = "kernel" /\ ~endtest[i] /\ UNCHANGED band
       \/ band[i] = "kernel" /\ band' = [band EXCEPT ![i] = "none"]
    /\ UNCHANGED <<vars, step, load, endtest, pending, pulseVars>>

-----------------------------------------------------------------------------
(* pulse.                                                                  *)

Synced == conf.parallel /\ N > 1

\* A set-up that fails ends the worker.
PulseFails(i) ==
    /\ Is("pulse") /\ WorkerGoes(i, "setup", "exited")
    /\ result' = [result EXCEPT ![i] = FALSE]
    /\ told' = [told EXCEPT ![i] = TRUE]
    /\ EndsAs(i, "error")
    /\ UNCHANGED <<best, hit, newVars>>

\* The levels of the clocks are probed and the valid ones allowed again.
PulseSetUp(i) ==
    /\ SetUp(i, "pulse", "head")
    /\ passed' = [passed EXCEPT ![i] = TRUE] /\ pulses' = [pulses EXCEPT ![i] = 0]
    /\ Silent /\ UNCHANGED <<loadVars, syncVars, clock>>

\* The arrival of a thread at the barrier: the last one lets all of them through.
Arrives(i, from, at, through) ==
    /\ place[i] = "stress" /\ step[i] = from
    /\ step' = IF \A j \in Gpus \ {i} : step[j] = at
               THEN [j \in Gpus |-> through]
               ELSE [step EXCEPT ![i] = at]
    /\ UNCHANGED <<conf, mainVars, stopping, place>>

\* while (!Stopping())
PulseStopped(i) ==
    /\ stopping
    /\ Steps(i, "head", "final")
    /\ EndsAs(i, IF ended[i] = "none" THEN "stop" ELSE ended[i])
    /\ UNCHANGED <<result, best, hit, told, loadVars, pulseVars>>

\* Seeded fault: nobody meets anybody.
PulseHeadAlone(i, timeUp) ==
    /\ ~stopping /\ timeUp => conf.duration
    /\ Steps(i, "head", IF timeUp THEN "final" ELSE "high")
    /\ Silent /\ UNCHANGED <<loadVars, pulseVars>>

\* Seeded fault: a thread whose time is up does not meet the others.
PulseHeadLeaves(i, timeUp) ==
    /\ ~stopping /\ timeUp => conf.duration
    /\ \/ /\ Synced /\ ~timeUp /\ Arrives(i, "head", "barrier", "through")
       \/ timeUp /\ Steps(i, "head", "final")
       \/ ~Synced /\ ~timeUp /\ Steps(i, "head", "high")
    /\ Silent /\ UNCHANGED <<loadVars, pulseVars>>

\* With a barrier every thread says that its time is up, and goes to meet the
\* others all the same; without one it leaves.
PulseHead(i, timeUp) ==
    /\ ~stopping /\ timeUp => conf.duration
    /\ \/ /\ Synced /\ Arrives(i, "head", "barrier", "through")
          /\ done' = (done \/ timeUp)
       \/ ~Synced /\ Steps(i, "head", IF timeUp THEN "final" ELSE "high") /\ UNCHANGED done
    /\ Silent /\ UNCHANGED <<loadVars, arrival, release, passed, pulses, clock>>

\* Seeded fault: no counter is reset.
PulseThroughCounted(i) ==
    /\ \/ done /\ Steps(i, "through", "final")
       \/ ~done /\ Arrives(i, "through", "barrier2", "kernel")
    /\ Silent /\ UNCHANGED <<loadVars, syncVars, passed, pulses, clock>>

\* Seeded fault: the release of the pulse before is left.
PulseThroughReleased(i) ==
    /\ \/ done /\ Steps(i, "through", "final") /\ UNCHANGED <<arrival, release>>
       \/ /\ ~done /\ Arrives(i, "through", "barrier2", "kernel")
          /\ \/ i = 1 /\ arrival' = 0 /\ UNCHANGED release
             \/ i # 1 /\ UNCHANGED <<arrival, release>>
    /\ Silent /\ UNCHANGED <<loadVars, done, passed, pulses, clock>>

\* Together through the barrier, all leave when the time of one is up; if not,
\* the first resets the counters of the GPUs, and all meet again.
PulseThrough(i) ==
    /\ \/ done /\ Steps(i, "through", "final") /\ UNCHANGED <<arrival, release>>
       \/ /\ ~done /\ Arrives(i, "through", "barrier2", "kernel")
          /\ \/ i = 1 /\ arrival' = 0 /\ release' = 0
             \/ i # 1 /\ UNCHANGED <<arrival, release>>
    /\ Silent /\ UNCHANGED <<loadVars, done, passed, pulses, clock>>

\* gpu_sync_barrier_kernel: a GPU arrives; the last one releases the others ...
Kernel(i) ==
    /\ arrival' = arrival + 1
    /\ \/ arrival' = N /\ Steps(i, "kernel", "high") /\ release' = 1
       \/ arrival' # N /\ Steps(i, "kernel", "spin") /\ UNCHANGED release
    /\ Silent /\ UNCHANGED <<loadVars, done, passed, pulses, clock>>

\* ... which spin until then.
Spin(i) ==
    /\ release = 1
    /\ Steps(i, "spin", "high")
    /\ Silent /\ UNCHANGED <<loadVars, pulseVars>>

\* The kernel fails, which fails the test; the thread goes on.
KernelFails(i) ==
    /\ Steps(i, "kernel", "high")
    /\ passed' = [passed EXCEPT ![i] = FALSE] /\ EndsAs(i, "error")
    /\ UNCHANGED <<result, best, hit, told, loadVars, syncVars, pulses, clock>>

\* The clocks are set to their highest and GEMMs run for the high phase.  One
\* that fails, or too high a temperature, fails the test, and with
\* halt_on_error ends it.
High(i) ==
    /\ clock' = [clock EXCEPT ![i] = "highest"]
    /\ \/ Steps(i, "high", "low") /\ UNCHANGED <<passed, ended>>
       \/ /\ passed' = [passed EXCEPT ![i] = FALSE]
          /\ \/ conf.halt /\ Steps(i, "high", "final") /\ EndsAs(i, "error")
             \/ ~conf.halt /\ Steps(i, "high", "low") /\ UNCHANGED ended
    /\ UNCHANGED <<result, best, hit, told, loadVars, syncVars, pulses>>

\* The clocks are set to their lowest for the low phase, which ends a pulse.
Low(i) ==
    /\ Steps(i, "low", IF stopping THEN "final" ELSE "head")
    /\ clock' = [clock EXCEPT ![i] = "lowest"]
    /\ pulses' = [pulses EXCEPT ![i] = IF @ = MaxPulses THEN @ ELSE @ + 1]
    /\ ended' = [ended EXCEPT ![i] = IF stopping /\ @ = "none" THEN "stop" ELSE @]
    /\ UNCHANGED <<result, best, hit, told, loadVars, syncVars, passed>>

\* Seeded fault: the end leaves the clocks as they are.
FinalUnrestored(i) ==
    /\ Exits(i, "final")
    /\ \E correct \in BOOLEAN :
          /\ passed' = [passed EXCEPT ![i] = @ /\ correct]
          /\ hit' = [hit EXCEPT ![i] = passed'[i] /\ pulses[i] > 0]
          /\ result' = [result EXCEPT ![i] = Secondary(i) \/ hit'[i]]
          /\ told' = [told EXCEPT ![i] = ~result'[i]]
    /\ ended' = [ended EXCEPT ![i] = IF @ = "none" THEN "checked" ELSE @]
    /\ UNCHANGED <<best, loadVars, syncVars, pulses, clock>>

\* The GEMM results are verified, the clocks restored, the verdict told.
Final(i) ==
    /\ Exits(i, "final")
    /\ clock' = [clock EXCEPT ![i] = "auto"]
    /\ \E correct \in BOOLEAN :
          /\ passed' = [passed EXCEPT ![i] = @ /\ correct]
          /\ hit' = [hit EXCEPT ![i] = passed'[i] /\ pulses[i] > 0]
          /\ result' = [result EXCEPT ![i] = Secondary(i) \/ hit'[i]]
          /\ told' = [told EXCEPT ![i] = ~result'[i]]
    /\ ended' = [ended EXCEPT ![i] = IF @ = "none" THEN "checked" ELSE @]
    /\ UNCHANGED <<best, loadVars, syncVars, pulses>>

-----------------------------------------------------------------------------

GstWorker(i)  == Is("gst") /\ Worker(i) /\ UNCHANGED newVars
PerfWorker(i) == PerfFails(i) \/ PerfSetUp(i) \/ PerfGemm(i)
WatchWorker(i) ==
    \/ WatchBegins(i) \/ WatchGoesOn(i) \/ WatchOver(i) \/ WatchStopped(i)
    \/ Nap(i) \/ Judge(i) \/ StopLoad(i) \/ JoinLoad(i)
PulseWorker(i) ==
    \/ PulseFails(i) \/ PulseSetUp(i) \/ PulseStopped(i)
    \/ \E timeUp \in BOOLEAN : PulseHead(i, timeUp)
    \/ PulseThrough(i) \/ Kernel(i) \/ Spin(i) \/ KernelFails(i)
    \/ High(i) \/ Low(i) \/ Final(i)

ThreadOf(i) == GstWorker(i) \/ PerfWorker(i) \/ WatchWorker(i) \/ PulseWorker(i)
LoadOf(i)   == LoadTurn(i) \/ CallbackRefused(i) \/ Wait(i) \/ IetGemm(i)

\* A thread of pulse waits for another that will not come: there is nothing that
\* ends its wait.
Deserted ==
    \E i, j \in Gpus : /\ step[i] \in {"barrier", "barrier2"}
                       /\ \/ step[j] = "final"
                          \/ place[j] # "stress" /\ ended[j] # "none"

\* The kernel of a GPU spins, and that of another failed before it arrived.
Unreleased == (\E i \in Gpus : step[i] = "spin") /\ \E j \in Gpus : ended[j] = "error"

\* The callback of tst came before the thread waited for it, or will never come.
Lost == \E i \in Gpus : load[i] = "waiting" /\ ~pending[i]

Hangs == (Deserted \/ Unreleased \/ Lost) /\ UNCHANGED stressVars

StressNext ==
    \/ MainStep
    \/ \E i \in Gpus : ThreadOf(i) \/ LoadOf(i) \/ Callback(i) \/ Bandwidth(i)
    \/ StopRequested /\ UNCHANGED newVars
    \/ Hangs
    \/ Done /\ UNCHANGED newVars

StressSpec == StressInit /\ [][StressNext]_stressVars

\* The time of the loop that a worker is in is up.
TimeUp(i) ==
    \/ Is("gst") /\ (RampOver(i) \/ GemmLast(i)) /\ UNCHANGED newVars
    \/ WatchOver(i)
    \/ PulseHead(i, TRUE)

\* Every thread is scheduled; a GEMM or a kernel comes back, its callback too
\* (what runs beside a worker ends or waits once endtest is set, so that one
\* condition for all of it is enough); and the time of each loop is up once.
StressFairness ==
    /\ WF_stressVars(MainStep)
    /\ \A i \in AllGpus :
          /\ WF_stressVars(i \in Gpus /\ ThreadOf(i))
          /\ WF_stressVars(i \in Gpus /\ (LoadOf(i) \/ Callback(i) \/ Bandwidth(i)))
          /\ SF_stressVars(i \in Gpus /\ TimeUp(i))

FairStressSpec == StressSpec /\ StressFairness
-----------------------------------------------------------------------------

StressTypeOK ==
    /\ step \in [Gpus -> {"none", "gemm", "watch", "nap", "judge", "stopLoad", "join",
                          "head", "barrier", "through", "barrier2", "kernel",
                          "spin", "high", "low", "final"}]
    /\ load \in [Gpus -> {"none", "loop", "gemm", "queued", "waiting"}]
    /\ band \in [Gpus -> {"none", "setup", "kernel"}]
    /\ endtest \in [Gpus -> BOOLEAN] /\ pending \in [Gpus -> BOOLEAN]
    /\ done \in BOOLEAN /\ arrival \in 0..N /\ release \in {0, 1}
    /\ passed \in [Gpus -> BOOLEAN] /\ pulses \in [Gpus -> 0..MaxPulses]
    /\ clock \in [Gpus -> {"auto", "highest", "lowest"}]

\* The end of the duration, which each thread of pulse finds by its own clock,
\* leaves none of them at the barrier: done_flag lets all of them go together.
\* Only a stop or an error of one can desert another.
DurationEndsTogether ==
    Deserted => \E i \in Gpus : ended[i] \in {"stop", "error"}

\* The GPUs start each pulse together: while one is in a pulse, none is still on
\* its way to the barrier kernel of that pulse, although the counters are used
\* again for every pulse, unless a kernel failed.
ReleasedTogether ==
    Is("pulse") /\ Synced /\ (\A i \in Gpus : ended[i] # "error") =>
       ~ \E i, j \in Gpus : /\ step[i] \in {"high", "low"}
                            /\ step[j] \in {"through", "barrier2", "kernel"}

\* No GPU is more than a pulse ahead of another, and when every thread has ended
\* by its duration all have done equally many.
PulsesInStep ==
    Is("pulse") /\ Synced =>
       \A i, j \in Gpus :
          /\ "setup" \notin {place[i], place[j]} /\ "error" \notin {ended[i], ended[j]}
                => pulses[i] <= pulses[j] + 1
          /\ (\A n \in Gpus : ended[n] = "checked") => pulses[i] = pulses[j]

\* The GPUs of pulse go through their pulses together: into each, through each and out
\* of the last.
PulsesTogether == DurationEndsTogether /\ ReleasedTogether /\ PulsesInStep

\* However a worker of pulse ends, its GPU may use all its clock levels again.
ClocksRestored ==
    \A i \in Gpus : place[i] \in {"none", "exited"} => clock[i] = "auto"

\* The action ends as that of gst does, unless a thread waits for what will not
\* come.
StressEnds ==
    (conf.count # 0 \/ stopping) ~> (pc = "done" \/ Deserted \/ Unreleased \/ Lost)

-----------------------------------------------------------------------------
\* "Level 1: CPU barrier - all threads MUST arrive even if done, otherwise the
\* remaining threads deadlock here forever." (pulse.so/src/pulse_worker.cpp:388-389)
NoneDeserted == ~Deserted
=============================================================================
