--------------------------------- MODULE Gst ---------------------------------
(***************************************************************************)
(* The gst module: an action stresses every selected GPU in a worker       *)
(* thread, all at once or one after the other, "count" times, and passes   *)
(* when every worker's result says so.  A worker ramps up, runs GEMMs for  *)
(* the duration, and compares the best GFLOPS it saw with the target.      *)
(* Its action's thread is that of the other stress modules as well, which  *)
(* module Stress adds.                                                     *)
(*                                                                         *)
(* The workers live as long as the action: what an iteration leaves in one *)
(* is still there in the next.  GFLOPS are abstracted to whether they      *)
(* reach target_stress less the tolerance.                                 *)
(***************************************************************************)
EXTENDS Naturals

CONSTANTS Configs,  \* the actions to run
          Stops     \* whether somebody may request a stop

\* The module, the selected GPUs, and the properties: count and parallel, whether
\* duration is set, and whether there is a ramp_interval (gst); cp_workload and
\* bw_workload (iet), halt_on_error (pulse), and whether the last GPU is a
\* secondary one, which reports no power (iet, pulse).
ActionConfig == [module : {"gst", "perf", "tst", "iet", "pulse"},
                 gpus : Nat \ {0}, count : Nat, parallel : BOOLEAN,
                 duration : BOOLEAN, ramp : BOOLEAN,
                 loads : SUBSET {"compute", "bandwidth"}, halt : BOOLEAN,
                 secondary : BOOLEAN]

ASSUME ConfigsAssumption == Configs \subseteq ActionConfig
ASSUME StopsAssumption == Stops \in BOOLEAN

AllGpus == UNION {1..c.gpus : c \in Configs}

VARIABLES conf,     \* the action's properties
          pc,       \* where do_gpu_stress_test is
          cur,      \* the worker it is at
          k,        \* iterations done
          sts,      \* what the action reports at its end
          stopping, \* rvs::lp::Stopping()
          place,    \* per GPU, where the worker's thread is in run()
          result,   \* per GPU, the worker's result
          best,     \* per GPU, max_gflops reaches the target
          ended,    \* per GPU, how the run of this iteration ended (history)
          hit,      \* per GPU, its stress test saw the target (history)
          told      \* per GPU, it reported FAILED in this iteration (history)

mainVars    == <<pc, cur, k, sts>>
historyVars == <<ended, hit, told>>
workerVars  == <<place, result, best, historyVars>>
vars == <<conf, mainVars, stopping, workerVars>>

N    == conf.gpus
Gpus == 1..N

Init ==
    /\ conf \in Configs
    /\ pc = "start" /\ cur = 1 /\ k = 0 /\ sts = "none"
    /\ stopping = FALSE
    /\ place = [i \in Gpus |-> "none"]
    /\ result \in [Gpus -> BOOLEAN]   \* not initialised by the constructor
    /\ best = [i \in Gpus |-> FALSE]
    /\ ended = [i \in Gpus |-> "none"]
    /\ hit = [i \in Gpus |-> FALSE]
    /\ told = [i \in Gpus |-> FALSE]

-----------------------------------------------------------------------------
(* do_gpu_stress_test, in the action's thread.                             *)

Goes(to) == pc' = to /\ UNCHANGED <<k, sts>>

\* The next worker is started; a sequential action joins it at once.
StartWorker ==
    /\ pc = "start" /\ cur \in Gpus
    /\ place' = [place EXCEPT ![cur] = "setup"]
    /\ best' = [best EXCEPT ![cur] = FALSE]
    /\ ended' = [ended EXCEPT ![cur] = "none"]
    /\ hit' = [hit EXCEPT ![cur] = FALSE]
    /\ told' = [told EXCEPT ![cur] = FALSE]
    /\ \/ conf.parallel /\ cur < N /\ Goes("start") /\ cur' = cur + 1
       \/ conf.parallel /\ cur = N /\ Goes("join") /\ cur' = 1
       \/ ~conf.parallel /\ Goes("join") /\ UNCHANGED cur
    /\ UNCHANGED <<conf, stopping, result>>

\* A worker is joined ...
Join ==
    /\ pc = "join" /\ cur \in Gpus
    /\ place[cur] = "exited"
    /\ place' = [place EXCEPT ![cur] = "none"]
    /\ Goes("joined")
    /\ UNCHANGED <<conf, cur, stopping, result, best, historyVars>>

\* Seeded fault: the loops run to i <= size.
JoinedBeyond ==
    /\ pc = "joined"
    /\ \/ cur <= N /\ ~stopping /\ Goes("start") /\ cur' = cur + 1
       \/ cur > N /\ ~stopping /\ Goes("count") /\ UNCHANGED cur
    /\ UNCHANGED <<conf, stopping, workerVars>>

\* ... and the next one is joined, or started; a sequential action looks at
\* Stopping() in between, and any looks at it after the last.
Joined ==
    /\ pc = "joined"
    /\ \/ /\ stopping /\ (~conf.parallel \/ cur = N)
          /\ pc' = "done" /\ sts' = "fail"
          /\ UNCHANGED <<cur, k>>
       \/ /\ cur < N /\ (conf.parallel \/ ~stopping)
          /\ Goes(IF conf.parallel THEN "join" ELSE "start")
          /\ cur' = cur + 1
       \/ cur = N /\ ~stopping /\ Goes("count") /\ UNCHANGED cur
    /\ UNCHANGED <<conf, stopping, workerVars>>

\* Seeded fault: the iterations are not counted.
CountNot ==
    /\ pc = "count"
    /\ cur' = 1 /\ Goes(IF conf.count = 1 THEN "verdict" ELSE "start")
    /\ UNCHANGED <<conf, stopping, workerVars>>

\* The iteration is over; with a count of 0 there is always another one.
Count ==
    /\ pc = "count"
    /\ cur' = 1
    /\ UNCHANGED sts
    /\ \/ conf.count = 0 /\ pc' = "start" /\ UNCHANGED k
       \/ /\ conf.count # 0 /\ k' = k + 1
          /\ pc' = IF k' = conf.count THEN "verdict" ELSE "start"
    /\ UNCHANGED <<conf, stopping, workerVars>>

\* Seeded fault: a single worker that reaches its target will do.
VerdictOfAny ==
    /\ pc = "verdict"
    /\ pc' = "done"
    /\ sts' = IF ~stopping /\ (\E i \in Gpus : result[i]) THEN "pass" ELSE "fail"
    /\ UNCHANGED <<conf, cur, k, stopping, workerVars>>

\* The results of the workers, unless a stop is requested, make the action's.
Verdict ==
    /\ pc = "verdict"
    /\ pc' = "done"
    /\ sts' = IF ~stopping /\ (\A i \in Gpus : result[i]) THEN "pass" ELSE "fail"
    /\ UNCHANGED <<conf, cur, k, stopping, workerVars>>

-----------------------------------------------------------------------------
(* GSTWorker::run, in the thread of GPU i.                                 *)

WorkerGoes(i, from, to) ==
    /\ place[i] = from
    /\ place' = [place EXCEPT ![i] = to]
    /\ UNCHANGED <<conf, mainVars, stopping>>

\* Seeded fault: an error is not reported.
ReportsNot(i) ==
    /\ ended' = [ended EXCEPT ![i] = "error"]
    /\ UNCHANGED <<result, best, hit, told>>

\* An error in the ramp-up or in the stress test: reported, result is left.
Reports(i) ==
    /\ told' = [told EXCEPT ![i] = TRUE]
    /\ ended' = [ended EXCEPT ![i] = "error"]
    /\ UNCHANGED <<result, best, hit>>

Silent == UNCHANGED <<result, best, historyVars>>

\* do_gst_ramp: setup_blas fails, or the ramp-up begins.
Setup(i) ==
    \/ WorkerGoes(i, "setup", "exited") /\ Reports(i)
    \/ WorkerGoes(i, "setup", "ramp") /\ Silent

\* A turn of the ramp-up: its GEMM ...
RampTurn(i) ==
    /\ ~stopping
    /\ WorkerGoes(i, "ramp", "rampGemm") /\ Silent

\* ... fails, or there is another turn, or the target is reached (or this was
\* the only one).
RampGemm(i) ==
    \/ WorkerGoes(i, "rampGemm", "exited") /\ Reports(i)
    \/ conf.ramp /\ WorkerGoes(i, "rampGemm", "ramp") /\ Silent
    \/ WorkerGoes(i, "rampGemm", "begin") /\ Silent

\* The ramp-up is over because its interval is, or for a stop.  That it missed
\* the target is not looked at.
RampOver(i) ==
    /\ stopping \/ conf.ramp
    /\ WorkerGoes(i, "ramp", "begin") /\ Silent

\* do_gst_stress_test sets max_gflops to zero ...
StressBegins(i) ==
    /\ WorkerGoes(i, "begin", "stress")
    /\ best' = [best EXCEPT ![i] = FALSE]
    /\ UNCHANGED <<result, historyVars>>

\* ... and runs GEMMs, unless a stop is requested ...
StressTurn(i) ==
    \/ ~stopping /\ WorkerGoes(i, "stress", "gemm") /\ Silent
    \/ /\ stopping /\ WorkerGoes(i, "stress", "exited")
       /\ ended' = [ended EXCEPT ![i] = "stop"]
       /\ UNCHANGED <<result, best, hit, told>>

\* ... one of which fails ...
GemmFails(i) == WorkerGoes(i, "gemm", "error") /\ Silent

\* ... or comes back, and may be the best so far.
Gemm(i, to) ==
    /\ WorkerGoes(i, "gemm", to)
    /\ \E reaches \in BOOLEAN :
          /\ best' = [best EXCEPT ![i] = @ \/ reaches]
          /\ hit' = [hit EXCEPT ![i] = @ \/ reaches]
    /\ UNCHANGED <<result, ended, told>>

GemmAgain(i) == conf.duration /\ Gemm(i, "stress")
GemmLast(i)  == Gemm(i, "timeUp")

\* run() looks at Stopping() before it looks at the error ...
StressError(i) ==
    /\ WorkerGoes(i, "error", "exited")
    /\ \/ /\ stopping /\ ended' = [ended EXCEPT ![i] = "stop"]
          /\ UNCHANGED <<result, best, hit, told>>
       \/ ~stopping /\ Reports(i)

\* ... and before check_target_stress, which alone sets the result.
CheckTarget(i) ==
    /\ WorkerGoes(i, "timeUp", "exited")
    /\ \/ /\ stopping /\ ended' = [ended EXCEPT ![i] = "stop"]
          /\ UNCHANGED <<result, best, hit, told>>
       \/ /\ ~stopping
          /\ result' = [result EXCEPT ![i] = best[i]]
          /\ told' = [told EXCEPT ![i] = ~best[i]]
          /\ ended' = [ended EXCEPT ![i] = "checked"]
          /\ UNCHANGED <<best, hit>>

\* Another thread (a gm monitor) calls rvs::lp::Stop.
StopRequested ==
    /\ Stops /\ ~stopping /\ pc # "done"
    /\ stopping' = TRUE
    /\ UNCHANGED <<conf, mainVars, workerVars>>

Done == pc = "done" /\ UNCHANGED vars

-----------------------------------------------------------------------------

Main == StartWorker \/ Join \/ Joined \/ Count \/ Verdict

Worker(i) ==
    \/ Setup(i) \/ RampTurn(i) \/ RampGemm(i) \/ RampOver(i)
    \/ StressBegins(i) \/ StressTurn(i)
    \/ GemmFails(i) \/ GemmAgain(i) \/ GemmLast(i)
    \/ StressError(i) \/ CheckTarget(i)

Next == Main \/ (\E i \in Gpus : Worker(i)) \/ StopRequested \/ Done

Spec == Init /\ [][Next]_vars

\* Every thread is scheduled, a GEMM comes back; the ramp-up and the stress
\* test are over some time, since turns take time.
Fairness ==
    /\ WF_vars(Main)
    /\ \A i \in AllGpus : /\ WF_vars(i \in Gpus /\ Worker(i))
                          /\ SF_vars(i \in Gpus /\ RampOver(i))
                          /\ SF_vars(i \in Gpus /\ GemmLast(i))

FairSpec == Spec /\ Fairness
-----------------------------------------------------------------------------

TypeOK ==
    /\ conf \in Configs
    /\ pc \in {"start", "join", "joined", "count", "verdict", "done"}
    /\ cur \in Gpus /\ k \in Nat /\ sts \in {"none", "pass", "fail"}
    /\ stopping \in BOOLEAN
    /\ place \in [Gpus -> {"none", "setup", "ramp", "rampGemm", "begin", "stress",
                           "gemm", "error", "timeUp", "exited"}]
    /\ result \in [Gpus -> BOOLEAN] /\ best \in [Gpus -> BOOLEAN]
    /\ ended \in [Gpus -> {"none", "error", "stop", "checked"}]
    /\ hit \in [Gpus -> BOOLEAN] /\ told \in [Gpus -> BOOLEAN]

\* An action that passes has run every worker to its end in the last iteration:
\* none was cut short by a stop, and the stress test of each that met no error
\* saw the target in that very iteration, whatever result and max_gflops held
\* before (do_gpu_stress_test against GSTWorker::run).
PassMeansMet ==
    conf.module = "gst" /\ sts = "pass" =>
       \A i \in Gpus : /\ place[i] = "none"
                       /\ ended[i] \in {"checked", "error"}
                       /\ ended[i] = "checked" => hit[i]

\* An action that fails without a stop has told the application which GPU
\* failed, in the last iteration.
FailureExplained ==
    sts = "fail" /\ ~stopping => \E i \in Gpus : told[i]

-----------------------------------------------------------------------------
\* "@return true if no error occured, false otherwise" (gst.so/src/action.cpp:162):
\* an action one of whose workers reported an error in the last iteration
\* does not pass.
ErrorFailsAction ==
    sts = "pass" => \A i \in Gpus : ended[i] # "error"
=============================================================================
