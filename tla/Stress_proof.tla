----------------------------- MODULE Stress_proof -----------------------------
(***************************************************************************)
(* Proofs about Stress, for any actions of the five modules: any number of *)
(* GPUs, any count, any number of pulses.                                  *)
(*                                                                         *)
(* An action of gst takes the steps of Gst, and GstInv is its invariant.   *)
(* The workers of the other modules have one of their own; those of pulse  *)
(* that run at once have another, about the barrier of their threads and   *)
(* the counter of their GPUs.                                              *)
(***************************************************************************)
EXTENDS Stress, FiniteSetTheorems, TLAPS

-----------------------------------------------------------------------------
(* gst: the inductive invariant of its actions.                            *)

\* Worker i was started in this iteration, has ended and is joined.
Finished(i) == place[i] = "none" /\ ended[i] # "none"

\* What the end of worker i's run says: its result is that of this run if it
\* came to a verdict, an error and a missed target were told.
EndsTold(i) ==
    /\ best[i] => hit[i]
    /\ place[i] = "exited" => ended[i] # "none"
    /\ place[i] \notin {"none", "exited"} => ended[i] = "none"
    /\ ended[i] = "stop" => stopping
    /\ ended[i] = "error" => told[i]
    /\ ended[i] = "checked" => /\ result[i] <=> best[i]
                               /\ told[i] <=> ~best[i]

\* How far main has come in the iteration: the workers it has joined.
Progress ==
    /\ pc = "start" /\ ~conf.parallel => \A i \in Gpus : i < cur => Finished(i)
    /\ pc = "join" => \A i \in Gpus : i < cur => Finished(i)
    /\ pc = "joined" => \A i \in Gpus : i <= cur => Finished(i)
    /\ pc \in {"count", "verdict"} => \A i \in Gpus : Finished(i)
    /\ pc = "done" /\ ~stopping => \A i \in Gpus : Finished(i)

\* What the action's report rests on.
Verdicts ==
    /\ pc # "done" => sts = "none"
    /\ PassMeansMet
    /\ FailureExplained

GstInv == TypeOK /\ (\A i \in Gpus : EndsTold(i)) /\ Progress /\ Verdicts

-----------------------------------------------------------------------------

LEMMA Constants ==
  ASSUME TypeOK
  PROVE  N \in Nat \ {0} /\ conf.count \in Nat /\ 1 \in Gpus /\ N \in Gpus
BY ConfigsAssumption DEF TypeOK, ActionConfig, N, Gpus

LEMMA GstInvInit == Init => GstInv
<1>. SUFFICES ASSUME Init PROVE GstInv
  OBVIOUS
<1>0. N \in Nat \ {0} /\ 1 \in Gpus
  BY ConfigsAssumption DEF Init, ActionConfig, N, Gpus
<1>1. best \in [Gpus -> BOOLEAN] /\ hit \in [Gpus -> BOOLEAN] /\ told \in [Gpus -> BOOLEAN]
  BY Zenon DEF Init
<1>2. TypeOK
  BY <1>0, <1>1 DEF Init, TypeOK
<1>. QED
  BY <1>2 DEF Init, GstInv, EndsTold, Progress, Verdicts, PassMeansMet,
              FailureExplained, Gpus

-----------------------------------------------------------------------------
(* The steps of main.                                                      *)

LEMMA StartWorkerKeeps == GstInv /\ StartWorker => GstInv'
<1>. SUFFICES ASSUME GstInv, StartWorker PROVE GstInv'
  OBVIOUS
<1>0. /\ N \in Nat \ {0} /\ cur \in Gpus /\ Gpus' = Gpus /\ conf' = conf
      /\ 1 \in Gpus /\ N' = N
  BY Constants DEF GstInv, StartWorker, Gpus, N
<1>1. TypeOK'
  BY <1>0 DEF GstInv, TypeOK, StartWorker, Goes, Gpus
<1>2. \A i \in Gpus' : EndsTold(i)'
  BY <1>0 DEF GstInv, TypeOK, StartWorker, EndsTold
<1>3. Progress'
  BY <1>0 DEF GstInv, TypeOK, StartWorker, Goes, Progress, Finished, Gpus
<1>4. Verdicts'
  BY <1>0 DEF GstInv, StartWorker, Goes, Verdicts, PassMeansMet, FailureExplained
<1>. QED  BY <1>1, <1>2, <1>3, <1>4 DEF GstInv

LEMMA JoinKeeps == GstInv /\ Join => GstInv'
<1>. SUFFICES ASSUME GstInv, Join PROVE GstInv'
  OBVIOUS
<1>0. cur \in Gpus /\ Gpus' = Gpus /\ conf' = conf
  BY DEF Join, Gpus, N
<1>1. TypeOK'
  BY <1>0 DEF GstInv, TypeOK, Join, Goes, historyVars
<1>2. \A i \in Gpus' : EndsTold(i)'
  BY <1>0 DEF GstInv, TypeOK, Join, EndsTold, historyVars
<1>3. Progress'
  <2>1. pc = "join" /\ pc' = "joined" /\ cur' = cur /\ stopping' = stopping
    BY DEF Join, Goes
  <2>2. Finished(cur)'
    BY <1>0 DEF GstInv, TypeOK, Join, Finished, EndsTold, historyVars
  <2>3. \A i \in Gpus : i < cur => Finished(i)'
    BY <2>1, <1>0 DEF GstInv, TypeOK, Progress, Join, Finished, historyVars
  <2>4. \A i \in Gpus : i <= cur => i < cur \/ i = cur
    BY <1>0 DEF Gpus
  <2>. QED  BY <1>0, <2>1, <2>2, <2>3, <2>4 DEF Progress
<1>4. Verdicts'
  BY <1>0 DEF GstInv, Join, Goes, Verdicts, PassMeansMet, FailureExplained
<1>. QED  BY <1>1, <1>2, <1>3, <1>4 DEF GstInv

LEMMA JoinedKeeps == GstInv /\ Joined => GstInv'
<1>. SUFFICES ASSUME GstInv, Joined PROVE GstInv'
  OBVIOUS
<1>0. /\ N \in Nat \ {0} /\ cur \in Gpus /\ Gpus' = Gpus /\ conf' = conf /\ N' = N
      /\ UNCHANGED <<stopping, place, result, best, ended, hit, told>>
  BY Constants DEF GstInv, TypeOK, Joined, Gpus, N, workerVars, historyVars
<1>1. TypeOK'
  BY <1>0 DEF GstInv, TypeOK, Joined, Goes, Gpus
<1>2. \A i \in Gpus' : EndsTold(i)'
  BY <1>0 DEF GstInv, EndsTold
<1>3. Progress'
  BY <1>0 DEF GstInv, TypeOK, Joined, Goes, Progress, Finished, Gpus
<1>4. Verdicts'
  BY <1>0 DEF GstInv, Joined, Goes, Verdicts, PassMeansMet, FailureExplained
<1>. QED  BY <1>1, <1>2, <1>3, <1>4 DEF GstInv

LEMMA CountKeeps == GstInv /\ Count => GstInv'
<1>. SUFFICES ASSUME GstInv, Count PROVE GstInv'
  OBVIOUS
<1>0. /\ N \in Nat \ {0} /\ 1 \in Gpus /\ Gpus' = Gpus /\ conf' = conf /\ N' = N
      /\ UNCHANGED <<sts, stopping, place, result, best, ended, hit, told>>
  BY Constants DEF GstInv, Count, Gpus, N, workerVars, historyVars
<1>1. TypeOK'
  BY <1>0 DEF GstInv, TypeOK, Count
<1>2. \A i \in Gpus' : EndsTold(i)'
  BY <1>0 DEF GstInv, EndsTold
<1>3. Progress'
  <2>1. \A i \in Gpus : Finished(i) /\ Finished(i)'
    BY <1>0 DEF GstInv, Progress, Count, Finished
  <2>. QED  BY <1>0, <2>1 DEF GstInv, TypeOK, Count, Progress
<1>4. Verdicts'
  BY <1>0 DEF GstInv, Count, Verdicts, PassMeansMet, FailureExplained
<1>. QED  BY <1>1, <1>2, <1>3, <1>4 DEF GstInv

LEMMA VerdictKeeps == GstInv /\ Verdict => GstInv'
<1>. SUFFICES ASSUME GstInv, Verdict PROVE GstInv'
  OBVIOUS
<1>0. /\ Gpus' = Gpus /\ conf' = conf
      /\ UNCHANGED <<cur, k, stopping, place, result, best, ended, hit, told>>
      /\ pc = "verdict" /\ pc' = "done"
      /\ \A i \in Gpus : Finished(i) /\ EndsTold(i)
  BY DEF GstInv, Verdict, Progress, Gpus, N, workerVars, historyVars
<1>1. TypeOK'
  BY <1>0 DEF GstInv, TypeOK, Verdict
<1>2. \A i \in Gpus' : EndsTold(i)'
  BY <1>0 DEF GstInv, EndsTold
<1>3. Progress'
  BY <1>0 DEF Progress, Finished
<1>4. PassMeansMet'
  BY <1>0 DEF GstInv, TypeOK, Verdict, PassMeansMet, Finished, EndsTold
<1>5. FailureExplained'
  <2>. SUFFICES ASSUME sts' = "fail", ~stopping PROVE \E i \in Gpus : told[i]
    BY <1>0 DEF FailureExplained
  <2>1. PICK i \in Gpus : ~result[i]
    BY DEF Verdict
  <2>. QED  BY <1>0, <2>1 DEF GstInv, TypeOK, Finished, EndsTold
<1>. QED  BY <1>0, <1>1, <1>2, <1>3, <1>4, <1>5 DEF GstInv, Verdicts

-----------------------------------------------------------------------------
(* The steps of the workers.                                               *)

\* A worker's step leaves main and the other workers alone, and is made by
\* a worker that is neither joined nor has ended.
LEMMA WorkerStep ==
  ASSUME GstInv, NEW i \in Gpus, Worker(i)
  PROVE  /\ UNCHANGED <<conf, mainVars, stopping>>
         /\ place[i] \notin {"none", "exited"}
         /\ \A j \in Gpus \ {i} : /\ place'[j] = place[j] /\ ended'[j] = ended[j]
                                  /\ result'[j] = result[j] /\ best'[j] = best[j]
                                  /\ hit'[j] = hit[j] /\ told'[j] = told[j]
         /\ TypeOK' /\ EndsTold(i)'
<1>. DEFINE Frame == /\ UNCHANGED <<conf, mainVars, stopping>>
                    /\ place[i] \notin {"none", "exited"}
                    /\ \A j \in Gpus \ {i} : /\ place'[j] = place[j] /\ ended'[j] = ended[j]
                                             /\ result'[j] = result[j] /\ best'[j] = best[j]
                                             /\ hit'[j] = hit[j] /\ told'[j] = told[j]
<1>0. TypeOK /\ EndsTold(i)
  BY DEF GstInv
<1>1. CASE Setup(i)
  <2>1. Frame
    BY <1>0, <1>1 DEF Setup, Reports, Silent, WorkerGoes, TypeOK, mainVars, historyVars
  <2>2. TypeOK'
    BY <1>0, <1>1 DEF Setup, Reports, Silent, WorkerGoes, TypeOK, Gpus, N, mainVars, historyVars
  <2>3. EndsTold(i)'
    BY <1>0, <1>1 DEF Setup, Reports, Silent, WorkerGoes, TypeOK, EndsTold, historyVars
  <2>. QED  BY <2>1, <2>2, <2>3
<1>2. CASE RampTurn(i)
  <2>1. Frame
    BY <1>0, <1>2 DEF RampTurn, Silent, WorkerGoes, TypeOK, mainVars, historyVars
  <2>2. TypeOK'
    BY <1>0, <1>2 DEF RampTurn, Silent, WorkerGoes, TypeOK, Gpus, N, mainVars, historyVars
  <2>3. EndsTold(i)'
    BY <1>0, <1>2 DEF RampTurn, Silent, WorkerGoes, TypeOK, EndsTold, historyVars
  <2>. QED  BY <2>1, <2>2, <2>3
<1>3. CASE RampGemm(i)
  <2>1. Frame
    BY <1>0, <1>3 DEF RampGemm, Reports, Silent, WorkerGoes, TypeOK, mainVars, historyVars
  <2>2. TypeOK'
    BY <1>0, <1>3 DEF RampGemm, Reports, Silent, WorkerGoes, TypeOK, Gpus, N, mainVars, historyVars
  <2>3. EndsTold(i)'
    BY <1>0, <1>3 DEF RampGemm, Reports, Silent, WorkerGoes, TypeOK, EndsTold, historyVars
  <2>. QED  BY <2>1, <2>2, <2>3
<1>4. CASE RampOver(i)
  <2>1. Frame
    BY <1>0, <1>4 DEF RampOver, Silent, WorkerGoes, TypeOK, mainVars, historyVars
  <2>2. TypeOK'
    BY <1>0, <1>4 DEF RampOver, Silent, WorkerGoes, TypeOK, Gpus, N, mainVars, historyVars
  <2>3. EndsTold(i)'
    BY <1>0, <1>4 DEF RampOver, Silent, WorkerGoes, TypeOK, EndsTold, historyVars
  <2>. QED  BY <2>1, <2>2, <2>3
<1>5. CASE StressBegins(i)
  <2>1. Frame
    BY <1>0, <1>5 DEF StressBegins, WorkerGoes, TypeOK, mainVars, historyVars
  <2>2. TypeOK'
    BY <1>0, <1>5 DEF StressBegins, WorkerGoes, TypeOK, Gpus, N, mainVars, historyVars
  <2>3. EndsTold(i)'
    BY <1>0, <1>5 DEF StressBegins, WorkerGoes, TypeOK, EndsTold, historyVars
  <2>. QED  BY <2>1, <2>2, <2>3
<1>6. CASE StressTurn(i)
  <2>1. Frame
    BY <1>0, <1>6 DEF StressTurn, Silent, WorkerGoes, TypeOK, mainVars, historyVars
  <2>2. TypeOK'
    BY <1>0, <1>6 DEF StressTurn, Silent, WorkerGoes, TypeOK, Gpus, N, mainVars, historyVars
  <2>3. EndsTold(i)'
    BY <1>0, <1>6 DEF StressTurn, Silent, WorkerGoes, TypeOK, EndsTold, historyVars
  <2>. QED  BY <2>1, <2>2, <2>3
<1>7. CASE GemmFails(i)
  <2>1. Frame
    BY <1>0, <1>7 DEF GemmFails, Silent, WorkerGoes, TypeOK, mainVars, historyVars
  <2>2. TypeOK'
    BY <1>0, <1>7 DEF GemmFails, Silent, WorkerGoes, TypeOK, Gpus, N, mainVars, historyVars
  <2>3. EndsTold(i)'
    BY <1>0, <1>7 DEF GemmFails, Silent, WorkerGoes, TypeOK, EndsTold, historyVars
  <2>. QED  BY <2>1, <2>2, <2>3
<1>8. CASE GemmAgain(i)
  <2>1. Frame
    BY <1>0, <1>8 DEF GemmAgain, Gemm, WorkerGoes, TypeOK, mainVars, historyVars
  <2>2. TypeOK'
    BY <1>0, <1>8 DEF GemmAgain, Gemm, WorkerGoes, TypeOK, Gpus, N, mainVars, historyVars
  <2>3. EndsTold(i)'
    BY <1>0, <1>8 DEF GemmAgain, Gemm, WorkerGoes, TypeOK, EndsTold, historyVars
  <2>. QED  BY <2>1, <2>2, <2>3
<1>9. CASE GemmLast(i)
  <2>1. Frame
    BY <1>0, <1>9 DEF GemmLast, Gemm, WorkerGoes, TypeOK, mainVars, historyVars
  <2>2. TypeOK'
    BY <1>0, <1>9 DEF GemmLast, Gemm, WorkerGoes, TypeOK, Gpus, N, mainVars, historyVars
  <2>3. EndsTold(i)'
    BY <1>0, <1>9 DEF GemmLast, Gemm, WorkerGoes, TypeOK, EndsTold, historyVars
  <2>. QED  BY <2>1, <2>2, <2>3
<1>10. CASE StressError(i)
  <2>1. Frame
    BY <1>0, <1>10 DEF StressError, Reports, WorkerGoes, TypeOK, mainVars, historyVars
  <2>2. TypeOK'
    BY <1>0, <1>10 DEF StressError, Reports, WorkerGoes, TypeOK, Gpus, N, mainVars, historyVars
  <2>3. EndsTold(i)'
    BY <1>0, <1>10 DEF StressError, Reports, WorkerGoes, TypeOK, EndsTold, historyVars
  <2>. QED  BY <2>1, <2>2, <2>3
<1>11. CASE CheckTarget(i)
  <2>1. Frame
    BY <1>0, <1>11 DEF CheckTarget, WorkerGoes, TypeOK, mainVars, historyVars
  <2>2. TypeOK'
    BY <1>0, <1>11 DEF CheckTarget, WorkerGoes, TypeOK, Gpus, N, mainVars, historyVars
  <2>3. EndsTold(i)'
    BY <1>0, <1>11 DEF CheckTarget, WorkerGoes, TypeOK, EndsTold, historyVars
  <2>. QED  BY <2>1, <2>2, <2>3
<1>. QED  BY <1>1, <1>2, <1>3, <1>4, <1>5, <1>6, <1>7, <1>8, <1>9, <1>10, <1>11
              DEF Worker

LEMMA WorkerKeeps ==
  ASSUME GstInv, NEW i \in Gpus, Worker(i)
  PROVE  GstInv'
<1>1. /\ Gpus' = Gpus /\ pc' = pc /\ cur' = cur /\ sts' = sts /\ conf' = conf
      /\ stopping' = stopping /\ place[i] # "none"
  BY WorkerStep DEF mainVars, Gpus, N
<1>2. \A j \in Gpus : Finished(j) => Finished(j)' /\ j # i
  BY <1>1, WorkerStep DEF Finished
<1>3. \A j \in Gpus' : EndsTold(j)'
  BY <1>1, WorkerStep DEF GstInv, EndsTold
<1>4. Progress'
  BY <1>1, <1>2 DEF GstInv, Progress
<1>5. PassMeansMet'
  BY <1>1, WorkerStep DEF GstInv, Verdicts, PassMeansMet
<1>6. FailureExplained'
  <2>. SUFFICES ASSUME sts = "fail", ~stopping PROVE FALSE
    BY <1>1 DEF FailureExplained
  <2>1. pc = "done"
    BY DEF GstInv, Verdicts
  <2>. QED  BY <2>1, <1>1 DEF GstInv, Progress, Finished
<1>. QED  BY <1>1, <1>3, <1>4, <1>5, <1>6, WorkerStep DEF GstInv, Verdicts

-----------------------------------------------------------------------------

LEMMA StopKeeps == GstInv /\ StopRequested => GstInv'
BY DEF GstInv, TypeOK, EndsTold, Progress, Finished, Verdicts, PassMeansMet,
       FailureExplained, StopRequested, mainVars, workerVars, historyVars, Gpus, N

LEMMA StutterKeeps == GstInv /\ UNCHANGED vars => GstInv'
BY DEF GstInv, TypeOK, EndsTold, Progress, Finished, Verdicts, PassMeansMet,
       FailureExplained, vars, mainVars, workerVars, historyVars, Gpus, N

\* The invariant from which the theorems below follow.
THEOREM GstInvHolds == Spec => []GstInv
<1>1. GstInv /\ [Next]_vars => GstInv'
  BY StartWorkerKeeps, JoinKeeps, JoinedKeeps, CountKeeps, VerdictKeeps,
     WorkerKeeps, StopKeeps, StutterKeeps DEF Next, Main, Done
<1>. QED  BY GstInvInit, <1>1, PTL DEF Spec

\* The types of the variables (gst_action and GSTWorker), for any actions.
THEOREM TypeCorrect == Spec => []TypeOK
<1>1. GstInv => TypeOK
  BY DEF GstInv
<1>. QED  BY GstInvHolds, <1>1, PTL

\* An action that passes rests on the run of every worker in the last iteration
\* (do_gpu_stress_test against GSTWorker::run).
THEOREM PassMeansMetHolds == Spec => []PassMeansMet
<1>1. GstInv => PassMeansMet
  BY DEF GstInv, Verdicts
<1>. QED  BY GstInvHolds, <1>1, PTL

\* An action that fails without a stop has told which GPU failed, although
\* result may be stale or uninitialised.
THEOREM FailureExplainedHolds == Spec => []FailureExplained
<1>1. GstInv => FailureExplained
  BY DEF GstInv, Verdicts
<1>. QED  BY GstInvHolds, <1>1, PTL


-----------------------------------------------------------------------------
(* A worker of perf, tst, iet or pulse.                                    *)

PerfSteps  == {"none", "gemm"}
WatchSteps == {"none", "watch", "nap", "judge", "stopLoad", "join"}
SyncSteps  == {"barrier", "through", "barrier2", "kernel", "spin"}
PulseSteps == {"none", "head", "high", "low", "final"}

\* A failure of worker i is told, unless a stop is requested.
Answered(i) == stopping \/ result[i] \/ told[i]

\* Where the worker is, in its own module.
AtWork(i) ==
    /\ place[i] \in {"none", "setup", "stress", "exited"}
    /\ step[i] # "none" <=> place[i] = "stress"
    /\ Is("perf") => step[i] \in PerfSteps
    /\ Watches(i) => step[i] \in WatchSteps
    /\ Is("pulse") => step[i] \in PulseSteps \union SyncSteps
    /\ step[i] \in SyncSteps => Synced

\* What the end of its run says, and when it does.
RunTold(i) ==
    /\ place[i] = "exited" => ended[i] # "none"
    /\ ended[i] = "stop" => stopping
    /\ Is("iet") /\ step[i] \in {"stopLoad", "join"} => Answered(i)
    /\ (Is("iet") \/ Is("pulse")) /\ place[i] \in {"none", "exited"} /\ ended[i] # "none"
          => Answered(i)
    /\ Is("pulse") /\ place[i] = "setup" => ended[i] = "none"
    /\ Is("pulse") /\ place[i] = "stress" /\ step[i] # "final"
          => ended[i] \in {"none", "error"}

\* The clock levels of a GPU are limited by a pulse only.
ClockOf(i) == clock[i] # "auto" => Is("pulse") /\ place[i] = "stress"

WorkerInv(i) == AtWork(i) /\ RunTold(i) /\ ClockOf(i)

\* How far the action's thread has come: who is not started, who is joined.
MainInv ==
    /\ pc = "start" => \A i \in Gpus : i >= cur \/ ~conf.parallel => place[i] = "none"
    /\ pc = "start" /\ Is("pulse") /\ conf.parallel =>
          \A i \in Gpus : i >= cur => ended[i] = "none"
    /\ pc \in {"join", "joined"} /\ ~conf.parallel =>
          \A i \in Gpus : i # cur => place[i] = "none"
    /\ pc \in {"start", "join"} /\ (pc = "join" \/ ~conf.parallel) =>
          \A i \in Gpus : i < cur => Finished(i)
    /\ pc = "joined" => \A i \in Gpus : i <= cur => Finished(i)
    /\ pc \in {"count", "verdict"} => \A i \in Gpus : Finished(i)
    /\ pc = "done" /\ ~stopping => \A i \in Gpus : place[i] = "none"
    /\ pc # "done" => sts = "none"
    /\ FailureExplained

-----------------------------------------------------------------------------
(* The workers of pulse, all at once.                                      *)

\* The sections of a worker: not at work yet, on its way to the first barrier,
\* between the two, in a pulse, and out of the loop.
New(i)     == place[i] = "setup" \/ (place[i] = "none" /\ ended[i] = "none")
Early(i)   == step[i] \in {"head", "barrier"}
Between(i) == step[i] \in {"through", "barrier2"}
Busy(i)    == step[i] \in {"kernel", "spin", "high", "low"}
Left(i)    == step[i] = "final" \/ (place[i] \in {"none", "exited"} /\ ended[i] # "none")

\* Between the barriers are all or none, but for those who leave because the time
\* is up, and then nobody goes on to a pulse.  A pulse waits for all to be set up.
Sections ==
    \A i, j \in Gpus :
       /\ Between(i) => Between(j) \/ Left(j)
       /\ Between(i) /\ Left(j) => done
       /\ Between(i) /\ done => step[i] = "through"
       /\ Busy(i) => ~New(j)

\* Who leaves does so for a stop or an error, or with all the others.
LeavesFor ==
    \A j \in Gpus : Left(j) =>
       \/ ended[j] \in {"stop", "error"}
       \/ done /\ \A i \in Gpus : Left(i) \/ step[i] = "through"

\* The GPUs' barrier: the counter is not ahead of the GPUs that have arrived, it is
\* reset while nobody counts, and the release is for a pulse all have come to.
Arrived == {i \in Gpus : step[i] # "kernel"}
Counters ==
    /\ arrival <= Cardinality(Arrived)
    /\ step[1] = "barrier2" => arrival = 0 /\ release = 0
    /\ release = 1 => Arrived = Gpus
    /\ (\A i \in Gpus : ended[i] # "error") =>
          \A i \in Gpus : step[i] \in {"high", "low"} => release = 1

\* Pulses are counted at their end, up to MaxPulses; who is in one is one behind.
Inc(p) == IF p = MaxPulses THEN p ELSE p + 1
Halted(i) == Left(i) /\ ended[i] = "error"
Ranks ==
    /\ \A i \in Gpus : New(i) => pulses[i] = 0
    /\ \A i, j \in Gpus : ~Halted(i) /\ ~Halted(j) =>
          IF Busy(i) THEN Busy(j) => pulses[i] = pulses[j]
                     ELSE pulses[i] = IF Busy(j) THEN Inc(pulses[j]) ELSE pulses[j]

PulseInv == Is("pulse") /\ Synced => Sections /\ LeavesFor /\ Counters /\ Ranks

\* What gst leaves of the variables that Stress adds.
Unused ==
    /\ \A i \in Gpus : step[i] = "none" /\ clock[i] = "auto"
    /\ arrival = 0

StressInv ==
    /\ TypeOK /\ StressTypeOK
    /\ Is("gst") => GstInv /\ Unused
    /\ ~Is("gst") => MainInv /\ (\A i \in Gpus : WorkerInv(i)) /\ PulseInv

-----------------------------------------------------------------------------

LEMMA ModuleOf ==
  ASSUME StressInv, NEW i \in Gpus
  PROVE  /\ step[i] = "gemm" => Is("perf")
         /\ step[i] \in WatchSteps \ {"none"} => Watches(i)
         /\ step[i] \in (PulseSteps \union SyncSteps) \ {"none"} => Is("pulse")
         /\ step[i] # "none" => ~Is("gst")
<1>1. conf.module \in {"gst", "perf", "tst", "iet", "pulse"}
  BY ConfigsAssumption DEF StressInv, TypeOK, ActionConfig
<1>2. CASE Is("gst")
  BY <1>2 DEF StressInv, Unused, WatchSteps, PulseSteps, SyncSteps
<1>3. CASE ~Is("gst")
  BY <1>1, <1>3 DEF StressInv, WorkerInv, AtWork, Is, Watches, PerfSteps, WatchSteps,
                    PulseSteps, SyncSteps
<1>. QED  BY <1>2, <1>3

LEMMA ArrivedFinite ==
  ASSUME N \in Nat \ {0}
  PROVE  /\ IsFiniteSet(Arrived) /\ Cardinality(Arrived) \in 0..N
         /\ Cardinality(Arrived) = N => Arrived = Gpus
<1>1. IsFiniteSet(Gpus) /\ Cardinality(Gpus) = N
  BY FS_Interval DEF Gpus
<1>2. Arrived \subseteq Gpus
  BY DEF Arrived
<1>3. /\ IsFiniteSet(Arrived) /\ Cardinality(Arrived) <= Cardinality(Gpus)
      /\ Cardinality(Arrived) = Cardinality(Gpus) => Arrived = Gpus
  BY <1>1, <1>2, FS_Subset
<1>4. Cardinality(Arrived) \in Nat
  BY <1>3, FS_CardinalityType
<1>. QED  BY <1>1, <1>3, <1>4

LEMMA StressInvInit == StressInit => StressInv
<1>. SUFFICES ASSUME StressInit PROVE StressInv
  OBVIOUS
<1>0. /\ N \in Nat \ {0} /\ 1 \in Gpus /\ Gpus = 1..N /\ GstInv /\ TypeOK
      /\ MaxPulses \in Nat \ {0}
  BY GstInvInit, Constants, MaxPulsesAssumption DEF StressInit, GstInv, Gpus
<1>1. StressTypeOK
  <2>1. /\ endtest \in [Gpus -> BOOLEAN] /\ pending \in [Gpus -> BOOLEAN]
        /\ passed \in [Gpus -> BOOLEAN] /\ done \in BOOLEAN
    BY Zenon DEF StressInit
  <2>2. /\ arrival \in 0..N /\ release \in {0, 1} /\ 0 \in 0..MaxPulses
    BY <1>0 DEF StressInit
  <2>3. /\ load = [i \in Gpus |-> "none"] /\ band = [i \in Gpus |-> "none"]
        /\ step = [i \in Gpus |-> "none"] /\ clock = [i \in Gpus |-> "auto"]
        /\ pulses = [i \in Gpus |-> 0]
    BY DEF StressInit
  <2>. QED  BY <2>1, <2>2, <2>3 DEF StressTypeOK
<1>2. Unused
  BY DEF StressInit, Unused
<1>3. MainInv
  BY <1>0 DEF StressInit, Init, MainInv, FailureExplained, Gpus
<1>4. \A i \in Gpus : WorkerInv(i)
  BY DEF StressInit, Init, WorkerInv, AtWork, RunTold, ClockOf, PerfSteps, WatchSteps,
         PulseSteps, SyncSteps
<1>5. Cardinality(Arrived) \in Nat
  BY <1>0, ArrivedFinite
<1>6. PulseInv
  BY <1>0, <1>5 DEF StressInit, Init, PulseInv, Sections, LeavesFor, Counters, Ranks,
                    New, Between, Busy, Left, Halted, Arrived
<1>. QED  BY <1>0, <1>1, <1>2, <1>3, <1>4, <1>6 DEF StressInv

-----------------------------------------------------------------------------
(* What a step leaves alone.                                               *)

\* The barrier and the counters know nothing of main, of the load threads and of
\* what was told.
LEMMA PulseStays ==
  ASSUME PulseInv, UNCHANGED <<conf, ended, step, syncVars, pulses>>,
         \A i \in Gpus : /\ New(i)' <=> New(i)
                         /\ Left(i)' <=> Left(i)
  PROVE  PulseInv'
<1>1. Gpus' = Gpus /\ N' = N /\ (Synced <=> Synced') /\ (Is("pulse") <=> Is("pulse")')
  BY DEF Gpus, N, Synced, Is
<1>2. CASE ~(Is("pulse") /\ Synced)
  BY <1>1, <1>2 DEF PulseInv
<1>3. CASE Is("pulse") /\ Synced
  <2>0. Arrived' = Arrived
    BY <1>1 DEF Arrived
  <2>1. Sections'
    BY <1>1, <1>3 DEF PulseInv, Sections, Between, Busy, syncVars
  <2>2. LeavesFor'
    BY <1>1, <1>3 DEF PulseInv, LeavesFor, syncVars
  <2>3. Counters'
    BY <1>1, <1>3, <2>0 DEF PulseInv, Counters, syncVars
  <2>4. Ranks'
    BY <1>1, <1>3 DEF PulseInv, Ranks, Busy, Halted, Inc
  <2>. QED  BY <2>1, <2>2, <2>3, <2>4 DEF PulseInv
<1>. QED  BY <1>2, <1>3

\* The load threads and their callbacks are nobody's concern but their worker's.
LEMMA LoadStays ==
  ASSUME StressInv, UNCHANGED <<vars, step, pulseVars>>, StressTypeOK'
  PROVE  StressInv'
<1>1. /\ Gpus' = Gpus /\ N' = N /\ (Synced <=> Synced') /\ TypeOK'
      /\ \A m \in {"gst", "perf", "tst", "iet", "pulse"} : Is(m)' <=> Is(m)
      /\ UNCHANGED <<conf, pc, cur, k, sts, stopping, place, result, best, ended, hit,
                     told, step, arrival, release, done, passed, pulses, clock>>
  BY DEF StressInv, TypeOK, Gpus, N, Synced, Is, vars, mainVars, workerVars,
         historyVars, pulseVars, syncVars
<1>2. CASE Is("gst")
  <2>1. GstInv'
    BY <1>2, StutterKeeps DEF StressInv
  <2>2. Unused'
    BY <1>1, <1>2 DEF StressInv, Unused
  <2>. QED  BY <1>1, <1>2, <2>1, <2>2 DEF StressInv
<1>3. CASE ~Is("gst")
  <2>1. MainInv'
    BY <1>1, <1>3 DEF StressInv, MainInv, Finished, FailureExplained
  <2>2. \A i \in Gpus : WorkerInv(i)'
    BY <1>1, <1>3 DEF StressInv, WorkerInv, AtWork, RunTold, ClockOf, Answered, Watches
  <2>3. PulseInv'
    BY <1>1, <1>3, PulseStays DEF StressInv, New, Left, syncVars
  <2>. QED  BY <1>1, <1>3, <2>1, <2>2, <2>3 DEF StressInv
<1>. QED  BY <1>2, <1>3

LEMMA LoadKeeps ==
  ASSUME StressInv, NEW i \in Gpus, LoadOf(i) \/ Callback(i) \/ Bandwidth(i)
  PROVE  StressInv'
<1>1. UNCHANGED <<vars, step, pulseVars>> /\ Gpus' = Gpus /\ N' = N
  BY DEF LoadOf, LoadTurn, CallbackRefused, Wait, IetGemm, Callback, Bandwidth, Loads,
         vars, Gpus, N
<1>2. /\ load' \in [Gpus -> {"none", "loop", "gemm", "queued", "waiting"}]
      /\ band' \in [Gpus -> {"none", "setup", "kernel"}]
      /\ endtest' \in [Gpus -> BOOLEAN] /\ pending' \in [Gpus -> BOOLEAN]
  <2>0. StressTypeOK
    BY DEF StressInv
  <2>1. CASE LoadTurn(i)
    BY <2>0, <2>1 DEF StressTypeOK, LoadTurn, Loads, Is
  <2>2. CASE CallbackRefused(i) \/ Wait(i)
    BY <2>0, <2>2 DEF StressTypeOK, CallbackRefused, Wait, Loads
  <2>3. CASE IetGemm(i)
    BY <2>0, <2>3 DEF StressTypeOK, IetGemm, Loads
  <2>4. CASE Callback(i)
    BY <2>0, <2>4 DEF StressTypeOK, Callback, Loads
  <2>5. CASE Bandwidth(i)
    BY <2>0, <2>5 DEF StressTypeOK, Bandwidth
  <2>. QED  BY <2>1, <2>2, <2>3, <2>4, <2>5 DEF LoadOf
<1>3. StressTypeOK'
  BY <1>1, <1>2 DEF StressInv, StressTypeOK, pulseVars, syncVars
<1>. QED  BY <1>1, <1>3, LoadStays

LEMMA StressStutterKeeps == StressInv /\ UNCHANGED stressVars => StressInv'
<1>. SUFFICES ASSUME StressInv, UNCHANGED stressVars PROVE StressInv'
  OBVIOUS
<1>1. UNCHANGED <<vars, step, pulseVars>> /\ Gpus' = Gpus /\ N' = N
  BY DEF stressVars, newVars, vars, Gpus, N
<1>2. StressTypeOK'
  BY <1>1 DEF StressInv, StressTypeOK, stressVars, newVars, loadVars, pulseVars, syncVars
<1>. QED  BY <1>1, <1>2, LoadStays

LEMMA StressStopKeeps == StressInv /\ StopRequested /\ UNCHANGED newVars => StressInv'
<1>. SUFFICES ASSUME StressInv, StopRequested, UNCHANGED newVars PROVE StressInv'
  OBVIOUS
<1>1. /\ Gpus' = Gpus /\ N' = N /\ (Synced <=> Synced') /\ TypeOK' /\ StressTypeOK'
      /\ \A m \in {"gst", "perf", "tst", "iet", "pulse"} : Is(m)' <=> Is(m)
      /\ UNCHANGED <<conf, pc, cur, k, sts, place, result, best, ended, hit,
                     told, step, arrival, release, done, passed, pulses, clock>>
      /\ stopping' = TRUE /\ pc # "done"
  BY DEF StressInv, TypeOK, StressTypeOK, StopRequested, Gpus, N, Synced, Is, mainVars,
         workerVars, historyVars, newVars, loadVars, pulseVars, syncVars
<1>2. CASE Is("gst")
  BY <1>1, <1>2, StopKeeps DEF StressInv, Unused
<1>3. CASE ~Is("gst")
  <2>1. MainInv'
    BY <1>1, <1>3 DEF StressInv, MainInv, Finished, FailureExplained
  <2>2. \A i \in Gpus : WorkerInv(i)'
    BY <1>1, <1>3 DEF StressInv, WorkerInv, AtWork, RunTold, ClockOf, Answered, Watches
  <2>3. PulseInv'
    BY <1>1, <1>3, PulseStays DEF StressInv, New, Left, syncVars
  <2>. QED  BY <1>1, <1>3, <2>1, <2>2, <2>3 DEF StressInv
<1>. QED  BY <1>2, <1>3

-----------------------------------------------------------------------------
(* The steps of the action's thread.                                       *)

\* What the action's thread does to its own places and the workers', which is all a
\* step of it has to show: its types, where it is, and that no worker of pulse
\* changes its section.
LEMMA MainStays ==
  ASSUME StressInv, ~Is("gst"), UNCHANGED <<conf, stopping>>, UNCHANGED newVars,
         TypeOK', MainInv',
         \A i \in Gpus : /\ \/ place'[i] # "stress" /\ place[i] # "stress"
                            \/ UNCHANGED <<place[i], ended[i], result[i], told[i]>>
                         /\ RunTold(i)' /\ place'[i] \in {"none", "setup", "stress", "exited"},
         Is("pulse") /\ Synced =>
            /\ UNCHANGED ended
            /\ \A i \in Gpus : (New(i)' <=> New(i)) /\ (Left(i)' <=> Left(i))
  PROVE  StressInv'
<1>1. /\ Gpus' = Gpus /\ N' = N /\ (Synced <=> Synced') /\ StressTypeOK'
      /\ \A m \in {"gst", "perf", "tst", "iet", "pulse"} : Is(m)' <=> Is(m)
      /\ UNCHANGED <<step, arrival, release, done, passed, pulses, clock>>
  BY DEF StressInv, StressTypeOK, Gpus, N, Synced, Is, newVars, loadVars, pulseVars, syncVars
<1>2. ASSUME NEW i \in Gpus PROVE WorkerInv(i)'
  <2>1. AtWork(i) /\ ClockOf(i)
    BY DEF StressInv, WorkerInv
  <2>2. place'[i] = "stress" <=> place[i] = "stress"
    OBVIOUS
  <2>3. AtWork(i)'
    BY <1>1, <2>1, <2>2 DEF AtWork, Watches
  <2>4. ClockOf(i)'
    BY <1>1, <2>1, <2>2 DEF ClockOf
  <2>. QED  BY <2>3, <2>4 DEF WorkerInv
<1>3. PulseInv'
  <2>1. CASE Is("pulse") /\ Synced
    BY <1>1, <2>1, PulseStays DEF StressInv, syncVars
  <2>2. CASE ~(Is("pulse") /\ Synced)
    BY <1>1, <2>2 DEF PulseInv
  <2>. QED  BY <2>1, <2>2
<1>. QED  BY <1>1, <1>2, <1>3 DEF StressInv

LEMMA StressStart == StressInv /\ ~Is("gst") /\ StartWorker /\ UNCHANGED newVars => StressInv'
<1>. SUFFICES ASSUME StressInv, ~Is("gst"), StartWorker, UNCHANGED newVars PROVE StressInv'
  OBVIOUS
<1>0. /\ N \in Nat \ {0} /\ cur \in Gpus /\ Gpus' = Gpus /\ conf' = conf /\ Gpus = 1..N
      /\ 1 \in Gpus /\ N' = N /\ stopping' = stopping /\ step' = step
      /\ \A m \in {"gst", "perf", "tst", "iet", "pulse"} : Is(m)' <=> Is(m)
      /\ TypeOK /\ MainInv /\ place[cur] = "none"
  BY Constants DEF StressInv, MainInv, TypeOK, StartWorker, Gpus, N, Is, newVars
<1>1. TypeOK'
  BY <1>0 DEF TypeOK, StartWorker, Goes
<1>2. MainInv'
  <2>1. \A i \in Gpus : i # cur => place'[i] = place[i] /\ ended'[i] = ended[i]
                                   /\ (Finished(i) => Finished(i)')
    BY <1>0 DEF TypeOK, StartWorker, Finished
  <2>2. sts' = sts /\ sts = "none" /\ pc' # "done"
    BY <1>0 DEF MainInv, StartWorker, Goes
  <2>3. pc' = "start" => conf.parallel /\ cur' = cur + 1
    BY DEF StartWorker, Goes
  <2>4. pc' = "join" => IF conf.parallel THEN cur' = 1 ELSE cur' = cur
    BY DEF StartWorker, Goes
  <2>5. pc' \in {"start", "join"} /\ pc = "start"
    BY DEF StartWorker, Goes
  <2>. QED  BY <1>0, <2>1, <2>2, <2>3, <2>4, <2>5 DEF MainInv, FailureExplained
<1>3. \A i \in Gpus : /\ \/ place'[i] # "stress" /\ place[i] # "stress"
                         \/ UNCHANGED <<place[i], ended[i], result[i], told[i]>>
                      /\ RunTold(i)' /\ place'[i] \in {"none", "setup", "stress", "exited"}
  <2>1. \A i \in Gpus : RunTold(i) /\ AtWork(i)
    BY DEF StressInv, WorkerInv
  <2>2. step[cur] = "none" /\ place'[cur] = "setup" /\ ended'[cur] = "none"
    BY <1>0, <2>1 DEF AtWork, TypeOK, StartWorker
  <2>5. \A i \in Gpus : i = cur => RunTold(i)'
    BY <1>0, <2>2 DEF RunTold
  <2>3. \A i \in Gpus : i # cur => /\ place'[i] = place[i] /\ ended'[i] = ended[i]
                                   /\ result'[i] = result[i] /\ told'[i] = told[i]
    BY <1>0 DEF TypeOK, StartWorker
  <2>4. \A i \in Gpus : i # cur => RunTold(i)'
    BY <1>0, <2>1, <2>3 DEF RunTold, Answered
  <2>. QED  BY <1>0, <2>1, <2>2, <2>3, <2>4, <2>5 DEF AtWork
<1>4. Is("pulse") /\ Synced =>
         /\ UNCHANGED ended
         /\ \A i \in Gpus : (New(i)' <=> New(i)) /\ (Left(i)' <=> Left(i))
  <2>. SUFFICES ASSUME Is("pulse"), Synced
                PROVE  /\ UNCHANGED ended
                       /\ \A i \in Gpus : (New(i)' <=> New(i)) /\ (Left(i)' <=> Left(i))
    OBVIOUS
  <2>1. ended[cur] = "none"
    BY <1>0 DEF MainInv, StartWorker, Synced
  <2>2. ended' = ended
    BY <1>0, <2>1 DEF TypeOK, StartWorker
  <2>. QED  BY <1>0, <2>1, <2>2 DEF TypeOK, StartWorker, New, Left
<1>. QED  BY <1>0, <1>1, <1>2, <1>3, <1>4, MainStays

LEMMA StressJoin == StressInv /\ ~Is("gst") /\ Join /\ UNCHANGED newVars => StressInv'
<1>. SUFFICES ASSUME StressInv, ~Is("gst"), Join, UNCHANGED newVars PROVE StressInv'
  OBVIOUS
<1>0. /\ cur \in Gpus /\ Gpus' = Gpus /\ conf' = conf /\ N' = N /\ Gpus \subseteq Nat
      /\ stopping' = stopping /\ step' = step
      /\ \A m \in {"gst", "perf", "tst", "iet", "pulse"} : Is(m)' <=> Is(m)
      /\ TypeOK /\ MainInv /\ UNCHANGED <<result, best, ended, hit, told, cur, k, sts>>
      /\ place[cur] = "exited" /\ ended[cur] # "none" /\ pc = "join" /\ pc' = "joined"
  BY DEF StressInv, WorkerInv, RunTold, Join, Goes, Gpus, N, Is, newVars, historyVars
<1>1. TypeOK'
  BY <1>0 DEF TypeOK, Join
<1>2. MainInv'
  <2>1. Finished(cur)' /\ \A i \in Gpus : i # cur => place'[i] = place[i]
    BY <1>0 DEF TypeOK, Join, Finished
  <2>2. \A i \in Gpus : Finished(i) => Finished(i)'
    BY <1>0, <2>1 DEF Finished
  <2>3. \A i \in Gpus : i <= cur => i < cur \/ i = cur
    BY <1>0
  <2>. QED  BY <1>0, <2>1, <2>2, <2>3 DEF MainInv, FailureExplained, Finished
<1>3. \A i \in Gpus : /\ \/ place'[i] # "stress" /\ place[i] # "stress"
                         \/ UNCHANGED <<place[i], ended[i], result[i], told[i]>>
                      /\ RunTold(i)' /\ place'[i] \in {"none", "setup", "stress", "exited"}
  BY <1>0 DEF StressInv, WorkerInv, AtWork, RunTold, Answered, TypeOK, Join
<1>4. Is("pulse") /\ Synced =>
         /\ UNCHANGED ended
         /\ \A i \in Gpus : (New(i)' <=> New(i)) /\ (Left(i)' <=> Left(i))
  BY <1>0 DEF TypeOK, Join, New, Left
<1>. QED  BY <1>0, <1>1, <1>2, <1>3, <1>4, MainStays

\* The steps that leave the workers alone.
LEMMA StressMainOnly ==
  ASSUME StressInv, ~Is("gst"), Joined \/ (~Is("pulse") /\ Count) \/ CountOnce,
         UNCHANGED newVars
  PROVE  StressInv'
<1>0. /\ N \in Nat \ {0} /\ cur \in Gpus /\ Gpus' = Gpus /\ conf' = conf /\ Gpus = 1..N
      /\ 1 \in Gpus /\ N' = N /\ step' = step
      /\ UNCHANGED <<stopping, place, result, best, ended, hit, told>>
      /\ \A m \in {"gst", "perf", "tst", "iet", "pulse"} : Is(m)' <=> Is(m)
      /\ TypeOK /\ MainInv /\ pc \in {"joined", "count"}
  BY Constants DEF StressInv, TypeOK, Joined, Count, CountOnce, Gpus, N, Is, workerVars,
                   historyVars, newVars
<1>1. TypeOK'
  BY <1>0 DEF TypeOK, Joined, Count, CountOnce, Goes
<1>2. MainInv'
  <2>1. CASE Joined
    BY <1>0, <2>1 DEF MainInv, FailureExplained, Finished, Joined, Goes
  <2>2. CASE ~Is("pulse") /\ Count
    BY <1>0, <2>2 DEF MainInv, FailureExplained, Finished, Count
  <2>3. CASE CountOnce
    BY <1>0, <2>3 DEF MainInv, FailureExplained, Finished, CountOnce, Goes
  <2>. QED  BY <2>1, <2>2, <2>3
<1>3. \A i \in Gpus : RunTold(i)' /\ place'[i] \in {"none", "setup", "stress", "exited"}
  BY <1>0 DEF StressInv, WorkerInv, AtWork, RunTold, Answered
<1>4. \A i \in Gpus : (New(i)' <=> New(i)) /\ (Left(i)' <=> Left(i))
  BY <1>0 DEF New, Left
<1>. QED  BY <1>0, <1>1, <1>2, <1>3, <1>4, MainStays

LEMMA StressVerdict ==
  ASSUME StressInv, ~Is("gst"), VerdictOfModule, UNCHANGED newVars
  PROVE  StressInv'
<1>0. /\ Gpus' = Gpus /\ conf' = conf /\ N' = N /\ step' = step
      /\ UNCHANGED <<cur, k, stopping, place, result, best, ended, hit, told>>
      /\ \A m \in {"gst", "perf", "tst", "iet", "pulse"} : Is(m)' <=> Is(m)
      /\ TypeOK /\ MainInv /\ pc' = "done"
      /\ \A i \in Gpus : Finished(i) /\ RunTold(i) /\ AtWork(i)
  BY DEF StressInv, MainInv, VerdictOfModule, WorkerInv, Gpus, N, Is, workerVars,
         historyVars, newVars
<1>1. TypeOK'
  BY <1>0 DEF TypeOK, VerdictOfModule
<1>2. FailureExplained'
  <2>. SUFFICES ASSUME sts' = "fail", ~stopping PROVE \E i \in Gpus : told[i]
    BY <1>0 DEF FailureExplained
  <2>0. conf.module \in {"gst", "perf", "tst", "iet", "pulse"}
    BY <1>0, ConfigsAssumption DEF TypeOK, ActionConfig
  <2>1. ~Is("perf") /\ ~Is("tst") /\ ~(\A i \in Gpus : result[i])
    BY <2>0 DEF VerdictOfModule, Is
  <2>2. PICK i \in Gpus : ~result[i]
    BY <2>1
  <2>. QED  BY <1>0, <2>0, <2>1, <2>2 DEF Finished, RunTold, Answered, Is
<1>3. MainInv'
  BY <1>0, <1>2 DEF MainInv, Finished
<1>4. \A i \in Gpus : RunTold(i)' /\ place'[i] \in {"none", "setup", "stress", "exited"}
  BY <1>0 DEF AtWork, RunTold, Answered
<1>5. \A i \in Gpus : (New(i)' <=> New(i)) /\ (Left(i)' <=> Left(i))
  BY <1>0 DEF New, Left
<1>. QED  BY <1>0, <1>1, <1>3, <1>4, <1>5, MainStays

LEMMA StressNoBarrier == StressInv /\ NoBarrier /\ UNCHANGED newVars => StressInv'
<1>. SUFFICES ASSUME StressInv, NoBarrier, UNCHANGED newVars PROVE StressInv'
  OBVIOUS
<1>0. /\ Gpus' = Gpus /\ conf' = conf /\ N' = N /\ Gpus \subseteq Nat /\ 1 \in Gpus
      /\ UNCHANGED <<cur, k, stopping, place, result, best, ended, hit, step>>
      /\ \A m \in {"gst", "perf", "tst", "iet", "pulse"} : Is(m)' <=> Is(m)
      /\ TypeOK /\ ~Is("gst") /\ pc = "start" /\ pc' = "done" /\ cur = 1
      /\ told' = [told EXCEPT ![1] = TRUE]
  BY Constants DEF StressInv, NoBarrier, Gpus, N, Is, newVars
<1>1. MainInv /\ \A i \in Gpus : place[i] = "none" /\ RunTold(i)
  <2>1. \A i \in Gpus : i >= cur
    BY <1>0 DEF Gpus
  <2>. QED  BY <1>0, <2>1 DEF StressInv, MainInv, WorkerInv
<1>2. TypeOK'
  BY <1>0 DEF TypeOK, NoBarrier
<1>3. MainInv'
  BY <1>0, <1>1 DEF TypeOK, MainInv, FailureExplained
<1>4. \A i \in Gpus : told[i] => told'[i]
  BY <1>0 DEF TypeOK
<1>5. \A i \in Gpus : RunTold(i)'
  BY <1>0, <1>1, <1>4 DEF RunTold, Answered
<1>6. \A i \in Gpus : (New(i)' <=> New(i)) /\ (Left(i)' <=> Left(i))
  BY <1>0 DEF New, Left
<1>7. \A i \in Gpus : /\ place'[i] # "stress" /\ place[i] # "stress"
                      /\ place'[i] \in {"none", "setup", "stress", "exited"}
  BY <1>0, <1>1
<1>. QED  BY <1>0, <1>2, <1>3, <1>5, <1>6, <1>7, MainStays

LEMMA MainKeeps == StressInv /\ MainStep => StressInv'
<1>. SUFFICES ASSUME StressInv, MainStep PROVE StressInv'
  OBVIOUS
<1>1. CASE Is("gst")
  <2>1. Main /\ conf' = conf /\ UNCHANGED newVars
    BY <1>1 DEF MainStep, Main, CountOnce, VerdictOfModule, NoBarrier, Is, StartWorker,
                Join, Joined, Count, Verdict
  <2>2. GstInv /\ GstInv' /\ Unused
    BY <1>1, <2>1, StartWorkerKeeps, JoinKeeps, JoinedKeeps, CountKeeps, VerdictKeeps
       DEF StressInv, Main
  <2>3. Gpus' = Gpus /\ N' = N /\ Is("gst")'
    BY <1>1, <2>1 DEF Gpus, N, Is
  <2>4. StressTypeOK' /\ Unused'
    BY <2>1, <2>2, <2>3 DEF StressInv, StressTypeOK, Unused, newVars, loadVars, pulseVars,
                            syncVars
  <2>. QED  BY <2>2, <2>3, <2>4 DEF StressInv, GstInv
<1>2. CASE ~Is("gst")
  BY <1>2, StressStart, StressJoin, StressMainOnly, StressVerdict, StressNoBarrier
     DEF MainStep
<1>. QED  BY <1>1, <1>2

-----------------------------------------------------------------------------
(* The steps of the workers.                                               *)

\* A step of worker i leaves main and the other workers alone, and is made by a
\* worker that is neither joined nor has ended.
Frame(i) ==
    /\ UNCHANGED <<conf, mainVars, stopping>>
    /\ place[i] \notin {"none", "exited"}
    /\ \A j \in Gpus \ {i} :
          UNCHANGED <<place[j], result[j], ended[j], told[j], clock[j]>>

Alone(i) == \A j \in Gpus \ {i} : UNCHANGED <<step[j], pulses[j]>>

\* Those at a barrier of pulse go on when the last of them comes.
Crossing(i) ==
    /\ Is("pulse")
    /\ \A j \in Gpus \ {i} : {step[j], step'[j]} \subseteq SyncSteps

LEMMA FrameSays ==
  ASSUME NEW i, Frame(i)
  PROVE  /\ Gpus' = Gpus /\ N' = N /\ (Synced <=> Synced')
         /\ UNCHANGED <<conf, pc, cur, k, sts, stopping>>
         /\ \A m \in {"gst", "perf", "tst", "iet", "pulse"} : Is(m)' <=> Is(m)
         /\ \A j \in Gpus : Watches(j) <=> Watches(j)'
BY DEF Frame, Gpus, N, Synced, Is, Watches, mainVars

LEMMA MainInvStays ==
  ASSUME TypeOK, MainInv, NEW i \in Gpus, Frame(i)
  PROVE  MainInv'
<1>0. /\ Gpus' = Gpus /\ UNCHANGED <<conf, pc, cur, k, sts, stopping>>
      /\ Is("pulse")' <=> Is("pulse")
  BY FrameSays
<1>1. \A j \in Gpus : place[j] = "none" => j # i /\ place'[j] = "none" /\ ended'[j] = ended[j]
  BY DEF Frame
<1>2. \A j \in Gpus : Finished(j) => Finished(j)'
  BY <1>1 DEF Finished
<1>3. pc = "done" => stopping
  BY DEF MainInv, Frame
<1>4. FailureExplained'
  BY <1>0, <1>3 DEF MainInv, FailureExplained
<1>. QED  BY <1>0, <1>1, <1>2, <1>4 DEF MainInv

LEMMA ThreadStays ==
  ASSUME StressInv, ~Is("gst"), NEW i \in Gpus, Frame(i), TypeOK', StressTypeOK',
         Crossing(i) \/ \A j \in Gpus \ {i} : UNCHANGED step[j], WorkerInv(i)', PulseInv'
  PROVE  StressInv'
<1>0. /\ Gpus' = Gpus /\ N' = N /\ (Synced <=> Synced') /\ stopping' = stopping
      /\ \A m \in {"gst", "perf", "tst", "iet", "pulse"} : Is(m)' <=> Is(m)
      /\ \A j \in Gpus : Watches(j) <=> Watches(j)'
  BY FrameSays
<1>1. MainInv'
  BY MainInvStays DEF StressInv
<1>2. ASSUME NEW j \in Gpus, j # i PROVE WorkerInv(j)'
  <2>1. UNCHANGED <<place[j], result[j], ended[j], told[j], clock[j]>>
    BY <1>2 DEF Frame
  <2>2. AtWork(j) /\ RunTold(j) /\ ClockOf(j)
    BY DEF StressInv, WorkerInv
  <2>3. CASE UNCHANGED step[j]
    <3>1. AtWork(j)' /\ ClockOf(j)'
      BY <1>0, <2>1, <2>2, <2>3 DEF AtWork, ClockOf
    <3>2. RunTold(j)'
      BY <1>0, <2>1, <2>2, <2>3 DEF RunTold, Answered
    <3>. QED  BY <3>1, <3>2 DEF WorkerInv
  <2>4. CASE Crossing(i)
    <3>1. step[j] \in SyncSteps /\ step'[j] \in SyncSteps /\ Is("pulse")
      BY <1>2, <2>4 DEF Crossing
    <3>2. AtWork(j)' /\ ClockOf(j)'
      BY <1>0, <2>1, <2>2, <3>1 DEF AtWork, ClockOf, Watches, Is, SyncSteps
    <3>3. RunTold(j)'
      BY <1>0, <2>1, <2>2, <3>1 DEF RunTold, Answered, Is, SyncSteps
    <3>. QED  BY <3>2, <3>3 DEF WorkerInv
  <2>. QED  BY <1>2, <2>3, <2>4
<1>3. \A j \in Gpus' : WorkerInv(j)'
  BY <1>0, <1>2
<1>. QED  BY <1>0, <1>1, <1>3 DEF StressInv

\* perf.
LEMMA PerfKeeps ==
  ASSUME StressInv, NEW i \in Gpus, PerfWorker(i)
  PROVE  StressInv'
<1>. DEFINE Good == /\ Frame(i) /\ TypeOK' /\ StressTypeOK' /\ WorkerInv(i)'
                   /\ \A j \in Gpus \ {i} : UNCHANGED step[j]
<1>0. TypeOK /\ StressTypeOK
  BY DEF StressInv
<1>1. Is("perf")
  BY ModuleOf DEF PerfWorker, PerfFails, PerfSetUp, PerfGemm, Reading, Steps, SetUp, Exits,
                  Is, Watches, WatchSteps
<1>2. ~Is("gst") /\ ~Is("pulse") /\ ~Is("iet") /\ ~Watches(i)
  BY <1>1 DEF Is, Watches
<1>3. AtWork(i) /\ RunTold(i) /\ ClockOf(i)
  BY <1>2 DEF StressInv, WorkerInv
<1>4. ASSUME PerfFails(i) PROVE Good
  <2>0. Frame(i) /\ \A j \in Gpus \ {i} : UNCHANGED step[j]
    BY <1>0, <1>4 DEF PerfFails, Frame, TypeOK, StressTypeOK, Steps, SetUp, Exits, EndsAs, Silent, WorkerGoes,
       historyVars, newVars, loadVars, pulseVars, syncVars
  <2>1. TypeOK'
    BY <1>0, <1>4 DEF PerfFails, TypeOK, Gpus, N, Steps, SetUp, Exits, EndsAs, Silent, WorkerGoes,
       mainVars, historyVars
  <2>2. StressTypeOK'
    BY <1>0, <1>4 DEF PerfFails, StressTypeOK, Gpus, N, Steps, SetUp, Exits, WorkerGoes,
       newVars, loadVars, pulseVars, syncVars
  <2>3. /\ place[i] = "setup" /\ place'[i] = "exited" /\ step[i] = "none" /\ step'[i] = "none"
        /\ ended'[i] = "error"
        /\ UNCHANGED <<clock[i]>>
    BY <1>0, <1>3, <1>4 DEF PerfFails, AtWork, TypeOK, StressTypeOK, Steps, SetUp, Exits, EndsAs, Silent, WorkerGoes,
       historyVars, newVars, loadVars, pulseVars
  <2>4. AtWork(i)' /\ ClockOf(i)'
    BY <1>1, <1>2, <1>3, <2>0, <2>3, FrameSays DEF AtWork, ClockOf, PerfSteps, WatchSteps, SyncSteps
  <2>5. RunTold(i)'
    BY <1>1, <1>2, <1>3, <1>4, <2>0, <2>3, FrameSays DEF PerfFails, RunTold, Answered
  <2>. QED  BY <2>0, <2>1, <2>2, <2>4, <2>5 DEF WorkerInv
<1>5. ASSUME PerfSetUp(i) PROVE Good
  <2>0. Frame(i) /\ \A j \in Gpus \ {i} : UNCHANGED step[j]
    BY <1>0, <1>5 DEF PerfSetUp, Frame, TypeOK, StressTypeOK, Steps, SetUp, Exits, EndsAs, Silent, WorkerGoes,
       historyVars, newVars, loadVars, pulseVars, syncVars
  <2>1. TypeOK'
    BY <1>0, <1>5 DEF PerfSetUp, TypeOK, Gpus, N, Steps, SetUp, Exits, EndsAs, Silent, WorkerGoes,
       mainVars, historyVars
  <2>2. StressTypeOK'
    BY <1>0, <1>5 DEF PerfSetUp, StressTypeOK, Gpus, N, Steps, SetUp, Exits, WorkerGoes,
       newVars, loadVars, pulseVars, syncVars
  <2>3. /\ place[i] = "setup" /\ place'[i] = "stress" /\ step'[i] = "gemm"
        /\ UNCHANGED <<ended[i], clock[i]>>
    BY <1>0, <1>3, <1>5 DEF PerfSetUp, AtWork, TypeOK, StressTypeOK, Steps, SetUp, Exits, EndsAs, Silent, WorkerGoes,
       historyVars, newVars, loadVars, pulseVars
  <2>4. AtWork(i)' /\ ClockOf(i)'
    BY <1>1, <1>2, <1>3, <2>0, <2>3, FrameSays DEF AtWork, ClockOf, PerfSteps, WatchSteps, SyncSteps
  <2>5. RunTold(i)'
    BY <1>1, <1>2, <1>3, <1>5, <2>0, <2>3, FrameSays DEF PerfSetUp, RunTold, Answered
  <2>. QED  BY <2>0, <2>1, <2>2, <2>4, <2>5 DEF WorkerInv
<1>6. ASSUME PerfGemm(i) PROVE Good
  <2>0. Frame(i) /\ \A j \in Gpus \ {i} : UNCHANGED step[j]
    BY <1>0, <1>6 DEF PerfGemm, Frame, TypeOK, StressTypeOK, Steps, SetUp, Exits, EndsAs, Silent, WorkerGoes,
       historyVars, newVars, loadVars, pulseVars, syncVars
  <2>1. TypeOK'
    <3>1. best' \in [Gpus -> BOOLEAN] /\ hit' \in [Gpus -> BOOLEAN]
      BY <1>0, <1>6 DEF PerfGemm, TypeOK
    <3>2. told' \in [Gpus -> BOOLEAN] /\ ended' \in [Gpus -> {"none", "error", "stop", "checked"}]
      BY <1>0, <1>6 DEF PerfGemm, TypeOK, EndsAs
    <3>3. UNCHANGED <<conf, mainVars, stopping, result>> /\ place' = [place EXCEPT ![i] = "exited"]
      BY <1>6 DEF PerfGemm, Exits, WorkerGoes
    <3>. QED  BY <1>0, <3>1, <3>2, <3>3 DEF TypeOK, Gpus, N, mainVars
  <2>2. StressTypeOK'
    BY <1>0, <1>6 DEF PerfGemm, StressTypeOK, Gpus, N, Steps, SetUp, Exits, WorkerGoes,
       newVars, loadVars, pulseVars, syncVars
  <2>3. /\ place[i] = "stress" /\ place'[i] = "exited" /\ step'[i] = "none"
        /\ ended'[i] = "checked" \/ (stopping /\ ended'[i] = "stop")
        /\ UNCHANGED <<clock[i]>>
    BY <1>0, <1>3, <1>6 DEF PerfGemm, AtWork, TypeOK, StressTypeOK, Steps, SetUp, Exits, EndsAs, Silent, WorkerGoes,
       historyVars, newVars, loadVars, pulseVars
  <2>4. AtWork(i)' /\ ClockOf(i)'
    BY <1>1, <1>2, <1>3, <2>0, <2>3, FrameSays DEF AtWork, ClockOf, PerfSteps, WatchSteps, SyncSteps
  <2>5. RunTold(i)'
    BY <1>1, <1>2, <1>3, <1>6, <2>0, <2>3, FrameSays DEF PerfGemm, RunTold, Answered
  <2>. QED  BY <2>0, <2>1, <2>2, <2>4, <2>5 DEF WorkerInv
<1>7. Good
  <2>. HIDE DEF Good
  <2>. QED  BY <1>4, <1>5, <1>6 DEF PerfWorker
<1>8. PulseInv'
  BY <1>2, <1>7, FrameSays DEF PulseInv
<1>. QED  BY <1>2, <1>7, <1>8, ThreadStays

\* tst and iet.
LEMMA WatchKeeps ==
  ASSUME StressInv, NEW i \in Gpus, WatchWorker(i)
  PROVE  StressInv'
<1>. DEFINE Good == /\ Frame(i) /\ TypeOK' /\ StressTypeOK' /\ WorkerInv(i)'
                   /\ \A j \in Gpus \ {i} : UNCHANGED step[j]
<1>0. TypeOK /\ StressTypeOK
  BY DEF StressInv
<1>1. Watches(i)
  BY ModuleOf DEF WatchWorker, WatchBegins, WatchGoesOn, WatchOver, WatchStopped, Nap, Judge, StopLoad, JoinLoad, Reading, Steps, SetUp, Exits,
                  Is, Watches, WatchSteps
<1>2. ~Is("gst") /\ ~Is("pulse") /\ ~Is("perf")
  BY <1>1 DEF Is, Watches
<1>3. AtWork(i) /\ RunTold(i) /\ ClockOf(i)
  BY <1>2 DEF StressInv, WorkerInv
<1>4. ASSUME WatchBegins(i) PROVE Good
  <2>0. Frame(i) /\ \A j \in Gpus \ {i} : UNCHANGED step[j]
    BY <1>0, <1>4 DEF WatchBegins, Watches, Frame, TypeOK, StressTypeOK, Steps, SetUp, Exits, EndsAs, Silent, WorkerGoes,
       historyVars, newVars, loadVars, pulseVars, syncVars
  <2>1. TypeOK'
    BY <1>0, <1>4 DEF WatchBegins, Watches, TypeOK, Gpus, N, Steps, SetUp, Exits, EndsAs, Silent, WorkerGoes,
       mainVars, historyVars
  <2>2. StressTypeOK'
    BY <1>0, <1>4 DEF WatchBegins, Watches, StressTypeOK, Gpus, N, Steps, SetUp, Exits, WorkerGoes,
       newVars, loadVars, pulseVars, syncVars
  <2>3. /\ place[i] = "setup" /\ place'[i] = "stress" /\ step'[i] = "watch"
        /\ UNCHANGED <<result[i], ended[i], told[i], clock[i]>>
    BY <1>0, <1>3, <1>4 DEF WatchBegins, Watches, AtWork, TypeOK, StressTypeOK, Steps, SetUp, Exits, EndsAs, Silent, WorkerGoes,
       historyVars, newVars, loadVars, pulseVars
  <2>4. AtWork(i)' /\ ClockOf(i)'
    BY <1>1, <1>2, <1>3, <2>0, <2>3, FrameSays DEF AtWork, ClockOf, PerfSteps, WatchSteps, SyncSteps
  <2>5. RunTold(i)'
    BY <1>1, <1>2, <1>3, <1>4, <2>0, <2>3, FrameSays DEF WatchBegins, Watches, RunTold, Answered
  <2>. QED  BY <2>0, <2>1, <2>2, <2>4, <2>5 DEF WorkerInv
<1>5. ASSUME WatchGoesOn(i) PROVE Good
  <2>0. Frame(i) /\ \A j \in Gpus \ {i} : UNCHANGED step[j]
    BY <1>0, <1>5 DEF WatchGoesOn, Reading, Watches, Frame, TypeOK, StressTypeOK, Steps, SetUp, Exits, EndsAs, Silent, WorkerGoes,
       historyVars, newVars, loadVars, pulseVars, syncVars
  <2>1. TypeOK'
    BY <1>0, <1>5 DEF WatchGoesOn, Reading, Watches, TypeOK, Gpus, N, Steps, SetUp, Exits, EndsAs, Silent, WorkerGoes,
       mainVars, historyVars
  <2>2. StressTypeOK'
    BY <1>0, <1>5 DEF WatchGoesOn, Reading, Watches, StressTypeOK, Gpus, N, Steps, SetUp, Exits, WorkerGoes,
       newVars, loadVars, pulseVars, syncVars
  <2>3. /\ place[i] = "stress" /\ place'[i] = "stress" /\ step[i] = "watch" /\ step'[i] = "nap"
        /\ UNCHANGED <<result[i], ended[i], told[i], clock[i]>>
    BY <1>0, <1>3, <1>5 DEF WatchGoesOn, Reading, Watches, AtWork, TypeOK, StressTypeOK, Steps, SetUp, Exits, EndsAs, Silent, WorkerGoes,
       historyVars, newVars, loadVars, pulseVars
  <2>4. AtWork(i)' /\ ClockOf(i)'
    BY <1>1, <1>2, <1>3, <2>0, <2>3, FrameSays DEF AtWork, ClockOf, PerfSteps, WatchSteps, SyncSteps
  <2>5. RunTold(i)'
    BY <1>1, <1>2, <1>3, <1>5, <2>0, <2>3, FrameSays DEF WatchGoesOn, Reading, Watches, RunTold, Answered
  <2>. QED  BY <2>0, <2>1, <2>2, <2>4, <2>5 DEF WorkerInv
<1>6. ASSUME WatchOver(i) PROVE Good
  <2>0. Frame(i) /\ \A j \in Gpus \ {i} : UNCHANGED step[j]
    BY <1>0, <1>6 DEF WatchOver, Reading, Watches, Frame, TypeOK, StressTypeOK, Steps, SetUp, Exits, EndsAs, Silent, WorkerGoes,
       historyVars, newVars, loadVars, pulseVars, syncVars
  <2>1. TypeOK'
    BY <1>0, <1>6 DEF WatchOver, Reading, Watches, TypeOK, Gpus, N, Steps, SetUp, Exits, EndsAs, Silent, WorkerGoes,
       mainVars, historyVars
  <2>2. StressTypeOK'
    BY <1>0, <1>6 DEF WatchOver, Reading, Watches, StressTypeOK, Gpus, N, Steps, SetUp, Exits, WorkerGoes,
       newVars, loadVars, pulseVars, syncVars
  <2>3. /\ place[i] = "stress" /\ place'[i] = "stress" /\ step[i] = "watch" /\ step'[i] = "judge"
        /\ UNCHANGED <<result[i], ended[i], told[i], clock[i]>>
    BY <1>0, <1>3, <1>6 DEF WatchOver, Reading, Watches, AtWork, TypeOK, StressTypeOK, Steps, SetUp, Exits, EndsAs, Silent, WorkerGoes,
       historyVars, newVars, loadVars, pulseVars
  <2>4. AtWork(i)' /\ ClockOf(i)'
    BY <1>1, <1>2, <1>3, <2>0, <2>3, FrameSays DEF AtWork, ClockOf, PerfSteps, WatchSteps, SyncSteps
  <2>5. RunTold(i)'
    BY <1>1, <1>2, <1>3, <1>6, <2>0, <2>3, FrameSays DEF WatchOver, Reading, Watches, RunTold, Answered
  <2>. QED  BY <2>0, <2>1, <2>2, <2>4, <2>5 DEF WorkerInv
<1>7. ASSUME WatchStopped(i) PROVE Good
  <2>0. Frame(i) /\ \A j \in Gpus \ {i} : UNCHANGED step[j]
    BY <1>0, <1>7 DEF WatchStopped, Watches, Frame, TypeOK, StressTypeOK, Steps, SetUp, Exits, EndsAs, Silent, WorkerGoes,
       historyVars, newVars, loadVars, pulseVars, syncVars
  <2>1. TypeOK'
    BY <1>0, <1>7 DEF WatchStopped, Watches, TypeOK, Gpus, N, Steps, SetUp, Exits, EndsAs, Silent, WorkerGoes,
       mainVars, historyVars
  <2>2. StressTypeOK'
    BY <1>0, <1>7 DEF WatchStopped, Watches, StressTypeOK, Gpus, N, Steps, SetUp, Exits, WorkerGoes,
       newVars, loadVars, pulseVars, syncVars
  <2>3. /\ place[i] = "stress" /\ place'[i] = "stress" /\ step[i] = "watch" /\ step'[i] = "judge"
        /\ UNCHANGED <<result[i], ended[i], told[i], clock[i]>>
    BY <1>0, <1>3, <1>7 DEF WatchStopped, Watches, AtWork, TypeOK, StressTypeOK, Steps, SetUp, Exits, EndsAs, Silent, WorkerGoes,
       historyVars, newVars, loadVars, pulseVars
  <2>4. AtWork(i)' /\ ClockOf(i)'
    BY <1>1, <1>2, <1>3, <2>0, <2>3, FrameSays DEF AtWork, ClockOf, PerfSteps, WatchSteps, SyncSteps
  <2>5. RunTold(i)'
    BY <1>1, <1>2, <1>3, <1>7, <2>0, <2>3, FrameSays DEF WatchStopped, Watches, RunTold, Answered
  <2>. QED  BY <2>0, <2>1, <2>2, <2>4, <2>5 DEF WorkerInv
<1>8. ASSUME Nap(i) PROVE Good
  <2>0. Frame(i) /\ \A j \in Gpus \ {i} : UNCHANGED step[j]
    BY <1>0, <1>8 DEF Nap, Frame, TypeOK, StressTypeOK, Steps, SetUp, Exits, EndsAs, Silent, WorkerGoes,
       historyVars, newVars, loadVars, pulseVars, syncVars
  <2>1. TypeOK'
    BY <1>0, <1>8 DEF Nap, TypeOK, Gpus, N, Steps, SetUp, Exits, EndsAs, Silent, WorkerGoes,
       mainVars, historyVars
  <2>2. StressTypeOK'
    BY <1>0, <1>8 DEF Nap, StressTypeOK, Gpus, N, Steps, SetUp, Exits, WorkerGoes,
       newVars, loadVars, pulseVars, syncVars
  <2>3. /\ place[i] = "stress" /\ place'[i] = "stress" /\ step[i] = "nap"
        /\ step'[i] = "watch" \/ (stopping /\ step'[i] = "stopLoad")
        /\ UNCHANGED <<ended[i], told[i], clock[i]>>
    BY <1>0, <1>3, <1>8 DEF Nap, AtWork, TypeOK, StressTypeOK, Steps, SetUp, Exits, EndsAs, Silent, WorkerGoes,
       historyVars, newVars, loadVars, pulseVars
  <2>4. AtWork(i)' /\ ClockOf(i)'
    BY <1>1, <1>2, <1>3, <2>0, <2>3, FrameSays DEF AtWork, ClockOf, PerfSteps, WatchSteps, SyncSteps
  <2>5. RunTold(i)'
    BY <1>1, <1>2, <1>3, <1>8, <2>0, <2>3, FrameSays DEF Nap, RunTold, Answered
  <2>. QED  BY <2>0, <2>1, <2>2, <2>4, <2>5 DEF WorkerInv
<1>9. ASSUME Judge(i) PROVE Good
  <2>0. Frame(i) /\ \A j \in Gpus \ {i} : UNCHANGED step[j]
    BY <1>0, <1>9 DEF Judge, Secondary, Frame, TypeOK, StressTypeOK, Steps, SetUp, Exits, EndsAs, Silent, WorkerGoes,
       historyVars, newVars, loadVars, pulseVars, syncVars
  <2>1. TypeOK'
    BY <1>0, <1>9 DEF Judge, Secondary, TypeOK, Gpus, N, Steps, SetUp, Exits, EndsAs, Silent, WorkerGoes,
       mainVars, historyVars
  <2>2. StressTypeOK'
    BY <1>0, <1>9 DEF Judge, Secondary, StressTypeOK, Gpus, N, Steps, SetUp, Exits, WorkerGoes,
       newVars, loadVars, pulseVars, syncVars
  <2>3. /\ place[i] = "stress" /\ place'[i] = "stress" /\ step[i] = "judge" /\ step'[i] = "stopLoad"
        /\ Is("iet") => result'[i] \/ told'[i]
        /\ UNCHANGED <<ended[i], clock[i]>>
    BY <1>0, <1>3, <1>9 DEF Judge, Secondary, AtWork, TypeOK, StressTypeOK, Steps, SetUp, Exits, EndsAs, Silent, WorkerGoes,
       historyVars, newVars, loadVars, pulseVars
  <2>4. AtWork(i)' /\ ClockOf(i)'
    BY <1>1, <1>2, <1>3, <2>0, <2>3, FrameSays DEF AtWork, ClockOf, PerfSteps, WatchSteps, SyncSteps
  <2>5. RunTold(i)'
    BY <1>1, <1>2, <1>3, <1>9, <2>0, <2>3, FrameSays DEF Judge, Secondary, RunTold, Answered
  <2>. QED  BY <2>0, <2>1, <2>2, <2>4, <2>5 DEF WorkerInv
<1>10. ASSUME StopLoad(i) PROVE Good
  <2>0. Frame(i) /\ \A j \in Gpus \ {i} : UNCHANGED step[j]
    BY <1>0, <1>10 DEF StopLoad, Frame, TypeOK, StressTypeOK, Steps, SetUp, Exits, EndsAs, Silent, WorkerGoes,
       historyVars, newVars, loadVars, pulseVars, syncVars
  <2>1. TypeOK'
    BY <1>0, <1>10 DEF StopLoad, TypeOK, Gpus, N, Steps, SetUp, Exits, EndsAs, Silent, WorkerGoes,
       mainVars, historyVars
  <2>2. StressTypeOK'
    BY <1>0, <1>10 DEF StopLoad, StressTypeOK, Gpus, N, Steps, SetUp, Exits, WorkerGoes,
       newVars, loadVars, pulseVars, syncVars
  <2>3. /\ place[i] = "stress" /\ place'[i] = "stress" /\ step[i] = "stopLoad" /\ step'[i] = "join"
        /\ UNCHANGED <<result[i], ended[i], told[i], clock[i]>>
    BY <1>0, <1>3, <1>10 DEF StopLoad, AtWork, TypeOK, StressTypeOK, Steps, SetUp, Exits, EndsAs, Silent, WorkerGoes,
       historyVars, newVars, loadVars, pulseVars
  <2>4. AtWork(i)' /\ ClockOf(i)'
    BY <1>1, <1>2, <1>3, <2>0, <2>3, FrameSays DEF AtWork, ClockOf, PerfSteps, WatchSteps, SyncSteps
  <2>5. RunTold(i)'
    BY <1>1, <1>2, <1>3, <1>10, <2>0, <2>3, FrameSays DEF StopLoad, RunTold, Answered
  <2>. QED  BY <2>0, <2>1, <2>2, <2>4, <2>5 DEF WorkerInv
<1>11. ASSUME JoinLoad(i) PROVE Good
  <2>0. Frame(i) /\ \A j \in Gpus \ {i} : UNCHANGED step[j]
    BY <1>0, <1>11 DEF JoinLoad, Frame, TypeOK, StressTypeOK, Steps, SetUp, Exits, EndsAs, Silent, WorkerGoes,
       historyVars, newVars, loadVars, pulseVars, syncVars
  <2>1. TypeOK'
    BY <1>0, <1>11 DEF JoinLoad, TypeOK, Gpus, N, Steps, SetUp, Exits, EndsAs, Silent, WorkerGoes,
       mainVars, historyVars
  <2>2. StressTypeOK'
    BY <1>0, <1>11 DEF JoinLoad, StressTypeOK, Gpus, N, Steps, SetUp, Exits, WorkerGoes,
       newVars, loadVars, pulseVars, syncVars
  <2>3. /\ place[i] = "stress" /\ place'[i] = "exited" /\ step[i] = "join" /\ step'[i] = "none"
        /\ ended'[i] = "checked" \/ (stopping /\ ended'[i] = "stop")
        /\ UNCHANGED <<result[i], told[i], clock[i]>>
    BY <1>0, <1>3, <1>11 DEF JoinLoad, AtWork, TypeOK, StressTypeOK, Steps, SetUp, Exits, EndsAs, Silent, WorkerGoes,
       historyVars, newVars, loadVars, pulseVars
  <2>4. AtWork(i)' /\ ClockOf(i)'
    BY <1>1, <1>2, <1>3, <2>0, <2>3, FrameSays DEF AtWork, ClockOf, PerfSteps, WatchSteps, SyncSteps
  <2>5. RunTold(i)'
    BY <1>1, <1>2, <1>3, <1>11, <2>0, <2>3, FrameSays DEF JoinLoad, RunTold, Answered
  <2>. QED  BY <2>0, <2>1, <2>2, <2>4, <2>5 DEF WorkerInv
<1>12. Good
  <2>. HIDE DEF Good
  <2>. QED  BY <1>4, <1>5, <1>6, <1>7, <1>8, <1>9, <1>10, <1>11 DEF WatchWorker
<1>13. PulseInv'
  BY <1>2, <1>12, FrameSays DEF PulseInv
<1>. QED  BY <1>2, <1>12, <1>13, ThreadStays

-----------------------------------------------------------------------------
(* The steps of a worker of pulse.                                         *)

LEMMA PulseSays ==
  ASSUME StressInv, Is("pulse"), Synced, NEW i \in Gpus, Frame(i)
  PROVE  /\ Sections /\ LeavesFor /\ Counters /\ Ranks
         /\ Gpus' = Gpus /\ N' = N
         /\ \A j \in Gpus : j # i => place'[j] = place[j] /\ ended'[j] = ended[j]
<1>1. ~Is("gst") /\ Gpus' = Gpus /\ N' = N
  BY FrameSays DEF Is
<1>2. Sections /\ LeavesFor /\ Counters /\ Ranks
  BY <1>1 DEF StressInv, PulseInv
<1>3. \A j \in Gpus : j # i => place'[j] = place[j] /\ ended'[j] = ended[j]
  BY DEF Frame
<1>. QED  BY <1>1, <1>2, <1>3

LEMMA PulseFailsKeeps ==
  ASSUME StressInv, Is("pulse"), NEW i \in Gpus, PulseFails(i)
  PROVE  StressInv'
<1>0. TypeOK /\ StressTypeOK /\ N \in Nat \ {0} /\ Gpus = 1..N /\ 1 \in Gpus /\ ~Is("gst")
  BY Constants DEF StressInv, Gpus, Is
<1>1. AtWork(i) /\ RunTold(i) /\ ClockOf(i) /\ ~Is("iet") /\ ~Is("perf") /\ ~Watches(i)
  BY <1>0 DEF StressInv, WorkerInv, Is, Watches
<1>2. Frame(i) /\ Alone(i)
  BY <1>0 DEF PulseFails, Frame, Alone, TypeOK, StressTypeOK, Steps, SetUp, Exits, EndsAs, Silent, WorkerGoes,
     historyVars, newVars, loadVars, pulseVars, syncVars
<1>3. TypeOK'
  BY <1>0 DEF PulseFails, TypeOK, Gpus, N, Steps, SetUp, Exits, EndsAs, Silent, WorkerGoes,
     mainVars, historyVars
<1>4. /\ place[i] = "setup" /\ place'[i] = "exited" /\ step[i] = "none" /\ step'[i] = "none"
      /\ ended[i] = "none" /\ ended'[i] = "error" /\ told'[i]
      /\ UNCHANGED <<clock[i], pulses[i], done, arrival, release>>
  BY <1>0, <1>1 DEF PulseFails, AtWork, RunTold, TypeOK, StressTypeOK, Steps, SetUp, Exits, EndsAs, Silent, WorkerGoes,
     historyVars, newVars, loadVars, pulseVars, syncVars
<1>5. StressTypeOK'
  BY <1>0 DEF PulseFails, StressTypeOK, Gpus, N, Steps, SetUp, Exits, WorkerGoes,
     newVars, loadVars, pulseVars, syncVars
<1>6. WorkerInv(i)'
  <2>1. AtWork(i)' /\ ClockOf(i)'
    BY <1>1, <1>2, <1>4, FrameSays DEF AtWork, ClockOf, PulseSteps, SyncSteps
  <2>2. RunTold(i)'
    BY <1>1, <1>2, <1>4, FrameSays DEF RunTold, Answered
  <2>. QED  BY <2>1, <2>2 DEF WorkerInv
<1>7. ASSUME Synced PROVE PulseInv'
  <2>0. /\ Sections /\ LeavesFor /\ Counters /\ Ranks /\ Gpus' = Gpus
        /\ \A j \in Gpus : j # i => /\ place'[j] = place[j] /\ ended'[j] = ended[j]
                                    /\ step'[j] = step[j] /\ pulses'[j] = pulses[j]
    BY <1>2, <1>7, PulseSays DEF Alone
  <2>1. Sections'
    BY <1>1, <1>4, <2>0 DEF Sections, New, Between, Busy, Left, AtWork
  <2>2. LeavesFor'
    BY <1>1, <1>4, <2>0 DEF LeavesFor, Sections, New, Between, Busy, Left, AtWork
  <2>3. Counters'
    <3>1. Arrived' = Arrived
      BY <1>4, <2>0 DEF Arrived
    <3>. QED  BY <1>0, <1>4, <2>0, <3>1 DEF Counters, Sections, Between, Busy
  <2>4. Ranks'
    <3>1. \A j \in Gpus : New(j)' => pulses'[j] = 0
      BY <1>1, <1>4, <2>0 DEF Ranks, Sections, New, Between, Busy, Left, AtWork
    <3>2. \A j \in Gpus : j # i => /\ (Busy(j)' <=> Busy(j)) /\ (Halted(j)' <=> Halted(j))
                                    /\ pulses'[j] = pulses[j]
      BY <2>0 DEF Busy, Halted, Left
    <3>3. \A j \in Gpus : ~Halted(i)' /\ ~Halted(j)' =>
             /\ IF Busy(i)' THEN Busy(j)' => pulses'[i] = pulses'[j]
                             ELSE pulses'[i] = IF Busy(j)' THEN Inc(pulses'[j]) ELSE pulses'[j]
             /\ IF Busy(j)' THEN Busy(i)' => pulses'[i] = pulses'[j]
                             ELSE pulses'[j] = IF Busy(i)' THEN Inc(pulses'[i]) ELSE pulses'[i]
      BY <1>1, <1>4, <2>0, <3>2 DEF Ranks, Halted, Sections, New, Between, Busy, Left, AtWork
    <3>. QED  BY <2>0, <3>1, <3>2, <3>3 DEF Ranks, Inc
  <2>. QED  BY <2>1, <2>2, <2>3, <2>4 DEF PulseInv
<1>8. PulseInv'
  BY <1>2, <1>7, FrameSays DEF PulseInv
<1>. QED  BY <1>0, <1>2, <1>3, <1>5, <1>6, <1>8, ThreadStays DEF Alone

LEMMA PulseSetUpKeeps ==
  ASSUME StressInv, Is("pulse"), NEW i \in Gpus, PulseSetUp(i)
  PROVE  StressInv'
<1>0. TypeOK /\ StressTypeOK /\ N \in Nat \ {0} /\ Gpus = 1..N /\ 1 \in Gpus /\ ~Is("gst")
  BY Constants DEF StressInv, Gpus, Is
<1>1. AtWork(i) /\ RunTold(i) /\ ClockOf(i) /\ ~Is("iet") /\ ~Is("perf") /\ ~Watches(i)
  BY <1>0 DEF StressInv, WorkerInv, Is, Watches
<1>2. Frame(i) /\ Alone(i)
  BY <1>0 DEF PulseSetUp, Frame, Alone, TypeOK, StressTypeOK, Steps, SetUp, Exits, EndsAs, Silent, WorkerGoes,
     historyVars, newVars, loadVars, pulseVars, syncVars
<1>3. TypeOK'
  BY <1>0 DEF PulseSetUp, TypeOK, Gpus, N, Steps, SetUp, Exits, EndsAs, Silent, WorkerGoes,
     mainVars, historyVars
<1>4. /\ place[i] = "setup" /\ place'[i] = "stress" /\ step[i] = "none" /\ step'[i] = "head"
      /\ ended[i] = "none" /\ pulses'[i] = 0
      /\ UNCHANGED <<ended[i], result[i], told[i], clock[i]>>
      /\ UNCHANGED <<done, arrival, release>>
  BY <1>0, <1>1 DEF PulseSetUp, AtWork, RunTold, TypeOK, StressTypeOK, Steps, SetUp, Exits, EndsAs, Silent, WorkerGoes,
     historyVars, newVars, loadVars, pulseVars, syncVars
<1>5. StressTypeOK'
  <2>1. Gpus' = Gpus /\ N' = N /\ step' = [step EXCEPT ![i] = "head"]
    BY <1>0 DEF PulseSetUp, SetUp, WorkerGoes, Gpus, N
  <2>2. pulses' \in [Gpus -> 0..MaxPulses] /\ passed' \in [Gpus -> BOOLEAN]
    BY <1>0, MaxPulsesAssumption DEF PulseSetUp, StressTypeOK
  <2>3. UNCHANGED <<load, band, endtest, pending, done, arrival, release, clock>>
    BY <1>0 DEF PulseSetUp, loadVars, syncVars
  <2>. QED  BY <1>0, <2>1, <2>2, <2>3 DEF StressTypeOK
<1>6. WorkerInv(i)'
  <2>1. AtWork(i)' /\ ClockOf(i)'
    BY <1>1, <1>2, <1>4, FrameSays DEF AtWork, ClockOf, PulseSteps, SyncSteps
  <2>2. RunTold(i)'
    BY <1>1, <1>2, <1>4, FrameSays DEF RunTold, Answered
  <2>. QED  BY <2>1, <2>2 DEF WorkerInv
<1>7. ASSUME Synced PROVE PulseInv'
  <2>0. /\ Sections /\ LeavesFor /\ Counters /\ Ranks /\ Gpus' = Gpus
        /\ \A j \in Gpus : j # i => /\ place'[j] = place[j] /\ ended'[j] = ended[j]
                                    /\ step'[j] = step[j] /\ pulses'[j] = pulses[j]
    BY <1>2, <1>7, PulseSays DEF Alone
  <2>1. Sections'
    BY <1>1, <1>4, <2>0 DEF Sections, New, Between, Busy, Left, AtWork
  <2>2. LeavesFor'
    BY <1>1, <1>4, <2>0 DEF LeavesFor, Sections, New, Between, Busy, Left, AtWork
  <2>3. Counters'
    <3>1. Arrived' = Arrived
      BY <1>4, <2>0 DEF Arrived
    <3>. QED  BY <1>0, <1>4, <2>0, <3>1 DEF Counters, Sections, Between, Busy
  <2>4. Ranks'
    <3>1. \A j \in Gpus : New(j)' => pulses'[j] = 0
      BY <1>1, <1>4, <2>0 DEF Ranks, Sections, New, Between, Busy, Left, AtWork
    <3>2. \A j \in Gpus : j # i => /\ (Busy(j)' <=> Busy(j)) /\ (Halted(j)' <=> Halted(j))
                                    /\ pulses'[j] = pulses[j]
      BY <2>0 DEF Busy, Halted, Left
    <3>3. \A j \in Gpus : ~Halted(i)' /\ ~Halted(j)' =>
             /\ IF Busy(i)' THEN Busy(j)' => pulses'[i] = pulses'[j]
                             ELSE pulses'[i] = IF Busy(j)' THEN Inc(pulses'[j]) ELSE pulses'[j]
             /\ IF Busy(j)' THEN Busy(i)' => pulses'[i] = pulses'[j]
                             ELSE pulses'[j] = IF Busy(i)' THEN Inc(pulses'[i]) ELSE pulses'[i]
      BY <1>1, <1>4, <2>0, <3>2 DEF Ranks, Halted, Sections, New, Between, Busy, Left, AtWork
    <3>. QED  BY <2>0, <3>1, <3>2, <3>3 DEF Ranks, Inc
  <2>. QED  BY <2>1, <2>2, <2>3, <2>4 DEF PulseInv
<1>8. PulseInv'
  BY <1>2, <1>7, FrameSays DEF PulseInv
<1>. QED  BY <1>0, <1>2, <1>3, <1>5, <1>6, <1>8, ThreadStays DEF Alone

LEMMA PulseStoppedKeeps ==
  ASSUME StressInv, Is("pulse"), NEW i \in Gpus, PulseStopped(i)
  PROVE  StressInv'
<1>0. TypeOK /\ StressTypeOK /\ N \in Nat \ {0} /\ Gpus = 1..N /\ 1 \in Gpus /\ ~Is("gst")
  BY Constants DEF StressInv, Gpus, Is
<1>1. AtWork(i) /\ RunTold(i) /\ ClockOf(i) /\ ~Is("iet") /\ ~Is("perf") /\ ~Watches(i)
  BY <1>0 DEF StressInv, WorkerInv, Is, Watches
<1>2. Frame(i) /\ Alone(i)
  BY <1>0 DEF PulseStopped, Frame, Alone, TypeOK, StressTypeOK, Steps, SetUp, Exits, EndsAs, Silent, WorkerGoes,
     historyVars, newVars, loadVars, pulseVars, syncVars
<1>3. TypeOK'
  BY <1>0 DEF PulseStopped, TypeOK, Gpus, N, Steps, SetUp, Exits, EndsAs, Silent, WorkerGoes,
     mainVars, historyVars
<1>4. /\ place[i] = "stress" /\ place'[i] = "stress" /\ step[i] = "head" /\ step'[i] = "final"
      /\ stopping /\ ended'[i] \in {"stop", "error"}
      /\ ended'[i] = "error" <=> ended[i] = "error"
      /\ UNCHANGED <<clock[i], pulses[i]>>
      /\ UNCHANGED <<done, arrival, release>>
  BY <1>0, <1>1 DEF PulseStopped, AtWork, RunTold, TypeOK, StressTypeOK, Steps, SetUp, Exits, EndsAs, Silent, WorkerGoes,
     historyVars, newVars, loadVars, pulseVars, syncVars
<1>5. StressTypeOK'
  BY <1>0 DEF PulseStopped, StressTypeOK, Gpus, N, Steps, SetUp, Exits, WorkerGoes,
     newVars, loadVars, pulseVars, syncVars
<1>6. WorkerInv(i)'
  <2>1. AtWork(i)' /\ ClockOf(i)'
    BY <1>1, <1>2, <1>4, FrameSays DEF AtWork, ClockOf, PulseSteps, SyncSteps
  <2>2. RunTold(i)'
    BY <1>1, <1>2, <1>4, FrameSays DEF RunTold, Answered
  <2>. QED  BY <2>1, <2>2 DEF WorkerInv
<1>7. ASSUME Synced PROVE PulseInv'
  <2>0. /\ Sections /\ LeavesFor /\ Counters /\ Ranks /\ Gpus' = Gpus
        /\ \A j \in Gpus : j # i => /\ place'[j] = place[j] /\ ended'[j] = ended[j]
                                    /\ step'[j] = step[j] /\ pulses'[j] = pulses[j]
    BY <1>2, <1>7, PulseSays DEF Alone
  <2>1. Sections'
    BY <1>1, <1>4, <2>0 DEF Sections, New, Between, Busy, Left, AtWork
  <2>2. LeavesFor'
    BY <1>1, <1>4, <2>0 DEF LeavesFor, Sections, New, Between, Busy, Left, AtWork
  <2>3. Counters'
    <3>1. Arrived' = Arrived
      BY <1>4, <2>0 DEF Arrived
    <3>. QED  BY <1>0, <1>4, <2>0, <3>1 DEF Counters, Sections, Between, Busy
  <2>4. Ranks'
    <3>1. \A j \in Gpus : New(j)' => pulses'[j] = 0
      BY <1>1, <1>4, <2>0 DEF Ranks, Sections, New, Between, Busy, Left, AtWork
    <3>2. \A j \in Gpus : j # i => /\ (Busy(j)' <=> Busy(j)) /\ (Halted(j)' <=> Halted(j))
                                    /\ pulses'[j] = pulses[j]
      BY <2>0 DEF Busy, Halted, Left
    <3>3. \A j \in Gpus : ~Halted(i)' /\ ~Halted(j)' =>
             /\ IF Busy(i)' THEN Busy(j)' => pulses'[i] = pulses'[j]
                             ELSE pulses'[i] = IF Busy(j)' THEN Inc(pulses'[j]) ELSE pulses'[j]
             /\ IF Busy(j)' THEN Busy(i)' => pulses'[i] = pulses'[j]
                             ELSE pulses'[j] = IF Busy(i)' THEN Inc(pulses'[i]) ELSE pulses'[i]
      BY <1>1, <1>4, <2>0, <3>2 DEF Ranks, Halted, Sections, New, Between, Busy, Left, AtWork
    <3>. QED  BY <2>0, <3>1, <3>2, <3>3 DEF Ranks, Inc
  <2>. QED  BY <2>1, <2>2, <2>3, <2>4 DEF PulseInv
<1>8. PulseInv'
  BY <1>2, <1>7, FrameSays DEF PulseInv
<1>. QED  BY <1>0, <1>2, <1>3, <1>5, <1>6, <1>8, ThreadStays DEF Alone

LEMMA SpinKeeps ==
  ASSUME StressInv, Is("pulse"), NEW i \in Gpus, Spin(i)
  PROVE  StressInv'
<1>0. TypeOK /\ StressTypeOK /\ N \in Nat \ {0} /\ Gpus = 1..N /\ 1 \in Gpus /\ ~Is("gst")
  BY Constants DEF StressInv, Gpus, Is
<1>1. AtWork(i) /\ RunTold(i) /\ ClockOf(i) /\ ~Is("iet") /\ ~Is("perf") /\ ~Watches(i)
  BY <1>0 DEF StressInv, WorkerInv, Is, Watches
<1>2. Frame(i) /\ Alone(i)
  BY <1>0 DEF Spin, Frame, Alone, TypeOK, StressTypeOK, Steps, SetUp, Exits, EndsAs, Silent, WorkerGoes,
     historyVars, newVars, loadVars, pulseVars, syncVars
<1>3. TypeOK'
  BY <1>0 DEF Spin, TypeOK, Gpus, N, Steps, SetUp, Exits, EndsAs, Silent, WorkerGoes,
     mainVars, historyVars
<1>4. /\ place[i] = "stress" /\ place'[i] = "stress" /\ step[i] = "spin" /\ step'[i] = "high"
      /\ release = 1
      /\ UNCHANGED <<ended[i], result[i], told[i], clock[i], pulses[i]>>
      /\ UNCHANGED <<done, arrival, release>>
  BY <1>0, <1>1 DEF Spin, AtWork, RunTold, TypeOK, StressTypeOK, Steps, SetUp, Exits, EndsAs, Silent, WorkerGoes,
     historyVars, newVars, loadVars, pulseVars, syncVars
<1>5. StressTypeOK'
  BY <1>0 DEF Spin, StressTypeOK, Gpus, N, Steps, SetUp, Exits, WorkerGoes,
     newVars, loadVars, pulseVars, syncVars
<1>6. WorkerInv(i)'
  <2>1. AtWork(i)' /\ ClockOf(i)'
    BY <1>1, <1>2, <1>4, FrameSays DEF AtWork, ClockOf, PulseSteps, SyncSteps
  <2>2. RunTold(i)'
    BY <1>1, <1>2, <1>4, FrameSays DEF RunTold, Answered
  <2>. QED  BY <2>1, <2>2 DEF WorkerInv
<1>7. ASSUME Synced PROVE PulseInv'
  <2>0. /\ Sections /\ LeavesFor /\ Counters /\ Ranks /\ Gpus' = Gpus
        /\ \A j \in Gpus : j # i => /\ place'[j] = place[j] /\ ended'[j] = ended[j]
                                    /\ step'[j] = step[j] /\ pulses'[j] = pulses[j]
    BY <1>2, <1>7, PulseSays DEF Alone
  <2>1. Sections'
    BY <1>1, <1>4, <2>0 DEF Sections, New, Between, Busy, Left, AtWork
  <2>2. LeavesFor'
    BY <1>1, <1>4, <2>0 DEF LeavesFor, Sections, New, Between, Busy, Left, AtWork
  <2>3. Counters'
    <3>1. Arrived' = Arrived
      BY <1>4, <2>0 DEF Arrived
    <3>. QED  BY <1>0, <1>4, <2>0, <3>1 DEF Counters, Sections, Between, Busy
  <2>4. Ranks'
    <3>1. \A j \in Gpus : New(j)' => pulses'[j] = 0
      BY <1>1, <1>4, <2>0 DEF Ranks, Sections, New, Between, Busy, Left, AtWork
    <3>2. \A j \in Gpus : j # i => /\ (Busy(j)' <=> Busy(j)) /\ (Halted(j)' <=> Halted(j))
                                    /\ pulses'[j] = pulses[j]
      BY <2>0 DEF Busy, Halted, Left
    <3>3. \A j \in Gpus : ~Halted(i)' /\ ~Halted(j)' =>
             /\ IF Busy(i)' THEN Busy(j)' => pulses'[i] = pulses'[j]
                             ELSE pulses'[i] = IF Busy(j)' THEN Inc(pulses'[j]) ELSE pulses'[j]
             /\ IF Busy(j)' THEN Busy(i)' => pulses'[i] = pulses'[j]
                             ELSE pulses'[j] = IF Busy(i)' THEN Inc(pulses'[i]) ELSE pulses'[i]
      BY <1>1, <1>4, <2>0, <3>2 DEF Ranks, Halted, Sections, New, Between, Busy, Left, AtWork
    <3>. QED  BY <2>0, <3>1, <3>2, <3>3 DEF Ranks, Inc
  <2>. QED  BY <2>1, <2>2, <2>3, <2>4 DEF PulseInv
<1>8. PulseInv'
  BY <1>2, <1>7, FrameSays DEF PulseInv
<1>. QED  BY <1>0, <1>2, <1>3, <1>5, <1>6, <1>8, ThreadStays DEF Alone

LEMMA HighKeeps ==
  ASSUME StressInv, Is("pulse"), NEW i \in Gpus, High(i)
  PROVE  StressInv'
<1>0. TypeOK /\ StressTypeOK /\ N \in Nat \ {0} /\ Gpus = 1..N /\ 1 \in Gpus /\ ~Is("gst")
  BY Constants DEF StressInv, Gpus, Is
<1>1. AtWork(i) /\ RunTold(i) /\ ClockOf(i) /\ ~Is("iet") /\ ~Is("perf") /\ ~Watches(i)
  BY <1>0 DEF StressInv, WorkerInv, Is, Watches
<1>2. Frame(i) /\ Alone(i)
  BY <1>0 DEF High, Frame, Alone, TypeOK, StressTypeOK, Steps, SetUp, Exits, EndsAs, Silent, WorkerGoes,
     historyVars, newVars, loadVars, pulseVars, syncVars
<1>3. TypeOK'
  BY <1>0 DEF High, TypeOK, Gpus, N, Steps, SetUp, Exits, EndsAs, Silent, WorkerGoes,
     mainVars, historyVars
<1>4. /\ place[i] = "stress" /\ place'[i] = "stress" /\ step[i] = "high" /\ ended[i] \in {"none", "error"}
      /\ \/ step'[i] = "low" /\ ended'[i] = ended[i]
         \/ step'[i] = "final" /\ ended'[i] = "error"
      /\ UNCHANGED <<pulses[i]>>
      /\ UNCHANGED <<done, arrival, release>>
  BY <1>0, <1>1 DEF High, AtWork, RunTold, TypeOK, StressTypeOK, Steps, SetUp, Exits, EndsAs, Silent, WorkerGoes,
     historyVars, newVars, loadVars, pulseVars, syncVars
<1>5. StressTypeOK'
  <2>1. Gpus' = Gpus /\ N' = N
    BY <1>0 DEF High, Steps, Gpus, N
  <2>2. \E to \in {"low", "final"} : step' = [step EXCEPT ![i] = to]
    BY <1>0 DEF High, Steps
  <2>3. passed' \in [Gpus -> BOOLEAN]
    BY <1>0 DEF High, StressTypeOK
  <2>4. clock' = [clock EXCEPT ![i] = "highest"]
    BY <1>0 DEF High
  <2>5. UNCHANGED <<load, band, endtest, pending, done, arrival, release, pulses>>
    BY <1>0 DEF High, loadVars, syncVars
  <2>. QED  BY <1>0, <2>1, <2>2, <2>3, <2>4, <2>5 DEF StressTypeOK
<1>6. WorkerInv(i)'
  <2>1. AtWork(i)' /\ ClockOf(i)'
    BY <1>1, <1>2, <1>4, FrameSays DEF AtWork, ClockOf, PulseSteps, SyncSteps
  <2>2. RunTold(i)'
    BY <1>1, <1>2, <1>4, FrameSays DEF RunTold, Answered
  <2>. QED  BY <2>1, <2>2 DEF WorkerInv
<1>7. ASSUME Synced PROVE PulseInv'
  <2>0. /\ Sections /\ LeavesFor /\ Counters /\ Ranks /\ Gpus' = Gpus
        /\ \A j \in Gpus : j # i => /\ place'[j] = place[j] /\ ended'[j] = ended[j]
                                    /\ step'[j] = step[j] /\ pulses'[j] = pulses[j]
    BY <1>2, <1>7, PulseSays DEF Alone
  <2>1. Sections'
    BY <1>1, <1>4, <2>0 DEF Sections, New, Between, Busy, Left, AtWork
  <2>2. LeavesFor'
    BY <1>1, <1>4, <2>0 DEF LeavesFor, Sections, New, Between, Busy, Left, AtWork
  <2>3. Counters'
    <3>1. Arrived' = Arrived
      BY <1>4, <2>0 DEF Arrived
    <3>. QED  BY <1>0, <1>4, <2>0, <3>1 DEF Counters, Sections, Between, Busy
  <2>4. Ranks'
    <3>1. \A j \in Gpus : New(j)' => pulses'[j] = 0
      BY <1>1, <1>4, <2>0 DEF Ranks, Sections, New, Between, Busy, Left, AtWork
    <3>2. \A j \in Gpus : j # i => /\ (Busy(j)' <=> Busy(j)) /\ (Halted(j)' <=> Halted(j))
                                    /\ pulses'[j] = pulses[j]
      BY <2>0 DEF Busy, Halted, Left
    <3>3. \A j \in Gpus : ~Halted(i)' /\ ~Halted(j)' =>
             /\ IF Busy(i)' THEN Busy(j)' => pulses'[i] = pulses'[j]
                             ELSE pulses'[i] = IF Busy(j)' THEN Inc(pulses'[j]) ELSE pulses'[j]
             /\ IF Busy(j)' THEN Busy(i)' => pulses'[i] = pulses'[j]
                             ELSE pulses'[j] = IF Busy(i)' THEN Inc(pulses'[i]) ELSE pulses'[i]
      BY <1>1, <1>4, <2>0, <3>2 DEF Ranks, Halted, Sections, New, Between, Busy, Left, AtWork
    <3>. QED  BY <2>0, <3>1, <3>2, <3>3 DEF Ranks, Inc
  <2>. QED  BY <2>1, <2>2, <2>3, <2>4 DEF PulseInv
<1>8. PulseInv'
  BY <1>2, <1>7, FrameSays DEF PulseInv
<1>. QED  BY <1>0, <1>2, <1>3, <1>5, <1>6, <1>8, ThreadStays DEF Alone

LEMMA LowKeeps ==
  ASSUME StressInv, Is("pulse"), NEW i \in Gpus, Low(i)
  PROVE  StressInv'
<1>0. TypeOK /\ StressTypeOK /\ N \in Nat \ {0} /\ Gpus = 1..N /\ 1 \in Gpus /\ ~Is("gst")
  BY Constants DEF StressInv, Gpus, Is
<1>1. AtWork(i) /\ RunTold(i) /\ ClockOf(i) /\ ~Is("iet") /\ ~Is("perf") /\ ~Watches(i)
  BY <1>0 DEF StressInv, WorkerInv, Is, Watches
<1>2. Frame(i) /\ Alone(i)
  BY <1>0 DEF Low, Inc, Frame, Alone, TypeOK, StressTypeOK, Steps, SetUp, Exits, EndsAs, Silent, WorkerGoes,
     historyVars, newVars, loadVars, pulseVars, syncVars
<1>3. TypeOK'
  BY <1>0 DEF Low, Inc, TypeOK, Gpus, N, Steps, SetUp, Exits, EndsAs, Silent, WorkerGoes,
     mainVars, historyVars
<1>4. /\ place[i] = "stress" /\ place'[i] = "stress" /\ step[i] = "low" /\ ended[i] \in {"none", "error"}
      /\ pulses'[i] = Inc(pulses[i])
      /\ \/ step'[i] = "head" /\ ended'[i] = ended[i]
         \/ /\ stopping /\ step'[i] = "final"
            /\ ended'[i] = IF ended[i] = "none" THEN "stop" ELSE "error"
      /\ UNCHANGED <<done, arrival, release>>
  BY <1>0, <1>1 DEF Low, Inc, AtWork, RunTold, TypeOK, StressTypeOK, Steps, SetUp, Exits, EndsAs, Silent, WorkerGoes,
     historyVars, newVars, loadVars, pulseVars, syncVars
<1>5. StressTypeOK'
  <2>1. Gpus' = Gpus /\ N' = N
    BY <1>0 DEF Low, Steps, Gpus, N
  <2>2. \E to \in {"head", "final"} : step' = [step EXCEPT ![i] = to]
    BY <1>0 DEF Low, Steps
  <2>3. pulses' \in [Gpus -> 0..MaxPulses]
    BY <1>0, MaxPulsesAssumption DEF Low, StressTypeOK
  <2>4. clock' = [clock EXCEPT ![i] = "lowest"]
    BY <1>0 DEF Low
  <2>5. UNCHANGED <<load, band, endtest, pending, done, arrival, release, passed>>
    BY <1>0 DEF Low, loadVars, syncVars
  <2>. QED  BY <1>0, <2>1, <2>2, <2>3, <2>4, <2>5 DEF StressTypeOK
<1>6. WorkerInv(i)'
  <2>1. AtWork(i)' /\ ClockOf(i)'
    BY <1>1, <1>2, <1>4, FrameSays DEF AtWork, ClockOf, PulseSteps, SyncSteps
  <2>2. RunTold(i)'
    BY <1>1, <1>2, <1>4, FrameSays DEF RunTold, Answered
  <2>. QED  BY <2>1, <2>2 DEF WorkerInv
<1>7. ASSUME Synced PROVE PulseInv'
  <2>0. /\ Sections /\ LeavesFor /\ Counters /\ Ranks /\ Gpus' = Gpus
        /\ \A j \in Gpus : j # i => /\ place'[j] = place[j] /\ ended'[j] = ended[j]
                                    /\ step'[j] = step[j] /\ pulses'[j] = pulses[j]
    BY <1>2, <1>7, PulseSays DEF Alone
  <2>1. Sections'
    BY <1>1, <1>4, <2>0 DEF Sections, New, Between, Busy, Left, AtWork
  <2>2. LeavesFor'
    BY <1>1, <1>4, <2>0 DEF LeavesFor, Sections, New, Between, Busy, Left, AtWork
  <2>3. Counters'
    <3>1. Arrived' = Arrived
      BY <1>4, <2>0 DEF Arrived
    <3>. QED  BY <1>0, <1>4, <2>0, <3>1 DEF Counters, Sections, Between, Busy
  <2>4. Ranks'
    <3>1. \A j \in Gpus : New(j)' => pulses'[j] = 0
      BY <1>1, <1>4, <2>0 DEF Ranks, Sections, New, Between, Busy, Left, AtWork
    <3>2. \A j \in Gpus : j # i => /\ (Busy(j)' <=> Busy(j)) /\ (Halted(j)' <=> Halted(j))
                                    /\ pulses'[j] = pulses[j]
      BY <2>0 DEF Busy, Halted, Left
    <3>3. \A j \in Gpus : ~Halted(i)' /\ ~Halted(j)' =>
             /\ IF Busy(i)' THEN Busy(j)' => pulses'[i] = pulses'[j]
                             ELSE pulses'[i] = IF Busy(j)' THEN Inc(pulses'[j]) ELSE pulses'[j]
             /\ IF Busy(j)' THEN Busy(i)' => pulses'[i] = pulses'[j]
                             ELSE pulses'[j] = IF Busy(i)' THEN Inc(pulses'[i]) ELSE pulses'[i]
      BY <1>1, <1>4, <2>0, <3>2 DEF Ranks, Halted, Sections, New, Between, Busy, Left, AtWork
    <3>. QED  BY <2>0, <3>1, <3>2, <3>3 DEF Ranks, Inc
  <2>. QED  BY <2>1, <2>2, <2>3, <2>4 DEF PulseInv
<1>8. PulseInv'
  BY <1>2, <1>7, FrameSays DEF PulseInv
<1>. QED  BY <1>0, <1>2, <1>3, <1>5, <1>6, <1>8, ThreadStays DEF Alone

LEMMA FinalKeeps ==
  ASSUME StressInv, Is("pulse"), NEW i \in Gpus, Final(i)
  PROVE  StressInv'
<1>0. TypeOK /\ StressTypeOK /\ N \in Nat \ {0} /\ Gpus = 1..N /\ 1 \in Gpus /\ ~Is("gst")
  BY Constants DEF StressInv, Gpus, Is
<1>1. AtWork(i) /\ RunTold(i) /\ ClockOf(i) /\ ~Is("iet") /\ ~Is("perf") /\ ~Watches(i)
  BY <1>0 DEF StressInv, WorkerInv, Is, Watches
<1>2. Frame(i) /\ Alone(i)
  BY <1>0 DEF Final, Frame, Alone, TypeOK, StressTypeOK, Steps, SetUp, Exits, EndsAs, Silent, WorkerGoes,
     historyVars, newVars, loadVars, pulseVars, syncVars
<1>3. TypeOK'
  BY <1>0 DEF Final, TypeOK, Gpus, N, Steps, SetUp, Exits, EndsAs, Silent, WorkerGoes,
     mainVars, historyVars
<1>4. /\ place[i] = "stress" /\ place'[i] = "exited" /\ step[i] = "final" /\ step'[i] = "none"
      /\ ended'[i] = IF ended[i] = "none" THEN "checked" ELSE ended[i]
      /\ result'[i] \/ told'[i]
      /\ clock'[i] = "auto"
      /\ UNCHANGED <<pulses[i]>>
      /\ UNCHANGED <<done, arrival, release>>
  <2>1. /\ place[i] = "stress" /\ place'[i] = "exited" /\ step[i] = "final" /\ step'[i] = "none"
        /\ ended'[i] = IF ended[i] = "none" THEN "checked" ELSE ended[i]
        /\ clock'[i] = "auto" /\ UNCHANGED <<pulses[i], done, arrival, release>>
    BY <1>0 DEF Final, Exits, WorkerGoes, TypeOK, StressTypeOK, syncVars
  <2>2. told' = [told EXCEPT ![i] = ~result'[i]]
    BY Zenon DEF Final
  <2>3. result'[i] \/ told'[i]
    BY <1>0, <2>2, Zenon DEF TypeOK
  <2>. QED  BY <2>1, <2>3
<1>5. StressTypeOK'
  BY <1>0 DEF Final, StressTypeOK, Gpus, N, Steps, SetUp, Exits, WorkerGoes,
     newVars, loadVars, pulseVars, syncVars
<1>6. WorkerInv(i)'
  <2>1. AtWork(i)' /\ ClockOf(i)'
    BY <1>1, <1>2, <1>4, FrameSays DEF AtWork, ClockOf, PulseSteps, SyncSteps
  <2>2. RunTold(i)'
    BY <1>1, <1>2, <1>4, FrameSays DEF RunTold, Answered
  <2>. QED  BY <2>1, <2>2 DEF WorkerInv
<1>7. ASSUME Synced PROVE PulseInv'
  <2>0. /\ Sections /\ LeavesFor /\ Counters /\ Ranks /\ Gpus' = Gpus
        /\ \A j \in Gpus : j # i => /\ place'[j] = place[j] /\ ended'[j] = ended[j]
                                    /\ step'[j] = step[j] /\ pulses'[j] = pulses[j]
    BY <1>2, <1>7, PulseSays DEF Alone
  <2>1. Sections'
    BY <1>1, <1>4, <2>0 DEF Sections, New, Between, Busy, Left, AtWork
  <2>2. LeavesFor'
    BY <1>1, <1>4, <2>0 DEF LeavesFor, Sections, New, Between, Busy, Left, AtWork
  <2>3. Counters'
    <3>1. Arrived' = Arrived
      BY <1>4, <2>0 DEF Arrived
    <3>. QED  BY <1>0, <1>4, <2>0, <3>1 DEF Counters, Sections, Between, Busy
  <2>4. Ranks'
    <3>1. \A j \in Gpus : New(j)' => pulses'[j] = 0
      BY <1>1, <1>4, <2>0 DEF Ranks, Sections, New, Between, Busy, Left, AtWork
    <3>2. \A j \in Gpus : j # i => /\ (Busy(j)' <=> Busy(j)) /\ (Halted(j)' <=> Halted(j))
                                    /\ pulses'[j] = pulses[j]
      BY <2>0 DEF Busy, Halted, Left
    <3>3. \A j \in Gpus : ~Halted(i)' /\ ~Halted(j)' =>
             /\ IF Busy(i)' THEN Busy(j)' => pulses'[i] = pulses'[j]
                             ELSE pulses'[i] = IF Busy(j)' THEN Inc(pulses'[j]) ELSE pulses'[j]
             /\ IF Busy(j)' THEN Busy(i)' => pulses'[i] = pulses'[j]
                             ELSE pulses'[j] = IF Busy(i)' THEN Inc(pulses'[i]) ELSE pulses'[i]
      BY <1>1, <1>4, <2>0, <3>2 DEF Ranks, Halted, Sections, New, Between, Busy, Left, AtWork
    <3>. QED  BY <2>0, <3>1, <3>2, <3>3 DEF Ranks, Inc
  <2>. QED  BY <2>1, <2>2, <2>3, <2>4 DEF PulseInv
<1>8. PulseInv'
  BY <1>2, <1>7, FrameSays DEF PulseInv
<1>. QED  BY <1>0, <1>2, <1>3, <1>5, <1>6, <1>8, ThreadStays DEF Alone

LEMMA KernelFailsKeeps ==
  ASSUME StressInv, Is("pulse"), NEW i \in Gpus, KernelFails(i)
  PROVE  StressInv'
<1>0. TypeOK /\ StressTypeOK /\ N \in Nat \ {0} /\ Gpus = 1..N /\ 1 \in Gpus /\ ~Is("gst")
  BY Constants DEF StressInv, Gpus, Is
<1>1. AtWork(i) /\ RunTold(i) /\ ClockOf(i) /\ ~Is("iet") /\ ~Is("perf") /\ ~Watches(i)
  BY <1>0 DEF StressInv, WorkerInv, Is, Watches
<1>2. Frame(i) /\ Alone(i)
  BY <1>0 DEF KernelFails, Frame, Alone, TypeOK, StressTypeOK, Steps, SetUp, Exits, EndsAs, Silent, WorkerGoes,
     historyVars, newVars, loadVars, pulseVars, syncVars
<1>3. TypeOK'
  BY <1>0 DEF KernelFails, TypeOK, Gpus, N, Steps, SetUp, Exits, EndsAs, Silent, WorkerGoes,
     mainVars, historyVars
<1>4. /\ place[i] = "stress" /\ place'[i] = "stress" /\ step[i] = "kernel" /\ step'[i] = "high"
      /\ ended'[i] = "error"
      /\ UNCHANGED <<result[i], told[i], clock[i], pulses[i]>>
      /\ UNCHANGED <<done, arrival, release>>
  BY <1>0, <1>1 DEF KernelFails, AtWork, RunTold, TypeOK, StressTypeOK, Steps, SetUp, Exits, EndsAs, Silent, WorkerGoes,
     historyVars, newVars, loadVars, pulseVars, syncVars
<1>5. StressTypeOK'
  BY <1>0 DEF KernelFails, StressTypeOK, Gpus, N, Steps, SetUp, Exits, WorkerGoes,
     newVars, loadVars, pulseVars, syncVars
<1>6. WorkerInv(i)'
  <2>1. AtWork(i)' /\ ClockOf(i)'
    BY <1>1, <1>2, <1>4, FrameSays DEF AtWork, ClockOf, PulseSteps, SyncSteps
  <2>2. RunTold(i)'
    BY <1>1, <1>2, <1>4, FrameSays DEF RunTold, Answered
  <2>. QED  BY <2>1, <2>2 DEF WorkerInv
<1>7. ASSUME Synced PROVE PulseInv'
  <2>0. /\ Sections /\ LeavesFor /\ Counters /\ Ranks /\ Gpus' = Gpus
        /\ \A j \in Gpus : j # i => /\ place'[j] = place[j] /\ ended'[j] = ended[j]
                                    /\ step'[j] = step[j] /\ pulses'[j] = pulses[j]
    BY <1>2, <1>7, PulseSays DEF Alone
  <2>1. Sections'
    BY <1>1, <1>4, <2>0 DEF Sections, New, Between, Busy, Left, AtWork
  <2>2. LeavesFor'
    BY <1>1, <1>4, <2>0 DEF LeavesFor, Sections, New, Between, Busy, Left, AtWork
  <2>3. Counters'
    <3>1. IsFiniteSet(Arrived) /\ Cardinality(Arrived) \in 0..N /\ i \notin Arrived
      BY <1>0, <1>4, ArrivedFinite DEF Arrived
    <3>2. Arrived' = Arrived \union {i}
      BY <1>4, <2>0 DEF Arrived
    <3>3. Cardinality(Arrived') = Cardinality(Arrived) + 1
      BY <3>1, <3>2, FS_AddElement
    <3>4. step'[1] # "barrier2"
      BY <1>0, <1>4, <2>0 DEF Sections, Between, Left
    <3>5. release = 0
      BY <1>0, <1>4, <2>0, <3>1 DEF Counters, StressTypeOK
    <3>. QED  BY <1>0, <1>4, <2>0, <3>1, <3>3, <3>4, <3>5 DEF Counters, StressTypeOK
  <2>4. Ranks'
    <3>1. \A j \in Gpus : New(j)' => pulses'[j] = 0
      BY <1>1, <1>4, <2>0 DEF Ranks, Sections, New, Between, Busy, Left, AtWork
    <3>2. \A j \in Gpus : j # i => /\ (Busy(j)' <=> Busy(j)) /\ (Halted(j)' <=> Halted(j))
                                    /\ pulses'[j] = pulses[j]
      BY <2>0 DEF Busy, Halted, Left
    <3>3. \A j \in Gpus : ~Halted(i)' /\ ~Halted(j)' =>
             /\ IF Busy(i)' THEN Busy(j)' => pulses'[i] = pulses'[j]
                             ELSE pulses'[i] = IF Busy(j)' THEN Inc(pulses'[j]) ELSE pulses'[j]
             /\ IF Busy(j)' THEN Busy(i)' => pulses'[i] = pulses'[j]
                             ELSE pulses'[j] = IF Busy(i)' THEN Inc(pulses'[i]) ELSE pulses'[i]
      BY <1>1, <1>4, <2>0, <3>2 DEF Ranks, Halted, Sections, New, Between, Busy, Left, AtWork
    <3>. QED  BY <2>0, <3>1, <3>2, <3>3 DEF Ranks, Inc
  <2>. QED  BY <2>1, <2>2, <2>3, <2>4 DEF PulseInv
<1>8. PulseInv'
  BY <1>2, <1>7, FrameSays DEF PulseInv
<1>. QED  BY <1>0, <1>2, <1>3, <1>5, <1>6, <1>8, ThreadStays DEF Alone

\* The last GPU to arrive releases the others.
LEMMA KernelKeeps ==
  ASSUME StressInv, Is("pulse"), NEW i \in Gpus, Kernel(i)
  PROVE  StressInv'
<1>0. TypeOK /\ StressTypeOK /\ N \in Nat \ {0} /\ Gpus = 1..N /\ 1 \in Gpus /\ ~Is("gst")
  BY Constants DEF StressInv, Gpus, Is
<1>1. AtWork(i) /\ RunTold(i) /\ ClockOf(i) /\ ~Is("iet") /\ ~Is("perf") /\ ~Watches(i)
  BY <1>0 DEF StressInv, WorkerInv, Is, Watches
<1>2. Frame(i) /\ Alone(i)
  BY <1>0 DEF Kernel, Frame, Alone, TypeOK, StressTypeOK, Steps, SetUp, Exits, EndsAs, Silent, WorkerGoes,
     historyVars, newVars, loadVars, pulseVars, syncVars
<1>3. TypeOK'
  BY <1>0 DEF Kernel, TypeOK, Gpus, N, Steps, SetUp, Exits, EndsAs, Silent, WorkerGoes,
     mainVars, historyVars
<1>4. /\ place[i] = "stress" /\ place'[i] = "stress" /\ step[i] = "kernel"
      /\ arrival' = arrival + 1
      /\ \/ arrival' = N /\ step'[i] = "high" /\ release' = 1
         \/ arrival' # N /\ step'[i] = "spin" /\ release' = release
      /\ UNCHANGED <<ended[i], result[i], told[i], clock[i], pulses[i], done>>
  BY <1>0, <1>1 DEF Kernel, AtWork, RunTold, TypeOK, StressTypeOK, Steps, SetUp, Exits, EndsAs, Silent, WorkerGoes,
     historyVars, newVars, loadVars, pulseVars, syncVars
<1>5. StressTypeOK'
  <2>1. Synced /\ Counters /\ i \notin Arrived
    BY <1>0, <1>1, <1>4 DEF AtWork, SyncSteps, StressInv, PulseInv, Arrived
  <2>2. Cardinality(Arrived) \in 0..N /\ Cardinality(Arrived) # N
    BY <1>0, <2>1, ArrivedFinite
  <2>3. arrival' \in 0..N /\ release' \in {0, 1} /\ N' = N /\ Gpus' = Gpus
    BY <1>0, <1>2, <1>4, <2>1, <2>2, FrameSays DEF Counters, StressTypeOK
  <2>4. \E to \in {"high", "spin"} : step' = [step EXCEPT ![i] = to]
    BY DEF Kernel, Steps
  <2>5. UNCHANGED <<load, band, endtest, pending, done, passed, pulses, clock>>
    BY DEF Kernel, loadVars
  <2>. QED  BY <1>0, <2>3, <2>4, <2>5 DEF StressTypeOK
<1>6. WorkerInv(i)'
  <2>1. AtWork(i)' /\ ClockOf(i)'
    BY <1>1, <1>2, <1>4, FrameSays DEF AtWork, ClockOf, PulseSteps, SyncSteps
  <2>2. RunTold(i)'
    BY <1>1, <1>2, <1>4, FrameSays DEF RunTold, Answered
  <2>. QED  BY <2>1, <2>2 DEF WorkerInv
<1>7. ASSUME Synced PROVE PulseInv'
  <2>0. /\ Sections /\ LeavesFor /\ Counters /\ Ranks /\ Gpus' = Gpus
        /\ \A j \in Gpus : j # i => /\ place'[j] = place[j] /\ ended'[j] = ended[j]
                                    /\ step'[j] = step[j] /\ pulses'[j] = pulses[j]
    BY <1>2, <1>7, PulseSays DEF Alone
  <2>1. Sections'
    BY <1>1, <1>4, <2>0 DEF Sections, New, Between, Busy, Left, AtWork
  <2>2. LeavesFor'
    BY <1>1, <1>4, <2>0 DEF LeavesFor, Sections, New, Between, Busy, Left, AtWork
  <2>3. Counters'
    <3>1. IsFiniteSet(Arrived) /\ Cardinality(Arrived) \in 0..N /\ i \notin Arrived
      BY <1>0, <1>4, ArrivedFinite DEF Arrived
    <3>2. Arrived' = Arrived \union {i}
      BY <1>4, <2>0 DEF Arrived
    <3>3. Cardinality(Arrived') = Cardinality(Arrived) + 1
      BY <3>1, <3>2, FS_AddElement
    <3>4. step'[1] # "barrier2"
      BY <1>0, <1>4, <2>0 DEF Sections, Between, Left
    <3>5. release = 0
      BY <1>0, <1>4, <2>0, <3>1 DEF Counters, StressTypeOK
    <3>6. arrival' = N => Arrived' = Gpus
      <4>0. (Arrived \union {i}) \subseteq Gpus
        BY DEF Arrived
      <4>1. IsFiniteSet(Gpus) /\ Cardinality(Gpus) = N
        BY <1>0, FS_Interval DEF Gpus
      <4>2. /\ Cardinality(Arrived \union {i}) <= N
            /\ Cardinality(Arrived \union {i}) = N => Arrived \union {i} = Gpus
        BY <4>0, <4>1, FS_Subset
      <4>. QED  BY <1>0, <1>4, <2>0, <3>1, <3>2, <3>3, <4>2 DEF Counters, StressTypeOK
    <3>7. arrival' <= Cardinality(Arrived')
      BY <1>0, <1>4, <2>0, <3>1, <3>3 DEF Counters, StressTypeOK
    <3>8. \A j \in Gpus : j # i /\ ended'[j] # "error" => ended[j] # "error"
      BY <2>0
    <3>. QED  BY <1>0, <1>4, <2>0, <3>4, <3>5, <3>6, <3>7 DEF Counters
  <2>4. Ranks'
    <3>1. \A j \in Gpus : New(j)' => pulses'[j] = 0
      BY <1>1, <1>4, <2>0 DEF Ranks, Sections, New, Between, Busy, Left, AtWork
    <3>2. \A j \in Gpus : j # i => /\ (Busy(j)' <=> Busy(j)) /\ (Halted(j)' <=> Halted(j))
                                    /\ pulses'[j] = pulses[j]
      BY <2>0 DEF Busy, Halted, Left
    <3>3. \A j \in Gpus : ~Halted(i)' /\ ~Halted(j)' =>
             /\ IF Busy(i)' THEN Busy(j)' => pulses'[i] = pulses'[j]
                             ELSE pulses'[i] = IF Busy(j)' THEN Inc(pulses'[j]) ELSE pulses'[j]
             /\ IF Busy(j)' THEN Busy(i)' => pulses'[i] = pulses'[j]
                             ELSE pulses'[j] = IF Busy(i)' THEN Inc(pulses'[i]) ELSE pulses'[i]
      BY <1>1, <1>4, <2>0, <3>2 DEF Ranks, Halted, Sections, New, Between, Busy, Left, AtWork
    <3>. QED  BY <2>0, <3>1, <3>2, <3>3 DEF Ranks, Inc
  <2>. QED  BY <2>1, <2>2, <2>3, <2>4 DEF PulseInv
<1>8. PulseInv'
  BY <1>2, <1>7, FrameSays DEF PulseInv
<1>. QED  BY <1>0, <1>2, <1>3, <1>5, <1>6, <1>8, ThreadStays DEF Alone

\* The second barrier: all leave, or the counters are reset and all go on.
LEMMA ThroughKeeps ==
  ASSUME StressInv, Is("pulse"), NEW i \in Gpus, PulseThrough(i)
  PROVE  StressInv'
<1>0. TypeOK /\ StressTypeOK /\ N \in Nat \ {0} /\ Gpus = 1..N /\ 1 \in Gpus /\ ~Is("gst")
  BY Constants DEF StressInv, Gpus, Is
<1>1. AtWork(i) /\ RunTold(i) /\ ClockOf(i) /\ ~Is("iet") /\ ~Is("perf") /\ ~Watches(i)
  BY <1>0 DEF StressInv, WorkerInv, Is, Watches
<1>2. place[i] = "stress" /\ step[i] = "through" /\ Synced
  BY <1>1 DEF PulseThrough, Steps, Arrives, AtWork, SyncSteps
<1>3. UNCHANGED <<conf, mainVars, stopping, place, result, best, ended, hit, told, load, band,
                  endtest, pending, done, passed, pulses, clock>>
  BY DEF PulseThrough, Steps, Arrives, Silent, historyVars, loadVars
<1>4. Frame(i) /\ TypeOK' /\ Gpus' = Gpus /\ N' = N
  BY <1>0, <1>2, <1>3 DEF Frame, TypeOK, Gpus, N, mainVars
<1>5. Sections /\ LeavesFor /\ Counters /\ Ranks
  BY <1>0, <1>2, <1>4, PulseSays
<1>6. CASE done
  <2>1. step' = [step EXCEPT ![i] = "final"] /\ UNCHANGED <<arrival, release>>
    BY <1>6 DEF PulseThrough, Steps
  <2>2. StressTypeOK'
    BY <1>0, <1>3, <1>4, <2>1 DEF StressTypeOK
  <2>3. step'[i] = "final" /\ \A j \in Gpus \ {i} : UNCHANGED step[j]
    BY <1>0, <2>1 DEF StressTypeOK
  <2>4. AtWork(i)' /\ ClockOf(i)'
    BY <1>1, <1>2, <1>3, <1>4, <2>3, FrameSays DEF AtWork, ClockOf, PulseSteps, SyncSteps
  <2>5. RunTold(i)'
    BY <1>1, <1>2, <1>3, <1>4, <2>3, FrameSays DEF RunTold, Answered
  <2>6. Sections'
    BY <1>2, <1>3, <1>4, <1>5, <1>6, <2>3 DEF Sections, New, Between, Busy, Left
  <2>7. LeavesFor'
    <3>1. \A j \in Gpus : Left(j) \/ step[j] = "through"
      BY <1>2, <1>5, <1>6 DEF Sections, Between
    <3>2. \A j \in Gpus : Left(j)' \/ step'[j] = "through"
      BY <1>3, <2>3, <3>1 DEF Left
    <3>. QED  BY <1>3, <1>4, <1>6, <3>2 DEF LeavesFor
  <2>8. Counters'
    <3>1. Arrived' = Arrived
      BY <1>2, <1>4, <2>3 DEF Arrived
    <3>. QED  BY <1>0, <1>3, <1>4, <1>5, <2>1, <2>3, <3>1 DEF Counters
  <2>9. Ranks'
    BY <1>2, <1>3, <1>4, <1>5, <2>3 DEF Ranks, New, Busy, Halted, Left, Inc
  <2>. QED  BY <1>0, <1>4, <2>2, <2>3, <2>4, <2>5, <2>6, <2>7, <2>8, <2>9, ThreadStays
            DEF WorkerInv, PulseInv
<1>7. CASE ~done
  <2>1. \A j \in Gpus : Between(j) /\ ~Left(j) /\ ~Busy(j) /\ ~New(j)
    <3>1. \A j \in Gpus : Between(j) /\ ~Left(j)
      BY <1>2, <1>5, <1>7 DEF Sections, Between
    <3>2. \A j \in Gpus : Between(j) => place[j] = "stress"
      BY <1>0 DEF StressInv, WorkerInv, AtWork, Between
    <3>. QED  BY <3>1, <3>2 DEF Between, Busy, New
  <2>2. \/ i = 1 /\ arrival' = 0 /\ release' = 0
        \/ i # 1 /\ UNCHANGED <<arrival, release>>
    BY <1>7 DEF PulseThrough
  <2>3. Arrived = Gpus
    BY <2>1 DEF Arrived, Between
  <2>4. IsFiniteSet(Gpus) /\ Cardinality(Gpus) = N /\ arrival \in 0..N /\ release \in {0, 1}
    BY <1>0, <2>3, FS_Interval DEF StressTypeOK
  <2>5. arrival' \in 0..N /\ release' \in {0, 1}
    BY <1>0, <2>2, <2>4
  <2>6. \A j, l \in Gpus : pulses'[j] = pulses'[l]
    BY <1>3, <1>5, <2>1 DEF Ranks, Halted
  <2>7. CASE \E j \in Gpus \ {i} : step[j] # "barrier2"
    <3>1. step' = [step EXCEPT ![i] = "barrier2"]
      BY <1>7, <2>7 DEF PulseThrough, Arrives
    <3>2. StressTypeOK'
      BY <1>0, <1>3, <1>4, <2>5, <3>1 DEF StressTypeOK
    <3>3. step'[i] = "barrier2" /\ \A j \in Gpus \ {i} : UNCHANGED step[j]
      BY <1>0, <3>1 DEF StressTypeOK
    <3>4. AtWork(i)' /\ ClockOf(i)'
      BY <1>1, <1>2, <1>3, <1>4, <3>3, FrameSays DEF AtWork, ClockOf, PulseSteps, SyncSteps
    <3>5. RunTold(i)'
      BY <1>1, <1>2, <1>3, <1>4, <3>3, FrameSays DEF RunTold, Answered
    <3>6. \A j \in Gpus : Between(j)' /\ ~Left(j)' /\ ~Busy(j)' /\ ~New(j)'
      BY <1>2, <1>3, <2>1, <3>3 DEF Between, Left, Busy, New
    <3>7. Sections' /\ LeavesFor'
      BY <1>3, <1>4, <1>7, <3>6 DEF Sections, LeavesFor
    <3>8. Counters'
      <4>1. Arrived' = Gpus /\ \A j \in Gpus : step'[j] \notin {"high", "low"}
        BY <1>4, <3>6 DEF Arrived, Between
      <4>2. step'[1] = "barrier2" => arrival' = 0 /\ release' = 0
        BY <1>0, <1>5, <2>2, <3>3 DEF Counters
      <4>. QED  BY <1>0, <1>4, <2>4, <2>5, <4>1, <4>2 DEF Counters
    <3>9. Ranks'
      BY <1>4, <2>6, <3>6 DEF Ranks
    <3>. QED  BY <1>0, <1>4, <3>2, <3>3, <3>4, <3>5, <3>7, <3>8, <3>9, ThreadStays
              DEF WorkerInv, PulseInv
  <2>8. CASE \A j \in Gpus \ {i} : step[j] = "barrier2"
    <3>1. step' = [j \in Gpus |-> "kernel"]
      BY <1>7, <2>8 DEF PulseThrough, Arrives
    <3>2. StressTypeOK'
      BY <1>0, <1>3, <1>4, <2>5, <3>1 DEF StressTypeOK
    <3>3. \A j \in Gpus : step'[j] = "kernel"
      BY <3>1
    <3>4. Crossing(i)
      BY <2>8, <3>3 DEF Crossing, SyncSteps
    <3>5. AtWork(i)' /\ ClockOf(i)'
      BY <1>1, <1>2, <1>3, <1>4, <3>3, FrameSays DEF AtWork, ClockOf, PulseSteps, SyncSteps
    <3>6. RunTold(i)'
      BY <1>1, <1>2, <1>3, <1>4, <3>3, FrameSays DEF RunTold, Answered
    <3>7. \A j \in Gpus : ~Between(j)' /\ ~Left(j)' /\ Busy(j)' /\ ~New(j)'
      <4>1. \A j \in Gpus : place[j] = "stress"
        BY <1>0, <2>1 DEF StressInv, WorkerInv, AtWork, Between
      <4>. QED  BY <1>3, <3>3, <4>1 DEF Between, Left, Busy, New
    <3>8. Sections' /\ LeavesFor'
      BY <1>3, <1>4, <3>7 DEF Sections, LeavesFor
    <3>9. Counters'
      <4>1. arrival' = 0 /\ release' = 0
        BY <1>0, <1>5, <2>2, <2>8 DEF Counters
      <4>2. Arrived' = {}
        BY <1>4, <3>3 DEF Arrived
      <4>3. arrival' <= Cardinality(Arrived')
        BY <4>1, <4>2, FS_EmptySet
      <4>. QED  BY <1>0, <1>4, <3>3, <4>1, <4>3 DEF Counters
    <3>10. Ranks'
      BY <1>4, <2>6, <3>7 DEF Ranks
    <3>. QED  BY <1>0, <1>4, <3>2, <3>4, <3>5, <3>6, <3>8, <3>9, <3>10, ThreadStays
              DEF WorkerInv, PulseInv
  <2>. QED  BY <2>7, <2>8
<1>. QED  BY <1>6, <1>7

\* The first barrier, or none.
LEMMA HeadKeeps ==
  ASSUME StressInv, Is("pulse"), NEW i \in Gpus, NEW timeUp \in BOOLEAN, PulseHead(i, timeUp)
  PROVE  StressInv'
<1>0. TypeOK /\ StressTypeOK /\ N \in Nat \ {0} /\ Gpus = 1..N /\ 1 \in Gpus /\ ~Is("gst")
  BY Constants DEF StressInv, Gpus, Is
<1>1. AtWork(i) /\ RunTold(i) /\ ClockOf(i) /\ ~Is("iet") /\ ~Is("perf") /\ ~Watches(i)
  BY <1>0 DEF StressInv, WorkerInv, Is, Watches
<1>2. place[i] = "stress" /\ step[i] = "head"
  BY DEF PulseHead, Steps, Arrives
<1>3. UNCHANGED <<conf, mainVars, stopping, place, result, best, ended, hit, told, load, band,
                  endtest, pending, arrival, release, passed, pulses, clock>>
  BY DEF PulseHead, Steps, Arrives, Silent, historyVars, loadVars
<1>4. Frame(i) /\ TypeOK' /\ Gpus' = Gpus /\ N' = N /\ done' \in BOOLEAN
  <2>1. done' \in BOOLEAN
    BY <1>0 DEF PulseHead, StressTypeOK
  <2>. QED  BY <1>0, <1>2, <1>3, <2>1 DEF Frame, TypeOK, Gpus, N, mainVars
<1>5. CASE ~Synced
  <2>1. \E to \in {"high", "final"} : step' = [step EXCEPT ![i] = to]
    BY <1>5 DEF PulseHead, Steps
  <2>2. StressTypeOK'
    BY <1>0, <1>3, <1>4, <2>1 DEF StressTypeOK
  <2>3. step'[i] \in {"high", "final"} /\ \A j \in Gpus \ {i} : UNCHANGED step[j]
    BY <1>0, <2>1 DEF StressTypeOK
  <2>4. AtWork(i)' /\ ClockOf(i)'
    BY <1>1, <1>2, <1>3, <1>4, <2>3, FrameSays DEF AtWork, ClockOf, PulseSteps, SyncSteps
  <2>5. RunTold(i)'
    BY <1>1, <1>2, <1>3, <1>4, <2>3, FrameSays DEF RunTold, Answered
  <2>6. PulseInv'
    BY <1>4, <1>5, FrameSays DEF PulseInv
  <2>. QED  BY <1>0, <1>4, <2>2, <2>3, <2>4, <2>5, <2>6, ThreadStays DEF WorkerInv
<1>6. CASE Synced
  <2>0. Sections /\ LeavesFor /\ Counters /\ Ranks /\ (done => done')
    BY <1>0, <1>4, <1>6, PulseSays DEF PulseHead
  <2>1. /\ \A j \in Gpus : ~Between(j)
        /\ \A j \in Gpus : Left(j) => ended[j] \in {"stop", "error"}
    BY <1>2, <2>0 DEF Sections, LeavesFor, Between, Left
  <2>2. CASE \E j \in Gpus \ {i} : step[j] # "barrier"
    <3>1. step' = [step EXCEPT ![i] = "barrier"]
      BY <1>6, <2>2 DEF PulseHead, Arrives
    <3>2. StressTypeOK'
      BY <1>0, <1>3, <1>4, <3>1 DEF StressTypeOK
    <3>3. step'[i] = "barrier" /\ \A j \in Gpus \ {i} : UNCHANGED step[j]
      BY <1>0, <3>1 DEF StressTypeOK
    <3>4. AtWork(i)' /\ ClockOf(i)'
      BY <1>1, <1>2, <1>3, <1>4, <1>6, <3>3, FrameSays DEF AtWork, ClockOf, PulseSteps, SyncSteps
    <3>5. RunTold(i)'
      BY <1>1, <1>2, <1>3, <1>4, <3>3, FrameSays DEF RunTold, Answered
    <3>6. \A j \in Gpus : /\ ~Between(j)' /\ (Left(j)' <=> Left(j))
                          /\ (Busy(j)' <=> Busy(j)) /\ (New(j)' <=> New(j))
      BY <1>2, <1>3, <2>1, <3>3 DEF Between, Left, Busy, New
    <3>7. Sections' /\ LeavesFor'
      BY <1>3, <1>4, <2>0, <2>1, <3>6 DEF Sections, LeavesFor
    <3>8. Counters'
      <4>1. Arrived' = Arrived
        BY <1>2, <1>4, <3>3 DEF Arrived
      <4>. QED  BY <1>0, <1>3, <1>4, <2>0, <3>3, <4>1 DEF Counters
    <3>9. Ranks'
      BY <1>3, <1>4, <2>0, <3>6 DEF Ranks, Halted, Inc
    <3>. QED  BY <1>0, <1>4, <3>2, <3>3, <3>4, <3>5, <3>7, <3>8, <3>9, ThreadStays
              DEF WorkerInv, PulseInv
  <2>3. CASE \A j \in Gpus \ {i} : step[j] = "barrier"
    <3>1. step' = [j \in Gpus |-> "through"]
      BY <1>6, <2>3 DEF PulseHead, Arrives
    <3>2. StressTypeOK'
      BY <1>0, <1>3, <1>4, <3>1 DEF StressTypeOK
    <3>3. \A j \in Gpus : step'[j] = "through"
      BY <3>1
    <3>4. Crossing(i)
      BY <2>3, <3>3 DEF Crossing, SyncSteps
    <3>5. AtWork(i)' /\ ClockOf(i)'
      BY <1>1, <1>2, <1>3, <1>4, <1>6, <3>3, FrameSays DEF AtWork, ClockOf, PulseSteps, SyncSteps
    <3>6. RunTold(i)'
      BY <1>1, <1>2, <1>3, <1>4, <3>3, FrameSays DEF RunTold, Answered
    <3>7. \A j \in Gpus : /\ step'[j] = "through" /\ place'[j] = "stress"
                          /\ ~Busy(j) /\ ~Left(j) /\ step[j] # "kernel"
      <4>1. \A j \in Gpus : step[j] \in {"head", "barrier"}
        BY <1>2, <2>3
      <4>2. \A j \in Gpus : place[j] = "stress"
        BY <1>0, <4>1 DEF StressInv, WorkerInv, AtWork
      <4>. QED  BY <1>3, <3>3, <4>1, <4>2 DEF Busy, Left
    <3>8. \A j \in Gpus : Between(j)' /\ ~Left(j)' /\ ~Busy(j)' /\ ~New(j)'
      BY <3>7 DEF Between, Left, Busy, New
    <3>9. Sections' /\ LeavesFor'
      BY <1>4, <3>7, <3>8 DEF Sections, LeavesFor
    <3>10. Counters'
      <4>1. Arrived' = Arrived
        BY <1>4, <3>7 DEF Arrived
      <4>. QED  BY <1>0, <1>3, <1>4, <2>0, <3>7, <4>1 DEF Counters
    <3>11. Ranks'
      BY <1>3, <1>4, <2>0, <3>7, <3>8 DEF Ranks, Halted
    <3>. QED  BY <1>0, <1>4, <3>2, <3>4, <3>5, <3>6, <3>9, <3>10, <3>11, ThreadStays
              DEF WorkerInv, PulseInv
  <2>. QED  BY <2>2, <2>3
<1>. QED  BY <1>5, <1>6

LEMMA PulseKeeps ==
  ASSUME StressInv, NEW i \in Gpus, PulseWorker(i)
  PROVE  StressInv'
<1>1. Is("pulse")
  BY ModuleOf DEF PulseWorker, PulseFails, PulseSetUp, PulseStopped, PulseHead, PulseThrough,
     Kernel, Spin, KernelFails, High, Low, Final, SetUp, Steps, Arrives, Exits, PulseSteps,
     SyncSteps
<1>. QED  BY <1>1, PulseFailsKeeps, PulseSetUpKeeps, PulseStoppedKeeps, HeadKeeps, ThroughKeeps,
             KernelKeeps, SpinKeeps, KernelFailsKeeps, HighKeeps, LowKeeps, FinalKeeps
          DEF PulseWorker

\* A worker of gst takes its steps in Gst.
LEMMA GstKeeps ==
  ASSUME StressInv, NEW i \in Gpus, GstWorker(i)
  PROVE  StressInv'
<1>1. Is("gst") /\ GstInv /\ Unused /\ StressTypeOK
  BY DEF GstWorker, StressInv
<1>2. GstInv'
  BY <1>1, WorkerKeeps DEF GstWorker
<1>3. Gpus' = Gpus /\ N' = N /\ Is("gst")'
  BY <1>1 DEF GstWorker, Worker, Setup, RampTurn, RampGemm, RampOver, StressBegins, StressTurn,
     GemmFails, GemmAgain, GemmLast, Gemm, StressError, CheckTarget, WorkerGoes, Gpus, N, Is
<1>4. StressTypeOK' /\ Unused'
  BY <1>1, <1>3 DEF GstWorker, StressTypeOK, Unused, newVars, loadVars, pulseVars, syncVars
<1>. QED  BY <1>1, <1>2, <1>3, <1>4 DEF StressInv, GstInv

-----------------------------------------------------------------------------
(* The theorems.                                                           *)

LEMMA StressNextKeeps == StressInv /\ [StressNext]_stressVars => StressInv'
<1>. SUFFICES ASSUME StressInv, [StressNext]_stressVars PROVE StressInv'
  OBVIOUS
<1>1. CASE UNCHANGED stressVars
  BY <1>1, StressStutterKeeps
<1>2. CASE MainStep
  BY <1>2, MainKeeps
<1>3. CASE \E i \in Gpus : ThreadOf(i) \/ LoadOf(i) \/ Callback(i) \/ Bandwidth(i)
  BY <1>3, GstKeeps, PerfKeeps, WatchKeeps, PulseKeeps, LoadKeeps DEF ThreadOf
<1>4. CASE StopRequested /\ UNCHANGED newVars
  BY <1>4, StressStopKeeps
<1>5. CASE Done /\ UNCHANGED newVars
  BY <1>1, <1>5 DEF Done, stressVars
<1>. QED  BY <1>1, <1>2, <1>3, <1>4, <1>5 DEF StressNext, Hangs

\* The invariant from which everything else follows.
THEOREM StressCorrect == StressSpec => []StressInv
<1>. QED  BY StressInvInit, StressNextKeeps, PTL DEF StressSpec

\* Every variable keeps its type: the counter of the GPUs' barrier never exceeds
\* their number, although one thread resets it while the others are on their way.
THEOREM StressTypeCorrect == StressSpec => [](TypeOK /\ StressTypeOK)
<1>1. StressInv => TypeOK /\ StressTypeOK
  BY DEF StressInv
<1>. QED  BY <1>1, StressCorrect, PTL

\* An action of gst that passes has met its target, as an action of Stress too.
THEOREM StressPassMeansMet == StressSpec => []PassMeansMet
<1>1. StressInv => PassMeansMet
  BY DEF StressInv, GstInv, Verdicts, PassMeansMet, Is
<1>. QED  BY <1>1, StressCorrect, PTL

\* An action of any of the modules that fails without a stop has told which GPU
\* failed, in its last iteration.
THEOREM StressFailureExplained == StressSpec => []FailureExplained
<1>1. StressInv => FailureExplained
  BY DEF StressInv, GstInv, Verdicts, MainInv
<1>. QED  BY <1>1, StressCorrect, PTL

\* However a worker of pulse ends, its GPU may use all its clock levels again.
THEOREM ClocksAreRestored == StressSpec => []ClocksRestored
<1>1. StressInv => ClocksRestored
  BY DEF StressInv, Unused, WorkerInv, ClockOf, ClocksRestored
<1>. QED  BY <1>1, StressCorrect, PTL

\* The end of the duration leaves no thread of pulse at a barrier.
THEOREM DurationDesertsNobody == StressSpec => []DurationEndsTogether
<1>1. StressInv => DurationEndsTogether
  <2>. SUFFICES ASSUME StressInv, NEW i \in Gpus, NEW j \in Gpus,
                       step[i] \in {"barrier", "barrier2"},
                       step[j] = "final" \/ (place[j] # "stress" /\ ended[j] # "none")
                PROVE  \E n \in Gpus : ended[n] \in {"stop", "error"}
    BY DEF DurationEndsTogether, Deserted
  <2>1. Is("pulse") /\ ~Is("gst")
    BY ModuleOf DEF SyncSteps, PulseSteps
  <2>2. \A n \in Gpus : AtWork(n) /\ RunTold(n)
    BY <2>1 DEF StressInv, WorkerInv
  <2>3. Synced /\ LeavesFor /\ Sections
    BY <2>1, <2>2 DEF StressInv, PulseInv, AtWork, SyncSteps
  <2>4. Left(j) /\ ~Left(i)
    BY <2>1, <2>2 DEF Left, AtWork, RunTold
  <2>. QED  BY <2>3, <2>4 DEF LeavesFor
<1>. QED  BY <1>1, StressCorrect, PTL

\* The GPUs of pulse start each pulse together.
THEOREM PulseStartsTogether == StressSpec => []ReleasedTogether
<1>1. StressInv => ReleasedTogether
  <2>. SUFFICES ASSUME StressInv, Is("pulse"), Synced, \A n \in Gpus : ended[n] # "error",
                       NEW i \in Gpus, NEW j \in Gpus, step[i] \in {"high", "low"},
                       step[j] \in {"through", "barrier2", "kernel"}
                PROVE  FALSE
    BY DEF ReleasedTogether
  <2>1. Sections /\ Counters
    BY DEF StressInv, PulseInv, Is
  <2>2. step[j] # "kernel"
    BY <2>1 DEF Counters, Arrived
  <2>3. Between(j) /\ ~Between(i) /\ ~Left(i)
    BY <2>2, ModuleOf DEF Between, Left, StressInv, WorkerInv, AtWork, Is
  <2>. QED  BY <2>1, <2>3 DEF Sections
<1>. QED  BY <1>1, StressCorrect, PTL

\* No GPU of pulse is more than a pulse ahead of another, and all have done equally
\* many when the time of one was up.
THEOREM PulsesStayInStep == StressSpec => []PulsesInStep
<1>1. StressInv => PulsesInStep
  <2>. SUFFICES ASSUME StressInv, Is("pulse"), Synced, NEW i \in Gpus, NEW j \in Gpus
                PROVE  /\ "setup" \notin {place[i], place[j]} /\ "error" \notin {ended[i], ended[j]}
                             => pulses[i] <= pulses[j] + 1
                       /\ (\A n \in Gpus : ended[n] = "checked") => pulses[i] = pulses[j]
    BY DEF PulsesInStep
  <2>1. ~Is("gst") /\ Ranks /\ pulses[i] \in Nat /\ pulses[j] \in Nat
    BY MaxPulsesAssumption DEF StressInv, PulseInv, StressTypeOK, Is
  <2>2. ended[i] # "error" /\ ended[j] # "error" => pulses[i] <= pulses[j] + 1
    BY <2>1 DEF Ranks, Halted, Inc
  <2>3. (\A n \in Gpus : ended[n] = "checked") => pulses[i] = pulses[j]
    <3>1. ended[i] = "checked" => ~Busy(i)
      BY <2>1 DEF StressInv, WorkerInv, RunTold, AtWork, Busy
    <3>2. ended[j] = "checked" => ~Busy(j)
      BY <2>1 DEF StressInv, WorkerInv, RunTold, AtWork, Busy
    <3>. QED  BY <2>1, <3>1, <3>2 DEF Ranks, Halted
  <2>. QED  BY <2>2, <2>3
<1>. QED  BY <1>1, StressCorrect, PTL

\* The GPUs of pulse go through their pulses together.
THEOREM PulsesGoTogether == StressSpec => []PulsesTogether
<1>1. DurationEndsTogether /\ ReleasedTogether /\ PulsesInStep => PulsesTogether
  BY DEF PulsesTogether
<1>. QED  BY <1>1, DurationDesertsNobody, PulseStartsTogether, PulsesStayInStep, PTL
=============================================================================
