--------------------------- MODULE Transfers_proof ---------------------------
(***************************************************************************)
(* The inductive invariant of the bandwidth actions, for any actions: any  *)
(* number of pairs, blocks and iterations.  First the steps of Bandwidth,  *)
(* which pbqt and pebb share, then those each of them has of its own.      *)
(***************************************************************************)
EXTENDS Transfers, TLAPS

\* The parts of TypeOK, by the thread or the object the variables belong to.
TypeEnv ==
    /\ conf \in Configs
    /\ clock \in {"before", "due", "up", "over"} /\ stopping \in BOOLEAN
TypeMain ==
    /\ pc \in MainPlaces /\ cur \in 1..(N + 1) /\ brun \in BOOLEAN
    /\ iter \in Nat /\ sts \in {0, 1}
TypeWorkers ==
    /\ wbrun \in [Pairs -> BOOLEAN]
    /\ thread \in [Pairs -> {"none", "begin", "loop", "transfer", "exited"}]
TypeCopies ==
    /\ blk \in [Pairs -> 0..(Blocks + 1)] /\ sending \in [Pairs -> BOOLEAN]
    /\ moved \in [Pairs -> Nat] /\ inIter \in [Pairs -> Nat]
    /\ failed \in BOOLEAN
TypeCounts ==
    /\ running \in [Pairs -> Nat] /\ total \in [Pairs -> Nat]
    /\ reported \in [Pairs -> Nat]
TypeTimers == final \in Timers /\ sampler \in Timers

\* The two timers are armed between Iterate and StopTimers only.
TimersOff ==
    pc \in {"iterate", "again", "report", "done"} =>
       final.at = "off" /\ sampler.at = "off"

\* The threads of a parallel action exist between their start and their join.
ThreadsJoined ==
    /\ pc \notin {"start", "join"} => \A p \in Pairs : thread[p] = "none"
    /\ pc = "start" => \A p \in Pairs : p >= cur => thread[p] = "none"
    /\ pc = "join" => \A p \in Pairs : p < cur => thread[p] = "none"

\* A pair that is in do_transfer is there in its thread, or in main.
TransfersOwned ==
    \A p \in Pairs :
       /\ sending[p] => blk[p] \in 1..Blocks
       /\ blk[p] # 0 => \/ conf.parallel /\ thread[p] = "transfer"
                        \/ ~conf.parallel /\ pc = "transfer" /\ cur = p

\* Where main is goes with the mode, the pair and the iterations left.
MainKnows ==
    /\ pc \in {"start", "join"} => conf.parallel
    /\ pc \in {"single", "transfer", "stopping"} => ~conf.parallel
    /\ pc \in {"transfer", "stopping"} => cur \in Pairs
    /\ pc \notin {"report", "done"} => iter >= 1

\* A pair is reported once, and nothing of it is left when it is.
ReportedOnce ==
    \A p \in Pairs :
       /\ pc \notin {"report", "done"} \/ (pc = "report" /\ p >= cur) => reported[p] = 0
       /\ pc = "done" \/ (pc = "report" /\ p < cur) => running[p] = 0 /\ total[p] = 0

BandwidthInv ==
    /\ TypeEnv /\ TypeMain /\ TypeWorkers /\ TypeCopies /\ TypeCounts /\ TypeTimers
    /\ TimersOff /\ ThreadsJoined /\ TransfersOwned /\ MainKnows
    /\ CountedOnce /\ ReportedOnce

-----------------------------------------------------------------------------

LEMMA Constants ==
  ASSUME conf \in Configs
  PROVE  /\ N \in Nat \ {0} /\ Blocks \in Nat \ {0} /\ conf.count \in Nat
         /\ conf.parallel \in BOOLEAN /\ 1 \in Pairs
BY ConfigsAssumption DEF ActionConfig, N, Blocks, Pairs

\* No step but the first chooses the action: what depends on it alone stays.
SameAction ==
    /\ conf' = conf /\ N' = N /\ Pairs' = Pairs /\ Blocks' = Blocks
    /\ N \in Nat \ {0} /\ Blocks \in Nat \ {0} /\ 1 \in Pairs
    /\ conf \in Configs

LEMMA ActionStays ==
  ASSUME TypeEnv, UNCHANGED conf
  PROVE  SameAction
BY Constants DEF TypeEnv, SameAction, N, Pairs, Blocks

LEMMA TypeParts ==
  TypeOK <=> TypeEnv /\ TypeMain /\ TypeWorkers /\ TypeCopies /\ TypeCounts /\ TypeTimers
BY DEF TypeOK, TypeEnv, TypeMain, TypeWorkers, TypeCopies, TypeCounts, TypeTimers

\* What a step does not touch keeps its type ...
LEMMA TypeStays ==
  ASSUME SameAction
  PROVE  /\ TypeEnv /\ UNCHANGED envVars => TypeEnv'
         /\ TypeMain /\ UNCHANGED mainVars => TypeMain'
         /\ TypeWorkers /\ UNCHANGED workerVars => TypeWorkers'
         /\ TypeCopies /\ UNCHANGED copyVars => TypeCopies'
         /\ TypeCounts /\ UNCHANGED countVars => TypeCounts'
         /\ TypeTimers /\ UNCHANGED timerVars => TypeTimers'
<1>1. TypeEnv /\ UNCHANGED envVars => TypeEnv'
  BY DEF SameAction, TypeEnv, envVars
<1>2. TypeMain /\ UNCHANGED mainVars => TypeMain'
  BY DEF SameAction, TypeMain, mainVars
<1>3. TypeWorkers /\ UNCHANGED workerVars => TypeWorkers'
  BY DEF SameAction, TypeWorkers, workerVars
<1>4. TypeCopies /\ UNCHANGED copyVars => TypeCopies'
  BY DEF SameAction, TypeCopies, copyVars
<1>5. TypeCounts /\ UNCHANGED countVars => TypeCounts'
  BY DEF SameAction, TypeCounts, countVars
<1>6. TypeTimers /\ UNCHANGED timerVars => TypeTimers'
  BY DEF SameAction, TypeTimers, timerVars, Timers
<1>. QED  BY <1>1, <1>2, <1>3, <1>4, <1>5, <1>6

\* ... and what it says of it.
LEMMA InvStays ==
  ASSUME SameAction
  PROVE  /\ TimersOff /\ UNCHANGED <<pc, final, sampler>> => TimersOff'
         /\ ThreadsJoined /\ UNCHANGED <<pc, cur, thread>> => ThreadsJoined'
         /\ TransfersOwned /\ UNCHANGED <<pc, cur, thread, blk, sending>>
               => TransfersOwned'
         /\ MainKnows /\ UNCHANGED <<pc, cur, iter>> => MainKnows'
         /\ CountedOnce /\ UNCHANGED <<moved, running, total, reported>>
               => CountedOnce'
         /\ ReportedOnce /\ UNCHANGED <<pc, cur, running, total, reported>>
               => ReportedOnce'
BY DEF SameAction, TimersOff, ThreadsJoined, TransfersOwned, MainKnows, CountedOnce,
       ReportedOnce

\* get_running_data loses nothing, and get_final_data hands out the rest.
LEMMA RunningDataMoves ==
  ASSUME SameAction, TypeCounts, NEW p \in Pairs, GetRunningData(p)
  PROVE  /\ TypeCounts'
         /\ \A q \in Pairs : running'[q] + total'[q] + reported'[q]
                                = running[q] + total[q] + reported[q]
         /\ reported' = reported
<1>1. running' \in [Pairs -> Nat] /\ total' \in [Pairs -> Nat] /\ reported' = reported
  BY DEF TypeCounts, GetRunningData
<1>2. ASSUME NEW q \in Pairs
      PROVE  running'[q] + total'[q] + reported'[q]
                = running[q] + total[q] + reported[q]
  <2>1. running[q] \in Nat /\ total[q] \in Nat /\ reported[q] \in Nat
    BY DEF TypeCounts
  <2>2. CASE q = p
    BY <2>1, <2>2 DEF TypeCounts, GetRunningData
  <2>3. CASE q # p
    BY <2>1, <2>3 DEF TypeCounts, GetRunningData
  <2>. QED  BY <2>2, <2>3
<1>. QED  BY <1>1, <1>2 DEF SameAction, TypeCounts

LEMMA FinalDataMoves ==
  ASSUME SameAction, TypeCounts, NEW p \in Pairs, GetFinalData(p)
  PROVE  /\ TypeCounts'
         /\ running'[p] = 0 /\ total'[p] = 0
         /\ reported'[p] = running[p] + total[p]
         /\ \A q \in Pairs : q # p => /\ running'[q] = running[q]
                                        /\ total'[q] = total[q]
                                        /\ reported'[q] = reported[q]
<1>1. running[p] \in Nat /\ total[p] \in Nat
  BY DEF TypeCounts
<1>2. /\ running' \in [Pairs -> Nat] /\ total' \in [Pairs -> Nat]
      /\ reported' \in [Pairs -> Nat]
  BY <1>1 DEF TypeCounts, GetFinalData
<1>. QED  BY <1>1, <1>2 DEF SameAction, TypeCounts, GetFinalData

LEMMA BandwidthInvInit == Init => BandwidthInv
<1>. SUFFICES ASSUME Init PROVE BandwidthInv
  OBVIOUS
<1>0. N \in Nat \ {0} /\ Blocks \in Nat \ {0} /\ conf.count \in Nat /\ conf \in Configs
  BY Constants DEF Init
<1>1. /\ wbrun \in [Pairs -> BOOLEAN] /\ sending \in [Pairs -> BOOLEAN]
      /\ brun \in BOOLEAN /\ stopping \in BOOLEAN /\ failed \in BOOLEAN
  BY Zenon DEF Init
<1>2. /\ moved \in [Pairs -> Nat] /\ inIter \in [Pairs -> Nat]
      /\ running \in [Pairs -> Nat] /\ total \in [Pairs -> Nat]
      /\ reported \in [Pairs -> Nat]
      /\ blk \in [Pairs -> 0..(Blocks + 1)]
  BY <1>0 DEF Init, Zero
<1>3. final \in Timers /\ sampler \in Timers
  BY <1>0 DEF Init, Timers
<1>4. TypeOK
  BY <1>0, <1>1, <1>2, <1>3 DEF Init, TypeOK, MainPlaces
<1>5. TimersOff /\ ThreadsJoined /\ TransfersOwned /\ MainKnows
  BY <1>0 DEF Init, TimersOff, ThreadsJoined, TransfersOwned, MainKnows, Zero
<1>6. CountedOnce /\ ReportedOnce
  BY <1>0 DEF Init, CountedOnce, ReportedOnce, Zero
<1>. QED  BY <1>4, <1>5, <1>6, TypeParts DEF BandwidthInv

-----------------------------------------------------------------------------
(* The steps of main.                                                      *)

LEMMA IterateKeeps ==
  ASSUME BandwidthInv, Iterate
  PROVE  BandwidthInv'
<1>1. UNCHANGED conf
  BY DEF Iterate, envVars
<1>2. SameAction
  BY <1>1, ActionStays DEF BandwidthInv
<1>3. TypeWorkers' /\ TypeCounts'
  BY <1>2, TypeStays DEF BandwidthInv, Iterate
<1>4. CountedOnce'
  BY <1>2, InvStays DEF BandwidthInv, Iterate, copyVars, countVars
<1>5. TypeMain'
  BY <1>2 DEF BandwidthInv, SameAction, TypeMain, Iterate, Zero, timerVars,
         mainVars, MainPlaces, MainKnows, Goes, At, Pairs
<1>6. TypeCopies'
  BY <1>2 DEF BandwidthInv, SameAction, TypeCopies, TypeMain, Iterate, Zero,
         timerVars, copyVars
<1>7. TypeEnv'
  BY <1>2 DEF BandwidthInv, SameAction, TypeEnv, TypeMain, Iterate, Zero,
         timerVars, envVars
<1>8. TypeTimers'
  BY <1>2 DEF BandwidthInv, SameAction, TypeTimers, TypeMain, Iterate, Zero,
         timerVars, Timers, Pairs
<1>9. TimersOff'
  BY <1>2 DEF BandwidthInv, SameAction, TimersOff, TypeMain, TypeTimers,
         Iterate, Zero, timerVars, Goes, At
<1>10. ThreadsJoined'
  BY <1>2 DEF BandwidthInv, SameAction, ThreadsJoined, MainKnows, TypeMain,
         TypeWorkers, Iterate, Zero, timerVars, mainVars, workerVars, Goes, At,
         Pairs
<1>11. TransfersOwned'
  BY <1>2 DEF BandwidthInv, SameAction, TransfersOwned, ThreadsJoined,
         MainKnows, TypeCopies, TypeWorkers, TypeMain, Iterate, Zero, timerVars,
         copyVars, workerVars, mainVars, Goes, At, Pairs
<1>12. MainKnows'
  BY <1>2 DEF BandwidthInv, SameAction, MainKnows, TypeMain, Iterate, Zero,
         timerVars, mainVars, Goes, At, Pairs
<1>13. ReportedOnce'
  BY <1>2 DEF BandwidthInv, SameAction, ReportedOnce, TransfersOwned,
         MainKnows, TypeMain, TypeCounts, Iterate, Zero, timerVars, mainVars,
         countVars, Goes, At, Pairs
<1>. QED
  BY <1>3, <1>4, <1>5, <1>6, <1>7, <1>8, <1>9, <1>10, <1>11, <1>12, <1>13 DEF
         BandwidthInv

LEMMA RoundKeeps ==
  ASSUME BandwidthInv, Round
  PROVE  BandwidthInv'
<1>1. UNCHANGED conf
  BY DEF Round, envVars
<1>2. SameAction
  BY <1>1, ActionStays DEF BandwidthInv
<1>3. TypeEnv' /\ TypeWorkers' /\ TypeCopies' /\ TypeCounts' /\ TypeTimers'
  BY <1>2, TypeStays DEF BandwidthInv, Round
<1>4. CountedOnce'
  BY <1>2, InvStays DEF BandwidthInv, Round, copyVars, countVars
<1>5. TypeMain'
  BY <1>2 DEF BandwidthInv, SameAction, TypeMain, Round, mainVars,
         MainPlaces, MainKnows, Goes, At, Pairs
<1>6. TimersOff'
  BY <1>2 DEF BandwidthInv, SameAction, TimersOff, TypeMain, TypeTimers,
         Round, timerVars, Goes, At
<1>7. ThreadsJoined'
  BY <1>2 DEF BandwidthInv, SameAction, ThreadsJoined, MainKnows, TypeMain,
         TypeWorkers, Round, workerVars, Goes, At, Pairs
<1>8. TransfersOwned'
  BY <1>2 DEF BandwidthInv, SameAction, TransfersOwned, ThreadsJoined,
         MainKnows, TypeCopies, TypeWorkers, TypeMain, Round, copyVars, workerVars,
         Goes, At, Pairs
<1>9. MainKnows'
  BY <1>2 DEF BandwidthInv, SameAction, MainKnows, TypeMain, Round, mainVars,
         Goes, At, Pairs
<1>10. ReportedOnce'
  BY <1>2 DEF BandwidthInv, SameAction, ReportedOnce, TransfersOwned,
         MainKnows, TypeMain, TypeCounts, Round, countVars, Goes, At, Pairs
<1>. QED
  BY <1>3, <1>4, <1>5, <1>6, <1>7, <1>8, <1>9, <1>10 DEF BandwidthInv

LEMMA SingleDoneKeeps ==
  ASSUME BandwidthInv, SingleDone
  PROVE  BandwidthInv'
<1>1. UNCHANGED conf
  BY DEF SingleDone, envVars
<1>2. SameAction
  BY <1>1, ActionStays DEF BandwidthInv
<1>3. TypeEnv' /\ TypeWorkers' /\ TypeCopies' /\ TypeCounts' /\ TypeTimers'
  BY <1>2, TypeStays DEF BandwidthInv, SingleDone
<1>4. CountedOnce'
  BY <1>2, InvStays DEF BandwidthInv, SingleDone, copyVars, countVars
<1>5. TypeMain'
  BY <1>2 DEF BandwidthInv, SameAction, TypeMain, SingleDone, mainVars,
         MainPlaces, MainKnows, Goes, At, Pairs
<1>6. TimersOff'
  BY <1>2 DEF BandwidthInv, SameAction, TimersOff, TypeMain, TypeTimers,
         SingleDone, timerVars, Goes, At
<1>7. ThreadsJoined'
  BY <1>2 DEF BandwidthInv, SameAction, ThreadsJoined, MainKnows, TypeMain,
         TypeWorkers, SingleDone, mainVars, workerVars, Goes, At, Pairs
<1>8. TransfersOwned'
  BY <1>2 DEF BandwidthInv, SameAction, TransfersOwned, ThreadsJoined,
         MainKnows, TypeCopies, TypeWorkers, TypeMain, SingleDone, copyVars,
         workerVars, mainVars, Goes, At, Pairs
<1>9. MainKnows'
  BY <1>2 DEF BandwidthInv, SameAction, MainKnows, TypeMain, SingleDone,
         mainVars, Goes, At, Pairs
<1>10. ReportedOnce'
  BY <1>2 DEF BandwidthInv, SameAction, ReportedOnce, TransfersOwned,
         MainKnows, TypeMain, TypeCounts, SingleDone, mainVars, countVars, Goes, At,
         Pairs
<1>. QED
  BY <1>3, <1>4, <1>5, <1>6, <1>7, <1>8, <1>9, <1>10 DEF BandwidthInv

LEMMA SingleSampledKeeps ==
  ASSUME BandwidthInv, SingleSampled
  PROVE  BandwidthInv'
<1>1. UNCHANGED conf
  BY DEF SingleSampled, envVars
<1>2. SameAction
  BY <1>1, ActionStays DEF BandwidthInv
<1>3. TypeEnv' /\ TypeWorkers' /\ TypeCopies' /\ TypeTimers'
  BY <1>2, TypeStays DEF BandwidthInv, SingleSampled
<1>4. TypeMain'
  BY <1>2 DEF BandwidthInv, SameAction, TypeMain, SingleSampled,
         GetRunningData, mainVars, MainPlaces, MainKnows, Goes, At, Pairs
<1>5. TypeCounts'
  <2>1. CASE UNCHANGED countVars
    BY <1>2, <2>1, TypeStays DEF BandwidthInv
  <2>2. ASSUME NEW p \in Pairs, GetRunningData(p)
        PROVE  TypeCounts'
    BY <1>2, <2>2, RunningDataMoves DEF BandwidthInv
  <2>. QED  BY <2>1, <2>2 DEF SingleSampled
<1>6. TimersOff'
  BY <1>2 DEF BandwidthInv, SameAction, TimersOff, TypeMain, TypeTimers,
         SingleSampled, GetRunningData, timerVars, Goes, At
<1>7. ThreadsJoined'
  BY <1>2 DEF BandwidthInv, SameAction, ThreadsJoined, MainKnows, TypeMain,
         TypeWorkers, SingleSampled, GetRunningData, mainVars, workerVars, Goes, At,
         Pairs
<1>8. TransfersOwned'
  BY <1>2 DEF BandwidthInv, SameAction, TransfersOwned, ThreadsJoined,
         MainKnows, TypeCopies, TypeWorkers, TypeMain, SingleSampled,
         GetRunningData, copyVars, workerVars, mainVars, Goes, At, Pairs
<1>9. MainKnows'
  BY <1>2 DEF BandwidthInv, SameAction, MainKnows, TypeMain, SingleSampled,
         GetRunningData, mainVars, Goes, At, Pairs
<1>10. CountedOnce'
  <2>1. CASE UNCHANGED countVars
    BY <1>2, <2>1 DEF BandwidthInv, SameAction, CountedOnce, SingleSampled, copyVars, countVars
  <2>2. ASSUME NEW p \in Pairs, GetRunningData(p)
        PROVE  CountedOnce'
    BY <1>2, <2>2, RunningDataMoves DEF BandwidthInv, SameAction, CountedOnce, SingleSampled,
           copyVars
  <2>. QED  BY <2>1, <2>2 DEF SingleSampled
<1>11. ReportedOnce'
  BY <1>2 DEF BandwidthInv, SameAction, ReportedOnce, TransfersOwned,
         MainKnows, TypeMain, TypeCounts, SingleSampled, GetRunningData, mainVars,
         countVars, Goes, At, Pairs
<1>. QED
  BY <1>3, <1>4, <1>5, <1>6, <1>7, <1>8, <1>9, <1>10, <1>11 DEF BandwidthInv

LEMMA SingleStoppingKeeps ==
  ASSUME BandwidthInv, SingleStopping
  PROVE  BandwidthInv'
<1>1. UNCHANGED conf
  BY DEF SingleStopping, envVars
<1>2. SameAction
  BY <1>1, ActionStays DEF BandwidthInv
<1>3. TypeEnv' /\ TypeWorkers' /\ TypeCopies' /\ TypeCounts' /\ TypeTimers'
  BY <1>2, TypeStays DEF BandwidthInv, SingleStopping
<1>4. CountedOnce'
  BY <1>2, InvStays DEF BandwidthInv, SingleStopping, copyVars, countVars
<1>5. TypeMain'
  <2>1. brun' \in BOOLEAN
    <3>1. CASE brun' = FALSE
      BY <3>1, Zenon
    <3>2. CASE brun' = brun
      BY <3>2 DEF BandwidthInv, TypeMain
    <3>. QED  BY <3>1, <3>2 DEF SingleStopping
  <2>2. pc' \in MainPlaces /\ cur' \in 1..(N + 1) /\ iter' \in Nat /\ sts' \in {0, 1}
    BY <1>2 DEF BandwidthInv, SameAction, TypeMain, MainKnows, SingleStopping,
           MainPlaces, Goes, At, Pairs
  <2>. QED  BY <1>2, <2>1, <2>2 DEF TypeMain, SameAction
<1>6. TimersOff'
  BY <1>2 DEF BandwidthInv, SameAction, TimersOff, TypeMain, TypeTimers,
         SingleStopping, timerVars, Goes, At
<1>7. ThreadsJoined'
  BY <1>2 DEF BandwidthInv, SameAction, ThreadsJoined, MainKnows, TypeMain,
         TypeWorkers, SingleStopping, workerVars, Goes, At, Pairs
<1>8. TransfersOwned'
  BY <1>2 DEF BandwidthInv, SameAction, TransfersOwned, ThreadsJoined,
         MainKnows, TypeCopies, TypeWorkers, TypeMain, SingleStopping, copyVars,
         workerVars, Goes, At, Pairs
<1>9. MainKnows'
  BY <1>2 DEF BandwidthInv, SameAction, MainKnows, TypeMain, SingleStopping,
         mainVars, Goes, At, Pairs
<1>10. ReportedOnce'
  BY <1>2 DEF BandwidthInv, SameAction, ReportedOnce, TransfersOwned,
         MainKnows, TypeMain, TypeCounts, SingleStopping, countVars, Goes, At, Pairs
<1>. QED
  BY <1>3, <1>4, <1>5, <1>6, <1>7, <1>8, <1>9, <1>10 DEF BandwidthInv

LEMMA StartThreadKeeps ==
  ASSUME BandwidthInv, StartThread
  PROVE  BandwidthInv'
<1>1. UNCHANGED conf
  BY DEF StartThread, envVars
<1>2. SameAction
  BY <1>1, ActionStays DEF BandwidthInv
<1>3. TypeEnv' /\ TypeCopies' /\ TypeCounts' /\ TypeTimers'
  BY <1>2, TypeStays DEF BandwidthInv, StartThread
<1>4. CountedOnce'
  BY <1>2, InvStays DEF BandwidthInv, StartThread, copyVars, countVars
<1>5. TypeMain'
  BY <1>2 DEF BandwidthInv, SameAction, TypeMain, StartThread, mainVars,
         MainPlaces, MainKnows, Goes, At, Pairs
<1>6. TypeWorkers'
  BY <1>2 DEF BandwidthInv, SameAction, TypeWorkers, TypeMain, StartThread,
         workerVars, Pairs
<1>7. TimersOff'
  BY <1>2 DEF BandwidthInv, SameAction, TimersOff, TypeMain, TypeTimers,
         StartThread, timerVars, Goes, At
<1>8. ThreadsJoined'
  BY <1>2 DEF BandwidthInv, SameAction, ThreadsJoined, MainKnows, TypeMain,
         TypeWorkers, StartThread, Goes, At, Pairs
<1>9. TransfersOwned'
  <2>1. CASE UNCHANGED thread
    BY <1>2, <2>1 DEF BandwidthInv, SameAction, TransfersOwned, MainKnows, StartThread,
           Goes, At, copyVars
  <2>2. CASE cur \in Pairs /\ thread' = [thread EXCEPT ![cur] = "begin"]
    <3>1. conf.parallel /\ thread[cur] = "none"
      BY <1>2, <2>2 DEF BandwidthInv, SameAction, ThreadsJoined, MainKnows, StartThread,
             At, Pairs
    <3>. QED  BY <1>2, <2>2, <3>1 DEF BandwidthInv, SameAction, TransfersOwned,
                 TypeWorkers, StartThread, copyVars
  <2>. QED  BY <2>1, <2>2 DEF StartThread
<1>10. MainKnows'
  BY <1>2 DEF BandwidthInv, SameAction, MainKnows, TypeMain, StartThread,
         mainVars, Goes, At, Pairs
<1>11. ReportedOnce'
  BY <1>2 DEF BandwidthInv, SameAction, ReportedOnce, TransfersOwned,
         MainKnows, TypeMain, TypeCounts, StartThread, countVars, Goes, At, Pairs
<1>. QED
  BY <1>3, <1>4, <1>5, <1>6, <1>7, <1>8, <1>9, <1>10, <1>11 DEF BandwidthInv

LEMMA JoinThreadKeeps ==
  ASSUME BandwidthInv, JoinThread
  PROVE  BandwidthInv'
<1>1. UNCHANGED conf
  BY DEF JoinThread, envVars
<1>2. SameAction
  BY <1>1, ActionStays DEF BandwidthInv
<1>3. TypeEnv' /\ TypeCopies' /\ TypeCounts' /\ TypeTimers'
  BY <1>2, TypeStays DEF BandwidthInv, JoinThread
<1>4. CountedOnce'
  BY <1>2, InvStays DEF BandwidthInv, JoinThread, copyVars, countVars
<1>5. TypeMain'
  BY <1>2 DEF BandwidthInv, SameAction, TypeMain, JoinThread, mainVars,
         MainPlaces, MainKnows, Goes, At, Pairs
<1>6. TypeWorkers'
  BY <1>2 DEF BandwidthInv, SameAction, TypeWorkers, TypeMain, JoinThread,
         workerVars, Pairs
<1>7. TimersOff'
  BY <1>2 DEF BandwidthInv, SameAction, TimersOff, TypeMain, TypeTimers,
         JoinThread, timerVars, Goes, At
<1>8. ThreadsJoined'
  BY <1>2 DEF BandwidthInv, SameAction, ThreadsJoined, MainKnows, TypeMain,
         TypeWorkers, JoinThread, Goes, At, Pairs
<1>9. TransfersOwned'
  BY <1>2 DEF BandwidthInv, SameAction, TransfersOwned, ThreadsJoined,
         MainKnows, TypeCopies, TypeWorkers, TypeMain, JoinThread, copyVars, Goes,
         At, Pairs
<1>10. MainKnows'
  BY <1>2 DEF BandwidthInv, SameAction, MainKnows, TypeMain, JoinThread,
         mainVars, Goes, At, Pairs
<1>11. ReportedOnce'
  BY <1>2 DEF BandwidthInv, SameAction, ReportedOnce, TransfersOwned,
         MainKnows, TypeMain, TypeCounts, JoinThread, countVars, Goes, At, Pairs
<1>. QED
  BY <1>3, <1>4, <1>5, <1>6, <1>7, <1>8, <1>9, <1>10, <1>11 DEF BandwidthInv

LEMMA TakeTimeKeeps ==
  ASSUME BandwidthInv, TakeTime
  PROVE  BandwidthInv'
<1>1. UNCHANGED conf
  BY DEF TakeTime, envVars
<1>2. SameAction
  BY <1>1, ActionStays DEF BandwidthInv
<1>3. TypeEnv' /\ TypeWorkers' /\ TypeCopies' /\ TypeCounts' /\ TypeTimers'
  BY <1>2, TypeStays DEF BandwidthInv, TakeTime
<1>4. CountedOnce'
  BY <1>2, InvStays DEF BandwidthInv, TakeTime, copyVars, countVars
<1>5. TypeMain'
  BY <1>2 DEF BandwidthInv, SameAction, TypeMain, TakeTime, mainVars,
         MainPlaces, MainKnows, Goes, At, Pairs
<1>6. TimersOff'
  BY <1>2 DEF BandwidthInv, SameAction, TimersOff, TypeMain, TypeTimers,
         TakeTime, timerVars, Goes, At
<1>7. ThreadsJoined'
  BY <1>2 DEF BandwidthInv, SameAction, ThreadsJoined, MainKnows, TypeMain,
         TypeWorkers, TakeTime, mainVars, workerVars, Goes, At, Pairs
<1>8. TransfersOwned'
  BY <1>2 DEF BandwidthInv, SameAction, TransfersOwned, ThreadsJoined,
         MainKnows, TypeCopies, TypeWorkers, TypeMain, TakeTime, copyVars,
         workerVars, mainVars, Goes, At, Pairs
<1>9. MainKnows'
  BY <1>2 DEF BandwidthInv, SameAction, MainKnows, TypeMain, TakeTime,
         mainVars, Goes, At, Pairs
<1>10. ReportedOnce'
  BY <1>2 DEF BandwidthInv, SameAction, ReportedOnce, TransfersOwned,
         MainKnows, TypeMain, TypeCounts, TakeTime, mainVars, countVars, Goes, At,
         Pairs
<1>. QED
  BY <1>3, <1>4, <1>5, <1>6, <1>7, <1>8, <1>9, <1>10 DEF BandwidthInv

LEMMA FinalAverageKeeps ==
  ASSUME BandwidthInv, FinalAverage
  PROVE  BandwidthInv'
<1>1. UNCHANGED conf
  BY DEF FinalAverage, envVars
<1>2. SameAction
  BY <1>1, ActionStays DEF BandwidthInv
<1>3. TypeEnv' /\ TypeWorkers' /\ TypeCopies' /\ TypeCounts' /\ TypeTimers'
  BY <1>2, TypeStays DEF BandwidthInv, FinalAverage
<1>4. CountedOnce'
  BY <1>2, InvStays DEF BandwidthInv, FinalAverage, copyVars, countVars
<1>5. TypeMain'
  <2>1. brun' \in BOOLEAN
    BY Zenon DEF FinalAverage
  <2>2. pc' \in MainPlaces /\ cur' \in 1..(N + 1) /\ iter' \in Nat /\ sts' \in {0, 1}
    BY <1>2 DEF BandwidthInv, TypeMain, SameAction, FinalAverage, MainPlaces, Goes, At
  <2>. QED  BY <1>2, <2>1, <2>2 DEF TypeMain, SameAction
<1>6. TimersOff'
  BY <1>2 DEF BandwidthInv, SameAction, TimersOff, TypeMain, TypeTimers,
         FinalAverage, timerVars, Goes, At
<1>7. ThreadsJoined'
  BY <1>2 DEF BandwidthInv, SameAction, ThreadsJoined, MainKnows, TypeMain,
         TypeWorkers, FinalAverage, workerVars, Goes, At, Pairs
<1>8. TransfersOwned'
  BY <1>2 DEF BandwidthInv, SameAction, TransfersOwned, ThreadsJoined,
         MainKnows, TypeCopies, TypeWorkers, TypeMain, FinalAverage, copyVars,
         workerVars, Goes, At, Pairs
<1>9. MainKnows'
  BY <1>2 DEF BandwidthInv, SameAction, MainKnows, TypeMain, FinalAverage,
         mainVars, Goes, At, Pairs
<1>10. ReportedOnce'
  BY <1>2 DEF BandwidthInv, SameAction, ReportedOnce, TransfersOwned,
         MainKnows, TypeMain, TypeCounts, FinalAverage, countVars, Goes, At, Pairs
<1>. QED
  BY <1>3, <1>4, <1>5, <1>6, <1>7, <1>8, <1>9, <1>10 DEF BandwidthInv

LEMMA SignalWorkerKeeps ==
  ASSUME BandwidthInv, SignalWorker
  PROVE  BandwidthInv'
<1>1. UNCHANGED conf
  BY DEF SignalWorker, envVars
<1>2. SameAction
  BY <1>1, ActionStays DEF BandwidthInv
<1>3. TypeEnv' /\ TypeCopies' /\ TypeCounts' /\ TypeTimers'
  BY <1>2, TypeStays DEF BandwidthInv, SignalWorker
<1>4. CountedOnce'
  BY <1>2, InvStays DEF BandwidthInv, SignalWorker, copyVars, countVars
<1>5. TypeMain'
  BY <1>2 DEF BandwidthInv, SameAction, TypeMain, SignalWorker, mainVars,
         MainPlaces, MainKnows, Goes, At, Pairs
<1>6. TypeWorkers'
  BY <1>2 DEF BandwidthInv, SameAction, TypeWorkers, TypeMain, SignalWorker,
         workerVars, Pairs
<1>7. TimersOff'
  BY <1>2 DEF BandwidthInv, SameAction, TimersOff, TypeMain, TypeTimers,
         SignalWorker, timerVars, Goes, At
<1>8. ThreadsJoined'
  BY <1>2 DEF BandwidthInv, SameAction, ThreadsJoined, MainKnows, TypeMain,
         TypeWorkers, SignalWorker, workerVars, Goes, At, Pairs
<1>9. TransfersOwned'
  BY <1>2 DEF BandwidthInv, SameAction, TransfersOwned, ThreadsJoined,
         MainKnows, TypeCopies, TypeWorkers, TypeMain, SignalWorker, copyVars,
         workerVars, Goes, At, Pairs
<1>10. MainKnows'
  BY <1>2 DEF BandwidthInv, SameAction, MainKnows, TypeMain, SignalWorker,
         mainVars, Goes, At, Pairs
<1>11. ReportedOnce'
  BY <1>2 DEF BandwidthInv, SameAction, ReportedOnce, TransfersOwned,
         MainKnows, TypeMain, TypeCounts, SignalWorker, countVars, Goes, At, Pairs
<1>. QED
  BY <1>3, <1>4, <1>5, <1>6, <1>7, <1>8, <1>9, <1>10, <1>11 DEF BandwidthInv

LEMMA StopTimersKeeps ==
  ASSUME BandwidthInv, StopTimers
  PROVE  BandwidthInv'
<1>1. UNCHANGED conf
  BY DEF StopTimers, envVars
<1>2. SameAction
  BY <1>1, ActionStays DEF BandwidthInv
<1>3. TypeEnv' /\ TypeWorkers' /\ TypeCopies' /\ TypeCounts'
  BY <1>2, TypeStays DEF BandwidthInv, StopTimers
<1>4. CountedOnce'
  BY <1>2, InvStays DEF BandwidthInv, StopTimers, copyVars, countVars
<1>5. TypeMain'
  BY <1>2 DEF BandwidthInv, SameAction, TypeMain, StopTimers, timerVars,
         mainVars, MainPlaces, MainKnows, Goes, At, Pairs
<1>6. TypeTimers'
  BY <1>2 DEF BandwidthInv, SameAction, TypeTimers, TypeMain, StopTimers,
         timerVars, Timers, Pairs
<1>7. TimersOff'
  BY <1>2 DEF BandwidthInv, SameAction, TimersOff, TypeMain, TypeTimers,
         StopTimers, timerVars, Goes, At
<1>8. ThreadsJoined'
  BY <1>2 DEF BandwidthInv, SameAction, ThreadsJoined, MainKnows, TypeMain,
         TypeWorkers, StopTimers, timerVars, mainVars, workerVars, Goes, At, Pairs
<1>9. TransfersOwned'
  BY <1>2 DEF BandwidthInv, SameAction, TransfersOwned, ThreadsJoined,
         MainKnows, TypeCopies, TypeWorkers, TypeMain, StopTimers, timerVars,
         copyVars, workerVars, mainVars, Goes, At, Pairs
<1>10. MainKnows'
  BY <1>2 DEF BandwidthInv, SameAction, MainKnows, TypeMain, StopTimers,
         timerVars, mainVars, Goes, At, Pairs
<1>11. ReportedOnce'
  BY <1>2 DEF BandwidthInv, SameAction, ReportedOnce, TransfersOwned,
         MainKnows, TypeMain, TypeCounts, StopTimers, timerVars, mainVars,
         countVars, Goes, At, Pairs
<1>. QED
  BY <1>3, <1>4, <1>5, <1>6, <1>7, <1>8, <1>9, <1>10, <1>11 DEF BandwidthInv

LEMMA NextIterationKeeps ==
  ASSUME BandwidthInv, NextIteration
  PROVE  BandwidthInv'
<1>1. UNCHANGED conf
  BY DEF NextIteration, envVars
<1>2. SameAction
  BY <1>1, ActionStays DEF BandwidthInv
<1>3. TypeEnv' /\ TypeWorkers' /\ TypeCopies' /\ TypeCounts' /\ TypeTimers'
  BY <1>2, TypeStays DEF BandwidthInv, NextIteration
<1>4. CountedOnce'
  BY <1>2, InvStays DEF BandwidthInv, NextIteration, copyVars, countVars
<1>5. TypeMain'
  BY <1>2 DEF BandwidthInv, SameAction, TypeMain, NextIteration, mainVars,
         MainPlaces, MainKnows, Goes, At, Pairs
<1>6. TimersOff'
  BY <1>2 DEF BandwidthInv, SameAction, TimersOff, TypeMain, TypeTimers,
         NextIteration, timerVars, Goes, At
<1>7. ThreadsJoined'
  BY <1>2 DEF BandwidthInv, SameAction, ThreadsJoined, MainKnows, TypeMain,
         TypeWorkers, NextIteration, workerVars, Goes, At, Pairs
<1>8. TransfersOwned'
  BY <1>2 DEF BandwidthInv, SameAction, TransfersOwned, ThreadsJoined,
         MainKnows, TypeCopies, TypeWorkers, TypeMain, NextIteration, copyVars,
         workerVars, Goes, At, Pairs
<1>9. MainKnows'
  BY <1>2 DEF BandwidthInv, SameAction, MainKnows, TypeMain, NextIteration,
         Goes, At, Pairs
<1>10. ReportedOnce'
  BY <1>2 DEF BandwidthInv, SameAction, ReportedOnce, TransfersOwned,
         MainKnows, TypeMain, TypeCounts, NextIteration, countVars, Goes, At, Pairs
<1>. QED
  BY <1>3, <1>4, <1>5, <1>6, <1>7, <1>8, <1>9, <1>10 DEF BandwidthInv

LEMMA ReportKeeps ==
  ASSUME BandwidthInv, Report
  PROVE  BandwidthInv'
<1>1. UNCHANGED conf
  BY DEF Report, envVars
<1>2. SameAction
  BY <1>1, ActionStays DEF BandwidthInv
<1>3. TypeEnv' /\ TypeWorkers' /\ TypeCopies' /\ TypeTimers'
  BY <1>2, TypeStays DEF BandwidthInv, Report
<1>4. TypeMain'
  BY <1>2 DEF BandwidthInv, SameAction, TypeMain, Report, GetFinalData,
         mainVars, MainPlaces, MainKnows, Goes, At, Pairs
<1>5. TypeCounts'
  <2>1. CASE UNCHANGED countVars
    BY <1>2, <2>1, TypeStays DEF BandwidthInv
  <2>2. CASE cur \in Pairs /\ GetFinalData(cur)
    BY <1>2, <2>2, FinalDataMoves DEF BandwidthInv
  <2>. QED  BY <2>1, <2>2 DEF Report
<1>6. TimersOff'
  BY <1>2 DEF BandwidthInv, SameAction, TimersOff, TypeMain, TypeTimers,
         Report, GetFinalData, timerVars, Goes, At
<1>7. ThreadsJoined'
  BY <1>2 DEF BandwidthInv, SameAction, ThreadsJoined, MainKnows, TypeMain,
         TypeWorkers, Report, GetFinalData, workerVars, Goes, At, Pairs
<1>8. TransfersOwned'
  BY <1>2 DEF BandwidthInv, SameAction, TransfersOwned, ThreadsJoined,
         MainKnows, TypeCopies, TypeWorkers, TypeMain, Report, GetFinalData,
         copyVars, workerVars, Goes, At, Pairs
<1>9. MainKnows'
  BY <1>2 DEF BandwidthInv, SameAction, MainKnows, TypeMain, Report,
         GetFinalData, mainVars, Goes, At, Pairs
<1>10. CountedOnce'
  <2>1. CASE UNCHANGED countVars
    BY <1>2, <2>1 DEF BandwidthInv, SameAction, CountedOnce, Report, copyVars, countVars
  <2>2. CASE cur \in Pairs /\ GetFinalData(cur)
    <3>1. reported[cur] = 0
      BY <2>2 DEF BandwidthInv, ReportedOnce, TypeMain, Report, At, Pairs
    <3>2. ASSUME NEW p \in Pairs
          PROVE  (moved[p] = running[p] + total[p] + reported[p])'
      <4>1. /\ moved'[p] = moved[p] /\ moved[p] = running[p] + total[p] + reported[p]
            /\ running[p] \in Nat /\ total[p] \in Nat
        BY DEF BandwidthInv, CountedOnce, TypeCounts, Report, copyVars
      <4>2. CASE p = cur
        BY <1>2, <2>2, <3>1, <4>1, <4>2, FinalDataMoves DEF BandwidthInv
      <4>3. CASE p # cur
        BY <1>2, <2>2, <4>1, <4>3, FinalDataMoves DEF BandwidthInv
      <4>. QED  BY <4>2, <4>3
    <3>. QED  BY <1>2, <3>2 DEF CountedOnce, SameAction
  <2>. QED  BY <2>1, <2>2 DEF Report
<1>11. ReportedOnce'
  <2>1. CASE cur > N /\ Goes("done") /\ UNCHANGED <<cur, countVars>>
    BY <1>2, <2>1 DEF BandwidthInv, SameAction, ReportedOnce, TypeMain, Report, Goes, At,
           countVars, Pairs
  <2>2. CASE cur \in Pairs /\ GetFinalData(cur) /\ cur' = cur + 1 /\ Goes("report")
    <3>1. ASSUME NEW p \in Pairs
          PROVE  /\ p >= cur + 1 => reported'[p] = 0
                 /\ p < cur + 1 => running'[p] = 0 /\ total'[p] = 0
      <4>1. /\ p >= cur => reported[p] = 0
            /\ p < cur => running[p] = 0 /\ total[p] = 0
        BY DEF BandwidthInv, ReportedOnce, Report, At
      <4>2. p \in Nat /\ cur \in Nat
        BY <1>2, <2>2 DEF SameAction, Pairs
      <4>3. CASE p = cur
        BY <1>2, <2>2, <4>2, <4>3, FinalDataMoves DEF BandwidthInv
      <4>4. CASE p # cur
        BY <1>2, <2>2, <4>1, <4>2, <4>4, FinalDataMoves DEF BandwidthInv
      <4>. QED  BY <4>3, <4>4
    <3>. QED  BY <1>2, <2>2, <3>1 DEF ReportedOnce, SameAction, Goes
  <2>. QED  BY <2>1, <2>2 DEF Report
<1>. QED
  BY <1>3, <1>4, <1>5, <1>6, <1>7, <1>8, <1>9, <1>10, <1>11 DEF BandwidthInv

-----------------------------------------------------------------------------
(* The steps of do_transfer and of the threads of the pairs.               *)

LEMMA NextBlockKeeps ==
  ASSUME BandwidthInv, NEW p \in Pairs, NextBlock(p)
  PROVE  BandwidthInv'
<1>1. UNCHANGED conf
  BY DEF NextBlock, envVars
<1>2. SameAction
  BY <1>1, ActionStays DEF BandwidthInv
<1>3. TypeEnv' /\ TypeMain' /\ TypeWorkers' /\ TypeCounts' /\ TypeTimers'
  BY <1>2, TypeStays DEF BandwidthInv, NextBlock
<1>4. TimersOff' /\ ThreadsJoined' /\ MainKnows' /\ CountedOnce' /\ ReportedOnce'
  BY <1>2, InvStays DEF BandwidthInv, NextBlock, mainVars, timerVars,
         workerVars, copyVars, countVars
<1>5. TypeCopies'
  BY <1>2 DEF BandwidthInv, SameAction, TypeCopies, TypeMain, NextBlock,
         copyVars, Zero
<1>6. TransfersOwned'
  BY <1>2 DEF BandwidthInv, SameAction, TransfersOwned, ThreadsJoined,
         MainKnows, TypeCopies, TypeWorkers, TypeMain, NextBlock, copyVars,
         workerVars, mainVars, Pairs
<1>. QED
  BY <1>3, <1>4, <1>5, <1>6 DEF BandwidthInv

LEMMA BlockSentKeeps ==
  ASSUME BandwidthInv, NEW p \in Pairs, BlockSent(p)
  PROVE  BandwidthInv'
<1>1. UNCHANGED conf
  BY DEF BlockSent, envVars
<1>2. SameAction
  BY <1>1, ActionStays DEF BandwidthInv
<1>3. TypeEnv' /\ TypeMain' /\ TypeWorkers' /\ TypeTimers'
  BY <1>2, TypeStays DEF BandwidthInv, BlockSent
<1>4. TimersOff' /\ ThreadsJoined' /\ MainKnows'
  BY <1>2, InvStays DEF BandwidthInv, BlockSent, mainVars, timerVars,
         workerVars
<1>5. TypeCopies'
  <2>1. sending' \in [Pairs -> BOOLEAN]
    <3>1. FALSE \in BOOLEAN
      BY Zenon
    <3>. QED  BY <1>2, <3>1 DEF BandwidthInv, SameAction, TypeCopies, BlockSent
  <2>2. blk' \in [Pairs -> 0..(Blocks + 1)]
    BY <1>2 DEF BandwidthInv, SameAction, TypeCopies, TransfersOwned, BlockSent
  <2>3. moved' \in [Pairs -> Nat] /\ inIter' \in [Pairs -> Nat] /\ failed' \in BOOLEAN
    BY DEF BandwidthInv, TypeCopies, BlockSent
  <2>. QED  BY <1>2, <2>1, <2>2, <2>3 DEF TypeCopies, SameAction
<1>6. TypeCounts'
  BY <1>2 DEF BandwidthInv, SameAction, TypeCounts, TypeMain, BlockSent,
         countVars
<1>7. TransfersOwned'
  <2>1. /\ UNCHANGED <<pc, cur, thread>>
        /\ Pairs' = Pairs /\ Blocks' = Blocks /\ conf' = conf
    BY <1>2 DEF SameAction, BlockSent, mainVars, workerVars
  <2>2. /\ sending[p] /\ ~sending'[p]
        /\ \A q \in Pairs \ {p} : sending'[q] = sending[q] /\ blk'[q] = blk[q]
    BY DEF BandwidthInv, TypeCopies, BlockSent
  <2>3. blk[p] # 0
    BY <1>2, <2>2 DEF BandwidthInv, TransfersOwned, SameAction
  <2>4. \/ conf.parallel /\ thread[p] = "transfer"
        \/ ~conf.parallel /\ pc = "transfer" /\ cur = p
    BY <2>3 DEF BandwidthInv, TransfersOwned
  <2>5. ASSUME NEW q \in Pairs
        PROVE  sending'[q] => blk'[q] \in 1..Blocks
    <3>1. CASE q = p
      BY <3>1, <2>2, Zenon
    <3>2. CASE q # p
      BY <3>2, <2>2, Zenon DEF BandwidthInv, TransfersOwned
    <3>. QED  BY <3>1, <3>2
  <2>6. ASSUME NEW q \in Pairs, blk'[q] # 0
        PROVE  \/ conf.parallel /\ thread[q] = "transfer"
               \/ ~conf.parallel /\ pc = "transfer" /\ cur = q
    <3>1. CASE q = p
      BY <3>1, <2>4, Zenon
    <3>2. CASE q # p
      BY <3>2, <2>2, <2>6, Zenon DEF BandwidthInv, TransfersOwned
    <3>. QED  BY <3>1, <3>2
  <2>. QED  BY <2>1, <2>5, <2>6 DEF TransfersOwned
<1>8. CountedOnce'
  BY <1>2 DEF BandwidthInv, SameAction, CountedOnce, ReportedOnce,
         TypeCopies, TypeCounts, BlockSent, countVars
<1>9. ReportedOnce'
  <2>1. pc \notin {"report", "done"}
    BY DEF BandwidthInv, TransfersOwned, ThreadsJoined, BlockSent
  <2>. QED  BY <1>2, <2>1 DEF BandwidthInv, SameAction, ReportedOnce, BlockSent,
               mainVars
<1>. QED
  BY <1>3, <1>4, <1>5, <1>6, <1>7, <1>8, <1>9 DEF BandwidthInv

LEMMA BlockFailsKeeps ==
  ASSUME BandwidthInv, NEW p \in Pairs, BlockFails(p)
  PROVE  BandwidthInv'
<1>1. UNCHANGED conf
  BY DEF BlockFails, envVars
<1>2. SameAction
  BY <1>1, ActionStays DEF BandwidthInv
<1>3. TypeEnv' /\ TypeMain' /\ TypeWorkers' /\ TypeCounts' /\ TypeTimers'
  BY <1>2, TypeStays DEF BandwidthInv, BlockFails
<1>4. TimersOff' /\ ThreadsJoined' /\ MainKnows' /\ CountedOnce' /\ ReportedOnce'
  BY <1>2, InvStays DEF BandwidthInv, BlockFails, mainVars, timerVars,
         workerVars, copyVars, countVars
<1>5. TypeCopies'
  BY <1>2 DEF BandwidthInv, SameAction, TypeCopies, TypeMain, BlockFails,
         copyVars, Zero
<1>6. TransfersOwned'
  BY <1>2 DEF BandwidthInv, SameAction, TransfersOwned, ThreadsJoined,
         MainKnows, TypeCopies, TypeWorkers, TypeMain, BlockFails, workerVars,
         mainVars, Pairs
<1>. QED
  BY <1>3, <1>4, <1>5, <1>6 DEF BandwidthInv

LEMMA TransferReturnsKeeps ==
  ASSUME BandwidthInv, NEW p \in Pairs, TransferReturns(p)
  PROVE  BandwidthInv'
<1>1. UNCHANGED conf
  BY DEF TransferReturns, envVars
<1>2. SameAction
  BY <1>1, ActionStays DEF BandwidthInv
<1>3. TypeEnv' /\ TypeMain' /\ TypeWorkers' /\ TypeCounts' /\ TypeTimers'
  BY <1>2, TypeStays DEF BandwidthInv, TransferReturns
<1>4. TimersOff' /\ ThreadsJoined' /\ MainKnows' /\ CountedOnce' /\ ReportedOnce'
  BY <1>2, InvStays DEF BandwidthInv, TransferReturns, mainVars, timerVars,
         workerVars, copyVars, countVars
<1>5. TypeCopies'
  BY <1>2 DEF BandwidthInv, SameAction, TypeCopies, TypeMain,
         TransferReturns, copyVars, Zero
<1>6. TransfersOwned'
  BY <1>2 DEF BandwidthInv, SameAction, TransfersOwned, ThreadsJoined,
         MainKnows, TypeCopies, TypeWorkers, TypeMain, TransferReturns, copyVars,
         workerVars, mainVars, Pairs
<1>. QED
  BY <1>3, <1>4, <1>5, <1>6 DEF BandwidthInv

LEMMA ThreadBeginsKeeps ==
  ASSUME BandwidthInv, NEW p \in Pairs, ThreadBegins(p)
  PROVE  BandwidthInv'
<1>1. UNCHANGED conf
  BY DEF ThreadBegins, envVars
<1>2. SameAction
  BY <1>1, ActionStays DEF BandwidthInv
<1>3. TypeEnv' /\ TypeMain' /\ TypeCopies' /\ TypeCounts' /\ TypeTimers'
  BY <1>2, TypeStays DEF BandwidthInv, ThreadBegins
<1>4. TimersOff' /\ MainKnows' /\ CountedOnce' /\ ReportedOnce'
  BY <1>2, InvStays DEF BandwidthInv, ThreadBegins, mainVars, timerVars,
         copyVars, countVars
<1>5. TypeWorkers'
  BY <1>2 DEF BandwidthInv, SameAction, TypeWorkers, TypeMain, ThreadBegins,
         Pairs
<1>6. ThreadsJoined'
  BY <1>2 DEF BandwidthInv, SameAction, ThreadsJoined, MainKnows, TypeMain,
         TypeWorkers, ThreadBegins, mainVars, Pairs
<1>7. TransfersOwned'
  BY <1>2 DEF BandwidthInv, SameAction, TransfersOwned, ThreadsJoined,
         MainKnows, TypeCopies, TypeWorkers, TypeMain, ThreadBegins, copyVars,
         mainVars, Pairs
<1>. QED
  BY <1>3, <1>4, <1>5, <1>6, <1>7 DEF BandwidthInv

LEMMA ThreadLoopsKeeps ==
  ASSUME BandwidthInv, NEW p \in Pairs, ThreadLoops(p)
  PROVE  BandwidthInv'
<1>1. UNCHANGED conf
  BY DEF ThreadLoops, envVars
<1>2. SameAction
  BY <1>1, ActionStays DEF BandwidthInv
<1>3. TypeEnv' /\ TypeMain' /\ TypeCopies' /\ TypeCounts' /\ TypeTimers'
  BY <1>2, TypeStays DEF BandwidthInv, ThreadLoops
<1>4. TimersOff' /\ MainKnows' /\ CountedOnce' /\ ReportedOnce'
  BY <1>2, InvStays DEF BandwidthInv, ThreadLoops, mainVars, timerVars,
         copyVars, countVars
<1>5. TypeWorkers'
  BY <1>2 DEF BandwidthInv, SameAction, TypeWorkers, TypeMain, ThreadLoops,
         workerVars, Pairs
<1>6. ThreadsJoined'
  BY <1>2 DEF BandwidthInv, SameAction, ThreadsJoined, MainKnows, TypeMain,
         TypeWorkers, ThreadLoops, mainVars, Pairs
<1>7. TransfersOwned'
  BY <1>2 DEF BandwidthInv, SameAction, TransfersOwned, ThreadsJoined,
         MainKnows, TypeCopies, TypeWorkers, TypeMain, ThreadLoops, copyVars,
         mainVars, Pairs
<1>. QED
  BY <1>3, <1>4, <1>5, <1>6, <1>7 DEF BandwidthInv

-----------------------------------------------------------------------------
(* The steps of the timers and of the environment.                         *)

LEMMA FinalFiresKeeps ==
  ASSUME BandwidthInv, FinalFires
  PROVE  BandwidthInv'
<1>1. UNCHANGED conf
  BY DEF FinalFires, envVars
<1>2. SameAction
  BY <1>1, ActionStays DEF BandwidthInv
<1>3. TypeEnv' /\ TypeWorkers' /\ TypeCopies' /\ TypeCounts'
  BY <1>2, TypeStays DEF BandwidthInv, FinalFires
<1>4. ThreadsJoined' /\ TransfersOwned' /\ MainKnows' /\ CountedOnce' /\
      ReportedOnce'
  BY <1>2, InvStays DEF BandwidthInv, FinalFires, mainVars, workerVars,
         copyVars, countVars
<1>5. TypeTimers'
  BY <1>2 DEF BandwidthInv, SameAction, TypeTimers, TypeMain, FinalFires,
         timerVars, Timers, Pairs
<1>6. TypeMain'
  BY <1>2 DEF BandwidthInv, SameAction, TypeMain, FinalFires, mainVars, Pairs
<1>7. TimersOff'
  BY <1>2 DEF BandwidthInv, SameAction, TimersOff, TypeMain, TypeTimers,
         FinalFires, mainVars, timerVars
<1>. QED
  BY <1>3, <1>4, <1>5, <1>6, <1>7 DEF BandwidthInv

LEMMA FinalSignalsKeeps ==
  ASSUME BandwidthInv, FinalSignals
  PROVE  BandwidthInv'
<1>1. UNCHANGED conf
  BY DEF FinalSignals, envVars
<1>2. SameAction
  BY <1>1, ActionStays DEF BandwidthInv
<1>3. TypeEnv' /\ TypeMain' /\ TypeCopies' /\ TypeCounts'
  BY <1>2, TypeStays DEF BandwidthInv, FinalSignals
<1>4. ThreadsJoined' /\ TransfersOwned' /\ MainKnows' /\ CountedOnce' /\
      ReportedOnce'
  BY <1>2, InvStays DEF BandwidthInv, FinalSignals, mainVars, workerVars,
         copyVars, countVars
<1>5. TypeTimers'
  BY <1>2 DEF BandwidthInv, SameAction, TypeTimers, TypeMain, FinalSignals,
         timerVars, Timers, Pairs
<1>6. TypeWorkers'
  BY <1>2 DEF BandwidthInv, SameAction, TypeWorkers, TypeMain, FinalSignals,
         workerVars, Pairs
<1>7. TimersOff'
  BY <1>2 DEF BandwidthInv, SameAction, TimersOff, TypeMain, TypeTimers,
         FinalSignals, mainVars, timerVars
<1>. QED
  BY <1>3, <1>4, <1>5, <1>6, <1>7 DEF BandwidthInv

LEMMA SamplerFiresKeeps ==
  ASSUME BandwidthInv, SamplerFires
  PROVE  BandwidthInv'
<1>1. UNCHANGED conf
  BY DEF SamplerFires, envVars
<1>2. SameAction
  BY <1>1, ActionStays DEF BandwidthInv
<1>3. TypeEnv' /\ TypeMain' /\ TypeWorkers' /\ TypeCopies' /\ TypeCounts'
  BY <1>2, TypeStays DEF BandwidthInv, SamplerFires
<1>4. ThreadsJoined' /\ TransfersOwned' /\ MainKnows' /\ CountedOnce' /\
      ReportedOnce'
  BY <1>2, InvStays DEF BandwidthInv, SamplerFires, mainVars, workerVars,
         copyVars, countVars
<1>5. TypeTimers'
  BY <1>2 DEF BandwidthInv, SameAction, TypeTimers, TypeMain, SamplerFires,
         timerVars, Timers, Pairs
<1>6. TimersOff'
  BY <1>2 DEF BandwidthInv, SameAction, TimersOff, TypeMain, TypeTimers,
         SamplerFires, mainVars, timerVars
<1>. QED
  BY <1>3, <1>4, <1>5, <1>6 DEF BandwidthInv

LEMMA SamplerSamplesKeeps ==
  ASSUME BandwidthInv, SamplerSamples
  PROVE  BandwidthInv'
<1>1. UNCHANGED conf
  BY DEF SamplerSamples, envVars
<1>2. SameAction
  BY <1>1, ActionStays DEF BandwidthInv
<1>3. TypeEnv' /\ TypeMain' /\ TypeWorkers' /\ TypeCopies'
  BY <1>2, TypeStays DEF BandwidthInv, SamplerSamples
<1>4. ThreadsJoined' /\ TransfersOwned' /\ MainKnows'
  BY <1>2, InvStays DEF BandwidthInv, SamplerSamples, mainVars, workerVars,
         copyVars
<1>5. TypeTimers'
  BY <1>2 DEF BandwidthInv, SameAction, TypeTimers, TypeMain, SamplerSamples,
         GetRunningData, timerVars, Timers, Pairs
<1>6. TypeCounts'
  <2>1. CASE UNCHANGED countVars
    BY <1>2, <2>1, TypeStays DEF BandwidthInv
  <2>2. ASSUME NEW p \in Pairs, GetRunningData(p)
        PROVE  TypeCounts'
    BY <1>2, <2>2, RunningDataMoves DEF BandwidthInv
  <2>. QED  BY <2>1, <2>2 DEF SamplerSamples
<1>7. TimersOff'
  BY <1>2 DEF BandwidthInv, SameAction, TimersOff, TypeMain, TypeTimers,
         SamplerSamples, GetRunningData, mainVars, timerVars
<1>8. CountedOnce'
  <2>1. CASE UNCHANGED countVars
    BY <1>2, <2>1 DEF BandwidthInv, SameAction, CountedOnce, SamplerSamples, copyVars, countVars
  <2>2. ASSUME NEW p \in Pairs, GetRunningData(p)
        PROVE  CountedOnce'
    BY <1>2, <2>2, RunningDataMoves DEF BandwidthInv, SameAction, CountedOnce, SamplerSamples,
           copyVars
  <2>. QED  BY <2>1, <2>2 DEF SamplerSamples
<1>9. ReportedOnce'
  BY <1>2 DEF BandwidthInv, SameAction, ReportedOnce, TransfersOwned,
         MainKnows, TypeMain, TypeCounts, SamplerSamples, GetRunningData, mainVars,
         countVars, Pairs
<1>. QED
  BY <1>3, <1>4, <1>5, <1>6, <1>7, <1>8, <1>9 DEF BandwidthInv

LEMMA ElapseKeeps ==
  ASSUME BandwidthInv, Elapse
  PROVE  BandwidthInv'
<1>1. UNCHANGED conf
  BY DEF Elapse, envVars
<1>2. SameAction
  BY <1>1, ActionStays DEF BandwidthInv
<1>3. TypeMain' /\ TypeWorkers' /\ TypeCopies' /\ TypeCounts' /\ TypeTimers'
  BY <1>2, TypeStays DEF BandwidthInv, Elapse
<1>4. TimersOff' /\ ThreadsJoined' /\ TransfersOwned' /\ MainKnows' /\ CountedOnce'
      /\ ReportedOnce'
  BY <1>2, InvStays DEF BandwidthInv, Elapse, mainVars, timerVars,
         workerVars, copyVars, countVars
<1>5. TypeEnv'
  BY <1>2 DEF BandwidthInv, SameAction, TypeEnv, TypeMain, Elapse, envVars
<1>. QED
  BY <1>3, <1>4, <1>5 DEF BandwidthInv

LEMMA StopRequestedKeeps ==
  ASSUME BandwidthInv, StopRequested
  PROVE  BandwidthInv'
<1>1. UNCHANGED conf
  BY DEF StopRequested, envVars
<1>2. SameAction
  BY <1>1, ActionStays DEF BandwidthInv
<1>3. TypeMain' /\ TypeWorkers' /\ TypeCopies' /\ TypeCounts' /\ TypeTimers'
  BY <1>2, TypeStays DEF BandwidthInv, StopRequested
<1>4. TimersOff' /\ ThreadsJoined' /\ TransfersOwned' /\ MainKnows' /\ CountedOnce'
      /\ ReportedOnce'
  BY <1>2, InvStays DEF BandwidthInv, StopRequested, mainVars, timerVars,
         workerVars, copyVars, countVars
<1>5. TypeEnv'
  BY <1>2 DEF BandwidthInv, SameAction, TypeEnv, TypeMain, StopRequested,
         envVars
<1>. QED
  BY <1>3, <1>4, <1>5 DEF BandwidthInv

-----------------------------------------------------------------------------
(* All the steps pbqt and pebb share, and what the invariant is for.       *)

LEMMA SharedStepsKeep ==
  ASSUME BandwidthInv,
         \/ Main \/ Final \/ Sampler \/ Elapse \/ StopRequested
         \/ \E p \in Pairs : Transfer(p) \/ Worker(p)
  PROVE  BandwidthInv'
<1>1. CASE Main
  BY <1>1, IterateKeeps, RoundKeeps, SingleDoneKeeps, SingleSampledKeeps,
     SingleStoppingKeeps, StartThreadKeeps, JoinThreadKeeps, TakeTimeKeeps,
     FinalAverageKeeps, SignalWorkerKeeps, StopTimersKeeps, NextIterationKeeps,
     ReportKeeps DEF Main
<1>2. CASE Final
  BY <1>2, FinalFiresKeeps, FinalSignalsKeeps DEF Final
<1>3. CASE Sampler
  BY <1>3, SamplerFiresKeeps, SamplerSamplesKeeps DEF Sampler
<1>4. CASE Elapse \/ StopRequested
  BY <1>4, ElapseKeeps, StopRequestedKeeps
<1>5. ASSUME NEW p \in Pairs, Transfer(p) \/ Worker(p)
      PROVE  BandwidthInv'
  BY <1>5, BlockSentKeeps, BlockFailsKeeps, TransferReturnsKeeps, ThreadBeginsKeeps,
     ThreadLoopsKeeps DEF Transfer, Worker
<1>. QED  BY <1>1, <1>2, <1>3, <1>4, <1>5

LEMMA StutterKeeps ==
  ASSUME BandwidthInv, UNCHANGED vars
  PROVE  BandwidthInv'
<1>1. UNCHANGED <<envVars, mainVars, workerVars, copyVars, countVars, timerVars>>
  BY DEF vars
<1>2. SameAction
  BY <1>1, ActionStays DEF BandwidthInv, envVars
<1>3. TypeEnv' /\ TypeMain' /\ TypeWorkers' /\ TypeCopies' /\ TypeCounts' /\ TypeTimers'
  BY <1>1, <1>2, TypeStays DEF BandwidthInv
<1>4. /\ TimersOff' /\ ThreadsJoined' /\ TransfersOwned' /\ MainKnows' /\ CountedOnce'
      /\ ReportedOnce'
  BY <1>1, <1>2, InvStays DEF BandwidthInv, mainVars, workerVars, copyVars, countVars,
     timerVars
<1>. QED  BY <1>3, <1>4 DEF BandwidthInv

\* The properties of the runs follow from the invariant.
LEMMA BandwidthInvShows ==
  ASSUME BandwidthInv
  PROVE  TypeOK /\ CountedOnce /\ QuietAtTheEnd /\ ReportComplete
<1>1. TypeOK /\ CountedOnce
  BY TypeParts DEF BandwidthInv
<1>2. QuietAtTheEnd
  BY DEF BandwidthInv, TimersOff, ThreadsJoined, TransfersOwned, QuietAtTheEnd
<1>3. ReportComplete
  BY DEF BandwidthInv, CountedOnce, ReportedOnce, TypeCounts, ReportComplete
<1>. QED  BY <1>1, <1>2, <1>3

-----------------------------------------------------------------------------
(* The steps pbqt and pebb have of their own.                              *)

LEMMA EnterSingleKeeps ==
  ASSUME BandwidthInv, EnterSingle,
         wbrun' \in [Pairs -> BOOLEAN]
  PROVE  BandwidthInv'
<1>1. UNCHANGED conf
  BY DEF EnterSingle, envVars
<1>2. SameAction
  BY <1>1, ActionStays DEF BandwidthInv
<1>3. TypeEnv' /\ TypeCounts' /\ TypeTimers'
  BY <1>2, TypeStays DEF BandwidthInv, EnterSingle
<1>4. CountedOnce'
  BY <1>2, InvStays DEF BandwidthInv, EnterSingle, copyVars, countVars
<1>5. TypeMain'
  BY <1>2 DEF BandwidthInv, SameAction, TypeMain, EnterSingle, mainVars,
         MainPlaces, MainKnows, Goes, At, Pairs
<1>6. TypeCopies'
  BY <1>2 DEF BandwidthInv, SameAction, TypeCopies, TypeMain,
         EnterSingle, copyVars, Zero
<1>7. TypeWorkers'
  BY <1>2 DEF BandwidthInv, SameAction, TypeWorkers, TypeMain,
         EnterSingle, workerVars, Pairs
<1>8. TimersOff'
  BY <1>2 DEF BandwidthInv, SameAction, TimersOff, TypeMain, TypeTimers,
         EnterSingle, timerVars, Goes, At
<1>9. ThreadsJoined'
  BY <1>2 DEF BandwidthInv, SameAction, ThreadsJoined, MainKnows, TypeMain,
         TypeWorkers, EnterSingle, mainVars, workerVars, Goes, At, Pairs
<1>10. TransfersOwned'
  BY <1>2 DEF BandwidthInv, SameAction, TransfersOwned, ThreadsJoined,
         MainKnows, TypeCopies, TypeWorkers, TypeMain, EnterSingle, copyVars,
         workerVars, mainVars, Goes, At, Pairs
<1>11. MainKnows'
  BY <1>2 DEF BandwidthInv, SameAction, MainKnows, TypeMain, EnterSingle,
         mainVars, Goes, At, Pairs
<1>12. ReportedOnce'
  BY <1>2 DEF BandwidthInv, SameAction, ReportedOnce, TransfersOwned,
         MainKnows, TypeMain, TypeCounts, EnterSingle, mainVars, countVars,
         Goes, At, Pairs
<1>. QED
  BY <1>3, <1>4, <1>5, <1>6, <1>7, <1>8, <1>9, <1>10, <1>11, <1>12 DEF
         BandwidthInv

LEMMA EnterThreadKeeps ==
  ASSUME BandwidthInv, NEW p \in Pairs, EnterThread(p),
         wbrun' \in [Pairs -> BOOLEAN]
  PROVE  BandwidthInv'
<1>1. UNCHANGED conf
  BY DEF EnterThread, envVars
<1>2. SameAction
  BY <1>1, ActionStays DEF BandwidthInv
<1>3. TypeEnv' /\ TypeMain' /\ TypeCounts' /\ TypeTimers'
  BY <1>2, TypeStays DEF BandwidthInv, EnterThread
<1>4. TimersOff' /\ MainKnows' /\ CountedOnce' /\ ReportedOnce'
  BY <1>2, InvStays DEF BandwidthInv, EnterThread, mainVars, timerVars,
         copyVars, countVars
<1>5. TypeCopies'
  BY <1>2 DEF BandwidthInv, SameAction, TypeCopies, TypeMain,
         EnterThread, copyVars, Zero
<1>6. TypeWorkers'
  BY <1>2 DEF BandwidthInv, SameAction, TypeWorkers, TypeMain,
         EnterThread, Pairs
<1>7. ThreadsJoined'
  BY <1>2 DEF BandwidthInv, SameAction, ThreadsJoined, MainKnows, TypeMain,
         TypeWorkers, EnterThread, mainVars, Pairs
<1>8. TransfersOwned'
  BY <1>2 DEF BandwidthInv, SameAction, TransfersOwned, ThreadsJoined,
         MainKnows, TypeCopies, TypeWorkers, TypeMain, EnterThread, copyVars,
         mainVars, Pairs
<1>. QED
  BY <1>3, <1>4, <1>5, <1>6, <1>7, <1>8 DEF BandwidthInv

LEMMA PebbGivesUpKeeps ==
  ASSUME BandwidthInv, NEW p \in Pairs, PebbGivesUp(p)
  PROVE  BandwidthInv'
<1>1. UNCHANGED conf
  BY DEF PebbGivesUp, envVars
<1>2. SameAction
  BY <1>1, ActionStays DEF BandwidthInv
<1>3. TypeEnv' /\ TypeMain' /\ TypeWorkers' /\ TypeCounts' /\ TypeTimers'
  BY <1>2, TypeStays DEF BandwidthInv, PebbGivesUp
<1>4. TimersOff' /\ ThreadsJoined' /\ MainKnows' /\ CountedOnce' /\ ReportedOnce'
  BY <1>2, InvStays DEF BandwidthInv, PebbGivesUp, mainVars, timerVars,
         workerVars, copyVars, countVars
<1>5. TypeCopies'
  BY <1>2 DEF BandwidthInv, SameAction, TypeCopies, TypeMain, PebbGivesUp,
         copyVars, Zero
<1>6. TransfersOwned'
  BY <1>2 DEF BandwidthInv, SameAction, TransfersOwned, ThreadsJoined,
         MainKnows, TypeCopies, TypeWorkers, TypeMain, PebbGivesUp, copyVars,
         workerVars, mainVars, Pairs
<1>. QED
  BY <1>3, <1>4, <1>5, <1>6 DEF BandwidthInv

\* What the begin of do_transfer leaves in brun, or puts there, is a Boolean.
LEMMA BrunStays ==
  ASSUME BandwidthInv, UNCHANGED wbrun
  PROVE  wbrun' \in [Pairs -> BOOLEAN]
  BY DEF BandwidthInv, TypeWorkers

LEMMA BrunSet ==
  ASSUME BandwidthInv, NEW p \in Pairs, wbrun' = [wbrun EXCEPT ![p] = TRUE]
  PROVE  wbrun' \in [Pairs -> BOOLEAN]
<1>1. TRUE \in BOOLEAN
  BY Zenon
<1>. QED  BY <1>1 DEF BandwidthInv, TypeWorkers

LEMMA NextKeeps ==
  ASSUME BandwidthInv, [Next]_vars
  PROVE  BandwidthInv'
<1>1. CASE Main \/ Final \/ Sampler \/ Elapse \/ StopRequested
  BY <1>1, SharedStepsKeep
<1>2. CASE PbqtSingle
  BY <1>2, BrunStays, EnterSingleKeeps DEF PbqtSingle
<1>3. CASE PebbSingle
  <2>1. cur \in Pairs
    BY <1>3 DEF PebbSingle, EnterSingle
  <2>. QED  BY <1>3, <2>1, BrunSet, EnterSingleKeeps DEF PebbSingle
<1>4. ASSUME NEW p \in Pairs, WorkerThread(p)
      PROVE  BandwidthInv'
  <2>1. CASE Worker(p)
    BY <2>1, SharedStepsKeep
  <2>2. CASE PbqtThread(p)
    BY <2>2, BrunStays, EnterThreadKeeps DEF PbqtThread
  <2>3. CASE PebbThread(p)
    BY <2>3, BrunSet, EnterThreadKeeps DEF PebbThread
  <2>. QED  BY <1>4, <2>1, <2>2, <2>3 DEF WorkerThread
<1>5. ASSUME NEW p \in Pairs, DoTransfer(p)
      PROVE  BandwidthInv'
  <2>1. CASE Transfer(p)
    BY <2>1, SharedStepsKeep
  <2>2. CASE PbqtBlock(p) \/ PebbBlock(p)
    BY <2>2, NextBlockKeeps DEF PbqtBlock, PebbBlock
  <2>3. CASE PebbGivesUp(p)
    BY <2>3, PebbGivesUpKeeps
  <2>. QED  BY <1>5, <2>1, <2>2, <2>3 DEF DoTransfer
<1>6. CASE UNCHANGED vars
  BY <1>6, StutterKeeps
<1>. QED  BY <1>1, <1>2, <1>3, <1>4, <1>5, <1>6 DEF Next, MainThread, Done

\* The invariant holds, for any list of pbqt and pebb actions.
THEOREM BandwidthInvHolds == Spec => []BandwidthInv
<1>. QED  BY BandwidthInvInit, NextKeeps, PTL DEF Spec

\* Every variable of a bandwidth action keeps its type.
THEOREM TypeCorrect == Spec => []TypeOK
BY BandwidthInvHolds, BandwidthInvShows, PTL

\* However the samplers, the transfers and the final report interleave, every
\* block transferred is counted exactly once (get_running_data and
\* get_final_data under cntmutex).
THEOREM CountedOnceHolds == Spec => []CountedOnce
BY BandwidthInvHolds, BandwidthInvShows, PTL

\* When run() prints the totals and deletes the workers, no thread and no timer
\* is left that could use them.
THEOREM QuietAtTheEndHolds == Spec => []QuietAtTheEnd
BY BandwidthInvHolds, BandwidthInvShows, PTL

\* The totals print_final_average prints are those of all blocks transferred.
THEOREM ReportCompleteHolds == Spec => []ReportComplete
BY BandwidthInvHolds, BandwidthInvShows, PTL

\* Nothing that is transferred is counted twice or lost on its way to the report.
THEOREM AllCountedHolds == Spec => []AllCounted
<1>1. CountedOnce /\ ReportComplete => AllCounted
  BY DEF AllCounted
<1>. QED  BY <1>1, CountedOnceHolds, ReportCompleteHolds, PTL

-----------------------------------------------------------------------------
(* pebb without a duration: every iteration transfers.                     *)

Timeless == conf.module = "pebb" /\ ~conf.duration

\* There are no timers then, and only main resets brun, when the time is over.
Steady ==
    /\ pc # "iterate" => clock = "over"
    /\ final.at = "off" /\ sampler.at = "off"
    /\ pc \in {"round", "single", "transfer", "stopping", "start", "join"} => brun

\* Main, or its thread, is done with pair p in this iteration.
DoneWith(p) ==
    \/ pc \in {"single", "transfer", "stopping", "join"} /\ p < cur
    \/ pc = "stopping" /\ p = cur
    \/ pc = "transfer" /\ p = cur /\ blk[p] = 0
    \/ thread[p] = "transfer" /\ blk[p] = 0
    \/ thread[p] = "exited"
    \/ pc \in {"time", "average", "signal", "timers", "again"}

\* Main has started a thread for pair p that it has not joined.
Started(p) == (pc = "start" /\ p < cur) \/ (pc = "join" /\ p >= cur)

\* A pair in do_transfer has its brun, and has moved a block after the first.
Went(p) ==
    /\ blk[p] # 0 => wbrun[p] /\ (blk[p] # 1 => inIter[p] > 0)
    /\ DoneWith(p) => inIter[p] > 0
    /\ Started(p) => thread[p] # "none"

MovingInv ==
    Timeless => Steady /\ (~stopping /\ ~failed => \A p \in Pairs : Went(p))

\* Who changes the action, and who asks for a stop or fails, is plain.
LEMMA ActionKept ==
  ASSUME [Next]_vars
  PROVE  conf' = conf /\ (stopping => stopping') /\ (failed => failed')
<1>1. CASE Main
  BY <1>1 DEF Main, Iterate, Round, SingleDone, SingleSampled, SingleStopping, StartThread,
     JoinThread, TakeTime, FinalAverage, SignalWorker, StopTimers, NextIteration, Report,
     envVars, copyVars
<1>2. CASE Final \/ Sampler \/ Elapse \/ StopRequested \/ UNCHANGED vars
  BY <1>2 DEF Final, Sampler, FinalFires, FinalSignals, SamplerFires, SamplerSamples, Elapse,
     StopRequested, vars, envVars, copyVars
<1>3. CASE PbqtSingle \/ PebbSingle
  BY <1>3 DEF PbqtSingle, PebbSingle, EnterSingle, envVars
<1>4. ASSUME NEW p \in Pairs, WorkerThread(p)
      PROVE  conf' = conf /\ (stopping => stopping') /\ (failed => failed')
  BY <1>4 DEF WorkerThread, Worker, ThreadBegins, ThreadLoops, PbqtThread, PebbThread,
     EnterThread, envVars, copyVars
<1>5. ASSUME NEW p \in Pairs, DoTransfer(p)
      PROVE  conf' = conf /\ (stopping => stopping') /\ (failed => failed')
  BY <1>5 DEF DoTransfer, Transfer, BlockSent, BlockFails, TransferReturns, PbqtBlock,
     PebbBlock, NextBlock, PebbGivesUp, envVars
<1>. QED  BY <1>1, <1>2, <1>3, <1>4, <1>5 DEF Next, MainThread, Done

LEMMA SteadyKeeps ==
  ASSUME Timeless, Steady, [Next]_vars
  PROVE  Steady'
<1>1. CASE Iterate
  BY <1>1 DEF Timeless, Steady, Iterate, Goes, At, timerVars
<1>2. CASE Round \/ SingleDone \/ SingleSampled \/ SingleStopping \/ StartThread \/ JoinThread
  BY <1>2 DEF Steady, Round, SingleDone, SingleSampled, SingleStopping, StartThread,
     JoinThread, Goes, At, timerVars, envVars
<1>3. CASE TakeTime \/ FinalAverage \/ SignalWorker \/ NextIteration \/ Report
  BY <1>3 DEF Steady, TakeTime, FinalAverage, SignalWorker, NextIteration, Report, Goes, At,
     timerVars, envVars
<1>4. CASE StopTimers
  BY <1>4 DEF Steady, StopTimers, Goes, At, timerVars, envVars
<1>5. CASE Final \/ Sampler \/ Elapse
  BY <1>5 DEF Timeless, Steady, Final, Sampler, FinalFires, FinalSignals, SamplerFires,
     SamplerSamples, Elapse
<1>6. CASE StopRequested \/ UNCHANGED vars
  BY <1>6 DEF Steady, StopRequested, vars, mainVars, envVars, timerVars
<1>7. CASE PbqtSingle \/ PebbSingle
  BY <1>7 DEF Steady, PbqtSingle, PebbSingle, EnterSingle, Goes, At, envVars, timerVars
<1>8. ASSUME NEW p \in Pairs, WorkerThread(p)
      PROVE  Steady'
  BY <1>8 DEF Steady, WorkerThread, Worker, ThreadBegins, ThreadLoops, PbqtThread, PebbThread,
     EnterThread, envVars, mainVars, timerVars
<1>9. ASSUME NEW p \in Pairs, DoTransfer(p)
      PROVE  Steady'
  BY <1>9 DEF Steady, DoTransfer, Transfer, BlockSent, BlockFails, TransferReturns, PbqtBlock,
     PebbBlock, NextBlock, PebbGivesUp, envVars, mainVars, timerVars
<1>. QED  BY <1>1, <1>2, <1>3, <1>4, <1>5, <1>6, <1>7, <1>8, <1>9
          DEF Next, MainThread, Main, Done

\* What is plain of the places of a pair while nothing failed.
LEMMA PairFacts ==
  ASSUME BandwidthInv, NEW p \in Pairs
  PROVE  /\ N \in Nat \ {0} /\ p \in Nat /\ p >= 1 /\ p <= N /\ cur \in Nat /\ cur >= 1
         /\ inIter[p] \in Nat /\ blk[p] \in Nat
         /\ pc \notin {"start", "join"} => thread[p] = "none"
         /\ pc = "start" /\ p >= cur => thread[p] = "none"
         /\ pc = "join" /\ p < cur => thread[p] = "none"
         /\ blk[p] # 0 => thread[p] = "transfer" \/ (pc = "transfer" /\ cur = p)
         /\ sending[p] => blk[p] # 0
<1>1. N \in Nat \ {0} /\ Blocks \in Nat \ {0}
  BY Constants DEF BandwidthInv, TypeEnv
<1>2. p \in 1..N /\ cur \in 1..(N + 1) /\ inIter[p] \in Nat /\ blk[p] \in 0..(Blocks + 1)
  BY DEF BandwidthInv, TypeMain, TypeCopies, Pairs
<1>3. /\ pc \notin {"start", "join"} => thread[p] = "none"
      /\ pc = "start" /\ p >= cur => thread[p] = "none"
      /\ pc = "join" /\ p < cur => thread[p] = "none"
  BY DEF BandwidthInv, ThreadsJoined
<1>4. /\ blk[p] # 0 => thread[p] = "transfer" \/ (pc = "transfer" /\ cur = p)
      /\ sending[p] => blk[p] \in 1..Blocks
  BY DEF BandwidthInv, TransfersOwned
<1>. QED  BY <1>1, <1>2, <1>3, <1>4

\* The steps of main that leave the pairs alone.
LEMMA MainWent ==
  ASSUME BandwidthInv, BandwidthInv', Steady, NEW p \in Pairs, p \in Pairs', Went(p), ~stopping,
         Main \/ StopRequested \/ UNCHANGED vars, ~stopping'
  PROVE  Went(p)'
<1>0. /\ N \in Nat \ {0} /\ p \in Nat /\ p >= 1 /\ p <= N /\ cur \in Nat /\ cur >= 1
      /\ inIter[p] \in Nat /\ blk[p] \in Nat
      /\ pc \notin {"start", "join"} => thread[p] = "none"
      /\ pc = "start" /\ p >= cur => thread[p] = "none"
      /\ blk[p] # 0 => thread[p] = "transfer" \/ (pc = "transfer" /\ cur = p)
  BY PairFacts
<1>1. CASE Iterate
  <2>1. /\ pc = "iterate" /\ pc' = "round" /\ UNCHANGED <<thread, blk>>
    BY <1>1 DEF Iterate, Goes, At, workerVars
  <2>2. thread[p] = "none" /\ blk[p] = 0
    BY <1>0, <2>1
  <2>. QED  BY <2>1, <2>2 DEF Went, DoneWith, Started
<1>2. ASSUME UNCHANGED <<blk, wbrun, inIter, thread>>, Started(p)' => thread[p] # "none",
             DoneWith(p)' => DoneWith(p)
      PROVE  Went(p)'
  BY <1>2 DEF Went
<1>3. CASE Round \/ SingleDone \/ TakeTime \/ FinalAverage \/ StopTimers
  <2>1. UNCHANGED <<blk, wbrun, inIter, thread>> /\ ~Started(p)'
    BY <1>0, <1>3 DEF Round, SingleDone, TakeTime, FinalAverage, StopTimers, Goes, At, Started,
       workerVars, copyVars
  <2>2. DoneWith(p)' => DoneWith(p)
    BY <1>0, <1>3 DEF Round, SingleDone, TakeTime, FinalAverage, StopTimers, Goes, At, DoneWith,
       Steady, workerVars, copyVars
  <2>. QED  BY <1>2, <2>1, <2>2
<1>4. CASE SingleSampled \/ SingleStopping \/ NextIteration \/ Report
  <2>1. UNCHANGED <<blk, wbrun, inIter, thread>> /\ ~Started(p)'
    BY <1>0, <1>4 DEF SingleSampled, SingleStopping, NextIteration, Report, Goes, At, Started,
       workerVars, copyVars
  <2>2. DoneWith(p)' => DoneWith(p)
    BY <1>0, <1>4 DEF SingleSampled, SingleStopping, NextIteration, Report, Goes, At, DoneWith,
       workerVars, copyVars
  <2>. QED  BY <1>2, <2>1, <2>2
<1>5. CASE StartThread
  <2>1. pc = "start" /\ UNCHANGED <<blk, wbrun, inIter>>
    BY <1>5 DEF StartThread, At, copyVars
  <2>2. CASE cur > N
    <3>1. pc' = "join" /\ cur' = 1 /\ thread' = thread
      BY <1>0, <1>5, <2>2 DEF StartThread, Goes, Pairs
    <3>2. Started(p)
      BY <1>0, <2>1, <2>2 DEF Started
    <3>3. thread[p] # "none"
      BY <3>2 DEF Went
    <3>4. DoneWith(p)' => DoneWith(p)
      BY <1>0, <2>1, <3>1 DEF DoneWith
    <3>. QED  BY <1>2, <2>1, <3>1, <3>3, <3>4
  <2>3. CASE ~(cur > N)
    <3>1. /\ pc' = "start" /\ cur' = cur + 1 /\ cur \in Pairs
          /\ thread' = [thread EXCEPT ![cur] = "begin"]
      BY <1>5, <2>3 DEF StartThread, Goes
    <3>2. thread'[p] = IF p = cur THEN "begin" ELSE thread[p]
      BY <3>1 DEF BandwidthInv, TypeWorkers
    <3>3. Started(p)' => thread'[p] # "none"
      BY <1>0, <2>1, <3>1, <3>2 DEF Started, Went
    <3>4. DoneWith(p)' => DoneWith(p)
      BY <2>1, <3>1, <3>2 DEF DoneWith
    <3>. QED  BY <2>1, <3>3, <3>4 DEF Went
  <2>. QED  BY <2>2, <2>3
<1>6. CASE JoinThread
  <2>1. pc = "join" /\ UNCHANGED <<blk, wbrun, inIter>>
    BY <1>6 DEF JoinThread, At, copyVars
  <2>2. CASE cur > N
    <3>1. pc' = "time" /\ thread' = thread
      BY <1>0, <1>6, <2>2 DEF JoinThread, Goes, Pairs
    <3>2. DoneWith(p) /\ ~Started(p)'
      BY <1>0, <2>1, <2>2, <3>1 DEF DoneWith, Started
    <3>. QED  BY <1>2, <2>1, <3>1, <3>2
  <2>3. CASE ~(cur > N)
    <3>1. /\ pc' = "join" /\ cur' = cur + 1 /\ cur \in Pairs /\ thread[cur] = "exited"
          /\ thread' = [thread EXCEPT ![cur] = "none"]
      BY <1>6, <2>3 DEF JoinThread, Goes
    <3>2. thread'[p] = IF p = cur THEN "none" ELSE thread[p]
      BY <3>1 DEF BandwidthInv, TypeWorkers
    <3>3. Started(p)' => thread'[p] # "none"
      BY <1>0, <2>1, <3>1, <3>2 DEF Started, Went
    <3>4. DoneWith(p)' => DoneWith(p)
      BY <1>0, <2>1, <3>1, <3>2 DEF DoneWith
    <3>. QED  BY <2>1, <3>3, <3>4 DEF Went
  <2>. QED  BY <2>2, <2>3
<1>7. CASE SignalWorker
  <2>1. pc = "signal" /\ pc' \in {"signal", "timers"} /\ UNCHANGED <<blk, inIter, thread>>
    BY <1>7 DEF SignalWorker, Goes, At, copyVars
  <2>2. blk[p] = 0 /\ DoneWith(p) /\ ~Started(p)'
    BY <1>0, <2>1 DEF DoneWith, Started
  <2>. QED  BY <2>1, <2>2 DEF Went
<1>8. CASE StopRequested \/ UNCHANGED vars
  <2>1. UNCHANGED <<pc, cur, blk, wbrun, inIter, thread>>
    BY <1>8 DEF StopRequested, vars, mainVars, workerVars, copyVars
  <2>. QED  BY <2>1 DEF Went, DoneWith, Started
<1>. QED  BY <1>1, <1>3, <1>4, <1>5, <1>6, <1>7, <1>8 DEF Main

\* The begin of do_transfer of pebb, in main or in a thread.
LEMMA EnterWent ==
  ASSUME BandwidthInv, NEW p \in Pairs, Went(p), NEW q \in Pairs, blk' = [blk EXCEPT ![q] = 1],
         wbrun' = [wbrun EXCEPT ![q] = TRUE], UNCHANGED inIter,
         \/ /\ pc = "single" /\ pc' = "transfer" /\ q = cur /\ UNCHANGED <<cur, thread>>
         \/ /\ thread[q] = "loop" /\ thread' = [thread EXCEPT ![q] = "transfer"]
            /\ UNCHANGED <<pc, cur>>
  PROVE  Went(p)'
<1>0. /\ p \in Nat /\ cur \in Nat
      /\ pc \notin {"start", "join"} => thread[p] = "none"
  BY PairFacts
<1>1. /\ blk'[p] = IF p = q THEN 1 ELSE blk[p]
      /\ wbrun'[p] = IF p = q THEN TRUE ELSE wbrun[p]
  <2>1. blk'[p] = IF p = q THEN 1 ELSE blk[p]
    BY DEF BandwidthInv, TypeCopies
  <2>2. wbrun'[p] = IF p = q THEN TRUE ELSE wbrun[p]
    BY DEF BandwidthInv, TypeWorkers
  <2>. QED  BY <2>1, <2>2
<1>2. blk'[p] # 0 => wbrun'[p] /\ (blk'[p] # 1 => inIter'[p] > 0)
  BY <1>1 DEF Went
<1>3. CASE /\ pc = "single" /\ pc' = "transfer" /\ q = cur /\ UNCHANGED <<cur, thread>>
  <2>1. DoneWith(p)' => DoneWith(p)
    BY <1>0, <1>1, <1>3 DEF DoneWith
  <2>. QED  BY <1>2, <1>3, <2>1 DEF Went, Started
<1>4. CASE /\ thread[q] = "loop" /\ thread' = [thread EXCEPT ![q] = "transfer"]
           /\ UNCHANGED <<pc, cur>>
  <2>1. thread'[p] = IF p = q THEN "transfer" ELSE thread[p]
    BY <1>4 DEF BandwidthInv, TypeWorkers
  <2>2. pc \in {"start", "join"} /\ (pc = "start" \/ pc = "join")
    <3>1. pc \notin {"start", "join"} => thread[q] = "none"
      BY PairFacts
    <3>. QED  BY <1>4, <3>1
  <2>3. DoneWith(p)' => DoneWith(p)
    BY <1>0, <1>1, <1>4, <2>1, <2>2 DEF DoneWith
  <2>4. Started(p)' => thread'[p] # "none"
    BY <1>4, <2>1 DEF Went, Started
  <2>. QED  BY <1>2, <2>3, <2>4 DEF Went
<1>. QED  BY <1>3, <1>4

\* A thread, or do_transfer, of pair q.
LEMMA WorkerWent ==
  ASSUME BandwidthInv, NEW p \in Pairs, Went(p), NEW q \in Pairs, Worker(q), Steady, Went(q)
  PROVE  Went(p)'
<1>1. UNCHANGED <<pc, cur, blk, inIter>>
  BY DEF Worker, ThreadBegins, ThreadLoops, mainVars, copyVars
<1>2. CASE ThreadBegins(q)
  <2>1. wbrun'[p] = IF p = q THEN TRUE ELSE wbrun[p]
    BY <1>2 DEF ThreadBegins, BandwidthInv, TypeWorkers
  <2>2. thread'[p] = IF p = q THEN "loop" ELSE thread[p]
    BY <1>2 DEF ThreadBegins, BandwidthInv, TypeWorkers
  <2>3. thread[q] = "begin"
    BY <1>2 DEF ThreadBegins
  <2>4. DoneWith(p)' => DoneWith(p)
    BY <1>1, <2>2 DEF DoneWith
  <2>5. Started(p)' => thread'[p] # "none"
    BY <1>1, <2>2 DEF Started, Went
  <2>. QED  BY <1>1, <2>1, <2>4, <2>5 DEF Went
<1>3. CASE ThreadLoops(q)
  <2>1. /\ thread[q] = "transfer" /\ blk[q] = 0 /\ UNCHANGED wbrun
        /\ thread' \in {[thread EXCEPT ![q] = "exited"], [thread EXCEPT ![q] = "loop"]}
    BY <1>3 DEF ThreadLoops
  <2>2. thread'[p] \in IF p = q THEN {"exited", "loop"} ELSE {thread[p]}
    BY <2>1 DEF BandwidthInv, TypeWorkers
  <2>3. DoneWith(p)' => DoneWith(p)
    BY <1>1, <2>1, <2>2 DEF DoneWith
  <2>4. Started(p)' => thread'[p] # "none"
    BY <1>1, <2>2 DEF Started, Went
  <2>. QED  BY <1>1, <2>1, <2>3, <2>4 DEF Went
<1>. QED  BY <1>2, <1>3 DEF Worker

LEMMA TransferWent ==
  ASSUME BandwidthInv, NEW p \in Pairs, Went(p), NEW q \in Pairs, DoTransfer(q), Went(q),
         conf.module = "pebb", ~stopping, ~failed'
  PROVE  Went(p)'
<1>0. /\ inIter[p] \in Nat /\ blk[p] \in Nat /\ inIter[q] \in Nat /\ blk[q] \in Nat
      /\ sending[q] => blk[q] # 0
      /\ Blocks \in Nat \ {0}
  BY PairFacts, Constants DEF BandwidthInv, TypeEnv
<1>1. UNCHANGED <<pc, cur, thread, wbrun>>
  BY DEF DoTransfer, Transfer, BlockSent, BlockFails, TransferReturns, PbqtBlock, PebbBlock,
     NextBlock, PebbGivesUp, mainVars, workerVars
<1>2. CASE PebbBlock(q)
  <2>1. UNCHANGED <<blk, inIter>>
    BY <1>2 DEF PebbBlock, NextBlock
  <2>. QED  BY <1>1, <2>1 DEF Went, DoneWith, Started
<1>3. CASE BlockSent(q)
  <2>1. sending[q] /\ blk' = [blk EXCEPT ![q] = blk[q] + 1]
        /\ inIter' = [inIter EXCEPT ![q] = inIter[q] + 1]
    BY <1>3 DEF BlockSent
  <2>2. /\ blk'[p] = IF p = q THEN blk[p] + 1 ELSE blk[p]
        /\ inIter'[p] = IF p = q THEN inIter[p] + 1 ELSE inIter[p]
    BY <2>1 DEF BandwidthInv, TypeCopies
  <2>3. CASE p = q
    <3>1. inIter'[p] > 0 /\ blk[p] # 0
      BY <1>0, <2>1, <2>2, <2>3
    <3>. QED  BY <1>1, <3>1 DEF Went, Started
  <2>4. CASE p # q
    BY <1>1, <2>2, <2>4 DEF Went, DoneWith, Started
  <2>. QED  BY <2>3, <2>4
<1>4. CASE TransferReturns(q)
  <2>1. /\ blk[q] # 0 /\ (blk[q] > Blocks \/ ~wbrun[q]) /\ UNCHANGED inIter
        /\ blk' = [blk EXCEPT ![q] = 0]
    BY <1>4 DEF TransferReturns
  <2>2. blk'[p] = IF p = q THEN 0 ELSE blk[p]
    BY <2>1 DEF BandwidthInv, TypeCopies
  <2>3. inIter[q] > 0
    <3>1. wbrun[q]
      BY <2>1 DEF Went
    <3>2. blk[q] > Blocks
      BY <2>1, <3>1
    <3>3. blk[q] # 1
      BY <1>0, <3>2
    <3>. QED  BY <2>1, <3>3 DEF Went
  <2>. QED  BY <1>1, <2>1, <2>2, <2>3 DEF Went, DoneWith, Started
<1>5. ~BlockFails(q) /\ ~PebbGivesUp(q) /\ ~PbqtBlock(q)
  BY DEF BlockFails, PebbGivesUp, PbqtBlock
<1>. QED  BY <1>2, <1>3, <1>4, <1>5 DEF DoTransfer, Transfer

LEMMA MovingKeeps ==
  ASSUME BandwidthInv, BandwidthInv', MovingInv, [Next]_vars
  PROVE  MovingInv'
<1>0. conf' = conf /\ (stopping => stopping') /\ (failed => failed') /\ Pairs' = Pairs
  BY ActionKept DEF Pairs, N
<1>. SUFFICES ASSUME Timeless' PROVE Steady' /\ (~stopping' /\ ~failed' => \A p \in Pairs' : Went(p)')
  BY DEF MovingInv
<1>1. Timeless /\ Steady /\ (~stopping /\ ~failed => \A p \in Pairs : Went(p))
  BY <1>0 DEF MovingInv, Timeless
<1>2. Steady'
  BY <1>1, SteadyKeeps
<1>3. ASSUME ~stopping', ~failed', NEW p \in Pairs PROVE Went(p)'
  <2>0. ~stopping /\ ~failed /\ p \in Pairs' /\ conf.module = "pebb" /\ Steady
        /\ \A q \in Pairs : Went(q)
    BY <1>0, <1>1, <1>3 DEF Timeless
  <2>1. CASE Main \/ StopRequested \/ UNCHANGED vars
    BY <1>3, <2>0, <2>1, MainWent
  <2>2. CASE PebbSingle
    <3>1. /\ cur \in Pairs /\ blk' = [blk EXCEPT ![cur] = 1] /\ wbrun' = [wbrun EXCEPT ![cur] = TRUE]
          /\ pc = "single" /\ pc' = "transfer" /\ UNCHANGED <<cur, thread, inIter>>
      BY <2>2 DEF PebbSingle, EnterSingle, At, Goes
    <3>. QED  BY <1>3, <2>0, <3>1, EnterWent
  <2>3. ASSUME NEW q \in Pairs, PebbThread(q) PROVE Went(p)'
    <3>1. /\ blk' = [blk EXCEPT ![q] = 1] /\ wbrun' = [wbrun EXCEPT ![q] = TRUE]
          /\ thread[q] = "loop" /\ thread' = [thread EXCEPT ![q] = "transfer"]
          /\ UNCHANGED <<pc, cur, inIter>>
      BY <2>3 DEF PebbThread, EnterThread, mainVars
    <3>. QED  BY <1>3, <2>0, <3>1, EnterWent
  <2>4. ASSUME NEW q \in Pairs, Worker(q) PROVE Went(p)'
    BY <1>3, <2>0, <2>4, WorkerWent
  <2>5. ASSUME NEW q \in Pairs, DoTransfer(q) PROVE Went(p)'
    BY <1>3, <2>0, <2>5, TransferWent
  <2>6. ~PbqtSingle /\ \A q \in Pairs : ~PbqtThread(q)
    BY <2>0 DEF PbqtSingle, PbqtThread
  <2>7. ~Final /\ ~Sampler /\ ~Elapse
    BY <1>1 DEF Final, Sampler, FinalFires, FinalSignals, SamplerFires, SamplerSamples, Elapse,
       Timeless, Steady
  <2>. QED  BY <2>1, <2>2, <2>3, <2>4, <2>5, <2>6, <2>7 DEF Next, MainThread, WorkerThread, Done
<1>. QED  BY <1>0, <1>2, <1>3

LEMMA MovingInit == Init => MovingInv
<1>. SUFFICES ASSUME Init PROVE MovingInv
  OBVIOUS
<1>1. Steady
  BY DEF Init, Steady
<1>2. ASSUME NEW p \in Pairs PROVE Went(p)
  <2>1. pc = "iterate" /\ thread[p] = "none" /\ blk[p] = 0
    BY DEF Init, Zero
  <2>. QED  BY <2>1 DEF Went, DoneWith, Started
<1>. QED  BY <1>1, <1>2 DEF MovingInv

\* With no duration every iteration of pebb transfers, for any number of pairs, blocks
\* and iterations: do_transfer sets the brun that the iteration before has reset.
THEOREM PebbIterationsTransferHolds == Spec => []PebbIterationsTransfer
<1>1. ASSUME BandwidthInv, MovingInv PROVE PebbIterationsTransfer
  BY <1>1 DEF MovingInv, Timeless, Went, DoneWith, PebbIterationsTransfer, EveryIterationTransfers
<1>2. BandwidthInv /\ BandwidthInv' /\ MovingInv /\ [Next]_vars => MovingInv'
  BY MovingKeeps
<1>. QED  BY <1>1, <1>2, MovingInit, BandwidthInvHolds, PTL DEF Spec

-----------------------------------------------------------------------------
(* The timers are used as TimerContract asks for.                          *)

\* The steps that start, stop or call back a timer, or in which its interval passes.
AtTimers == Iterate \/ StopTimers \/ Final \/ Sampler \/ Elapse

LEMMA TimersStay ==
  ASSUME [Next]_vars
  PROVE  AtTimers \/ UNCHANGED <<final, sampler, clock>>
<1>. USE DEF AtTimers
<1>1. CASE Main
  BY <1>1 DEF Main, Round, SingleDone, SingleSampled, SingleStopping, StartThread, JoinThread,
              TakeTime, FinalAverage, SignalWorker, NextIteration, Report, timerVars, envVars
<1>2. CASE PbqtSingle \/ PebbSingle
  BY <1>2 DEF PbqtSingle, PebbSingle, EnterSingle, timerVars, envVars
<1>3. ASSUME NEW p \in Pairs, WorkerThread(p) PROVE UNCHANGED <<final, sampler, clock>>
  BY <1>3 DEF WorkerThread, Worker, ThreadBegins, ThreadLoops, PbqtThread, PebbThread,
              EnterThread, timerVars, envVars
<1>4. ASSUME NEW p \in Pairs, DoTransfer(p) PROVE UNCHANGED <<final, sampler, clock>>
  BY <1>4 DEF DoTransfer, Transfer, BlockSent, BlockFails, TransferReturns, PbqtBlock,
              PebbBlock, PebbGivesUp, NextBlock, timerVars, envVars
<1>5. CASE StopRequested \/ Done \/ UNCHANGED vars
  BY <1>5 DEF StopRequested, Done, vars, timerVars, envVars
<1>. QED  BY <1>1, <1>2, <1>3, <1>4, <1>5 DEF Next, MainThread

\* A callback that waits for nothing but its turn, and a stop() that waits for it.
LEMMA FinalSteps ==
  ASSUME BandwidthInv, [Next]_vars
  PROVE  [FinalTimer!ProperNext]_(FinalTimer!contractVars)
<1>0. final.at \in {"off", "armed", "calling", "fired"}
  BY DEF BandwidthInv, TypeTimers, Timers
<1>1. CASE UNCHANGED <<final, clock>>
  BY <1>1 DEF FinalTimer!contractVars, FinalPhase
<1>2. CASE Iterate
  <2>1. final.at = "off" /\ FinalPhase = "off"
    BY <1>2 DEF Iterate, At, BandwidthInv, TimersOff, FinalPhase
  <2>2. FinalPhase' \in {"off", "armed"}
    BY <1>2, <2>1 DEF Iterate, timerVars, FinalPhase
  <2>3. FinalPhase' = FinalPhase \/ FinalTimer!Started
    BY <2>1, <2>2 DEF FinalTimer!Started, FinalTimer!Begins
  <2>. QED  BY <2>3 DEF FinalTimer!ProperNext, FinalTimer!contractVars
<1>3. CASE StopTimers
  <2>1. UNCHANGED final \/ (final.at \in {"armed", "fired"} /\ final'.at = "off")
    BY <1>0, <1>3 DEF StopTimers, timerVars, BandwidthInv, TypeTimers, Timers
  <2>2. clock' = clock
    BY <1>3 DEF StopTimers, envVars
  <2>3. \/ FinalPhase' = FinalPhase
        \/ FinalPhase \in {"armed", "due", "fired"} /\ FinalPhase' = "off"
    BY <2>1, <2>2 DEF FinalPhase
  <2>4. FinalPhase' = FinalPhase \/ FinalTimer!Stopped
    BY <2>3 DEF FinalTimer!Stopped
  <2>. QED  BY <2>4 DEF FinalTimer!ProperNext, FinalTimer!contractVars
<1>4. CASE FinalFires
  <2>1. FinalPhase = "due" /\ FinalPhase' = "calling"
    BY <1>4 DEF FinalFires, FinalPhase
  <2>2. FinalTimer!Called
    BY <2>1 DEF FinalTimer!Called
  <2>. QED  BY <2>2 DEF FinalTimer!ProperNext
<1>5. CASE FinalSignals
  <2>1. final.at = "calling" /\ final'.at \in {"calling", "fired"}
    BY <1>5 DEF FinalSignals, BandwidthInv, TypeTimers, Timers
  <2>2. FinalPhase = "calling" /\ FinalPhase' \in {"calling", "fired"}
    BY <2>1 DEF FinalPhase
  <2>3. FinalPhase' = FinalPhase \/ FinalTimer!Returned
    BY <2>2 DEF FinalTimer!Returned
  <2>. QED  BY <2>3 DEF FinalTimer!ProperNext, FinalTimer!contractVars
<1>6. CASE Sampler
  BY <1>1, <1>6 DEF Sampler, SamplerFires, SamplerSamples, envVars
<1>7. CASE Elapse
  <2>1. final' = final /\ clock' # "before"
    BY <1>7 DEF Elapse, timerVars
  <2>2. FinalPhase' = FinalPhase \/ (FinalPhase = "armed" /\ FinalPhase' = "due")
    BY <2>1 DEF FinalPhase
  <2>3. FinalPhase' = FinalPhase \/ FinalTimer!Passed
    BY <2>2 DEF FinalTimer!Passed
  <2>. QED  BY <2>3 DEF FinalTimer!ProperNext, FinalTimer!contractVars
<1>. QED  BY <1>1, <1>2, <1>3, <1>4, <1>5, <1>6, <1>7, TimersStay DEF AtTimers, Final

LEMMA SamplerSteps ==
  ASSUME BandwidthInv, [Next]_vars
  PROVE  [SamplerTimer!ProperNext]_(SamplerTimer!contractVars)
<1>0. sampler.at \in {"off", "armed", "calling", "fired"}
  BY DEF BandwidthInv, TypeTimers, Timers
<1>1. CASE UNCHANGED sampler
  BY <1>1 DEF SamplerTimer!contractVars, SamplerPhase
<1>2. CASE Iterate
  <2>1. sampler.at = "off" /\ SamplerPhase = "off"
    BY <1>2 DEF Iterate, At, BandwidthInv, TimersOff, SamplerPhase
  <2>2. SamplerPhase' \in {"off", "due"}
    BY <1>2, <2>1 DEF Iterate, timerVars, SamplerPhase
  <2>3. SamplerPhase' = SamplerPhase \/ SamplerTimer!Started
    BY <2>1, <2>2 DEF SamplerTimer!Started, SamplerTimer!Begins
  <2>. QED  BY <2>3 DEF SamplerTimer!ProperNext, SamplerTimer!contractVars
<1>3. CASE StopTimers
  <2>1. UNCHANGED sampler \/ (sampler.at = "armed" /\ sampler'.at = "off")
    BY <1>0, <1>3 DEF StopTimers, timerVars, BandwidthInv, TypeTimers, Timers
  <2>2. \/ SamplerPhase' = SamplerPhase
        \/ SamplerPhase = "due" /\ SamplerPhase' = "off"
    BY <2>1 DEF SamplerPhase
  <2>3. SamplerPhase' = SamplerPhase \/ SamplerTimer!Stopped
    BY <2>2 DEF SamplerTimer!Stopped
  <2>. QED  BY <2>3 DEF SamplerTimer!ProperNext, SamplerTimer!contractVars
<1>4. CASE SamplerFires
  <2>1. SamplerPhase = "due" /\ SamplerPhase' = "calling"
    BY <1>4 DEF SamplerFires, SamplerPhase
  <2>2. SamplerTimer!Called
    BY <2>1 DEF SamplerTimer!Called
  <2>. QED  BY <2>2 DEF SamplerTimer!ProperNext
<1>5. CASE SamplerSamples
  <2>1. sampler.at = "calling" /\ sampler'.at \in {"calling", "armed"}
    BY <1>5 DEF SamplerSamples, BandwidthInv, TypeTimers, Timers
  <2>2. SamplerPhase = "calling" /\ SamplerPhase' \in {"calling", "due"}
    BY <2>1 DEF SamplerPhase
  <2>3. SamplerPhase' = SamplerPhase \/ SamplerTimer!Returned
    BY <2>2 DEF SamplerTimer!Returned, SamplerTimer!Begins
  <2>. QED  BY <2>3 DEF SamplerTimer!ProperNext, SamplerTimer!contractVars
<1>6. CASE Final \/ Elapse
  BY <1>1, <1>6 DEF Final, FinalFires, FinalSignals, Elapse, timerVars
<1>. QED  BY <1>1, <1>2, <1>3, <1>4, <1>5, <1>6, TimersStay DEF AtTimers, Sampler

\* For any number of pairs and iterations, with both timers calling back at any moment:
\* run() starts a timer only when it is off and stops it out of no callback, and both are
\* off and every thread joined when print_final_average reads the totals.
THEOREM TimersWellUsedHolds == Spec => TimersWellUsed
<1>1. Init => FinalTimer!ContractInit /\ SamplerTimer!ContractInit
  BY DEF Init, FinalTimer!ContractInit, SamplerTimer!ContractInit, FinalPhase, SamplerPhase
<1>2. BandwidthInv /\ [Next]_vars => [FinalTimer!ProperNext]_(FinalTimer!contractVars)
  BY FinalSteps
<1>3. BandwidthInv /\ [Next]_vars => [SamplerTimer!ProperNext]_(SamplerTimer!contractVars)
  BY SamplerSteps
<1>. QED  BY <1>1, <1>2, <1>3, BandwidthInvHolds, QuietAtTheEndHolds, PTL
          DEF Spec, TimersWellUsed, FinalTimer!ProperSpec, SamplerTimer!ProperSpec
=============================================================================
