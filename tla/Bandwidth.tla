----------------------------- MODULE Bandwidth -----------------------------
(***************************************************************************)
(* What the bandwidth actions pbqt and pebb have in common: run() repeats  *)
(* the transfers of every pair of test_array, one pair after the other or  *)
(* in a thread per pair, until the test duration is over, "count" times;   *)
(* a final timer signals the end, a running timer samples the counters     *)
(* meanwhile, and the totals are printed at the end.                       *)
(*                                                                         *)
(* The threads that meet here are the action's (main), one per pair when   *)
(* the action is parallel, and those of timer_final and timer_running,     *)
(* which keep the contract of module TimerContract: no callback before its *)
(* interval has passed, none after stop().  Bytes are counted in blocks;   *)
(* the time that goes with them is counted along with them.                *)
(***************************************************************************)
EXTENDS Naturals

CONSTANTS Configs,   \* the actions to run, as read from the properties
          Stops,     \* whether somebody may request a stop
          MaxMoved   \* bound: blocks a pair moves before the time is over

\* What run() is given: the module, the pairs of test_array, block_size.size(),
\* count, parallel, and whether duration and log_interval are set.
ActionConfig ==
    [module : {"pbqt", "pebb"}, pairs : Nat \ {0}, blocks : Nat \ {0},
     count : Nat, parallel : BOOLEAN, duration : BOOLEAN,
     logInterval : BOOLEAN]

ASSUME ConfigsAssumption == Configs \subseteq ActionConfig
ASSUME BoundsAssumption == Stops \in BOOLEAN /\ MaxMoved \in Nat \ {0}

\* Every pair of every action, for a fairness that does not depend on the state.
AllPairs == UNION {1..c.pairs : c \in Configs}

VARIABLES conf,     \* the action's properties
          pc,       \* where main is in run()
          cur,      \* the pair main is at
          iter,     \* iterations left
          brun,     \* the action's brun
          sts,      \* what run() returns
          clock,    \* the test duration: "before", "due", "up", "over"
          stopping, \* rvs::lp::Stopping()
          wbrun,    \* per pair, the worker's brun
          thread,   \* per pair, where its thread is in run()
          blk,      \* per pair, the block do_transfer is at; 0: not in it
          sending,  \* per pair, SendTraffic is under way
          running,  \* per pair, running_size
          total,    \* per pair, total_size
          final,    \* timer_final
          sampler,  \* timer_running
          moved,    \* per pair, blocks transferred (history)
          inIter,   \* per pair, blocks transferred in this iteration (history)
          failed,   \* a transfer has failed (history)
          reported  \* per pair, blocks in the final report (history)

mainVars   == <<pc, cur, iter, brun, sts>>
workerVars == <<wbrun, thread>>
copyVars   == <<blk, sending, moved, inIter, failed>>
countVars  == <<running, total, reported>>
timerVars  == <<final, sampler>>
envVars    == <<conf, clock, stopping>>
vars == <<envVars, mainVars, workerVars, copyVars, countVars, timerVars>>

N      == conf.pairs
Pairs  == 1..N
Blocks == conf.blocks

Zero == [p \in Pairs |-> 0]

Init ==
    /\ conf \in Configs
    /\ pc = "iterate" /\ cur = 1 /\ brun = FALSE /\ sts = 0
    /\ iter = IF conf.count > 0 THEN conf.count ELSE 1
    /\ clock = "before"
    /\ stopping = FALSE
    /\ wbrun = [p \in Pairs |-> TRUE]
    /\ thread = [p \in Pairs |-> "none"]
    /\ blk = Zero /\ sending = [p \in Pairs |-> FALSE]
    /\ moved = Zero /\ inIter = Zero /\ failed = FALSE
    /\ running = Zero /\ total = Zero /\ reported = Zero
    /\ final = [at |-> "off", p |-> 1]
    /\ sampler = [at |-> "off", p |-> 1]

At(here) == pc = here
Goes(to) == pc' = to /\ UNCHANGED <<iter, sts>>

-----------------------------------------------------------------------------
(* The counters of a pair, each access under its cntmutex.                 *)

\* Seeded fault: the running totals are not reset.
GetRunningUncleared(p) ==
    /\ total' = [total EXCEPT ![p] = @ + running[p]]
    /\ UNCHANGED <<running, reported>>

\* Seeded fault: the running totals are reset, but not added to the final ones.
GetRunningDropped(p) ==
    /\ running' = [running EXCEPT ![p] = 0]
    /\ UNCHANGED <<total, reported>>

\* get_running_data: the running totals move to the final ones.
GetRunningData(p) ==
    /\ total' = [total EXCEPT ![p] = @ + running[p]]
    /\ running' = [running EXCEPT ![p] = 0]
    /\ UNCHANGED reported

\* Seeded fault: what was not sampled yet is left out of the sum.
GetFinalStale(p) ==
    /\ reported' = [reported EXCEPT ![p] = total[p]]
    /\ running' = [running EXCEPT ![p] = 0]
    /\ total' = [total EXCEPT ![p] = 0]

\* get_final_data, with bReset: the sum is handed out and both are cleared.
GetFinalData(p) ==
    /\ reported' = [reported EXCEPT ![p] = total[p] + running[p]]
    /\ running' = [running EXCEPT ![p] = 0]
    /\ total' = [total EXCEPT ![p] = 0]

-----------------------------------------------------------------------------
(* do_transfer, in main or in the thread of pair p.                        *)

\* The clock allows another block: the bound on what is moved in time.
InTime(p) == inIter[p] < MaxMoved \/ clock = "over"

\* Seeded fault: the loop runs to i <= block_size.size().
NextBlockBeyond(p) ==
    /\ blk[p] \in 1..(Blocks + 1) /\ ~sending[p] /\ wbrun[p] /\ InTime(p)
    /\ sending' = [sending EXCEPT ![p] = TRUE]
    /\ UNCHANGED <<envVars, mainVars, workerVars, blk, moved, inIter,
                   failed, countVars, timerVars>>

NextBlock(p) ==
    /\ blk[p] \in 1..Blocks /\ ~sending[p] /\ wbrun[p] /\ InTime(p)
    /\ sending' = [sending EXCEPT ![p] = TRUE]
    /\ UNCHANGED <<envVars, mainVars, workerVars, blk, moved, inIter,
                   failed, countVars, timerVars>>

\* SendTraffic succeeds and the block is counted ...
BlockSent(p) ==
    /\ sending[p]
    /\ sending' = [sending EXCEPT ![p] = FALSE]
    /\ blk' = [blk EXCEPT ![p] = @ + 1]
    /\ moved' = [moved EXCEPT ![p] = @ + 1]
    /\ inIter' = [inIter EXCEPT ![p] = @ + 1]
    /\ running' = [running EXCEPT ![p] = @ + 1]
    /\ UNCHANGED <<envVars, mainVars, workerVars, failed, total,
                   reported, timerVars>>

\* ... or fails, and do_transfer returns its status to nobody.
BlockFails(p) ==
    /\ sending[p]
    /\ sending' = [sending EXCEPT ![p] = FALSE]
    /\ blk' = [blk EXCEPT ![p] = 0]
    /\ failed' = TRUE
    /\ UNCHANGED <<envVars, mainVars, workerVars, moved, inIter,
                   countVars, timerVars>>

\* The loop over the block sizes ends.
TransferReturns(p) ==
    /\ blk[p] # 0 /\ ~sending[p]
    /\ blk[p] > Blocks \/ ~wbrun[p]
    /\ blk' = [blk EXCEPT ![p] = 0]
    /\ UNCHANGED <<envVars, mainVars, workerVars, sending, moved, inIter,
                   failed, countVars, timerVars>>

-----------------------------------------------------------------------------
(* run(), in the action's thread.                                          *)

\* An iteration begins: brun, the timers, the start time.
Iterate ==
    /\ At("iterate")
    /\ brun' = TRUE
    /\ Goes("round") /\ UNCHANGED cur
    /\ inIter' = Zero
    /\ \/ /\ conf.duration
          /\ clock' = "before"
          /\ final' = [at |-> "armed", p |-> 1]
          /\ sampler' = [at |-> IF conf.logInterval THEN "armed" ELSE "off",
                         p |-> 1]
       \/ ~conf.duration /\ clock' = "over" /\ UNCHANGED timerVars
    /\ UNCHANGED <<conf, stopping, workerVars, blk, sending, moved, failed, countVars>>

Round ==
    /\ At("round")
    /\ cur' = 1
    /\ Goes(IF conf.parallel THEN "start" ELSE "single") /\ UNCHANGED brun
    /\ UNCHANGED <<envVars, workerVars, copyVars, countVars, timerVars>>

\* run_single ends: the list is done or the action is to stop.
SingleDone ==
    /\ At("single")
    /\ ~brun \/ cur > N
    /\ Goes("time") /\ UNCHANGED <<cur, brun>>
    /\ UNCHANGED <<envVars, workerVars, copyVars, countVars, timerVars>>

\* run_single: do_transfer has returned, the pair is sampled if there is no
\* log interval.
SingleSampled ==
    /\ At("transfer")
    /\ cur \in Pairs
    /\ blk[cur] = 0
    /\ Goes("stopping") /\ UNCHANGED <<cur, brun>>
    /\ \/ ~conf.logInterval /\ GetRunningData(cur)
       \/ conf.logInterval /\ UNCHANGED countVars
    /\ UNCHANGED <<envVars, workerVars, copyVars, timerVars>>

SingleStopping ==
    /\ At("stopping")
    /\ \/ stopping /\ brun' = FALSE /\ Goes("time") /\ UNCHANGED cur
       \/ ~stopping /\ Goes("single") /\ cur' = cur + 1 /\ UNCHANGED brun
    /\ UNCHANGED <<envVars, workerVars, copyVars, countVars, timerVars>>

\* run_parallel starts the threads one by one ...
StartThread ==
    /\ At("start")
    /\ UNCHANGED brun
    /\ \/ cur > N /\ Goes("join") /\ cur' = 1 /\ UNCHANGED thread
       \/ /\ cur \in Pairs
          /\ thread' = [thread EXCEPT ![cur] = "begin"]
          /\ cur' = cur + 1
          /\ Goes("start")
    /\ UNCHANGED <<envVars, wbrun, copyVars, countVars, timerVars>>

\* ... and joins them.
JoinThread ==
    /\ At("join")
    /\ UNCHANGED brun
    /\ \/ cur > N /\ Goes("time") /\ UNCHANGED <<cur, thread>>
       \/ /\ cur \in Pairs
          /\ thread[cur] = "exited"
          /\ thread' = [thread EXCEPT ![cur] = "none"]
          /\ cur' = cur + 1
          /\ Goes("join")
    /\ UNCHANGED <<envVars, wbrun, copyVars, countVars, timerVars>>

\* The time of a round is taken: over, the final average is done by main
\* itself; not over, another round follows while brun.
TakeTime ==
    /\ At("time")
    /\ \/ clock \in {"up", "over"} /\ Goes("average")
       \/ clock \in {"before", "due"} /\ Goes(IF brun THEN "round" ELSE "timers")
    /\ UNCHANGED <<cur, brun>>
    /\ UNCHANGED <<envVars, workerVars, copyVars, countVars, timerVars>>

\* do_final_average in main ...
FinalAverage ==
    /\ At("average")
    /\ brun' = FALSE
    /\ cur' = 1
    /\ Goes("signal")
    /\ UNCHANGED <<envVars, workerVars, copyVars, countVars, timerVars>>

\* ... which then signals the workers one by one.
SignalWorker ==
    /\ At("signal")
    /\ UNCHANGED brun
    /\ \/ cur > N /\ Goes("timers") /\ UNCHANGED <<cur, wbrun>>
       \/ /\ cur \in Pairs
          /\ wbrun' = [wbrun EXCEPT ![cur] = FALSE]
          /\ cur' = cur + 1
          /\ Goes("signal")
    /\ UNCHANGED <<envVars, thread, copyVars, countVars, timerVars>>

\* Seeded fault: the sampler is stopped without waiting for a callback.
StopTimersAtOnce ==
    /\ At("timers")
    /\ \/ /\ sampler.at \in {"armed", "calling"}
          /\ sampler' = [sampler EXCEPT !.at = "off"]
          /\ Goes("timers") /\ UNCHANGED final
       \/ /\ sampler.at = "off" /\ final.at \in {"armed", "fired"}
          /\ final' = [final EXCEPT !.at = "off"]
          /\ Goes("timers") /\ UNCHANGED sampler
       \/ /\ sampler.at = "off" /\ final.at = "off"
          /\ Goes("again") /\ UNCHANGED timerVars
    /\ UNCHANGED <<cur, brun>>
    /\ UNCHANGED <<envVars, workerVars, copyVars, countVars>>

\* timer_running.stop(), then timer_final.stop(): each waits for a callback.
StopTimers ==
    /\ At("timers")
    /\ \/ /\ sampler.at = "armed"
          /\ sampler' = [sampler EXCEPT !.at = "off"]
          /\ Goes("timers") /\ UNCHANGED final
       \/ /\ sampler.at = "off" /\ final.at \in {"armed", "fired"}
          /\ final' = [final EXCEPT !.at = "off"]
          /\ Goes("timers") /\ UNCHANGED sampler
       \/ /\ sampler.at = "off" /\ final.at = "off"
          /\ Goes("again") /\ UNCHANGED timerVars
    /\ UNCHANGED <<cur, brun>>
    /\ UNCHANGED <<envVars, workerVars, copyVars, countVars>>

\* Seeded fault: the iterations are not counted.
NextIterationUncounted ==
    /\ At("again")
    /\ \/ ~stopping /\ pc' = "iterate" /\ UNCHANGED <<sts, cur>>
       \/ stopping /\ pc' = "report" /\ sts' = 1 /\ cur' = 1
    /\ UNCHANGED <<envVars, iter, brun, workerVars, copyVars, countVars, timerVars>>

\* The iteration is over; the last one sets the status.
NextIteration ==
    /\ At("again")
    /\ iter' = iter - 1
    /\ \/ iter > 1 /\ ~stopping /\ pc' = "iterate" /\ UNCHANGED <<sts, cur>>
       \/ /\ iter = 1 \/ stopping
          /\ pc' = "report"
          /\ sts' = IF stopping THEN 1 ELSE 0
          /\ cur' = 1
    /\ UNCHANGED <<envVars, brun, workerVars, copyVars, countVars, timerVars>>

\* print_final_average, one pair after the other.
Report ==
    /\ At("report")
    /\ UNCHANGED brun
    /\ \/ cur > N /\ Goes("done") /\ UNCHANGED <<cur, countVars>>
       \/ /\ cur \in Pairs
          /\ GetFinalData(cur)
          /\ cur' = cur + 1
          /\ Goes("report")
    /\ UNCHANGED <<envVars, workerVars, copyVars, timerVars>>

-----------------------------------------------------------------------------
(* run() of a worker thread.                                               *)

\* The thread begins: brun is set, whatever was signalled before.
ThreadBegins(p) ==
    /\ thread[p] = "begin"
    /\ wbrun' = [wbrun EXCEPT ![p] = TRUE]
    /\ thread' = [thread EXCEPT ![p] = "loop"]
    /\ UNCHANGED <<envVars, mainVars, copyVars, countVars, timerVars>>

\* Seeded fault: the thread does not look at the time, only at brun.
ThreadLoopsUntimed(p) ==
    /\ thread[p] = "transfer" /\ blk[p] = 0
    /\ thread' = [thread EXCEPT ![p] = IF wbrun[p] THEN "loop" ELSE "exited"]
    /\ UNCHANGED <<envVars, mainVars, wbrun, copyVars, countVars, timerVars>>

\* do_transfer has returned: once more, until the duration is over (counted
\* from the start of this thread, which is later than main's) or brun is reset.
ThreadLoops(p) ==
    /\ thread[p] = "transfer" /\ blk[p] = 0
    /\ \/ /\ clock \in {"up", "over"} \/ ~wbrun[p]
          /\ thread' = [thread EXCEPT ![p] = "exited"]
       \/ /\ clock # "over" /\ wbrun[p]
          /\ thread' = [thread EXCEPT ![p] = "loop"]
    /\ UNCHANGED <<envVars, mainVars, wbrun, copyVars, countVars, timerVars>>

-----------------------------------------------------------------------------
(* The callbacks of the two timers, in their threads.                      *)

\* timer_final fires once the duration has passed since it was started ...
FinalFires ==
    /\ final.at = "armed" /\ clock # "before"
    /\ final' = [at |-> "calling", p |-> 1]
    /\ brun' = FALSE
    /\ UNCHANGED <<envVars, pc, cur, iter, sts, workerVars, copyVars,
                   countVars, sampler>>

\* ... and do_final_average signals the workers.
FinalSignals ==
    /\ final.at = "calling"
    /\ \/ /\ final.p > N
          /\ final' = [final EXCEPT !.at = "fired"]
          /\ UNCHANGED wbrun
       \/ /\ final.p \in Pairs
          /\ wbrun' = [wbrun EXCEPT ![final.p] = FALSE]
          /\ final' = [final EXCEPT !.p = @ + 1]
    /\ UNCHANGED <<envVars, mainVars, thread, copyVars, countVars, sampler>>

\* timer_running fires, again and again, until main is in its stop().
SamplerFires ==
    /\ sampler.at = "armed" /\ ~At("timers")
    /\ sampler' = [at |-> "calling", p |-> 1]
    /\ UNCHANGED <<envVars, mainVars, workerVars, copyVars, countVars, final>>

\* print_running_average over the pairs while brun.  When nothing is running
\* it reads the totals as well: a sample taken a moment later.
SamplerSamples ==
    /\ sampler.at = "calling"
    /\ \/ /\ ~brun \/ sampler.p > N
          /\ sampler' = [sampler EXCEPT !.at = "armed"]
          /\ UNCHANGED countVars
       \/ /\ brun /\ sampler.p \in Pairs
          /\ GetRunningData(sampler.p)
          /\ sampler' = [sampler EXCEPT !.p = @ + 1]
    /\ UNCHANGED <<envVars, mainVars, workerVars, copyVars, final>>

-----------------------------------------------------------------------------
(* The environment.                                                        *)

\* Time passes: the interval of timer_final, the duration as main measures
\* it, the duration as the threads measure it.
Elapse ==
    /\ conf.duration /\ pc \notin {"iterate", "done"}
    /\ \/ clock = "before" /\ clock' = "due"
       \/ clock = "due" /\ clock' = "up"
       \/ clock = "up" /\ clock' = "over"
    /\ UNCHANGED <<conf, mainVars, stopping, workerVars, copyVars, countVars, timerVars>>

\* Another thread (a gm monitor) calls rvs::lp::Stop.
StopRequested ==
    /\ Stops /\ ~stopping /\ pc # "done"
    /\ stopping' = TRUE
    /\ UNCHANGED <<conf, mainVars, clock, workerVars, copyVars, countVars, timerVars>>

Done == pc = "done" /\ UNCHANGED vars
-----------------------------------------------------------------------------
(* The steps of the threads, but for the begin of do_transfer, which pbqt  *)
(* and pebb have of their own.                                             *)

Main == \/ Iterate \/ Round \/ SingleDone \/ SingleSampled \/ SingleStopping
        \/ StartThread \/ JoinThread \/ TakeTime \/ FinalAverage
        \/ SignalWorker \/ StopTimers \/ NextIteration \/ Report

Transfer(p) == BlockSent(p) \/ BlockFails(p) \/ TransferReturns(p)

Worker(p) == ThreadBegins(p) \/ ThreadLoops(p)

Final   == FinalFires \/ FinalSignals
Sampler == SamplerFires \/ SamplerSamples

-----------------------------------------------------------------------------

MainPlaces == {"iterate", "round", "single", "transfer", "stopping", "start",
               "join", "time", "average", "signal", "timers", "again", "report",
               "done"}
Timers == [at : {"off", "armed", "calling", "fired"}, p : 1..(N + 1)]

TypeOK ==
    /\ conf \in Configs
    /\ pc \in MainPlaces /\ cur \in 1..(N + 1) /\ brun \in BOOLEAN
    /\ iter \in Nat /\ sts \in {0, 1}
    /\ clock \in {"before", "due", "up", "over"} /\ stopping \in BOOLEAN
    /\ wbrun \in [Pairs -> BOOLEAN]
    /\ thread \in [Pairs -> {"none", "begin", "loop", "transfer", "exited"}]
    /\ blk \in [Pairs -> 0..(Blocks + 1)] /\ sending \in [Pairs -> BOOLEAN]
    /\ running \in [Pairs -> Nat] /\ total \in [Pairs -> Nat]
    /\ moved \in [Pairs -> Nat] /\ inIter \in [Pairs -> Nat]
    /\ reported \in [Pairs -> Nat] /\ failed \in BOOLEAN
    /\ final \in Timers /\ sampler \in Timers

\* Wherever the samplers, the transfers and the final report meet, every block
\* transferred is counted exactly once (get_running_data and get_final_data
\* under cntmutex).
CountedOnce ==
    \A p \in Pairs : moved[p] = running[p] + total[p] + reported[p]

\* While the totals are printed and the workers deleted, no thread and no
\* timer is left that could use them.
QuietAtTheEnd ==
    pc \in {"report", "done"} =>
       /\ final.at = "off" /\ sampler.at = "off"
       /\ \A p \in Pairs : thread[p] = "none" /\ blk[p] = 0

\* The two timers as module TimerContract sees them.  How long the interval of the
\* sampler is makes no difference here: it may be over at any time.
FinalPhase == IF final.at = "armed" /\ clock # "before" THEN "due" ELSE final.at
SamplerPhase == IF sampler.at = "armed" THEN "due" ELSE sampler.at

FinalTimer   == INSTANCE TimerContract WITH phase <- FinalPhase, once <- TRUE
SamplerTimer == INSTANCE TimerContract WITH phase <- SamplerPhase, once <- FALSE

\* Iteration after iteration, with callbacks at any moment, the action keeps its side of
\* the contract of a timer and gets no more than it promises: neither timer is started
\* before it has been stopped, nor stopped out of its callback, and both are off, with
\* no thread of a pair left, when the totals are printed and the workers deleted.
TimersWellUsed ==
    FinalTimer!ProperSpec /\ SamplerTimer!ProperSpec /\ []QuietAtTheEnd

\* The totals that are printed are those of all the blocks transferred.
ReportComplete == pc = "done" => \A p \in Pairs : reported[p] = moved[p]

\* Every block is counted once at any moment, and reported in the end: nothing is
\* counted twice or lost between the samplers, the transfers and the report.
AllCounted == CountedOnce /\ ReportComplete

\* The action ends, whichever of main, the final timer and the workers notices
\* first that the time is over.
ActionEnds == <>(pc = "done")

\* With no duration an iteration that is not stopped transfers at least one
\* block per pair, unless a transfer failed: whatever brun the last one left.
EveryIterationTransfers ==
    ~conf.duration /\ pc = "again" /\ ~stopping /\ ~failed
       => \A p \in Pairs : inIter[p] > 0
=============================================================================
