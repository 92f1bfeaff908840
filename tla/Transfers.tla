------------------------------ MODULE Transfers ------------------------------
(***************************************************************************)
(* The begin of do_transfer, where the bandwidth modules differ.           *)
(*                                                                         *)
(* pbqt, peer-to-peer bandwidth between GPUs, relies on the brun its       *)
(* worker has.  pebb, bandwidth between CPUs and GPUs, sets brun itself    *)
(* and gives up between two blocks when a stop is requested.               *)
(***************************************************************************)
EXTENDS Bandwidth

\* run_single enters do_transfer of the current pair ...
EnterSingle ==
    /\ At("single") /\ brun /\ cur \in Pairs
    /\ blk' = [blk EXCEPT ![cur] = 1]
    /\ Goes("transfer") /\ UNCHANGED <<cur, brun>>
    /\ UNCHANGED <<envVars, thread, sending, moved, inIter, failed,
                   countVars, timerVars>>

\* ... and the run() of a worker thread that of its own.
EnterThread(p) ==
    /\ thread[p] = "loop"
    /\ blk' = [blk EXCEPT ![p] = 1]
    /\ thread' = [thread EXCEPT ![p] = "transfer"]
    /\ UNCHANGED <<envVars, mainVars, sending, moved, inIter, failed,
                   countVars, timerVars>>

-----------------------------------------------------------------------------
(* pbqt: brun is what the constructor, or an iteration before, left it.    *)

PbqtSingle    == conf.module = "pbqt" /\ EnterSingle /\ UNCHANGED wbrun
PbqtThread(p) == conf.module = "pbqt" /\ EnterThread(p) /\ UNCHANGED wbrun
PbqtBlock(p)  == conf.module = "pbqt" /\ NextBlock(p)

-----------------------------------------------------------------------------
(* pebb.                                                                   *)

\* Seeded fault: brun is left as it is.
PebbSingleUnset ==
    conf.module = "pebb" /\ EnterSingle /\ UNCHANGED wbrun

PebbSingle ==
    /\ conf.module = "pebb" /\ EnterSingle
    /\ wbrun' = [wbrun EXCEPT ![cur] = TRUE]

PebbThread(p) ==
    /\ conf.module = "pebb" /\ EnterThread(p)
    /\ wbrun' = [wbrun EXCEPT ![p] = TRUE]

\* The next block, when no stop is requested ...
PebbBlock(p) == conf.module = "pebb" /\ ~stopping /\ NextBlock(p)

\* ... and do_transfer returns -1, to nobody, when one is.
PebbGivesUp(p) ==
    /\ conf.module = "pebb"
    /\ blk[p] \in 1..Blocks /\ ~sending[p] /\ wbrun[p] /\ stopping
    /\ blk' = [blk EXCEPT ![p] = 0]
    /\ UNCHANGED <<envVars, mainVars, workerVars, sending, moved, inIter,
                   failed, countVars, timerVars>>

-----------------------------------------------------------------------------

MainThread == Main \/ PbqtSingle \/ PebbSingle
WorkerThread(p) == Worker(p) \/ PbqtThread(p) \/ PebbThread(p)
DoTransfer(p) == Transfer(p) \/ PbqtBlock(p) \/ PebbBlock(p) \/ PebbGivesUp(p)

Next ==
    \/ MainThread
    \/ \E p \in Pairs : WorkerThread(p) \/ DoTransfer(p)
    \/ Final \/ Sampler
    \/ Elapse \/ StopRequested
    \/ Done

Spec == Init /\ [][Next]_vars

\* Every thread runs, a transfer comes back, the final timer fires (module
\* Timer), time passes.
Fairness ==
    /\ WF_vars(MainThread)
    /\ \A p \in AllPairs : /\ WF_vars(p \in Pairs /\ WorkerThread(p))
                           /\ WF_vars(p \in Pairs /\ DoTransfer(p))
    /\ WF_vars(Final) /\ WF_vars(SamplerSamples)
    /\ WF_vars(Elapse)

FairSpec == Spec /\ Fairness

-----------------------------------------------------------------------------
\* Every iteration of pebb transfers: its do_transfer sets the brun that the last
\* iteration reset.  That of pbqt does not, and with no duration and no threads its
\* second iteration transfers nothing.
PebbIterationsTransfer == conf.module = "pebb" => EveryIterationTransfers
=============================================================================
