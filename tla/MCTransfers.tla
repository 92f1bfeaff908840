----------------------------- MODULE MCTransfers -----------------------------
(* Actions of pbqt and pebb for TLC.                                       *)
EXTENDS Transfers

Action(module, pairs, blocks, count, parallel, duration, logInterval) ==
    [module |-> module, pairs |-> pairs, blocks |-> blocks, count |-> count,
     parallel |-> parallel, duration |-> duration, logInterval |-> logInterval]

\* pbqt: two pairs in threads under both timers, or one after the other, twice;
\* a pair of two blocks in a thread, twice; and no duration at all.
\* pebb: two iterations of a pair in a thread under both timers, of two pairs
\* one after the other with no duration, and with one.
AllConfigs ==
    {Action("pbqt", 2, 1, 1, TRUE, TRUE, TRUE),
     Action("pbqt", 2, 1, 2, FALSE, TRUE, TRUE),
     Action("pbqt", 1, 2, 2, TRUE, TRUE, FALSE),
     Action("pbqt", 2, 2, 0, FALSE, FALSE, FALSE),
     Action("pebb", 1, 1, 2, TRUE, TRUE, TRUE),
     Action("pebb", 2, 2, 2, FALSE, FALSE, FALSE),
     Action("pebb", 2, 1, 1, FALSE, TRUE, TRUE)}
=============================================================================
