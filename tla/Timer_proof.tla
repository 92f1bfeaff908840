----------------------------- MODULE Timer_proof -----------------------------
(***************************************************************************)
(* Proofs about Timer, for any interval and any number of starts.          *)
(***************************************************************************)
EXTENDS Timer, TLAPS

-----------------------------------------------------------------------------
(* The inductive invariant, for an owner that stops before it starts again.*)

\* Who holds what while owner and thread hand brun over: the thread exists from
\* Spawn to Join only, and nobody but the owner who has no thread sets brun.
Handover ==
    ~restarted =>
       /\ owner # "terminated"
       /\ owner \in {"arm", "check", "spawn"} => started /\ thread = "none"
       /\ owner \in {"arm", "check", "join"} => ~brun
       /\ ~started => thread = "none" /\ ~brun
       /\ thread = "none" /\ brun => owner = "spawn"

\* A one-shot timer that is still to fire has not fired.
OnceLeft ==
    ~restarted /\ brunonce =>
       /\ fired <= 1
       /\ brun /\ thread \notin {"callback", "fired"} => fired = 0
       /\ owner \in {"arm", "check"} => fired = 0

\* What is left of the interval and what has passed of it make it up.
InTimeLeft ==
    ~restarted =>
       /\ owner \in {"check", "spawn"} => left + since >= timeset
       /\ brun /\ thread \in {"wait", "sleep", "again"} => left + since >= timeset
       /\ brun /\ thread = "ready" => since >= timeset

TimerInv == TypeOK /\ Handover /\ OnceLeft /\ InTimeLeft

-----------------------------------------------------------------------------

LEMMA TimerInvInit == Init => TimerInv
<1>. SUFFICES ASSUME Init PROVE TimerInv
  OBVIOUS
<1>0. brun \in BOOLEAN /\ brunonce \in BOOLEAN /\ started \in BOOLEAN /\ restarted \in BOOLEAN
  BY Zenon DEF Init
<1>1. TypeOK
  BY <1>0, IntervalAssumption DEF Init, TypeOK
<1>2. Handover /\ OnceLeft /\ InTimeLeft
  BY DEF Init, Handover, OnceLeft, InTimeLeft
<1>. QED  BY <1>1, <1>2 DEF TimerInv

\* start() of an owner that has stopped the timer, if it ever started it.
LEMMA StartKeeps ==
  ASSUME TimerInv, NEW i \in Intervals, NEW once \in BOOLEAN, Start(i, once)
  PROVE  TimerInv'
<1>1. TypeOK'
  BY IntervalAssumption DEF TimerInv, TypeOK, Start, Intervals
<1>2. Handover'
  BY DEF TimerInv, TypeOK, Handover, Start
<1>3. OnceLeft'
  BY DEF TimerInv, TypeOK, Handover, OnceLeft, Start
<1>4. InTimeLeft'
  BY DEF TimerInv, TypeOK, Handover, InTimeLeft, Start
<1>. QED  BY <1>1, <1>2, <1>3, <1>4 DEF TimerInv

LEMMA ArmKeeps == TimerInv /\ Arm => TimerInv'
<1>. SUFFICES ASSUME TimerInv, Arm PROVE TimerInv'
  OBVIOUS
<1>1. TypeOK'
  BY IntervalAssumption DEF TimerInv, TypeOK, Arm, useVars
<1>2. Handover'
  BY DEF TimerInv, TypeOK, Handover, Arm, useVars
<1>3. OnceLeft'
  BY DEF TimerInv, TypeOK, Handover, OnceLeft, Arm, useVars
<1>4. InTimeLeft'
  BY IntervalAssumption DEF TimerInv, TypeOK, Handover, InTimeLeft, Arm, useVars
<1>. QED  BY <1>1, <1>2, <1>3, <1>4 DEF TimerInv

LEMMA StartThreadKeeps == TimerInv /\ StartThread => TimerInv'
<1>. SUFFICES ASSUME TimerInv, StartThread PROVE TimerInv'
  OBVIOUS
<1>1. TypeOK'
  BY IntervalAssumption DEF TimerInv, TypeOK, StartThread, useVars
<1>2. Handover'
  BY DEF TimerInv, TypeOK, Handover, StartThread, useVars
<1>3. OnceLeft'
  BY DEF TimerInv, TypeOK, Handover, OnceLeft, StartThread, useVars
<1>4. InTimeLeft'
  BY IntervalAssumption DEF TimerInv, TypeOK, Handover, InTimeLeft, StartThread, useVars
<1>. QED  BY <1>1, <1>2, <1>3, <1>4 DEF TimerInv

LEMMA SpawnKeeps == TimerInv /\ Spawn => TimerInv'
<1>. SUFFICES ASSUME TimerInv, Spawn PROVE TimerInv'
  OBVIOUS
<1>1. TypeOK'
  BY IntervalAssumption DEF TimerInv, TypeOK, Spawn, useVars
<1>2. Handover'
  BY DEF TimerInv, TypeOK, Handover, Spawn, useVars
<1>3. OnceLeft'
  BY DEF TimerInv, TypeOK, Handover, OnceLeft, Spawn, useVars
<1>4. InTimeLeft'
  BY IntervalAssumption DEF TimerInv, TypeOK, Handover, InTimeLeft, Spawn, useVars
<1>. QED  BY <1>1, <1>2, <1>3, <1>4 DEF TimerInv

LEMMA StopKeeps == TimerInv /\ Stop => TimerInv'
<1>. SUFFICES ASSUME TimerInv, Stop PROVE TimerInv'
  OBVIOUS
<1>1. TypeOK'
  BY IntervalAssumption DEF TimerInv, TypeOK, Stop, useVars
<1>2. Handover'
  BY DEF TimerInv, TypeOK, Handover, Stop, useVars
<1>3. OnceLeft'
  BY DEF TimerInv, TypeOK, Handover, OnceLeft, Stop, useVars
<1>4. InTimeLeft'
  BY IntervalAssumption DEF TimerInv, TypeOK, Handover, InTimeLeft, Stop, useVars
<1>. QED  BY <1>1, <1>2, <1>3, <1>4 DEF TimerInv

LEMMA JoinKeeps == TimerInv /\ Join => TimerInv'
<1>. SUFFICES ASSUME TimerInv, Join PROVE TimerInv'
  OBVIOUS
<1>1. TypeOK'
  BY IntervalAssumption DEF TimerInv, TypeOK, Join, useVars
<1>2. Handover'
  BY DEF TimerInv, TypeOK, Handover, Join, useVars
<1>3. OnceLeft'
  BY DEF TimerInv, TypeOK, Handover, OnceLeft, Join, useVars
<1>4. InTimeLeft'
  BY IntervalAssumption DEF TimerInv, TypeOK, Handover, InTimeLeft, Join, useVars
<1>. QED  BY <1>1, <1>2, <1>3, <1>4 DEF TimerInv

LEMMA WaitKeeps == TimerInv /\ Wait => TimerInv'
<1>. SUFFICES ASSUME TimerInv, Wait PROVE TimerInv'
  OBVIOUS
<1>1. TypeOK'
  BY IntervalAssumption DEF TimerInv, TypeOK, Wait, ThreadGoes, useVars
<1>2. Handover'
  BY DEF TimerInv, TypeOK, Handover, Wait, ThreadGoes, useVars
<1>3. OnceLeft'
  BY DEF TimerInv, TypeOK, Handover, OnceLeft, Wait, ThreadGoes, useVars
<1>4. InTimeLeft'
  BY IntervalAssumption DEF TimerInv, TypeOK, Handover, InTimeLeft, Wait, ThreadGoes, useVars
<1>. QED  BY <1>1, <1>2, <1>3, <1>4 DEF TimerInv

LEMMA PollKeeps == TimerInv /\ Poll => TimerInv'
<1>. SUFFICES ASSUME TimerInv, Poll PROVE TimerInv'
  OBVIOUS
<1>1. TypeOK'
  BY IntervalAssumption DEF TimerInv, TypeOK, Poll, ThreadGoes, useVars
<1>2. Handover'
  BY DEF TimerInv, TypeOK, Handover, Poll, ThreadGoes, useVars
<1>3. OnceLeft'
  BY DEF TimerInv, TypeOK, Handover, OnceLeft, Poll, ThreadGoes, useVars
<1>4. InTimeLeft'
  BY IntervalAssumption DEF TimerInv, TypeOK, Handover, InTimeLeft, Poll, ThreadGoes, useVars
<1>. QED  BY <1>1, <1>2, <1>3, <1>4 DEF TimerInv

LEMMA FireKeeps == TimerInv /\ Fire => TimerInv'
<1>. SUFFICES ASSUME TimerInv, Fire PROVE TimerInv'
  OBVIOUS
<1>1. TypeOK'
  BY IntervalAssumption DEF TimerInv, TypeOK, Fire, ThreadGoes, useVars
<1>2. Handover'
  BY DEF TimerInv, TypeOK, Handover, Fire, ThreadGoes, useVars
<1>3. OnceLeft'
  BY DEF TimerInv, TypeOK, Handover, OnceLeft, Fire, ThreadGoes, useVars
<1>4. InTimeLeft'
  BY IntervalAssumption DEF TimerInv, TypeOK, Handover, InTimeLeft, Fire, ThreadGoes, useVars
<1>. QED  BY <1>1, <1>2, <1>3, <1>4 DEF TimerInv

LEMMA CallbackReturnsKeeps == TimerInv /\ CallbackReturns => TimerInv'
<1>. SUFFICES ASSUME TimerInv, CallbackReturns PROVE TimerInv'
  OBVIOUS
<1>1. TypeOK'
  BY IntervalAssumption DEF TimerInv, TypeOK, CallbackReturns, ThreadGoes, useVars
<1>2. Handover'
  BY DEF TimerInv, TypeOK, Handover, CallbackReturns, ThreadGoes, useVars
<1>3. OnceLeft'
  BY DEF TimerInv, TypeOK, Handover, OnceLeft, CallbackReturns, ThreadGoes, useVars
<1>4. InTimeLeft'
  BY IntervalAssumption DEF TimerInv, TypeOK, Handover, InTimeLeft, CallbackReturns, ThreadGoes, useVars
<1>. QED  BY <1>1, <1>2, <1>3, <1>4 DEF TimerInv

LEMMA RearmKeeps == TimerInv /\ Rearm => TimerInv'
<1>. SUFFICES ASSUME TimerInv, Rearm PROVE TimerInv'
  OBVIOUS
<1>1. TypeOK'
  BY IntervalAssumption DEF TimerInv, TypeOK, Rearm, ThreadGoes, useVars
<1>2. Handover'
  BY DEF TimerInv, TypeOK, Handover, Rearm, ThreadGoes, useVars
<1>3. OnceLeft'
  BY DEF TimerInv, TypeOK, Handover, OnceLeft, Rearm, ThreadGoes, useVars
<1>4. InTimeLeft'
  BY IntervalAssumption DEF TimerInv, TypeOK, Handover, InTimeLeft, Rearm, ThreadGoes, useVars
<1>. QED  BY <1>1, <1>2, <1>3, <1>4 DEF TimerInv

LEMMA AgainKeeps == TimerInv /\ Again => TimerInv'
<1>. SUFFICES ASSUME TimerInv, Again PROVE TimerInv'
  OBVIOUS
<1>1. TypeOK'
  BY IntervalAssumption DEF TimerInv, TypeOK, Again, ThreadGoes, useVars
<1>2. Handover'
  BY DEF TimerInv, TypeOK, Handover, Again, ThreadGoes, useVars
<1>3. OnceLeft'
  BY DEF TimerInv, TypeOK, Handover, OnceLeft, Again, ThreadGoes, useVars
<1>4. InTimeLeft'
  BY IntervalAssumption DEF TimerInv, TypeOK, Handover, InTimeLeft, Again, ThreadGoes, useVars
<1>. QED  BY <1>1, <1>2, <1>3, <1>4 DEF TimerInv

LEMMA TickKeeps == TimerInv /\ Tick => TimerInv'
<1>. SUFFICES ASSUME TimerInv, Tick PROVE TimerInv'
  OBVIOUS
<1>1. TypeOK'
  BY IntervalAssumption DEF TimerInv, TypeOK, Tick, useVars
<1>2. Handover'
  BY DEF TimerInv, TypeOK, Handover, Tick, useVars
<1>3. OnceLeft'
  BY DEF TimerInv, TypeOK, Handover, OnceLeft, Tick, useVars
<1>4. InTimeLeft'
  BY IntervalAssumption DEF TimerInv, TypeOK, Handover, InTimeLeft, Tick, useVars
<1>. QED  BY <1>1, <1>2, <1>3, <1>4 DEF TimerInv

-----------------------------------------------------------------------------

\* The invariant from which the theorems below follow.
THEOREM TimerInvHolds == Spec => []TimerInv
<1>1. TimerInv /\ UNCHANGED vars => TimerInv'
  BY DEF TimerInv, TypeOK, Handover, OnceLeft, InTimeLeft, vars, useVars
<1>2. TimerInv /\ [Next]_vars => TimerInv'
  BY <1>1, StartKeeps, ArmKeeps, StartThreadKeeps, SpawnKeeps, StopKeeps, JoinKeeps,
     WaitKeeps, PollKeeps, FireKeeps, CallbackReturnsKeeps, RearmKeeps, AgainKeeps,
     TickKeeps
  DEF Next, Owner, Thread
<1>. QED  BY TimerInvInit, <1>2, PTL DEF Spec

\* The types of the variables (rvs::timer), for any interval.
THEOREM TypeCorrect == Spec => []TypeOK
<1>1. TimerInv => TypeOK
  BY DEF TimerInv
<1>. QED  BY TimerInvHolds, <1>1, PTL

\* A stopped timer has no thread, and the program is not terminated for one
\* (timer::stop against timer::run).
THEOREM StoppedIsQuietHolds == Spec => []StoppedIsQuiet
<1>1. TimerInv => StoppedIsQuiet
  BY DEF TimerInv, Handover, StoppedIsQuiet
<1>. QED  BY TimerInvHolds, <1>1, PTL

\* A one-shot timer calls back at most once (timer::run's brunonce).
THEOREM OnceFiresOnceHolds == Spec => []OnceFiresOnce
<1>1. TimerInv => OnceFiresOnce
  BY DEF TimerInv, OnceLeft, OnceFiresOnce
<1>. QED  BY TimerInvHolds, <1>1, PTL

\* What an owner of a timer relies on (timer::stop, timer::run).
THEOREM QuietOnceHolds == Spec => []QuietOnce
<1>1. StoppedIsQuiet /\ OnceFiresOnce => QuietOnce
  BY DEF QuietOnce
<1>. QED  BY <1>1, StoppedIsQuietHolds, OnceFiresOnceHolds, PTL

\* No callback comes before its interval has passed (timer::run's end_time).
THEOREM NeverEarlyHolds == Spec => NeverEarly
<1>. DEFINE Early == ~restarted /\ thread = "ready" /\ thread' = "callback" => since >= timeset
<1>1. TimerInv /\ [Next]_vars => [Early]_vars
  <2>. SUFFICES ASSUME TimerInv, Next, ~restarted, thread = "ready", thread' = "callback"
                PROVE  since >= timeset
    OBVIOUS
  <2>1. brun
    BY DEF Next, Owner, Thread, Start, Arm, StartThread, Spawn, Stop, Join, Wait, Poll,
           Fire, CallbackReturns, Rearm, Again, Tick, ThreadGoes, useVars
  <2>. QED  BY <2>1 DEF TimerInv, InTimeLeft
<1>. QED  BY TimerInvHolds, <1>1, PTL DEF Spec, NeverEarly

-----------------------------------------------------------------------------
(* Timer implements TimerContract.                                         *)

\* A timer that is started has an interval, and a thread unless start() is still on
\* its way to it; a callback that is under way is counted.
Present ==
    /\ ~restarted /\ started =>
          /\ timeset > 0
          /\ owner \in {"idle", "join"} => thread # "none"
    /\ ~restarted /\ thread = "callback" => fired > 0

LEMMA PresentKept == ASSUME TimerInv, Present, [Next]_vars PROVE Present'
<1>1. ASSUME NEW i \in Intervals, NEW b \in BOOLEAN, Start(i, b) PROVE Present'
  <2>1. CASE restarted'
    BY <2>1 DEF Present
  <2>2. CASE ~restarted'
    <3>1. thread = "none"
      BY <1>1, <2>2, Zenon DEF Start, TimerInv, Handover
    <3>2. thread' = "none" /\ timeset' > 0 /\ owner' = "arm"
      BY <1>1, <3>1 DEF Start, Intervals
    <3>. QED  BY <3>2 DEF Present
  <2>. QED  BY <2>1, <2>2
<1>2. CASE Arm \/ StartThread \/ Spawn
  BY <1>2 DEF TimerInv, TypeOK, Handover, Present, Arm, StartThread, Spawn, useVars
<1>3. CASE Stop \/ Join
  BY <1>3 DEF TimerInv, TypeOK, Handover, Present, Stop, Join, useVars
<1>4. CASE Thread
  BY <1>4 DEF TimerInv, TypeOK, Present, Thread, Wait, Poll, Fire, CallbackReturns, Rearm, Again, ThreadGoes, useVars
<1>5. CASE Tick \/ UNCHANGED vars
  BY <1>5 DEF Present, Tick, vars, useVars
<1>. QED  BY <1>1, <1>2, <1>3, <1>4, <1>5 DEF Next, Owner

LEMMA PresentHolds == Spec => []Present
<1>1. Init => Present
  BY DEF Init, Present
<1>2. TimerInv /\ Present /\ [Next]_vars => Present'
  BY PresentKept
<1>. QED  BY <1>1, <1>2, TimerInvHolds, PTL DEF Spec

\* What an owner sees that did not start the timer twice.
LEMMA PhaseIs ==
  ASSUME ~restarted
  PROVE  /\ ~Runs => Phase = "off"
         /\ Runs /\ thread = "callback" => Phase = "calling"
         /\ Runs /\ thread # "callback" /\ brunonce /\ fired > 0 => Phase = "fired"
         /\ Runs /\ thread # "callback" /\ ~(brunonce /\ fired > 0) => Phase = Waits
BY DEF Phase

\* Nothing that the owner could tell.
SamePhase == Phase' = Phase /\ brunonce' = brunonce

LEMMA NothingSeen == ASSUME SamePhase PROVE [Contract!ContractNext]_(Contract!contractVars)
BY DEF SamePhase, Contract!contractVars

LEMMA ContractStarts == ASSUME Init PROVE Contract!ContractInit
<1>1. Phase = "off" /\ brunonce \in BOOLEAN
  <2>1. ~restarted /\ ~Runs
    BY Zenon DEF Init, Runs
  <2>2. brunonce \in BOOLEAN
    BY Zenon DEF Init
  <2>. QED  BY <2>1, <2>2 DEF Phase
<1>. QED  BY <1>1 DEF Contract!ContractInit

\* start() begins the contract anew, or breaks it.
LEMMA StartSteps ==
  ASSUME TimerInv, TimerInv', Present, NEW i \in Intervals, NEW b \in BOOLEAN, Start(i, b)
  PROVE  [Contract!ContractNext]_(Contract!contractVars)
<1>0. brunonce' \in BOOLEAN
  BY DEF TimerInv, TypeOK
<1>1. CASE ~restarted'
  <2>1. ~restarted /\ ~started /\ thread = "none" /\ owner = "idle" /\ ~Runs
    BY <1>1 DEF Start, TimerInv, Handover, Runs
  <2>2. Phase = "off"
    BY <2>1 DEF Phase
  <2>3. owner' = "arm" /\ thread' = "none" /\ fired' = 0
    BY <2>1 DEF Start
  <2>4. Phase' = "armed"
    BY <1>1, <2>3 DEF Phase, Runs, Waits
  <2>5. Contract!Started
    BY <1>0, <2>2, <2>4 DEF Contract!Started, Contract!Begins
  <2>. QED  BY <2>5 DEF Contract!ContractNext, Contract!ProperNext
<1>2. CASE restarted'
  <2>1. Phase' = "misused"
    BY <1>2 DEF Phase
  <2>2. Phase # "off"
    <3>1. CASE restarted
      BY <3>1 DEF Phase
    <3>2. CASE ~restarted
      <4>1. started /\ owner = "idle"
        BY <1>2, <3>2 DEF Start
      <4>2. Runs
        BY <3>2, <4>1 DEF Present, Runs
      <4>. QED  BY <3>2, <4>2 DEF Phase, Waits
    <3>. QED  BY <3>1, <3>2
  <2>3. Contract!Misused
    BY <1>0, <2>1, <2>2 DEF Contract!Misused
  <2>. QED  BY <2>3 DEF Contract!ContractNext
<1>. QED  BY <1>1, <1>2

\* A timer whose contract is broken stays so, whatever happens.
LEMMA StaysBroken ==
  ASSUME TimerInv, [Next]_vars, restarted, ~\E i \in Intervals, b \in BOOLEAN : Start(i, b)
  PROVE  [Contract!ContractNext]_(Contract!contractVars)
<1>1. restarted' = restarted /\ brunonce' = brunonce
  BY DEF Next, Owner, Thread, Arm, StartThread, Spawn, Stop, Join, Wait, Poll, Fire,
         CallbackReturns, Rearm, Again, Tick, ThreadGoes, vars, useVars
<1>2. SamePhase
  BY <1>1 DEF SamePhase, Phase
<1>. QED  BY <1>2, NothingSeen

LEMMA OwnerSteps ==
  ASSUME TimerInv, Present, ~restarted, Arm \/ StartThread \/ Spawn \/ Stop \/ Join
  PROVE  [Contract!ContractNext]_(Contract!contractVars)
<1>0. ~restarted' /\ brunonce' = brunonce
  BY DEF Arm, StartThread, Spawn, Stop, Join, useVars
<1>1. CASE Arm
  <2>1. thread = "none" /\ thread' = thread /\ Runs /\ Runs' /\ started
    BY <1>1 DEF Arm, TimerInv, Handover, Runs
  <2>2. ~(brunonce /\ fired > 0) /\ fired' = fired
    BY <1>1 DEF Arm, TimerInv, OnceLeft
  <2>3. since' < timeset' /\ Waits = "armed" /\ Waits' = "armed"
    <3>1. since' = 0 /\ timeset' = timeset /\ timeset > 0 /\ owner = "arm"
      BY <1>1, <2>1 DEF Arm, Present
    <3>. QED  BY <3>1 DEF Waits
  <2>4. SamePhase
    BY <1>0, <2>1, <2>2, <2>3 DEF SamePhase, Phase
  <2>. QED  BY <2>4, NothingSeen
<1>2. CASE StartThread
  <2>1. SamePhase
    BY <1>0, <1>2 DEF StartThread, SamePhase, Phase, Runs, Waits, TimerInv, Handover, useVars
  <2>. QED  BY <2>1, NothingSeen
<1>3. CASE Spawn
  <2>1. SamePhase
    BY <1>0, <1>3 DEF Spawn, SamePhase, Phase, Runs, Waits, TimerInv, Handover, useVars
  <2>. QED  BY <2>1, NothingSeen
<1>4. CASE Stop
  <2>1. SamePhase
    BY <1>0, <1>4 DEF Stop, SamePhase, Phase, Runs, Waits, TimerInv, Handover, useVars
  <2>. QED  BY <2>1, NothingSeen
<1>5. CASE Join
  <2>1. Phase' = "off"
    BY <1>0, <1>5 DEF Join, Phase, Runs
  <2>2. thread # "callback" /\ owner = "join"
    BY <1>5 DEF Join
  <2>3. Phase \in {"off", "armed", "due", "fired"}
    BY <2>2 DEF Phase, Waits
  <2>4. CASE Phase = "off"
    BY <1>0, <2>1, <2>4, NothingSeen DEF SamePhase
  <2>5. CASE Phase \in {"armed", "due", "fired"}
    <3>1. Contract!Stopped
      BY <1>0, <2>1, <2>5 DEF Contract!Stopped
    <3>. QED  BY <3>1 DEF Contract!ContractNext, Contract!ProperNext
  <2>. QED  BY <2>3, <2>4, <2>5
<1>. QED  BY <1>1, <1>2, <1>3, <1>4, <1>5

LEMMA ThreadSteps ==
  ASSUME TimerInv, Present, ~restarted, Thread
  PROVE  [Contract!ContractNext]_(Contract!contractVars)
<1>0. /\ ~restarted' /\ brunonce' = brunonce /\ owner' = owner /\ timeset' = timeset
      /\ thread # "none" /\ thread' # "none" /\ Runs /\ Runs'
  BY DEF Thread, Wait, Poll, Fire, CallbackReturns, Rearm, Again, ThreadGoes, Runs, useVars
<1>1. started /\ timeset > 0 /\ owner \notin {"arm", "check", "spawn"}
  BY <1>0 DEF TimerInv, Handover, Present
<1>2. CASE Wait \/ Poll \/ Rearm \/ Again \/ (Fire /\ ~brun)
  <2>1. thread # "callback" /\ thread' # "callback" /\ fired' = fired /\ since' = since
    BY <1>2 DEF Wait, Poll, Fire, Rearm, Again, ThreadGoes
  <2>2. SamePhase
    BY <1>0, <2>1 DEF SamePhase, Phase, Waits
  <2>. QED  BY <2>2, NothingSeen
<1>3. CASE Fire /\ brun
  <2>1. thread = "ready" /\ thread' = "callback"
    BY <1>3 DEF Fire, ThreadGoes
  <2>2. Phase' = "calling"
    BY <1>0, <2>1 DEF Phase
  <2>3. since >= timeset /\ since \in Nat /\ timeset \in Nat
    BY <1>3, <2>1 DEF TimerInv, InTimeLeft, TypeOK
  <2>4. ~(brunonce /\ fired > 0)
    BY <1>3, <2>1 DEF TimerInv, OnceLeft
  <2>5. Phase = "due"
    BY <1>0, <1>1, <2>1, <2>3, <2>4 DEF Phase, Waits
  <2>6. Contract!Called
    BY <1>0, <2>2, <2>5 DEF Contract!Called
  <2>. QED  BY <2>6 DEF Contract!ContractNext, Contract!ProperNext
<1>4. CASE CallbackReturns
  <2>1. thread = "callback" /\ thread' = "fired" /\ since' = 0 /\ fired' = fired
    BY <1>4 DEF CallbackReturns, ThreadGoes
  <2>2. Phase = "calling"
    BY <1>0, <2>1 DEF Phase
  <2>3. Waits' = "armed"
    BY <1>0, <1>1, <2>1 DEF Waits
  <2>4. fired > 0
    BY <2>1 DEF Present
  <2>5. IF brunonce THEN Phase' = "fired" ELSE Phase' = "armed"
    BY <1>0, <2>1, <2>3, <2>4 DEF Phase
  <2>6. Contract!Returned
    BY <1>0, <2>2, <2>5 DEF Contract!Returned, Contract!Begins
  <2>. QED  BY <2>6 DEF Contract!ContractNext, Contract!ProperNext
<1>. QED  BY <1>2, <1>3, <1>4 DEF Thread

\* Time goes on, and an interval may be over.
LEMMA TickSteps ==
  ASSUME TimerInv, ~restarted, Tick
  PROVE  [Contract!ContractNext]_(Contract!contractVars)
<1>0. /\ ~restarted' /\ brunonce' = brunonce /\ owner' = owner /\ timeset' = timeset
      /\ thread' = thread /\ fired' = fired /\ since' >= since
      /\ since \in Nat /\ since' \in Nat /\ timeset \in Nat
  BY IntervalAssumption DEF Tick, useVars, TimerInv, TypeOK
<1>1. CASE Phase = "armed" /\ Phase' = "due"
  <2>1. Contract!Passed
    BY <1>0, <1>1 DEF Contract!Passed
  <2>. QED  BY <2>1 DEF Contract!ContractNext, Contract!ProperNext
<1>2. CASE ~(Phase = "armed" /\ Phase' = "due")
  <2>1. Waits' = Waits \/ (Waits = "armed" /\ Waits' = "due")
    BY <1>0 DEF Waits
  <2>2. SamePhase
    BY <1>0, <1>2, <2>1 DEF SamePhase, Phase, Runs
  <2>. QED  BY <2>2, NothingSeen
<1>. QED  BY <1>1, <1>2

\* Whatever the interval, and however often it is started and stopped: rvs::timer keeps
\* the contract of TimerContract, until an owner starts it that has not stopped it.
THEOREM TimerKeepsContract == Spec => KeepsContract
<1>1. TimerInv /\ TimerInv' /\ Present /\ [Next]_vars
        => [Contract!ContractNext]_(Contract!contractVars)
  <2>. SUFFICES ASSUME TimerInv, TimerInv', Present, [Next]_vars
                PROVE  [Contract!ContractNext]_(Contract!contractVars)
    OBVIOUS
  <2>1. CASE \E i \in Intervals, b \in BOOLEAN : Start(i, b)
    BY <2>1, StartSteps
  <2>2. CASE ~\E i \in Intervals, b \in BOOLEAN : Start(i, b)
    <3>1. CASE restarted
      BY <2>2, <3>1, StaysBroken
    <3>2. CASE ~restarted /\ UNCHANGED vars
      <4>1. SamePhase
        BY <3>2 DEF SamePhase, Phase, Runs, Waits, vars, useVars
      <4>. QED  BY <4>1, NothingSeen
    <3>3. CASE ~restarted /\ Next
      BY <2>2, <3>3, OwnerSteps, ThreadSteps, TickSteps DEF Next, Owner
    <3>. QED  BY <3>1, <3>2, <3>3
  <2>. QED  BY <2>1, <2>2
<1>2. Init => Contract!ContractInit
  BY ContractStarts
<1>. QED  BY <1>1, <1>2, TimerInvHolds, PresentHolds, PTL
          DEF Spec, KeepsContract, Contract!ContractSpec
=============================================================================
