------------------------------- MODULE Timer -------------------------------
(***************************************************************************)
(* rvs::timer<T>: a thread that waits for an interval to pass and then     *)
(* calls back, once or again and again, until its owner stops it.          *)
(*                                                                         *)
(* Owner and thread share brun, brunonce, timeset and end_time with no     *)
(* lock, so every access is a step of its own.  Time is the distance left  *)
(* to end_time; a tick is the 1 ms resolution of the timer.                *)
(***************************************************************************)
EXTENDS Naturals

CONSTANT MaxInterval  \* bound: the longest interval, in ticks

ASSUME IntervalAssumption == MaxInterval \in Nat \ {0}

VARIABLES brun,      \* true for the duration of timer activity
          brunonce,  \* true if the timer is to fire only once
          timeset,   \* the interval
          left,      \* end_time - now, 0 once it has passed
          owner,     \* where the owner is in start() or stop()
          thread,    \* where the thread is in run(); "none": not joinable
          started,   \* start() was called and stop() not yet (history)
          restarted, \* start() was called when it was started (history)
          fired,     \* callbacks since the last start(), 2 for more (history)
          since      \* ticks since start() or the last callback (history)

useVars == <<started, restarted>>
vars == <<brun, brunonce, timeset, left, owner, thread, useVars, fired, since>>

Intervals == 1..MaxInterval

Init ==
    /\ brun = FALSE
    /\ brunonce \in BOOLEAN     \* not initialised by the constructor
    /\ timeset = 0
    /\ left = 0
    /\ owner = "idle"
    /\ thread = "none"
    /\ started = FALSE
    /\ restarted = FALSE
    /\ fired = 0
    /\ since = 0

-----------------------------------------------------------------------------
(* start() and stop(), in the owner's thread.                              *)

Start(interval, once) ==
    /\ owner = "idle"
    /\ brunonce' = once
    /\ timeset' = interval
    /\ owner' = "arm"
    /\ started' = TRUE
    /\ restarted' = (restarted \/ started)
    /\ fired' = 0
    /\ UNCHANGED <<brun, left, thread, since>>

\* Seeded fault: the end time is one tick off.
ArmLate ==
    /\ owner = "arm"
    /\ left' = timeset + 1
    /\ since' = 0
    /\ owner' = "check"
    /\ UNCHANGED <<brun, brunonce, timeset, thread, useVars, fired>>

Arm ==
    /\ owner = "arm"
    /\ left' = timeset
    /\ since' = 0
    /\ owner' = "check"
    /\ UNCHANGED <<brun, brunonce, timeset, thread, useVars, fired>>

\* Seeded fault: brun is left to the thread to set.
StartUnset ==
    /\ owner = "check"
    /\ owner' = IF brun THEN "idle" ELSE "spawn"
    /\ UNCHANGED <<brun, brunonce, timeset, left, thread, useVars, fired, since>>

\* Only if the thread is not started, start it.
StartThread ==
    /\ owner = "check"
    /\ \/ brun /\ owner' = "idle" /\ UNCHANGED brun
       \/ ~brun /\ owner' = "spawn" /\ brun' = TRUE
    /\ UNCHANGED <<brunonce, timeset, left, thread, useVars, fired, since>>

\* ThreadBase::start assigns a new std::thread to t, which terminates the
\* program when t is still joinable.
Spawn ==
    /\ owner = "spawn"
    /\ \/ thread = "none" /\ thread' = "wait" /\ owner' = "idle"
       \/ thread # "none" /\ owner' = "terminated" /\ UNCHANGED thread
    /\ UNCHANGED <<brun, brunonce, timeset, left, useVars, fired, since>>

Stop ==
    /\ owner = "idle"
    /\ brun' = FALSE
    /\ owner' = "join"
    /\ UNCHANGED <<brunonce, timeset, left, thread, useVars, fired, since>>

\* Seeded fault: stop() returns without waiting for the thread.
JoinNot ==
    /\ owner = "join"
    /\ owner' = "idle"
    /\ started' = FALSE
    /\ UNCHANGED <<brun, brunonce, timeset, left, thread, restarted, fired, since>>

Join ==
    /\ owner = "join"
    /\ thread \in {"none", "exited"}
    /\ thread' = "none"
    /\ owner' = "idle"
    /\ started' = FALSE
    /\ UNCHANGED <<brun, brunonce, timeset, left, restarted, fired, since>>

-----------------------------------------------------------------------------
(* run(), in the timer's thread.                                           *)

ThreadGoes(from, to) ==
    /\ owner # "terminated"
    /\ thread = from
    /\ thread' = to

\* while (brun) ...
Wait ==
    /\ ThreadGoes("wait", IF brun THEN "sleep" ELSE "ready")
    /\ UNCHANGED <<brun, brunonce, timeset, left, owner, useVars, fired, since>>

\* ... sleep a tick and look at the time.
Poll ==
    /\ ThreadGoes("sleep", IF left = 0 THEN "ready" ELSE "wait")
    /\ UNCHANGED <<brun, brunonce, timeset, left, owner, useVars, fired, since>>

\* If the timer is not stopped, call the callback function.
Fire ==
    /\ ThreadGoes("ready", IF brun THEN "callback" ELSE "fired")
    /\ fired' = IF brun /\ fired < 2 THEN fired + 1 ELSE fired
    /\ UNCHANGED <<brun, brunonce, timeset, left, owner, useVars, since>>

CallbackReturns ==
    /\ ThreadGoes("callback", "fired")
    /\ since' = 0
    /\ UNCHANGED <<brun, brunonce, timeset, left, owner, useVars, fired>>

\* Seeded fault: brunonce is not looked at.
RearmAlways ==
    /\ ThreadGoes("fired", "again")
    /\ left' = timeset
    /\ UNCHANGED <<brun, brunonce, timeset, owner, useVars, fired, since>>

\* Seeded fault: the next end time is not set.
RearmStale ==
    /\ ThreadGoes("fired", "again")
    /\ brun' = (brun /\ ~brunonce)
    /\ UNCHANGED <<brunonce, timeset, left, owner, useVars, fired, since>>

\* A one-shot timer ends itself, a periodic one sets the next end time.
Rearm ==
    /\ ThreadGoes("fired", "again")
    /\ \/ brunonce /\ brun' = FALSE /\ UNCHANGED left
       \/ ~brunonce /\ left' = timeset /\ UNCHANGED brun
    /\ UNCHANGED <<brunonce, timeset, owner, useVars, fired, since>>

\* Seeded fault: the loop is never left.
AgainForever ==
    /\ ThreadGoes("again", "wait")
    /\ UNCHANGED <<brun, brunonce, timeset, left, owner, useVars, fired, since>>

\* ... while (brun)
Again ==
    /\ ThreadGoes("again", IF brun THEN "wait" ELSE "exited")
    /\ UNCHANGED <<brun, brunonce, timeset, left, owner, useVars, fired, since>>

\* A tick of the clock.
Tick ==
    /\ left > 0 \/ since < MaxInterval
    /\ left' = IF left > 0 THEN left - 1 ELSE 0
    /\ since' = IF since < MaxInterval THEN since + 1 ELSE since
    /\ UNCHANGED <<brun, brunonce, timeset, owner, thread, useVars, fired>>

-----------------------------------------------------------------------------

Owner ==
    \/ \E i \in Intervals, once \in BOOLEAN : Start(i, once)
    \/ Arm \/ StartThread \/ Spawn \/ Stop \/ Join

Thread == Wait \/ Poll \/ Fire \/ CallbackReturns \/ Rearm \/ Again

Next == Owner \/ Thread \/ Tick

Spec == Init /\ [][Next]_vars

\* Time passes, both threads are scheduled, a callback returns, and start()
\* and stop() are carried through once called.
Fairness ==
    /\ WF_vars(Tick)
    /\ WF_vars(Thread)
    /\ WF_vars(Arm \/ StartThread \/ Spawn \/ Join)

FairSpec == Spec /\ Fairness
-----------------------------------------------------------------------------

TypeOK ==
    /\ brun \in BOOLEAN /\ brunonce \in BOOLEAN
    /\ started \in BOOLEAN /\ restarted \in BOOLEAN
    /\ timeset \in 0..MaxInterval /\ left \in 0..MaxInterval
    /\ since \in 0..MaxInterval /\ fired \in 0..2
    /\ owner \in {"idle", "arm", "check", "spawn", "join", "terminated"}
    /\ thread \in {"none", "wait", "sleep", "ready", "callback", "fired",
                   "again", "exited"}

\* As long as the owner stops the timer before it starts it again (every use
\* in the modules), the program is never terminated for a thread that was not
\* joined, and a stopped timer has no thread left that could call back into an
\* object its owner is about to destroy.
StoppedIsQuiet ==
    ~restarted =>
       /\ owner # "terminated"
       /\ owner \in {"arm", "check", "spawn"} \/ ~started => thread = "none"

\* For such an owner a one-shot timer calls back at most once per start().
OnceFiresOnce == ~restarted /\ brunonce => fired <= 1

\* For such an owner no callback comes before its interval has passed, counted
\* from start() or from the end of the previous callback.
NeverEarly ==
    [][~restarted /\ thread = "ready" /\ thread' = "callback"
         => since >= timeset]_vars

\* What the owner can tell of a timer: a start() that has begun counts, a stop() that
\* has not come back does not, and what the thread does around its callback and after
\* its last look at brun is none of its business.
Runs == owner \in {"arm", "check", "spawn"} \/ thread # "none"
Waits == IF since < timeset \/ owner = "arm" THEN "armed" ELSE "due"
Phase ==
    IF restarted THEN "misused"
    ELSE IF ~Runs THEN "off"
    ELSE IF thread = "callback" THEN "calling"
    ELSE IF brunonce /\ fired > 0 THEN "fired" ELSE Waits

Contract == INSTANCE TimerContract WITH phase <- Phase, once <- brunonce

\* The timer keeps the contract its owners rely on: it calls back only when its interval
\* has passed, once or again and again, and stop() comes back with no callback under way
\* and none to come, as long as it is not started again before it has been stopped.
KeepsContract == Contract!ContractSpec

\* stop() returns, wherever the thread is and whatever was started before.
StopReturns == owner = "join" ~> owner = "idle"

\* A timer that is started, and then left alone, calls back.
Fires == <>[](owner = "idle" /\ started /\ ~restarted) => <>[](fired > 0)

\* What the owner of a timer relies on, however its start and stop meet the thread:
\* quiet once stopped, at most one callback of a one-shot timer.
QuietOnce == StoppedIsQuiet /\ OnceFiresOnce

\* Both ends of a timer come: a stop() returns, and a start that is left alone
\* calls back.
FiresAndStops == StopReturns /\ Fires
=============================================================================
