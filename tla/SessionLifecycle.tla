-------------------------- MODULE SessionLifecycle --------------------------
(***************************************************************************)
(* What the session API promises about the state of a session, without     *)
(* saying how: the life of a session slot (rvs_session_state_t), and when  *)
(* it may change.  One test run is under way at a time; only the running   *)
(* session's state moves while it is, and it moves only between the states *)
(* a report can carry; every other call happens between two runs.          *)
(***************************************************************************)
EXTENDS Naturals

CONSTANT Slots      \* the entries of rvs_session[]

VARIABLES state,    \* rvs_session_state_t of every slot
          busy      \* the slots whose test routine is being executed

lifecycleVars == <<state, busy>>

LifecycleInit ==
    /\ state = [s \in Slots |-> "IDLE"]
    /\ busy = {}

\* A call that takes slot s from one of the states in "from" to "to".
Moves(s, from, to) ==
    /\ busy = {}
    /\ state[s] \in from
    /\ state' = [state EXCEPT ![s] = to]
    /\ UNCHANGED busy

Created(s)    == Moves(s, {"IDLE"}, "CREATED")
Configured(s) == Moves(s, {"CREATED", "COMPLETED"}, "READY")
Freed(s)      == Moves(s, {"CREATED", "READY", "INITIATED", "COMPLETED"}, "IDLE")

Reset ==
    /\ busy = {}
    /\ state' = [s \in Slots |-> "IDLE"]
    /\ UNCHANGED busy

Launched(s) ==
    /\ busy = {}
    /\ state[s] = "READY"
    /\ state' = [state EXCEPT ![s] = "INITIATED"]
    /\ busy' = {s}

\* The running test reports progress or the end of the session.
Reported(s) ==
    /\ s \in busy
    /\ \E st \in {"INPROGRESS", "COMPLETED"} : state' = [state EXCEPT ![s] = st]
    /\ UNCHANGED busy

Finished(s) ==
    /\ s \in busy
    /\ busy' = {}
    /\ UNCHANGED state

LifecycleNext ==
    \/ Reset
    \/ \E s \in Slots : \/ Created(s) \/ Configured(s) \/ Freed(s)
                        \/ Launched(s) \/ Reported(s) \/ Finished(s)

LifecycleSpec == LifecycleInit /\ [][LifecycleNext]_lifecycleVars
=============================================================================
