--------------------------- MODULE TimerContract ---------------------------
(***************************************************************************)
(* What rvs::timer<T> promises to its owner, and what it asks of it, with  *)
(* no word of its thread, of brun or of a clock: a timer that was started  *)
(* calls back when its interval has passed and never before, once or again *)
(* and again; stop() comes back when no callback is under way and none     *)
(* will come; and it is not started again before it has been stopped.      *)
(***************************************************************************)

VARIABLES phase,    \* what the timer is doing
          once      \* it was started to fire only once

contractVars == <<phase, once>>

Phases == {"off", "armed", "due", "calling", "fired", "misused"}

ContractInit == phase = "off" /\ once \in BOOLEAN

\* The interval that begins, which may be over at once.
Begins == phase' \in {"armed", "due"}

Started ==
    /\ phase = "off" /\ Begins
    /\ once' \in BOOLEAN

Passed ==
    /\ phase = "armed" /\ phase' = "due"
    /\ UNCHANGED once

Called ==
    /\ phase = "due" /\ phase' = "calling"
    /\ UNCHANGED once

Returned ==
    /\ phase = "calling"
    /\ IF once THEN phase' = "fired" ELSE Begins
    /\ UNCHANGED once

\* Never out of a callback.
Stopped ==
    /\ phase \in {"armed", "due", "fired"} /\ phase' = "off"
    /\ UNCHANGED once

\* An owner that starts a timer it has not stopped is promised nothing any more.
Misused ==
    /\ phase # "off" /\ phase' = "misused"
    /\ once' \in BOOLEAN

ProperNext == Started \/ Passed \/ Called \/ Returned \/ Stopped

ContractNext == ProperNext \/ Misused

ContractSpec == ContractInit /\ [][ContractNext]_contractVars

\* The same with an owner that keeps its side.
ProperSpec == ContractInit /\ [][ProperNext]_contractVars
=============================================================================
