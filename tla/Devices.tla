------------------------------- MODULE Devices -------------------------------
(***************************************************************************)
(* What runs on a device: the BLAS object with the workers that drive it,  *)
(* the memory test, the stream kernels, and the transfers of the HSA       *)
(* wrapper.                                                                *)
(*                                                                         *)
(* The launcher runs one action after the other, and the actions share     *)
(* nothing here: a behaviour is one of one part, the others stand still at *)
(* a start of their own.                                                   *)
(***************************************************************************)
EXTENDS Blas, MemTest, Babel, Hsa

CONSTANT StandingParts   \* where the parts stand that do not run

ASSUME StandingPartsAreStarts ==
    /\ StandingParts.job \in Jobs /\ StandingParts.mem \in MemConfs
    /\ StandingParts.babel \in BabelConfs /\ StandingParts.hsa \in HsaJobs

VARIABLE part

devicesVars == <<part, blasVars, memVars, babelVars, hsaVars>>

-----------------------------------------------------------------------------

BlasStands  == job = StandingParts.job /\ BlasStart
MemStands   == mconf = StandingParts.mem /\ MemStart
BabelStands == bconf = StandingParts.babel /\ BabelBegin
HsaStands   == hjob = StandingParts.hsa /\ HsaStart

DevicesInit ==
    \/ part = "blas"  /\ BlasInit   /\ MemStands /\ BabelStands /\ HsaStands
    \/ part = "mem"   /\ BlasStands /\ MemInit   /\ BabelStands /\ HsaStands
    \/ part = "babel" /\ BlasStands /\ MemStands /\ BabelInit   /\ HsaStands
    \/ part = "hsa"   /\ BlasStands /\ MemStands /\ BabelStands /\ HsaInit

DevicesNext ==
    \/ part = "blas"  /\ BlasNext  /\ UNCHANGED <<part, memVars, babelVars, hsaVars>>
    \/ part = "mem"   /\ MemNext   /\ UNCHANGED <<part, blasVars, babelVars, hsaVars>>
    \/ part = "babel" /\ BabelNext /\ UNCHANGED <<part, blasVars, memVars, hsaVars>>
    \/ part = "hsa"   /\ HsaNext   /\ UNCHANGED <<part, blasVars, memVars, babelVars>>

\* The runtime completes a copy, and a thread that can go on does.
DevicesSpec ==
    DevicesInit /\ [][DevicesNext]_devicesVars
    /\ WF_devicesVars(part = "hsa" /\ HsaNext /\ UNCHANGED <<part, blasVars, memVars, babelVars>>)

-----------------------------------------------------------------------------
\* The state of every part stays within its domains: positions inside the lists and
\* the ladders they walk over, counters inside what the keys allow, sets inside what
\* there is to be held, tested or counted.
DevicesTypeOK ==
    /\ part \in {"blas", "mem", "babel", "hsa"}
    /\ BlasTypeOK /\ MemTypeOK /\ BabelTypeOK /\ HsaTypeOK
=============================================================================
