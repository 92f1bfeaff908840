------------------------------- MODULE Setup -------------------------------
(***************************************************************************)
(* What happens before and beside the tests on a GPU: the launcher, the    *)
(* keys and the selection of GPUs of the actions, the lists of the GPUs,   *)
(* and the modules that only look something up.                            *)
(*                                                                         *)
(* They share nothing here: a behaviour is one of one part, the others     *)
(* stand still at a start of their own.                                    *)
(***************************************************************************)
EXTENDS Launch, Actions, GpuList, Queries, Packages

CONSTANT StandingParts   \* where the parts stand that do not run

ASSUME StandingPartsAreStarts ==
    /\ StandingParts.start \in Starts
    /\ StandingParts.gpus \in Machines /\ StandingParts.batch \in Batches
    /\ StandingParts.nodes \in Topologies /\ StandingParts.inspection \in Inspections
    /\ StandingParts.host \in Hosts

VARIABLE part

setupVars == <<part, launchVars, actionVars, listVars, queryVars, packageVars>>

-----------------------------------------------------------------------------

LaunchStands   == start = StandingParts.start /\ LaunchStart
ActionsStand   == gpus = StandingParts.gpus /\ batch = StandingParts.batch /\ ActionsStart
ListsStand     == nodes = StandingParts.nodes /\ GpuListStart
QueriesStand   == inspection = StandingParts.inspection /\ QueriesStart
PackagesStand  == host = StandingParts.host /\ PackagesStart

SetupInit ==
    \/ part = "launch"   /\ LaunchInit   /\ ActionsStand /\ ListsStand  /\ QueriesStand /\ PackagesStand
    \/ part = "actions"  /\ LaunchStands /\ ActionsInit  /\ ListsStand  /\ QueriesStand /\ PackagesStand
    \/ part = "lists"    /\ LaunchStands /\ ActionsStand /\ GpuListInit /\ QueriesStand /\ PackagesStand
    \/ part = "queries"  /\ LaunchStands /\ ActionsStand /\ ListsStand  /\ QueriesInit  /\ PackagesStand
    \/ part = "packages" /\ LaunchStands /\ ActionsStand /\ ListsStand  /\ QueriesStand /\ PackagesInit

SetupNext ==
    \/ part = "launch"   /\ LaunchNext   /\ UNCHANGED <<part, actionVars, listVars, queryVars, packageVars>>
    \/ part = "actions"  /\ ActionsNext  /\ UNCHANGED <<part, launchVars, listVars, queryVars, packageVars>>
    \/ part = "lists"    /\ GpuListNext  /\ UNCHANGED <<part, launchVars, actionVars, queryVars, packageVars>>
    \/ part = "queries"  /\ QueriesNext  /\ UNCHANGED <<part, launchVars, actionVars, listVars, packageVars>>
    \/ part = "packages" /\ PackagesNext /\ UNCHANGED <<part, launchVars, actionVars, listVars, queryVars>>

\* The launcher goes on, and a child and its parent get on when they can.
SetupSpec == SetupInit /\ [][SetupNext]_setupVars /\ WF_setupVars(SetupNext)

-----------------------------------------------------------------------------
\* The state of every part stays within its domains: what is read of a line, a key, a list or
\* a device is what there is to read, and a list has no more entries than GPUs were read.
SetupTypeOK ==
    /\ part \in {"launch", "actions", "lists", "queries", "packages"}
    /\ LaunchTypeOK /\ ActionsTypeOK /\ GpuListTypeOK /\ QueriesTypeOK /\ PackagesTypeOK
=============================================================================
