-------------------------------- MODULE Hsa --------------------------------
(***************************************************************************)
(* The wrapper of the HSA runtime: the agents and their pools, a transfer  *)
(* of SendTraffic with its buffers, signals and copies in flight, the      *)
(* back-to-back workers of pebb and pbqt that do the same in a loop of     *)
(* their own, and the access and the link of two agents.                   *)
(*                                                                         *)
(* A job is one call of the wrapper or one run of a worker.  Calls of the  *)
(* runtime fail at most MaxFailures times in a job.                        *)
(***************************************************************************)
EXTENDS Integers, Sequences, FiniteSets, SequencesExt, FiniteSetsExt

CONSTANTS HsaJobs, MaxFailures,
          MaxCopies,   \* turns of a back-to-back worker
          Ticks        \* a copy starts and ends at ticks of 0..Ticks

Types == {"CPU", "GPU"}

\* reach: the agents, by position, that may access a pool.
PoolType == [global: BOOLEAN, alloc: BOOLEAN, max: Nat, reach: SUBSET Nat]

ASSUME HsaJobsAreJobs ==
    /\ MaxFailures \in Nat /\ MaxCopies \in Nat \ {0} /\ Ticks \in Nat \ {0}
    /\ \A j \in HsaJobs :
        /\ DOMAIN j = {"kind", "agents", "src", "dst", "size", "dirs", "b2b", "warm", "hot", "hops"}
        /\ j.kind \in {"send", "pebb", "pbqt", "peer", "link"}
        /\ \A i \in DOMAIN j.agents :
            /\ j.agents[i].type \in Types /\ j.agents[i].node \in Nat
            /\ \A k \in DOMAIN j.agents[i].pools : j.agents[i].pools[k] \in PoolType
        /\ j.dirs \in {<<"fwd">>, <<"fwd", "rev">>} \cup {d \in {<<"rev">>} : j.kind = "pebb"}
        /\ j.hops \in Seq(Nat) /\ j.warm \in Nat /\ j.hot \in Nat

VARIABLES hjob,
          hpc,       \* <<phase, position in the directions>>
          pair,      \* positions of the pools Allocate is at
          owned,     \* buffers <<dir, side>> and signals <<dir, "signal">>
          dropped,   \* whether what was owned has been allocated over
          flying,    \* directions whose copy has been initiated and not completed
          sig,       \* of each direction: "none", "set", "met"
          times,     \* of each direction: when its copy started and ended
          calls,     \* transfers completed
          counted,   \* transfers that are in the duration
          duration,  \* of the last transfer
          badStarts, \* directions whose copy could not be initiated
          failures, answer

hsaVars == <<hjob, hpc, pair, owned, dropped, flying, sig, times, calls, counted, duration,
             badStarts, failures, answer>>

Sides == {"src", "dst"}
AllDirs == {"fwd", "rev"}
Sends == hjob.kind = "send"

-----------------------------------------------------------------------------
(* Agents, pools, access and links.                                        *)

\* FindAgent: the first agent of a node; 0 for none.
FindAgent(node) ==
    LET found == {i \in DOMAIN hjob.agents : hjob.agents[i].node = node}
    IN  IF found = {} THEN 0 ELSE Min(found)

\* ProcessMemPool keeps the pools of global memory that a user allocates from.
ProcessMemPool(pools) == SelectSeq(pools, LAMBDA p : p.global /\ p.alloc)

PoolsOf(i) == ProcessMemPool(hjob.agents[i].pools)

\* The agent of a side: the reverse direction swaps them.
AgentOf(dir, side) ==
    FindAgent(IF (side = "src") = (dir = "fwd") THEN hjob.src ELSE hjob.dst)

\* cur_access_rights for a pool of the source and one of the destination.
Rights(s, d, p, q) ==
    IF s \in q.reach /\ d \in p.reach THEN 2
    ELSE IF {hjob.agents[s].type, hjob.agents[d].type} = {"GPU"} THEN 0 ELSE 1

\* GetPeerStatusAgent: the best of all pairs.
PeerStatus(s, d) ==
    Max({0} \cup {Rights(s, d, p, q) : p \in ToSet(PoolsOf(s)), q \in ToSet(PoolsOf(d))})

NO_CONN == -1

\* The distance of the first n hops.
Distance[n \in 0..Len(hjob.hops)] == IF n = 0 THEN 0 ELSE Distance[n - 1] + hjob.hops[n]

\* GetLinkInfo: the distance of all hops, none without pools or hops.
LinkInfo(s, d) ==
    IF PoolsOf(s) = <<>> \/ PoolsOf(d) = <<>> \/ hjob.hops = <<>> THEN NO_CONN
    ELSE Distance[Len(hjob.hops)]

Query ==
    /\ hjob.kind \in {"peer", "link"} /\ hpc[1] = "start"
    /\ LET s == FindAgent(hjob.src)
           d == FindAgent(hjob.dst)
       IN  answer' = CASE s = 0 \/ d = 0 -> IF hjob.kind = "peer" THEN 0 ELSE NO_CONN
                       [] s # 0 /\ d # 0 /\ hjob.kind = "peer" -> PeerStatus(s, d)
                       [] OTHER -> LinkInfo(s, d)
    /\ hpc' = <<"end", 1>>
    /\ UNCHANGED <<hjob, pair, owned, dropped, flying, sig, times, calls, counted, duration,
                   badStarts, failures>>

-----------------------------------------------------------------------------
(* Allocate.                                                               *)

Dir == hjob.dirs[hpc[2]]
LastDir == hpc[2] = Len(hjob.dirs)

MayFail == failures < MaxFailures
Failed == failures' = failures + 1 /\ MayFail
Worked == failures' = failures

\* What a step back frees: all of a worker's, what SendTraffic names at each place.
Undone(place) ==
    IF ~Sends THEN owned
    ELSE CASE place = "alloc" -> {<<"fwd", s>> : s \in Sides}
           [] OTHER -> {<<d, s>> : d \in AllDirs, s \in Sides} \cup {<<"fwd", "signal">>}

GiveUp(place) ==
    /\ hpc' = <<"end", 1>> /\ answer' = -1
    /\ owned' = owned \ Undone(place)

\* A buffer of the next pool of a side; a pool that is too small or fails is passed.
\* When the pools of the destination are used up the source is freed.
TryPool(side) ==
    LET pools == PoolsOf(AgentOf(Dir, side))
        n     == pair[side]
    IN  /\ hpc[1] = side
        /\ n <= Len(pools)
        /\ \/ /\ hjob.size > pools[n].max /\ Worked
              /\ pair' = [pair EXCEPT ![side] = n + 1]
              /\ UNCHANGED <<hpc, owned, dropped>>
           \/ /\ hjob.size <= pools[n].max /\ Failed
              /\ pair' = [pair EXCEPT ![side] = n + 1]
              /\ UNCHANGED <<hpc, owned, dropped>>
           \/ /\ hjob.size <= pools[n].max /\ Worked
              /\ dropped' = (dropped \/ <<Dir, side>> \in owned)
              /\ owned' = owned \cup {<<Dir, side>>}
              /\ hpc' = <<IF side = "src" THEN "dst" ELSE "access", hpc[2]>>
              /\ pair' = IF side = "src" THEN [pair EXCEPT !["dst"] = 1] ELSE pair
        /\ UNCHANGED <<hjob, flying, sig, times, calls, counted, duration, badStarts, answer>>

OutOfPoolsFrees == owned' = owned \ {<<Dir, "src">>}

\* Seeded fault: the loop stays at the pool of the source.
NextSourceSame(n) == n

NextSource(n) == n + 1

NoPool(side) ==
    /\ hpc[1] = side /\ pair[side] > Len(PoolsOf(AgentOf(Dir, side)))
    /\ IF side = "dst"
       THEN /\ OutOfPoolsFrees
            /\ hpc' = <<"src", hpc[2]>>
            /\ pair' = [pair EXCEPT !["src"] = NextSource(@)]
            /\ UNCHANGED answer
       ELSE GiveUp("alloc") /\ UNCHANGED pair
    /\ UNCHANGED <<hjob, dropped, flying, sig, times, calls, counted, duration, badStarts, failures>>

\* Each GPU gets access to the buffer of the other side; of two GPUs only the second
\* answer is looked at.  Without access the next pool of the destination is tried.
AllowAccess ==
    /\ hpc[1] = "access"
    /\ \/ /\ Worked /\ hpc' = <<"signal", hpc[2]>> /\ UNCHANGED <<pair, owned>>
       \/ /\ \E side \in Sides : hjob.agents[AgentOf(Dir, side)].type = "GPU"
          /\ Failed
          /\ owned' = owned \ {<<Dir, "dst">>}
          /\ pair' = [pair EXCEPT !["dst"] = @ + 1]
          /\ hpc' = <<"dst", hpc[2]>>
    /\ UNCHANGED <<hjob, dropped, flying, sig, times, calls, counted, duration, badStarts, answer>>

CreateSignal ==
    /\ hpc[1] = "signal"
    /\ \/ /\ Worked
          /\ dropped' = (dropped \/ <<Dir, "signal">> \in owned)
          /\ owned' = owned \cup {<<Dir, "signal">>}
          /\ pair' = [s \in Sides |-> 1]
          /\ hpc' = IF LastDir THEN <<"copy", 1>> ELSE <<"src", hpc[2] + 1>>
          /\ UNCHANGED answer
       \/ /\ Failed /\ GiveUp("signal") /\ UNCHANGED <<dropped, pair>>
    /\ UNCHANGED <<hjob, flying, sig, times, calls, counted, duration, badStarts>>

-----------------------------------------------------------------------------
(* Copies.                                                                 *)

Armed(d) == "set"

\* A copy that is not initiated ends the loop of a worker, whatever the other one
\* does; SendTraffic only prints it and waits.
StartCopy ==
    /\ hpc[1] = "copy"
    /\ \/ /\ Worked
          /\ flying' = flying \cup {Dir}
          /\ sig' = [sig EXCEPT ![Dir] = Armed(Dir)]
          /\ hpc' = IF LastDir THEN <<"wait", 1>> ELSE <<"copy", hpc[2] + 1>>
          /\ UNCHANGED <<owned, badStarts>>
       \/ /\ Failed
          /\ badStarts' = badStarts \cup {Dir}
          /\ sig' = [sig EXCEPT ![Dir] = Armed(Dir)]
          /\ IF Sends
             THEN /\ hpc' = IF LastDir THEN <<"wait", 1>> ELSE <<"copy", hpc[2] + 1>>
                  /\ UNCHANGED owned
             ELSE hpc' = <<"end", 1>> /\ owned' = {}
          /\ UNCHANGED flying
    /\ UNCHANGED <<hjob, pair, dropped, times, calls, counted, duration, answer>>

\* The runtime, at any time.
Complete(d) ==
    /\ d \in flying
    /\ flying' = flying \ {d}
    /\ sig' = [sig EXCEPT ![d] = "met"]
    /\ \E a \in 0..(Ticks - 1) : \E z \in (a + 1)..Ticks : times' = [times EXCEPT ![d] = <<a, z>>]
    /\ UNCHANGED <<hjob, hpc, pair, owned, dropped, calls, counted, duration, badStarts,
                   failures, answer>>

\* Seeded fault: the reverse copy is not waited for.
WaitedForOne == <<"count", 1>>

Waited == IF LastDir THEN <<"count", 1>> ELSE <<"wait", hpc[2] + 1>>

Wait ==
    /\ hpc[1] = "wait" /\ sig[Dir] = "met"
    /\ hpc' = Waited
    /\ UNCHANGED <<hjob, pair, owned, dropped, flying, sig, times, calls, counted, duration,
                   badStarts, failures, answer>>

\* The time of one copy, or of two without the gap between them.
GetCopyTime(both, one) ==
    LET f    == times[one]
        r    == times[IF one = "fwd" THEN "rev" ELSE "fwd"]
        span == Max({f[2], r[2]}) - Min({f[1], r[1]})
    IN  IF ~both THEN f[2] - f[1]
        ELSE IF f[2] < r[1] THEN span - (r[1] - f[2])
        ELSE IF r[2] < f[1] THEN span - (f[1] - r[2])
        ELSE span

IsHot == ~Sends \/ calls >= hjob.warm

Transfers == hjob.warm + hjob.hot

\* What follows a transfer: the buffers are freed unless the next one uses them.
EndTransfer ==
    /\ hpc[1] = "count"
    /\ calls' = calls + 1
    /\ IF IsHot THEN /\ counted' = counted + 1
                     /\ duration' = GetCopyTime(Len(hjob.dirs) = 2, hjob.dirs[1])
       ELSE UNCHANGED <<counted, duration>>
    /\ pair' = [s \in Sides |-> 1]
    /\ \/ /\ IF Sends THEN calls + 1 < Transfers ELSE calls + 1 < MaxCopies
          /\ IF Sends /\ ~hjob.b2b THEN owned' = {} /\ hpc' = <<"src", 1>>
             ELSE hpc' = <<"copy", 1>> /\ UNCHANGED owned
          /\ UNCHANGED answer
       \/ /\ Sends => calls + 1 = Transfers
          /\ owned' = {} /\ hpc' = <<"end", 1>> /\ answer' = 0
    /\ UNCHANGED <<hjob, dropped, flying, sig, times, badStarts, failures>>

\* The agents are looked up first; SendTraffic refuses those that are not there.
Begin ==
    /\ hjob.kind \in {"send", "pebb", "pbqt"} /\ hpc[1] = "start"
    /\ IF FindAgent(hjob.src) = 0 \/ FindAgent(hjob.dst) = 0
       THEN hpc' = <<"end", 1>> /\ answer' = -1
       ELSE hpc' = <<"src", 1>> /\ UNCHANGED answer
    /\ UNCHANGED <<hjob, pair, owned, dropped, flying, sig, times, calls, counted, duration,
                   badStarts, failures>>

HsaStutters ==
    /\ hpc[1] = "end" /\ flying = {}
    /\ UNCHANGED hsaVars

HsaStart ==
    /\ hpc = <<"start", 1>> /\ pair = [s \in Sides |-> 1]
    /\ owned = {} /\ dropped = FALSE /\ flying = {}
    /\ sig = [d \in AllDirs |-> "none"] /\ times = [d \in AllDirs |-> <<0, 0>>]
    /\ calls = 0 /\ counted = 0 /\ duration = 0
    /\ badStarts = {} /\ failures = 0 /\ answer = 1

HsaInit == hjob \in HsaJobs /\ HsaStart

HsaNext ==
    \/ Query \/ Begin \/ AllowAccess \/ CreateSignal \/ StartCopy \/ Wait \/ EndTransfer
    \/ \E side \in Sides : TryPool(side) \/ NoPool(side)
    \/ \E d \in AllDirs : Complete(d)
    \/ HsaStutters

HsaSpec == HsaInit /\ [][HsaNext]_hsaVars /\ WF_hsaVars(HsaNext)

-----------------------------------------------------------------------------
(* Properties.                                                             *)

HsaTypeOK ==
    /\ hjob \in HsaJobs
    /\ hpc[1] \in {"start", "src", "dst", "access", "signal", "copy", "wait", "count", "end"}
    /\ hpc[2] \in DOMAIN hjob.dirs
    /\ pair \in [Sides -> Nat \ {0}]
    /\ owned \subseteq {<<d, s>> : d \in ToSet(hjob.dirs), s \in Sides \cup {"signal"}}
    /\ flying \subseteq ToSet(hjob.dirs) /\ badStarts \subseteq ToSet(hjob.dirs)
    /\ sig \in [AllDirs -> {"none", "set", "met"}]
    /\ \A d \in flying : sig[d] = "set"
    /\ calls \in 0..Max({Transfers, MaxCopies}) /\ counted \in 0..calls
    /\ duration \in 0..Ticks /\ failures \in 0..MaxFailures
    /\ dropped \in BOOLEAN /\ answer \in Int

\* A copy in flight has its buffers and its signal.  Known to be otherwise: a worker
\* whose reverse copy cannot be initiated frees those of the forward copy.
FlyingHasBuffers ==
    Sends \/ badStarts = {} =>
        \A d \in flying : {<<d, "src">>, <<d, "dst">>, <<d, "signal">>} \subseteq owned

\* At the end nothing is held, nor has been lost by allocating again.  Known to be
\* otherwise: SendTraffic keeps the signal when the reverse buffers fail.
NothingHeldAtEnd ==
    /\ ~dropped
    /\ hpc[1] = "end" => owned \subseteq {<<"fwd", "signal">>}
    /\ hpc[1] = "end" /\ (answer # -1 \/ ~Sends \/ Len(hjob.dirs) = 1) => owned = {}

\* The duration of two copies is the time in which one of them was running.
DurationIsBusyTime ==
    hpc[1] = "end" /\ answer = 0 /\ counted > 0 =>
        duration = Cardinality({t \in 0..(Ticks - 1) :
            \E d \in ToSet(hjob.dirs) : times[d][1] <= t /\ t < times[d][2]})

\* SendTraffic returns 0 after exactly the hot transfers are in the duration.
HotCounted == hpc[1] = "end" /\ Sends /\ answer = 0 => counted = hjob.hot

\* Two GPUs are peers only if each reaches a pool of the other, and any two agents
\* that reach each other are found to.  A CPU without access at all is known to be
\* told as one-sided.
PeersReach ==
    hpc[1] = "end" /\ hjob.kind = "peer" /\ FindAgent(hjob.src) # 0 /\ FindAgent(hjob.dst) # 0 =>
        LET s == FindAgent(hjob.src)
            d == FindAgent(hjob.dst)
        IN  answer = 2 <=> /\ \E p \in ToSet(PoolsOf(s)) : d \in p.reach
                           /\ \E q \in ToSet(PoolsOf(d)) : s \in q.reach

\* A transfer or a worker comes to an end, unless SendTraffic waits for a copy that
\* could not be initiated.
TransferEnds == hpc[1] # "start" ~> (hpc[1] = "end" \/ (Sends /\ badStarts # {}))

\* Whichever allocation, right, signal or copy fails: the copies that fly have their
\* buffers, nothing is held at the end, the rates divide what was moved by the time it
\* took, and two agents are peers only if they can reach each other.
HsaSound ==
    /\ FlyingHasBuffers /\ NothingHeldAtEnd /\ DurationIsBusyTime
    /\ HotCounted /\ PeersReach
=============================================================================
