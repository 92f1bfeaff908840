---------------------------- MODULE Devices_proof ----------------------------
(***************************************************************************)
(* Proofs about what runs on a device: the transfers of the HSA wrapper,   *)
(* the BLAS object with the workers that drive it, the tests of the memory *)
(* and the streams of babel.                                               *)
(*                                                                         *)
(* They are for any jobs and configurations: any agents and pools, any     *)
(* number of transfers and of turns, any number of calls of the libraries  *)
(* that fail, any grid, and any number of blocks, any of them bad.         *)
(***************************************************************************)
EXTENDS Devices, FiniteSetTheorems, TLAPS

-----------------------------------------------------------------------------
(* Numbers.                                                                *)

LEMMA Remainders ==
  ASSUME NEW x \in Nat, NEW d \in Nat \ {0}
  PROVE  /\ x % d \in 0..(d - 1) /\ x \div d \in Nat /\ x = d * (x \div d) + (x % d)
OBVIOUS

\* Two numbers with the same remainder are d apart, or more.
LEMMA Apart ==
  ASSUME NEW x \in Nat, NEW y \in Nat, NEW d \in Nat \ {0}, x % d = y % d, x < y
  PROVE  x + d <= y
<1>0. \A z \in Nat : z = d * (z \div d) + (z % d) /\ z \div d \in Nat /\ z % d \in Nat
  BY ONLY Remainders, d \in Nat \ {0}
<1>1. /\ x = d * (x \div d) + (x % d)
      /\ y = d * (y \div d) + (y % d)
  BY <1>0
<1>2. x \div d \in Nat /\ y \div d \in Nat /\ x % d \in Nat
  BY <1>0
<1>3. d * (x \div d) < d * (y \div d)
  BY <1>1, <1>2
<1>4. \A a, b \in Nat : d * a < d * b => d * a + d <= d * b
  OBVIOUS
<1>. QED  BY <1>1, <1>2, <1>3, <1>4

LEMMA RemainderOf ==
  ASSUME NEW l \in Nat \ {0}, NEW q \in Nat, NEW r \in 0..(l - 1)
  PROVE  (l * q + r) % l = r
<1>. DEFINE y == l * q + r
            z == y % l
            p == y \div l
<1>1. y \in Nat
  OBVIOUS
<1>2. z \in 0..(l - 1) /\ p \in Nat /\ y = l * p + z
  BY <1>1, Remainders
<1>3. \A a, b \in Nat : a < b => l * a + l <= l * b
  OBVIOUS
<1>4. l * q \in Nat /\ l * p \in Nat /\ l * q + r = l * p + z
  BY <1>2
<1>. HIDE DEF y, z, p
<1>5. ~(q < p) /\ ~(p < q)
  BY <1>2, <1>3, <1>4
<1>6. p = q
  BY <1>2, <1>5
<1>. QED  BY <1>2, <1>4, <1>6 DEF y, z

\* A set of numbers has a least one.
LEMMA LeastNumber ==
  ASSUME NEW S \in SUBSET Nat, S # {}
  PROVE  \E m \in S : \A n \in S : m <= n
<1>. DEFINE R == StrictSubsetOrdering(Nat)
            T == {0..m : m \in S}
<1>1. T \subseteq FiniteSubsetsOf(Nat) /\ T # {}
  <2>1. \A m \in S : 0..m \in SUBSET Nat /\ IsFiniteSet(0..m)
    BY FS_Interval
  <2>. QED  BY <2>1 DEF FiniteSubsetsOf
<1>2. PICK x \in T : \A y \in T : ~(<<y, x>> \in R)
  <2>. HIDE DEF T, R
  <2>1. IsWellFoundedOn(R, FiniteSubsetsOf(Nat))
    BY FS_StrictSubsetOrderingWellFounded DEF R
  <2>. QED  BY <1>1, <2>1, WFMin
<1>3. PICK m \in S : x = 0..m
  OBVIOUS
<1>4. ASSUME NEW n \in S, n < m PROVE FALSE
  <2>1. 0..n \in SUBSET Nat /\ 0..m \in SUBSET Nat /\ 0..n \subseteq 0..m /\ 0..n # 0..m
    <3>1. n \in Nat /\ m \in Nat /\ m \in 0..m /\ m \notin 0..n
      BY <1>4
    <3>. QED  BY <1>4, <3>1
  <2>2. <<0..n, 0..m>> \in R
    BY <2>1 DEF StrictSubsetOrdering
  <2>. QED  BY <1>2, <1>3, <2>2
<1>. QED  BY <1>4

Partial(V, v, f, n, h) ==
  /\ h \in [0..n -> V] /\ h[0] = v
  /\ \A i \in 0..n : i < n => h[i + 1] = f[h[i]]

\* A function on the numbers by its value at 0 and a step.
LEMMA Recursion ==
  ASSUME NEW V, NEW v \in V, NEW f \in [V -> V]
  PROVE  \E g \in [Nat -> V] : g[0] = v /\ \A n \in Nat : g[n + 1] = f[g[n]]
<1>. DEFINE Upto(n, h) == Partial(V, v, f, n, h)
<1>1. \A n \in Nat : \E h : Upto(n, h)
  <2>. DEFINE S == {n \in Nat : ~\E h : Upto(n, h)}
  <2>. SUFFICES ASSUME S # {} PROVE FALSE
    OBVIOUS
  <2>1. PICK m \in S : \A n \in S : m <= n
    BY LeastNumber
  <2>2. m \in Nat /\ ~\E h : Upto(m, h)
    OBVIOUS
  <2>3. CASE m = 0
    <3>1. Upto(0, [i \in 0..0 |-> v])
      BY DEF Partial
    <3>. QED  BY <2>2, <2>3, <3>1
  <2>4. CASE m # 0
    <3>1. m - 1 \in Nat /\ m - 1 \notin S
      BY <2>1, <2>2, <2>4
    <3>2. PICK h : Upto(m - 1, h)
      BY <3>1
    <3>. DEFINE k == [i \in 0..m |-> IF i = m THEN f[h[m - 1]] ELSE h[i]]
    <3>3. h \in [0..(m - 1) -> V] /\ h[0] = v /\ \A i \in 0..(m - 1) : i < m - 1 => h[i + 1] = f[h[i]]
      BY <3>2 DEF Partial
    <3>4. k \in [0..m -> V]
      BY <2>2, <3>1, <3>3
    <3>5. k[0] = v
      BY <2>2, <2>4, <3>3
    <3>6. \A i \in 0..m : i < m => k[i + 1] = f[k[i]]
      <4>. SUFFICES ASSUME NEW i \in 0..m, i < m PROVE k[i + 1] = f[k[i]]
        OBVIOUS
      <4>1. k[i] = h[i] /\ i \in 0..(m - 1) /\ i + 1 \in 0..m
        BY <2>2
      <4>2. CASE i + 1 = m
        BY <4>1, <4>2
      <4>3. CASE i + 1 # m
        <5>1. k[i + 1] = h[i + 1] /\ i < m - 1
          BY <2>2, <4>1, <4>3
        <5>. QED  BY <3>3, <4>1, <5>1
      <4>. QED  BY <4>2, <4>3
    <3>. HIDE DEF k
    <3>7. Upto(m, k)
      BY <3>4, <3>5, <3>6 DEF Partial
    <3>. QED  BY <2>2, <3>7
  <2>. QED  BY <2>3, <2>4
<1>2. ASSUME NEW n \in Nat, NEW h, Upto(n, h), NEW m \in Nat, n <= m, NEW k, Upto(m, k)
      PROVE  \A i \in 0..n : h[i] = k[i]
  <2>. DEFINE S == {i \in 0..n : h[i] # k[i]}
  <2>. SUFFICES ASSUME S # {} PROVE FALSE
    OBVIOUS
  <2>1. S \subseteq Nat
    OBVIOUS
  <2>2. PICK i \in S : \A j \in S : i <= j
    BY <2>1, LeastNumber
  <2>3. i \in 0..n /\ h[i] # k[i]
    OBVIOUS
  <2>4. h[0] = k[0]
    BY <1>2 DEF Partial
  <2>5. i - 1 \in 0..n /\ i - 1 < n /\ i - 1 \in 0..m /\ i - 1 < m
    BY <1>2, <2>3, <2>4
  <2>6. h[i - 1] = k[i - 1]
    BY <2>2, <2>5
  <2>7. h[(i - 1) + 1] = f[h[i - 1]] /\ k[(i - 1) + 1] = f[k[i - 1]]
    BY <1>2, <2>5 DEF Partial
  <2>8. (i - 1) + 1 = i
    BY <2>3
  <2>. QED  BY <2>3, <2>6, <2>7, <2>8
<1>. DEFINE At(n) == CHOOSE h : Upto(n, h)
            g == [n \in Nat |-> At(n)[n]]
<1>3. \A n \in Nat : Upto(n, At(n))
  BY <1>1
<1>. HIDE DEF At, Upto
<1>4. \A n \in Nat : At(n)[n] \in V /\ At(n)[0] = v /\ (\A i \in 0..n : i < n => At(n)[i + 1] = f[At(n)[i]])
  BY <1>3 DEF Partial, Upto
<1>5. \A n \in Nat : At(n)[n] = At(n + 1)[n]
  <2>. TAKE n \in Nat
  <2>1. n + 1 \in Nat /\ n <= n + 1 /\ n \in 0..n
    OBVIOUS
  <2>2. Upto(n, At(n)) /\ Upto(n + 1, At(n + 1))
    BY <1>3, <2>1
  <2>. QED  BY <1>2, <2>1, <2>2
<1>6. \A n \in Nat : At(n + 1)[n + 1] = f[At(n + 1)[n]]
  <2>. TAKE n \in Nat
  <2>1. n + 1 \in Nat /\ n \in 0..(n + 1) /\ n < n + 1
    OBVIOUS
  <2>. QED  BY <1>4, <2>1
<1>7. g \in [Nat -> V] /\ g[0] = v
  BY <1>4
<1>8. \A n \in Nat : g[n + 1] = f[g[n]]
  BY <1>5, <1>6
<1>. QED  BY <1>7, <1>8

-----------------------------------------------------------------------------
(* The HSA transfers: the invariant.                                       *)

Places == {"start", "src", "dst", "access", "signal", "copy", "wait", "count", "end"}
Parts  == Sides \cup {"signal"}
Pos    == DOMAIN hjob.dirs

HsaTypes ==
    /\ hjob \in HsaJobs /\ hpc \in Places \X Pos
    /\ sig \in [AllDirs -> {"none", "set", "met"}]
    /\ times \in [AllDirs -> (0..Ticks) \X (0..Ticks)]
    /\ calls \in Nat /\ counted \in Nat

\* What is held of the i-th direction: all of one that is allocated, of the one
\* that Allocate is at what it has come to.
Held(i, s) ==
    \/ hpc[1] \in {"copy", "wait", "count"}
    \/ hpc[1] \in {"src", "dst", "access", "signal"} /\ i < hpc[2]
    \/ hpc[1] \in {"dst", "access", "signal"} /\ i = hpc[2] /\ s = "src"
    \/ hpc[1] \in {"access", "signal"} /\ i = hpc[2] /\ s = "dst"

\* Nothing else is owned, and nothing is allocated twice.
Ownership ==
    /\ hpc[1] # "end" =>
          /\ owned \subseteq {<<hjob.dirs[i], s>> : i \in Pos, s \in Parts}
          /\ \A i \in Pos, s \in Parts : <<hjob.dirs[i], s>> \in owned <=> Held(i, s)
    /\ NothingHeldAtEnd

\* Copies fly from their start until they are waited for, unless a worker gives up.
Flights ==
    /\ \A d \in flying : (\E i \in Pos : d = hjob.dirs[i]) /\ sig[d] = "set"
    /\ flying # {} => \/ hpc[1] \in {"copy", "wait"}
                      \/ hpc[1] = "end" /\ ~Sends /\ badStarts # {}
    /\ hpc[1] = "copy" => \A i \in Pos : i >= hpc[2] => hjob.dirs[i] \notin flying
    /\ hpc[1] = "wait" => \A i \in Pos : i < hpc[2] => sig[hjob.dirs[i]] = "met"
    /\ hpc[1] = "count" => \A i \in Pos : sig[hjob.dirs[i]] = "met"
    /\ \A d \in AllDirs : times[d][1] <= times[d][2]

\* The transfers in the duration, and the answer that is given at the end.
Counting ==
    /\ Sends => counted = IF calls > hjob.warm THEN calls - hjob.warm ELSE 0
    /\ hpc[1] = "start" => counted = 0
    /\ hpc[1] # "end" => answer = 1
    /\ hpc[1] = "end" /\ answer = 0 /\ counted > 0 => flying = {}
    /\ hjob.kind \in {"peer", "link"} => hpc[1] \in {"start", "end"} /\ counted = 0
    /\ HotCounted /\ DurationIsBusyTime

HsaInv == HsaTypes /\ Ownership /\ Flights /\ Counting /\ PeersReach

-----------------------------------------------------------------------------
(* What a job is.                                                          *)

LEMMA JobIs ==
  ASSUME HsaTypes
  PROVE  /\ hjob.warm \in Nat /\ hjob.hot \in Nat /\ Ticks \in Nat
         /\ hjob.kind \in {"send", "pebb", "pbqt", "peer", "link"}
         /\ Pos = 1..Len(hjob.dirs) /\ Len(hjob.dirs) \in {1, 2} /\ 1 \in Pos
         /\ \A i \in Pos : i \in {1, 2} /\ hjob.dirs[i] \in AllDirs
         /\ \A i, j \in Pos : hjob.dirs[i] = hjob.dirs[j] => i = j
         /\ Sends => hjob.dirs[1] = "fwd"
         /\ Len(hjob.dirs) = 2 => hjob.dirs[1] = "fwd" /\ hjob.dirs[2] = "rev"
<1>1. /\ hjob.warm \in Nat /\ hjob.hot \in Nat /\ Ticks \in Nat
      /\ hjob.kind \in {"send", "pebb", "pbqt", "peer", "link"}
      /\ hjob.dirs \in {<<"fwd">>, <<"fwd", "rev">>} \cup {d \in {<<"rev">>} : hjob.kind = "pebb"}
  BY HsaJobsAreJobs DEF HsaTypes
<1>2. CASE hjob.dirs = <<"fwd">>
  BY <1>1, <1>2 DEF Pos, AllDirs
<1>3. CASE hjob.dirs = <<"fwd", "rev">>
  BY <1>1, <1>3 DEF Pos, AllDirs
<1>4. CASE hjob.dirs = <<"rev">> /\ hjob.kind = "pebb"
  BY <1>1, <1>4 DEF Pos, AllDirs, Sends
<1>. QED  BY <1>1, <1>2, <1>3, <1>4

\* Where the job is in its directions.
LEMMA AtPlace ==
  ASSUME HsaTypes
  PROVE  /\ hpc = <<hpc[1], hpc[2]>> /\ hpc[1] \in Places /\ hpc[2] \in Pos
         /\ \A i \in Pos : i < hpc[2] => i = 1 /\ hpc[2] = 2 /\ Len(hjob.dirs) = 2
         /\ LastDir <=> hpc[2] = Len(hjob.dirs)
         /\ ~LastDir => hpc[2] = 1 /\ Len(hjob.dirs) = 2 /\ 2 \in Pos
<1>1. hpc = <<hpc[1], hpc[2]>> /\ hpc[1] \in Places /\ hpc[2] \in Pos
  BY DEF HsaTypes
<1>2. Pos = 1..Len(hjob.dirs) /\ Len(hjob.dirs) \in {1, 2}
  BY JobIs
<1>3. CASE Len(hjob.dirs) = 1
  BY <1>1, <1>2, <1>3 DEF LastDir
<1>4. CASE Len(hjob.dirs) = 2
  BY <1>1, <1>2, <1>4 DEF LastDir
<1>. QED  BY <1>2, <1>3, <1>4

LEMMA PartsAre == Parts = {"src", "dst", "signal"} /\ Sides = {"src", "dst"}
BY DEF Parts, Sides

\* One owner of each buffer and signal.
LEMMA Own ==
  ASSUME HsaTypes, NEW i \in Pos, NEW j \in Pos, NEW s, NEW t
  PROVE  <<hjob.dirs[i], s>> = <<hjob.dirs[j], t>> <=> i = j /\ s = t
BY JobIs

\* What a step that does not end the job need not be asked.
LEMMA NotEnded ==
  ASSUME hpc'[1] # "end"
  PROVE  HotCounted' /\ DurationIsBusyTime' /\ PeersReach' /\ (~dropped' => NothingHeldAtEnd')
BY DEF HotCounted, DurationIsBusyTime, PeersReach, NothingHeldAtEnd

\* What a job that gives up need not be asked.
LEMMA GaveUp ==
  ASSUME hjob' = hjob, answer' = -1, hjob.kind # "peer"
  PROVE  HotCounted' /\ DurationIsBusyTime' /\ PeersReach'
BY DEF HotCounted, DurationIsBusyTime, PeersReach

LEMMA StillJob ==
  ASSUME hjob' = hjob
  PROVE  Pos' = Pos /\ (Sends' <=> Sends)
BY DEF Pos, Sends

\* The part of the invariant about allocation only needs the place and what is owned.
LEMMA Owns ==
  ASSUME HsaTypes, hjob' = hjob, hpc'[1] # "end", ~dropped',
         NEW new \in SUBSET (Pos \X Parts), NEW old \in SUBSET (Pos \X Parts),
         Ownership, hpc[1] # "end",
         owned' = (owned \cup {<<hjob.dirs[x[1]], x[2]>> : x \in new})
                         \ {<<hjob.dirs[x[1]], x[2]>> : x \in old},
         \A i \in Pos, s \in Parts :
            Held(i, s)' <=> (Held(i, s) \/ <<i, s>> \in new) /\ <<i, s>> \notin old
  PROVE  Ownership'
<1>1. Pos' = Pos
  BY StillJob
<1>2. \A i \in Pos, s \in Parts : <<hjob.dirs[i], s>> \in owned <=> Held(i, s)
  BY DEF Ownership
<1>3. ASSUME NEW i \in Pos, NEW s \in Parts
      PROVE  <<hjob.dirs[i], s>> \in owned' <=> Held(i, s)'
  <2>1. /\ <<hjob.dirs[i], s>> \in {<<hjob.dirs[x[1]], x[2]>> : x \in new} <=> <<i, s>> \in new
        /\ <<hjob.dirs[i], s>> \in {<<hjob.dirs[x[1]], x[2]>> : x \in old} <=> <<i, s>> \in old
    <3>1. ASSUME NEW set \in {new, old}
          PROVE  <<hjob.dirs[i], s>> \in {<<hjob.dirs[x[1]], x[2]>> : x \in set} <=> <<i, s>> \in set
      <4>1. \A x \in set : x[1] \in Pos /\ x[2] \in Parts /\ x = <<x[1], x[2]>>
        OBVIOUS
      <4>2. \A x \in set : <<hjob.dirs[i], s>> = <<hjob.dirs[x[1]], x[2]>> <=> x = <<i, s>>
        BY <4>1, Own
      <4>. QED  BY <4>2
    <3>. QED  BY <3>1
  <2>. QED  BY <1>2, <2>1
<1>4. owned' \subseteq {<<hjob.dirs[i], s>> : i \in Pos, s \in Parts}
  <2>1. owned \subseteq {<<hjob.dirs[i], s>> : i \in Pos, s \in Parts}
    BY DEF Ownership
  <2>2. {<<hjob.dirs[x[1]], x[2]>> : x \in new} \subseteq {<<hjob.dirs[i], s>> : i \in Pos, s \in Parts}
    <3>1. \A x \in new : x[1] \in Pos /\ x[2] \in Parts
      OBVIOUS
    <3>. QED  BY <3>1
  <2>. QED  BY <2>1, <2>2
<1>5. NothingHeldAtEnd'
  BY NotEnded
<1>. QED  BY <1>1, <1>3, <1>4, <1>5 DEF Ownership

-----------------------------------------------------------------------------
(* Allocation.                                                             *)

LEMMA BeginKeeps == HsaInv /\ Begin => HsaInv'
<1>. SUFFICES ASSUME HsaInv, Begin PROVE HsaInv'
  OBVIOUS
<1>0. /\ HsaTypes /\ Pos' = Pos /\ 1 \in Pos /\ hjob' = hjob /\ (Sends' <=> Sends)
      /\ hpc[1] = "start" /\ hjob.kind \in {"send", "pebb", "pbqt"}
      /\ UNCHANGED <<owned, dropped, flying, sig, times, calls, counted, duration, badStarts>>
  BY JobIs, StillJob DEF HsaInv, Begin
<1>1. owned = {} /\ ~dropped
  <2>1. \A i \in Pos, s \in Parts : ~Held(i, s)
    BY <1>0 DEF Held
  <2>. QED  BY <1>0, <2>1 DEF HsaInv, Ownership, NothingHeldAtEnd
<1>2. HsaTypes'
  <2>1. hpc' \in {<<"end", 1>>, <<"src", 1>>}
    BY DEF Begin
  <2>. QED  BY <1>0, <2>1 DEF HsaTypes, Places
<1>3. flying = {} /\ counted = 0
  BY <1>0 DEF HsaInv, Flights, Counting
<1>4. CASE hpc' = <<"end", 1>> /\ answer' = -1
  <2>1. Ownership'
    BY <1>0, <1>1, <1>4 DEF Ownership, NothingHeldAtEnd
  <2>2. Flights'
    BY <1>0, <1>3, <1>4 DEF HsaInv, Flights
  <2>3. HotCounted' /\ DurationIsBusyTime' /\ PeersReach'
    BY <1>0, <1>4, GaveUp
  <2>4. Counting'
    BY <1>0, <1>3, <1>4, <2>3 DEF HsaInv, Counting
  <2>. QED  BY <1>2, <2>1, <2>2, <2>3, <2>4 DEF HsaInv
<1>5. CASE hpc' = <<"src", 1>> /\ answer' = answer
  <2>1. \A i \in Pos, s \in Parts : ~Held(i, s)'
    <3>1. \A i \in Pos : ~(i < 1)
      BY <1>0, JobIs
    <3>. QED  BY <1>5, <3>1 DEF Held
  <2>2. HotCounted' /\ DurationIsBusyTime' /\ PeersReach' /\ NothingHeldAtEnd'
    BY <1>0, <1>1, <1>5, NotEnded
  <2>3. Ownership'
    BY <1>0, <1>1, <2>1, <2>2 DEF Ownership
  <2>4. Flights'
    BY <1>0, <1>3, <1>5 DEF HsaInv, Flights
  <2>5. Counting'
    BY <1>0, <1>3, <1>5, <2>2 DEF HsaInv, Counting
  <2>. QED  BY <1>2, <2>2, <2>3, <2>4, <2>5 DEF HsaInv
<1>. QED  BY <1>4, <1>5 DEF Begin

\* A step of Allocate that goes on.
LEMMA Allocates ==
  ASSUME HsaInv, HsaTypes', Ownership', hjob' = hjob, hpc[1] \in {"src", "dst", "access", "signal"},
         \/ hpc'[1] \in {"src", "dst", "access", "signal"}
         \/ hpc' = <<"copy", 1>>,
         UNCHANGED <<flying, sig, times, calls, counted, duration, badStarts, answer>>
  PROVE  HsaInv'
<1>1. hpc'[1] # "end" /\ hpc'[1] \notin {"start", "wait", "count"}
  OBVIOUS
<1>2. HotCounted' /\ DurationIsBusyTime' /\ PeersReach'
  BY <1>1, NotEnded
<1>3. flying = {} /\ hjob.kind \notin {"peer", "link"} /\ answer = 1
  BY DEF HsaInv, Flights, Counting
<1>4. Flights'
  BY <1>1, <1>3 DEF HsaInv, Flights
<1>5. Counting'
  BY <1>1, <1>2, <1>3, StillJob DEF HsaInv, Counting
<1>. QED  BY <1>2, <1>4, <1>5 DEF HsaInv

\* A step of Allocate that gives up.
LEMMA GivesUp ==
  ASSUME HsaInv, hjob' = hjob, hpc[1] \in {"src", "signal"}, NEW place,
         place = IF hpc[1] = "src" THEN "alloc" ELSE "signal", GiveUp(place),
         UNCHANGED <<dropped, flying, sig, times, calls, counted, duration, badStarts>>
  PROVE  HsaInv'
<1>0. /\ HsaTypes /\ Pos' = Pos /\ (Sends' <=> Sends)
      /\ hpc' = <<"end", 1>> /\ answer' = -1 /\ owned' = owned \ Undone(place)
      /\ 1 \in Pos /\ Pos = 1..Len(hjob.dirs) /\ Len(hjob.dirs) \in {1, 2}
  BY JobIs, StillJob DEF HsaInv, GiveUp
<1>1. flying = {} /\ hjob.kind \notin {"peer", "link"} /\ ~dropped
  BY DEF HsaInv, Flights, Counting, Ownership, NothingHeldAtEnd
<1>2. HsaTypes'
  BY <1>0 DEF HsaTypes, Places
<1>3. HotCounted' /\ DurationIsBusyTime' /\ PeersReach'
  BY <1>0, <1>1, GaveUp
<1>4. Flights'
  BY <1>0, <1>1 DEF HsaInv, Flights
<1>5. Counting'
  BY <1>0, <1>1, <1>3 DEF HsaInv, Counting
<1>6. /\ owned' \subseteq {<<"fwd", "signal">>}
      /\ ~Sends \/ Len(hjob.dirs) = 1 => owned' = {}
  <2>1. CASE ~Sends
    BY <1>0, <2>1 DEF Undone
  <2>2. CASE Sends /\ hpc[1] = "src"
    <3>0. owned' = owned \ {<<"fwd", s>> : s \in Sides}
      BY <1>0, <2>2 DEF Undone
    <3>1. \A i \in Pos, s \in Parts : <<hjob.dirs[i], s>> \in owned => i < hpc[2]
      BY <2>2 DEF HsaInv, Ownership, Held
    <3>2. \A i \in Pos : i < hpc[2] => i = 1 /\ Len(hjob.dirs) = 2
      BY <1>0, AtPlace
    <3>3. hjob.dirs[1] = "fwd"
      BY <1>0, <2>2, JobIs
    <3>4. ASSUME NEW o \in owned PROVE Len(hjob.dirs) = 2 /\ \E s \in Parts : o = <<"fwd", s>>
      <4>1. PICK i \in Pos, s \in Parts : o = <<hjob.dirs[i], s>>
        BY <2>2 DEF HsaInv, Ownership
      <4>2. i = 1 /\ Len(hjob.dirs) = 2
        BY <3>1, <3>2, <3>4, <4>1
      <4>. QED  BY <3>3, <4>1, <4>2
    <3>5. \A o \in owned' : o = <<"fwd", "signal">> /\ Len(hjob.dirs) = 2
      BY <3>0, <3>4, PartsAre
    <3>. QED  BY <2>2, <3>5
  <2>3. CASE Sends /\ hpc[1] = "signal"
    <3>0. owned' = owned \ ({<<d, s>> : d \in AllDirs, s \in Sides} \cup {<<"fwd", "signal">>})
      BY <1>0, <2>3 DEF Undone
    <3>1. \A i \in Pos, s \in Parts : <<hjob.dirs[i], s>> \in owned => s \in Sides \/ i < hpc[2]
      <4>1. \A i \in Pos, s \in Parts : <<hjob.dirs[i], s>> \in owned => Held(i, s)
        BY <2>3 DEF HsaInv, Ownership
      <4>2. \A i \in Pos, s \in Parts : Held(i, s) => s \in Sides \/ i < hpc[2]
        BY <2>3, PartsAre DEF Held
      <4>. QED  BY <4>1, <4>2
    <3>2. \A i \in Pos : i < hpc[2] => i = 1
      BY <1>0, AtPlace
    <3>3. hjob.dirs[1] = "fwd" /\ \A i \in Pos : hjob.dirs[i] \in AllDirs
      BY <1>0, <2>3, JobIs
    <3>4. ASSUME NEW o \in owned PROVE o \notin owned'
      <4>1. PICK i \in Pos, s \in Parts : o = <<hjob.dirs[i], s>>
        BY <2>3 DEF HsaInv, Ownership
      <4>2. s \in Sides \/ i = 1
        BY <3>1, <3>2, <3>4, <4>1
      <4>. QED  BY <3>0, <3>3, <4>1, <4>2, PartsAre
    <3>. QED  BY <3>0, <3>4
  <2>. QED  BY <2>1, <2>2, <2>3
<1>7. Ownership'
  BY <1>0, <1>1, <1>6 DEF Ownership, NothingHeldAtEnd
<1>. QED  BY <1>2, <1>3, <1>4, <1>5, <1>7 DEF HsaInv

\* A part of the present direction more, a part of it less, or nothing at all.
LEMMA OwnsMore ==
  ASSUME HsaTypes, hjob' = hjob, hpc'[1] # "end", ~dropped', Ownership, hpc[1] # "end",
         NEW piece \in Parts, owned' = owned \cup {<<Dir, piece>>},
         \A i \in Pos, s \in Parts : Held(i, s)' <=> Held(i, s) \/ (i = hpc[2] /\ s = piece)
  PROVE  Ownership'
<1>. DEFINE new == {<<hpc[2], piece>>}
            old == {}
<1>1. new \in SUBSET (Pos \X Parts) /\ old \in SUBSET (Pos \X Parts)
  BY AtPlace
<1>2. owned' = (owned \cup {<<hjob.dirs[x[1]], x[2]>> : x \in new})
                  \ {<<hjob.dirs[x[1]], x[2]>> : x \in old}
  BY DEF Dir
<1>3. \A i \in Pos, s \in Parts :
         Held(i, s)' <=> (Held(i, s) \/ <<i, s>> \in new) /\ <<i, s>> \notin old
  OBVIOUS
<1>. HIDE DEF new, old
<1>. QED  BY <1>1, <1>2, <1>3, Owns

LEMMA OwnsLess ==
  ASSUME HsaTypes, hjob' = hjob, hpc'[1] # "end", ~dropped', Ownership, hpc[1] # "end",
         NEW piece \in Parts, owned' = owned \ {<<Dir, piece>>},
         \A i \in Pos, s \in Parts : Held(i, s)' <=> Held(i, s) /\ ~(i = hpc[2] /\ s = piece)
  PROVE  Ownership'
<1>. DEFINE new == {}
            old == {<<hpc[2], piece>>}
<1>1. new \in SUBSET (Pos \X Parts) /\ old \in SUBSET (Pos \X Parts)
  BY AtPlace
<1>2. owned' = (owned \cup {<<hjob.dirs[x[1]], x[2]>> : x \in new})
                  \ {<<hjob.dirs[x[1]], x[2]>> : x \in old}
  BY DEF Dir
<1>3. \A i \in Pos, s \in Parts :
         Held(i, s)' <=> (Held(i, s) \/ <<i, s>> \in new) /\ <<i, s>> \notin old
  OBVIOUS
<1>. HIDE DEF new, old
<1>. QED  BY <1>1, <1>2, <1>3, Owns

LEMMA OwnsSame ==
  ASSUME HsaTypes, hjob' = hjob, hpc'[1] # "end", ~dropped', Ownership, hpc[1] # "end",
         owned' = owned, \A i \in Pos, s \in Parts : Held(i, s)' <=> Held(i, s)
  PROVE  Ownership'
<1>. DEFINE none == {}
<1>1. none \in SUBSET (Pos \X Parts)
  OBVIOUS
<1>2. owned' = (owned \cup {<<hjob.dirs[x[1]], x[2]>> : x \in none})
                  \ {<<hjob.dirs[x[1]], x[2]>> : x \in none}
  OBVIOUS
<1>3. \A i \in Pos, s \in Parts :
         Held(i, s)' <=> (Held(i, s) \/ <<i, s>> \in none) /\ <<i, s>> \notin none
  OBVIOUS
<1>. HIDE DEF none
<1>. QED  BY <1>1, <1>2, <1>3, Owns

\* While Allocate is at a part it does not own it yet.
LEMMA NotYet ==
  ASSUME HsaTypes, Ownership, hpc[1] \in {"src", "dst", "signal"}
  PROVE  <<Dir, hpc[1]>> \notin owned /\ ~dropped
<1>1. hpc[2] \in Pos /\ hpc[1] \in Parts
  BY AtPlace, PartsAre
<1>2. ~Held(hpc[2], hpc[1])
  <2>1. hpc[2] \in Nat
    BY <1>1, JobIs
  <2>. QED  BY <2>1 DEF Held
<1>. QED  BY <1>1, <1>2 DEF Ownership, NothingHeldAtEnd, Dir

LEMMA TryPoolKeeps == \A side \in Sides : HsaInv /\ TryPool(side) => HsaInv'
<1>. SUFFICES ASSUME NEW side \in Sides, HsaInv, TryPool(side) PROVE HsaInv'
  OBVIOUS
<1>0. /\ HsaTypes /\ Ownership /\ hjob' = hjob /\ Pos' = Pos
      /\ hpc[1] = side /\ side \in {"src", "dst"} /\ side \in Parts
      /\ UNCHANGED <<hjob, flying, sig, times, calls, counted, duration, badStarts, answer>>
  BY StillJob, PartsAre DEF HsaInv, TryPool
<1>1. hpc[2] \in Pos /\ hpc = <<hpc[1], hpc[2]>>
  BY <1>0, AtPlace
<1>2. CASE UNCHANGED <<hpc, owned, dropped>>
  <2>1. HsaTypes'
    BY <1>0, <1>2 DEF HsaTypes
  <2>2. ~dropped'
    BY <1>0, <1>2, NotYet
  <2>3. \A i \in Pos, s \in Parts : Held(i, s)' <=> Held(i, s)
    BY <1>2 DEF Held
  <2>4. Ownership'
    BY <1>0, <1>2, <2>2, <2>3, OwnsSame
  <2>. QED  BY <1>0, <1>2, <2>1, <2>4, Allocates
<1>3. CASE /\ dropped' = (dropped \/ <<Dir, side>> \in owned)
           /\ owned' = owned \cup {<<Dir, side>>}
           /\ hpc' = <<IF side = "src" THEN "dst" ELSE "access", hpc[2]>>
  <2>1. HsaTypes'
    BY <1>0, <1>1, <1>3 DEF HsaTypes, Places
  <2>2. ~dropped'
    BY <1>0, <1>3, NotYet
  <2>3. ASSUME NEW i \in Pos, NEW s \in Parts
        PROVE  Held(i, s)' <=> Held(i, s) \/ (i = hpc[2] /\ s = side)
    <3>1. i \in Nat /\ hpc[2] \in Nat
      BY <1>0, <1>1, JobIs
    <3>2. CASE side = "src"
      BY <1>0, <1>3, <3>1, <3>2 DEF Held
    <3>3. CASE side = "dst"
      BY <1>0, <1>3, <3>1, <3>3 DEF Held
    <3>. QED  BY <1>0, <3>2, <3>3
  <2>4. Ownership'
    BY <1>0, <1>3, <2>2, <2>3, OwnsMore
  <2>. QED  BY <1>0, <1>3, <2>1, <2>4, Allocates
<1>. QED  BY <1>2, <1>3 DEF TryPool

LEMMA NoPoolKeeps == \A side \in Sides : HsaInv /\ NoPool(side) => HsaInv'
<1>. SUFFICES ASSUME NEW side \in Sides, HsaInv, NoPool(side) PROVE HsaInv'
  OBVIOUS
<1>0. /\ HsaTypes /\ Ownership /\ hjob' = hjob /\ Pos' = Pos
      /\ hpc[1] = side /\ side \in {"src", "dst"}
      /\ UNCHANGED <<dropped, flying, sig, times, calls, counted, duration, badStarts>>
  BY StillJob, PartsAre DEF HsaInv, NoPool
<1>1. CASE side = "src"
  <2>1. GiveUp("alloc")
    BY <1>1 DEF NoPool
  <2>. QED  BY <1>0, <1>1, <2>1, GivesUp
<1>2. CASE side = "dst"
  <2>1. owned' = owned \ {<<Dir, "src">>} /\ hpc' = <<"src", hpc[2]>> /\ answer' = answer
    BY <1>2 DEF NoPool, OutOfPoolsFrees
  <2>2. HsaTypes'
    BY <1>0, <2>1, AtPlace DEF HsaTypes, Places
  <2>3. ~dropped'
    BY <1>0, NotYet
  <2>4. ASSUME NEW i \in Pos, NEW s \in Parts
        PROVE  Held(i, s)' <=> Held(i, s) /\ ~(i = hpc[2] /\ s = "src")
    <3>1. i \in Nat /\ hpc[2] \in Nat
      BY <1>0, JobIs, AtPlace
    <3>. QED  BY <1>0, <1>2, <2>1, <3>1 DEF Held
  <2>5. Ownership'
    BY <1>0, <1>2, <2>1, <2>3, <2>4, OwnsLess, PartsAre
  <2>. QED  BY <1>0, <2>1, <2>2, <2>5, Allocates
<1>. QED  BY <1>0, <1>1, <1>2

LEMMA AllowAccessKeeps == HsaInv /\ AllowAccess => HsaInv'
<1>. SUFFICES ASSUME HsaInv, AllowAccess PROVE HsaInv'
  OBVIOUS
<1>0. /\ HsaTypes /\ Ownership /\ hjob' = hjob /\ Pos' = Pos /\ hpc[1] = "access" /\ ~dropped'
      /\ UNCHANGED <<flying, sig, times, calls, counted, duration, badStarts, answer>>
  BY StillJob DEF HsaInv, AllowAccess, Ownership, NothingHeldAtEnd
<1>1. hpc[2] \in Pos /\ hpc[2] \in Nat /\ \A i \in Pos : i \in Nat
  BY <1>0, JobIs, AtPlace
<1>2. CASE hpc' = <<"signal", hpc[2]>> /\ UNCHANGED owned
  <2>1. HsaTypes'
    BY <1>0, <1>1, <1>2 DEF HsaTypes, Places
  <2>2. \A i \in Pos, s \in Parts : Held(i, s)' <=> Held(i, s)
    BY <1>0, <1>2 DEF Held
  <2>3. Ownership'
    BY <1>0, <1>2, <2>2, OwnsSame
  <2>. QED  BY <1>0, <1>2, <2>1, <2>3, Allocates
<1>3. CASE hpc' = <<"dst", hpc[2]>> /\ owned' = owned \ {<<Dir, "dst">>}
  <2>1. HsaTypes'
    BY <1>0, <1>1, <1>3 DEF HsaTypes, Places
  <2>2. \A i \in Pos, s \in Parts : Held(i, s)' <=> Held(i, s) /\ ~(i = hpc[2] /\ s = "dst")
    BY <1>0, <1>1, <1>3 DEF Held
  <2>3. Ownership'
    BY <1>0, <1>3, <2>2, OwnsLess, PartsAre
  <2>. QED  BY <1>0, <1>3, <2>1, <2>3, Allocates
<1>. QED  BY <1>2, <1>3 DEF AllowAccess

LEMMA CreateSignalKeeps == HsaInv /\ CreateSignal => HsaInv'
<1>. SUFFICES ASSUME HsaInv, CreateSignal PROVE HsaInv'
  OBVIOUS
<1>0. /\ HsaTypes /\ Ownership /\ hjob' = hjob /\ Pos' = Pos /\ hpc[1] = "signal"
      /\ UNCHANGED <<flying, sig, times, calls, counted, duration, badStarts>>
  BY StillJob DEF HsaInv, CreateSignal
<1>1. /\ hpc[2] \in Pos /\ hpc[2] \in Nat /\ Pos = 1..Len(hjob.dirs) /\ Len(hjob.dirs) \in {1, 2}
      /\ 1 \in Pos
      /\ LastDir <=> hpc[2] = Len(hjob.dirs)
      /\ ~LastDir => hpc[2] = 1 /\ Len(hjob.dirs) = 2 /\ 2 \in Pos
  BY <1>0, JobIs, AtPlace
<1>2. CASE /\ dropped' = (dropped \/ <<Dir, "signal">> \in owned)
           /\ owned' = owned \cup {<<Dir, "signal">>}
           /\ hpc' = IF LastDir THEN <<"copy", 1>> ELSE <<"src", hpc[2] + 1>>
           /\ UNCHANGED answer
  <2>0. (hpc' = <<"copy", 1>> /\ LastDir) \/ (hpc' = <<"src", 2>> /\ ~LastDir)
    <3>1. CASE LastDir
      BY <1>2, <3>1
    <3>2. CASE ~LastDir
      <4>1. hpc[2] + 1 = 2
        BY <1>1, <3>2
      <4>. QED  BY <1>2, <3>2, <4>1
    <3>. QED  BY <3>1, <3>2
  <2>1. HsaTypes'
    BY <1>0, <1>1, <2>0 DEF HsaTypes, Places
  <2>2. ~dropped'
    BY <1>0, <1>2, NotYet
  <2>3. ASSUME NEW i \in Pos, NEW s \in Parts
        PROVE  Held(i, s)' <=> Held(i, s) \/ (i = hpc[2] /\ s = "signal")
    <3>1. CASE LastDir
      <4>1. i \in Nat /\ i <= hpc[2] /\ s \in {"src", "dst", "signal"}
        BY <1>1, <3>1, PartsAre
      <4>2. Held(i, s)'
        BY <2>0, <3>1 DEF Held
      <4>. QED  BY <1>0, <1>1, <4>1, <4>2 DEF Held
    <3>2. CASE ~LastDir
      <4>1. i \in {1, 2} /\ hpc[2] = 1 /\ s \in {"src", "dst", "signal"}
        BY <1>0, <1>1, <3>2, PartsAre, JobIs
      <4>2. Held(i, s)' <=> i = 1
        BY <2>0, <3>2, <4>1 DEF Held
      <4>. QED  BY <1>0, <4>1, <4>2 DEF Held
    <3>. QED  BY <3>1, <3>2
  <2>4. Ownership'
    BY <1>0, <1>2, <2>0, <2>2, <2>3, OwnsMore, PartsAre
  <2>. QED  BY <1>0, <1>2, <2>0, <2>1, <2>4, Allocates
<1>3. CASE GiveUp("signal") /\ UNCHANGED dropped
  BY <1>0, <1>3, GivesUp
<1>. QED  BY <1>2, <1>3 DEF CreateSignal

-----------------------------------------------------------------------------
(* Access.                                                                 *)

\* The best of the answers for each pair of pools is 2 when one of them is.
LEMMA BestIs ==
  ASSUME NEW S, S \subseteq {0, 1, 2}, 0 \in S
  PROVE  Max(S) \in {0, 1, 2} /\ (Max(S) = 2 <=> 2 \in S)
<1>1. \E x \in S : \A y \in S : x >= y
  <2>1. CASE 2 \in S
    BY <2>1
  <2>2. CASE 2 \notin S /\ 1 \in S
    BY <2>2
  <2>3. CASE 2 \notin S /\ 1 \notin S
    BY <2>3
  <2>. QED  BY <2>1, <2>2, <2>3
<1>2. Max(S) \in S /\ \A y \in S : Max(S) >= y
  BY <1>1 DEF Max
<1>. HIDE DEF Max
<1>3. Max(S) \in {0, 1, 2}
  BY <1>2
<1>4. ASSUME 2 \in S PROVE Max(S) = 2
  <2>1. Max(S) >= 2
    BY <1>2, <1>4
  <2>. QED  BY <1>3, <2>1
<1>. QED  BY <1>2, <1>3, <1>4

LEMMA PeersAre ==
  ASSUME NEW s, NEW d
  PROVE  /\ PeerStatus(s, d) \in {0, 1, 2}
         /\ PeerStatus(s, d) = 2 <=> /\ \E p \in ToSet(PoolsOf(s)) : d \in p.reach
                                     /\ \E q \in ToSet(PoolsOf(d)) : s \in q.reach
<1>. DEFINE P == ToSet(PoolsOf(s))
            Q == ToSet(PoolsOf(d))
            answers == {Rights(s, d, p, q) : p \in P, q \in Q}
            S == {0} \cup answers
<1>. HIDE DEF P, Q
<1>1. \A p, q : /\ Rights(s, d, p, q) \in {0, 1, 2}
                /\ Rights(s, d, p, q) = 2 <=> s \in q.reach /\ d \in p.reach
  BY DEF Rights
<1>2. S \subseteq {0, 1, 2} /\ 0 \in S
  BY <1>1
<1>3. 2 \in S <=> \E p \in P, q \in Q : s \in q.reach /\ d \in p.reach
  BY <1>1
<1>4. PeerStatus(s, d) = Max(S)
  BY DEF PeerStatus, P, Q
<1>. HIDE DEF S
<1>5. PeerStatus(s, d) \in {0, 1, 2} /\ (PeerStatus(s, d) = 2 <=> 2 \in S)
  BY <1>2, <1>4, BestIs
<1>6. PeerStatus(s, d) = 2 <=> \E p \in P, q \in Q : s \in q.reach /\ d \in p.reach
  BY <1>3, <1>5
<1>. QED  BY <1>5, <1>6 DEF P, Q

\* Where the agents are and what they offer does not change.
LEMMA SameAgents ==
  ASSUME hjob' = hjob
  PROVE  /\ FindAgent(hjob.src)' = FindAgent(hjob.src) /\ FindAgent(hjob.dst)' = FindAgent(hjob.dst)
         /\ \A i : PoolsOf(i)' = PoolsOf(i)
BY DEF FindAgent, PoolsOf

LEMMA QueryKeeps == HsaInv /\ Query => HsaInv'
<1>. SUFFICES ASSUME HsaInv, Query PROVE HsaInv'
  OBVIOUS
<1>0. /\ HsaTypes /\ Pos' = Pos /\ 1 \in Pos /\ hjob' = hjob /\ (Sends' <=> Sends)
      /\ hpc[1] = "start" /\ hjob.kind \in {"peer", "link"} /\ ~Sends /\ hpc' = <<"end", 1>>
      /\ UNCHANGED <<owned, dropped, flying, sig, times, calls, counted, duration, badStarts>>
  BY JobIs, StillJob DEF HsaInv, Query, Sends
<1>1. owned = {} /\ ~dropped
  <2>1. \A i \in Pos, s \in Parts : ~Held(i, s)
    BY <1>0 DEF Held
  <2>. QED  BY <1>0, <2>1 DEF HsaInv, Ownership, NothingHeldAtEnd
<1>2. HsaTypes'
  BY <1>0 DEF HsaTypes, Places
<1>3. flying = {} /\ counted = 0
  BY <1>0 DEF HsaInv, Flights, Counting
<1>4. Ownership'
  BY <1>0, <1>1 DEF Ownership, NothingHeldAtEnd
<1>5. Flights'
  BY <1>0, <1>3 DEF HsaInv, Flights
<1>6. Counting'
  <2>1. HotCounted' /\ DurationIsBusyTime'
    BY <1>0, <1>3 DEF HotCounted, DurationIsBusyTime
  <2>. QED  BY <1>0, <1>3, <2>1 DEF HsaInv, Counting
<1>7. PeersReach'
  <2>. DEFINE s == FindAgent(hjob.src)
              d == FindAgent(hjob.dst)
  <2>1. hjob.kind = "peer" /\ s # 0 /\ d # 0 => answer' = PeerStatus(s, d)
    BY DEF Query
  <2>. HIDE DEF s, d
  <2>2. hjob.kind = "peer" /\ s # 0 /\ d # 0 =>
           (answer' = 2 <=> /\ \E p \in ToSet(PoolsOf(s)) : d \in p.reach
                            /\ \E q \in ToSet(PoolsOf(d)) : s \in q.reach)
    BY <2>1, PeersAre
  <2>3. FindAgent(hjob.src)' = s /\ FindAgent(hjob.dst)' = d /\ \A i : PoolsOf(i)' = PoolsOf(i)
    BY <1>0, SameAgents DEF s, d
  <2>. QED  BY <1>0, <2>2, <2>3 DEF PeersReach
<1>. QED  BY <1>2, <1>4, <1>5, <1>6, <1>7 DEF HsaInv

-----------------------------------------------------------------------------
(* Copies.                                                                 *)

\* Between the allocation and the end everything is held.
LEMMA AllHeld ==
  ASSUME HsaInv, hjob' = hjob, hpc[1] \in {"copy", "wait", "count"},
         hpc'[1] \in {"copy", "wait", "count"}, UNCHANGED <<owned, dropped>>
  PROVE  Ownership'
<1>1. \A i \in Pos, s \in Parts : Held(i, s)' <=> Held(i, s)
  BY DEF Held
<1>. QED  BY <1>1, OwnsSame DEF HsaInv, Ownership, NothingHeldAtEnd

LEMMA StartCopyKeeps == HsaInv /\ StartCopy => HsaInv'
<1>. SUFFICES ASSUME HsaInv, StartCopy PROVE HsaInv'
  OBVIOUS
<1>0. /\ HsaTypes /\ Ownership /\ Pos' = Pos /\ hjob' = hjob /\ (Sends' <=> Sends)
      /\ hpc[1] = "copy" /\ sig' = [sig EXCEPT ![Dir] = "set"]
      /\ UNCHANGED <<dropped, times, calls, counted, duration, answer>>
  BY StillJob DEF HsaInv, StartCopy, Armed
<1>1. /\ hpc[2] \in Pos /\ 1 \in Pos /\ ~dropped /\ answer = 1 /\ hjob.kind \notin {"peer", "link"}
      /\ \A i \in Pos : i \in {1, 2}
      /\ ~LastDir => hpc[2] = 1 /\ 2 \in Pos /\ hpc[2] + 1 = 2
  BY <1>0, JobIs, AtPlace DEF HsaInv, Ownership, NothingHeldAtEnd, Counting
<1>2. Dir = hjob.dirs[hpc[2]] /\ Dir \in AllDirs
  BY <1>0, <1>1, JobIs DEF Dir
<1>3. /\ sig' \in [AllDirs -> {"none", "set", "met"}] /\ sig'[Dir] = "set"
      /\ \A d \in AllDirs : d # Dir => sig'[d] = sig[d]
  BY <1>0, <1>2 DEF HsaTypes
<1>4. CASE /\ \/ flying' = flying \cup {Dir}
              \/ flying' = flying
           /\ hpc' = IF LastDir THEN <<"wait", 1>> ELSE <<"copy", hpc[2] + 1>>
           /\ UNCHANGED owned
  <2>1. hpc' = <<"wait", 1>> \/ (hpc' = <<"copy", 2>> /\ ~LastDir)
    <3>1. CASE LastDir
      BY <1>4, <3>1
    <3>2. CASE ~LastDir
      BY <1>1, <1>4, <3>2
    <3>. QED  BY <3>1, <3>2
  <2>2. HsaTypes'
    BY <1>0, <1>1, <1>3, <2>1 DEF HsaTypes, Places
  <2>3. Ownership'
    BY <1>0, <1>4, <2>1, AllHeld
  <2>4. Flights'
    <3>1. \A d \in flying' : (\E i \in Pos : d = hjob.dirs[i]) /\ sig'[d] = "set"
      <4>1. \A d \in flying : d \in AllDirs /\ (\E i \in Pos : d = hjob.dirs[i]) /\ sig[d] = "set"
        BY <1>0, JobIs DEF HsaInv, Flights
      <4>2. \A d \in flying : (\E i \in Pos : d = hjob.dirs[i]) /\ sig'[d] = "set"
        BY <1>3, <4>1
      <4>. QED  BY <1>1, <1>2, <1>3, <1>4, <4>2
    <3>2. hpc'[1] = "copy" => \A i \in Pos : i >= hpc'[2] => hjob.dirs[i] \notin flying'
      <4>1. SUFFICES ASSUME ~LastDir, hpc' = <<"copy", 2>>, NEW i \in Pos, i >= 2
                     PROVE  hjob.dirs[i] \notin flying'
        BY <2>1
      <4>2. i # hpc[2] /\ i >= hpc[2]
        BY <1>1, <4>1
      <4>3. hjob.dirs[i] # Dir
        BY <1>0, <1>1, <1>2, <4>2, JobIs
      <4>4. hjob.dirs[i] \notin flying
        BY <1>0, <4>2 DEF HsaInv, Flights
      <4>. QED  BY <1>4, <4>3, <4>4
    <3>3. hpc'[1] \in {"copy", "wait"} /\ hpc'[1] # "count"
      BY <2>1
    <3>4. hpc'[1] = "wait" => \A i \in Pos : ~(i < hpc'[2])
      BY <1>1, <2>1
    <3>. QED  BY <1>0, <3>1, <3>2, <3>3, <3>4 DEF HsaInv, Flights
  <2>5. HotCounted' /\ DurationIsBusyTime' /\ PeersReach'
    BY <2>1, NotEnded
  <2>6. Counting'
    BY <1>0, <1>1, <2>1, <2>5 DEF HsaInv, Counting
  <2>. QED  BY <2>2, <2>3, <2>4, <2>5, <2>6 DEF HsaInv
<1>5. CASE ~Sends /\ hpc' = <<"end", 1>> /\ owned' = {} /\ flying' = flying
           /\ badStarts' = badStarts \cup {Dir}
  <2>1. HsaTypes'
    BY <1>0, <1>1, <1>3, <1>5 DEF HsaTypes, Places
  <2>2. Ownership'
    BY <1>0, <1>1, <1>5 DEF Ownership, NothingHeldAtEnd
  <2>3. Flights'
    <3>1. \A d \in flying : d \in AllDirs /\ (\E i \in Pos : d = hjob.dirs[i]) /\ sig[d] = "set"
      BY <1>0, JobIs DEF HsaInv, Flights
    <3>2. \A d \in flying : (\E i \in Pos : d = hjob.dirs[i]) /\ sig'[d] = "set"
      BY <1>3, <3>1
    <3>. QED  BY <1>0, <1>5, <3>2 DEF HsaInv, Flights
  <2>4. HotCounted' /\ DurationIsBusyTime' /\ PeersReach'
    BY <1>0, <1>1 DEF HotCounted, DurationIsBusyTime, PeersReach
  <2>5. Counting'
    BY <1>0, <1>1, <1>5, <2>4 DEF HsaInv, Counting
  <2>. QED  BY <2>1, <2>2, <2>3, <2>4, <2>5 DEF HsaInv
<1>. QED  BY <1>4, <1>5 DEF StartCopy

LEMMA CompleteKeeps == \A d \in AllDirs : HsaInv /\ Complete(d) => HsaInv'
<1>. SUFFICES ASSUME NEW d \in AllDirs, HsaInv, Complete(d) PROVE HsaInv'
  OBVIOUS
<1>0. /\ HsaTypes /\ Ownership /\ Pos' = Pos /\ hjob' = hjob /\ (Sends' <=> Sends)
      /\ d \in flying /\ flying' = flying \ {d} /\ sig' = [sig EXCEPT ![d] = "met"]
      /\ UNCHANGED <<hpc, owned, dropped, calls, counted, duration, badStarts, answer>>
  BY StillJob DEF HsaInv, Complete
<1>1. /\ sig' \in [AllDirs -> {"none", "set", "met"}] /\ sig'[d] = "met"
      /\ \A e \in AllDirs : e # d => sig'[e] = sig[e]
  BY <1>0 DEF HsaTypes
<1>2. /\ times' \in [AllDirs -> (0..Ticks) \X (0..Ticks)]
      /\ \A e \in AllDirs : times'[e][1] <= times'[e][2]
  <2>0. PICK a \in 0..(Ticks - 1) : \E z \in (a + 1)..Ticks : times' = [times EXCEPT ![d] = <<a, z>>]
    BY DEF Complete
  <2>1. PICK z \in (a + 1)..Ticks : times' = [times EXCEPT ![d] = <<a, z>>]
    BY <2>0
  <2>2. a \in 0..Ticks /\ z \in 0..Ticks /\ a <= z
    BY <1>0, JobIs
  <2>3. times \in [AllDirs -> (0..Ticks) \X (0..Ticks)] /\ \A e \in AllDirs : times[e][1] <= times[e][2]
    BY <1>0 DEF HsaTypes, HsaInv, Flights
  <2>4. times' \in [AllDirs -> (0..Ticks) \X (0..Ticks)]
    BY <2>1, <2>2, <2>3
  <2>5. ASSUME NEW e \in AllDirs PROVE times'[e][1] <= times'[e][2]
    <3>1. CASE e = d
      BY <2>1, <2>2, <2>3, <3>1
    <3>2. CASE e # d
      BY <2>1, <2>3, <3>2
    <3>. QED  BY <3>1, <3>2
  <2>. QED  BY <2>4, <2>5
<1>3. HsaTypes'
  BY <1>0, <1>1, <1>2 DEF HsaTypes
<1>4. Ownership'
  <2>1. \A i \in Pos, s \in Parts : Held(i, s)' <=> Held(i, s)
    BY <1>0 DEF Held
  <2>. QED  BY <1>0, <2>1 DEF Ownership, NothingHeldAtEnd
<1>5. Flights'
  <2>1. \A e \in flying : e \in AllDirs /\ (\E i \in Pos : e = hjob.dirs[i]) /\ sig[e] = "set"
    BY <1>0, JobIs DEF HsaInv, Flights
  <2>2. \A e \in flying' : (\E i \in Pos : e = hjob.dirs[i]) /\ sig'[e] = "set"
    BY <1>0, <1>1, <2>1
  <2>3. \A i \in Pos : sig[hjob.dirs[i]] = "met" => sig'[hjob.dirs[i]] = "met"
    BY <1>0, <1>1, JobIs
  <2>. QED  BY <1>0, <1>2, <2>2, <2>3 DEF HsaInv, Flights
<1>6. ~(hpc[1] = "end" /\ answer = 0 /\ counted > 0)
  BY <1>0 DEF HsaInv, Counting
<1>7. HotCounted' /\ DurationIsBusyTime'
  BY <1>0, <1>6 DEF HsaInv, Counting, HotCounted, DurationIsBusyTime
<1>8. Counting'
  BY <1>0, <1>6, <1>7 DEF HsaInv, Counting
<1>9. PeersReach'
  BY <1>0, SameAgents DEF HsaInv, PeersReach
<1>. QED  BY <1>3, <1>4, <1>5, <1>8, <1>9 DEF HsaInv

LEMMA WaitKeeps == HsaInv /\ Wait => HsaInv'
<1>. SUFFICES ASSUME HsaInv, Wait PROVE HsaInv'
  OBVIOUS
<1>0. /\ HsaTypes /\ Pos' = Pos /\ hjob' = hjob /\ (Sends' <=> Sends)
      /\ hpc[1] = "wait" /\ sig[Dir] = "met"
      /\ UNCHANGED <<owned, dropped, flying, sig, times, calls, counted, duration, badStarts, answer>>
  BY StillJob DEF HsaInv, Wait
<1>1. /\ hpc[2] \in Pos /\ 1 \in Pos /\ \A i \in Pos : i \in {1, 2} /\ i <= Len(hjob.dirs)
      /\ Len(hjob.dirs) \in {1, 2} /\ answer = 1 /\ hjob.kind \notin {"peer", "link"}
      /\ LastDir <=> hpc[2] = Len(hjob.dirs)
      /\ ~LastDir => hpc[2] = 1 /\ 2 \in Pos /\ hpc[2] + 1 = 2
  BY <1>0, JobIs, AtPlace DEF HsaInv, Counting
<1>2. \/ hpc' = <<"count", 1>> /\ LastDir
      \/ hpc' = <<"wait", 2>> /\ ~LastDir
  <2>1. CASE LastDir
    BY <2>1 DEF Wait, Waited
  <2>2. CASE ~LastDir
    BY <1>1, <2>2 DEF Wait, Waited
  <2>. QED  BY <2>1, <2>2
<1>3. \A i \in Pos : i <= hpc[2] => sig[hjob.dirs[i]] = "met"
  <2>1. \A i \in Pos : i < hpc[2] => sig[hjob.dirs[i]] = "met"
    BY <1>0 DEF HsaInv, Flights
  <2>2. \A i \in Pos : i <= hpc[2] => i < hpc[2] \/ i = hpc[2]
    BY <1>1
  <2>. QED  BY <1>0, <2>1, <2>2 DEF Dir
<1>4. HsaTypes'
  BY <1>0, <1>1, <1>2 DEF HsaTypes, Places
<1>5. Ownership'
  BY <1>0, <1>2, AllHeld
<1>6. Flights'
  <2>1. CASE hpc' = <<"count", 1>> /\ LastDir
    <3>1. \A i \in Pos : sig[hjob.dirs[i]] = "met"
      BY <1>1, <1>3, <2>1
    <3>2. flying = {}
      BY <3>1 DEF HsaInv, Flights
    <3>. QED  BY <1>0, <2>1, <3>1, <3>2 DEF HsaInv, Flights
  <2>2. CASE hpc' = <<"wait", 2>> /\ ~LastDir
    <3>1. \A i \in Pos : i < 2 => sig[hjob.dirs[i]] = "met"
      BY <1>1, <1>3, <2>2
    <3>. QED  BY <1>0, <2>2, <3>1 DEF HsaInv, Flights
  <2>. QED  BY <1>2, <2>1, <2>2
<1>7. HotCounted' /\ DurationIsBusyTime' /\ PeersReach'
  BY <1>2, NotEnded
<1>8. Counting'
  BY <1>0, <1>1, <1>2, <1>7 DEF HsaInv, Counting
<1>. QED  BY <1>4, <1>5, <1>6, <1>7, <1>8 DEF HsaInv

-----------------------------------------------------------------------------
(* The time of a transfer.                                                 *)

\* What a copy keeps busy, as ticks.
Busy(a, z) == {t \in 0..(Ticks - 1) : a <= t /\ t < z}

LEMMA BusyIs ==
  ASSUME NEW a \in 0..Ticks, NEW z \in 0..Ticks, a <= z, Ticks \in Nat
  PROVE  /\ Busy(a, z) = a..(z - 1) /\ IsFiniteSet(Busy(a, z))
         /\ Cardinality(Busy(a, z)) = z - a
<1>1. a \in Int /\ z - 1 \in Int /\ a \in Nat /\ z \in Nat
  OBVIOUS
<1>2. Busy(a, z) = a..(z - 1)
  BY <1>1 DEF Busy
<1>3. Cardinality(a..(z - 1)) = IF a > z - 1 THEN 0 ELSE z - 1 - a + 1
  BY <1>1, FS_Interval
<1>4. (IF a > z - 1 THEN 0 ELSE z - 1 - a + 1) = z - a
  BY <1>1
<1>. QED  BY <1>1, <1>2, <1>3, <1>4, FS_Interval

LEMMA OfTwo ==
  ASSUME NEW x \in Nat, NEW y \in Nat
  PROVE  /\ Max({x, y}) = IF x >= y THEN x ELSE y
         /\ Min({x, y}) = IF x <= y THEN x ELSE y
<1>1. /\ Max({x, y}) \in {x, y} /\ \A u \in {x, y} : Max({x, y}) >= u
  <2>1. \E m \in {x, y} : \A u \in {x, y} : m >= u
    OBVIOUS
  <2>. QED  BY <2>1 DEF Max
<1>2. /\ Min({x, y}) \in {x, y} /\ \A u \in {x, y} : Min({x, y}) <= u
  <2>1. \E m \in {x, y} : \A u \in {x, y} : m <= u
    OBVIOUS
  <2>. QED  BY <2>1 DEF Min
<1>. HIDE DEF Max, Min
<1>3. Max({x, y}) = IF x >= y THEN x ELSE y
  <2>. DEFINE m == Max({x, y})
  <2>1. (m = x \/ m = y) /\ m >= x /\ m >= y
    BY <1>1
  <2>. HIDE DEF m
  <2>2. m = IF x >= y THEN x ELSE y
    BY <2>1
  <2>. QED  BY <2>2 DEF m
<1>4. Min({x, y}) = IF x <= y THEN x ELSE y
  <2>. DEFINE m == Min({x, y})
  <2>1. (m = x \/ m = y) /\ m <= x /\ m <= y
    BY <1>2
  <2>. HIDE DEF m
  <2>2. m = IF x <= y THEN x ELSE y
    BY <2>1
  <2>. QED  BY <2>2 DEF m
<1>. QED  BY <1>3, <1>4

\* GetCopyTime of two copies, each of which ends after it starts.
SpanOf(a, b, c, e) == Max({b, e}) - Min({a, c})

LEMMA SpanIs ==
  ASSUME NEW a \in 0..Ticks, NEW b \in 0..Ticks, NEW c \in 0..Ticks, NEW e \in 0..Ticks,
         Ticks \in Nat, a <= b, c <= e
  PROVE  Cardinality(Busy(a, b) \cup Busy(c, e)) =
            IF b < c THEN SpanOf(a, b, c, e) - (c - b)
            ELSE IF e < a THEN SpanOf(a, b, c, e) - (a - e)
            ELSE SpanOf(a, b, c, e)
<1>1. a \in Nat /\ b \in Nat /\ c \in Nat /\ e \in Nat
  OBVIOUS
<1>2. /\ Busy(a, b) = a..(b - 1) /\ IsFiniteSet(Busy(a, b)) /\ Cardinality(Busy(a, b)) = b - a
      /\ Busy(c, e) = c..(e - 1) /\ IsFiniteSet(Busy(c, e)) /\ Cardinality(Busy(c, e)) = e - c
  BY BusyIs
<1>3. SpanOf(a, b, c, e) = (IF b >= e THEN b ELSE e) - (IF a <= c THEN a ELSE c)
  BY <1>1, OfTwo DEF SpanOf
<1>4. CASE b < c \/ e < a
  <2>1. Busy(a, b) \cap Busy(c, e) = {}
    BY <1>1, <1>2, <1>4
  <2>2. Cardinality(Busy(a, b) \cup Busy(c, e)) = (b - a) + (e - c) - 0
    <3>. DEFINE A == Busy(a, b)
                C == Busy(c, e)
    <3>1. /\ A \cap C = {} /\ IsFiniteSet(A) /\ IsFiniteSet(C)
          /\ Cardinality(A) = b - a /\ Cardinality(C) = e - c
      BY <1>2, <2>1
    <3>. HIDE DEF A, C
    <3>2. Cardinality(A \cup C) = Cardinality(A) + Cardinality(C) - Cardinality(A \cap C)
      BY <3>1, FS_Union
    <3>3. Cardinality(A \cap C) = 0
      BY <3>1, FS_EmptySet
    <3>4. Cardinality(A \cup C) = (b - a) + (e - c) - 0
      BY <3>1, <3>2, <3>3
    <3>. QED  BY <3>4 DEF A, C
  <2>3. CASE b < c
    <3>1. SpanOf(a, b, c, e) = e - a
      BY <1>1, <1>3, <2>3
    <3>. QED  BY <1>1, <2>2, <2>3, <3>1
  <2>4. CASE e < a /\ ~(b < c)
    <3>1. SpanOf(a, b, c, e) = b - c
      BY <1>1, <1>3, <2>4
    <3>. QED  BY <1>1, <2>2, <2>4, <3>1
  <2>. QED  BY <1>4, <2>3, <2>4
<1>5. CASE b >= c /\ e >= a
  <2>. DEFINE lo == IF a <= c THEN a ELSE c
              hi == IF b >= e THEN b ELSE e
  <2>1. lo \in 0..Ticks /\ hi \in 0..Ticks /\ lo <= hi /\ lo \in Nat /\ hi \in Nat
    BY <1>1
  <2>2. a..(b - 1) \cup c..(e - 1) = lo..(hi - 1)
    BY <1>1, <1>5
  <2>. HIDE DEF lo, hi
  <2>3. Cardinality(lo..(hi - 1)) = hi - lo
    BY <2>1, BusyIs
  <2>4. SpanOf(a, b, c, e) = hi - lo
    BY <1>3 DEF lo, hi
  <2>5. Cardinality(Busy(a, b) \cup Busy(c, e)) = SpanOf(a, b, c, e)
    BY <1>2, <2>2, <2>3, <2>4
  <2>6. ~(b < c) /\ ~(e < a)
    BY <1>1, <1>5
  <2>. QED  BY <2>5, <2>6
<1>. QED  BY <1>1, <1>4, <1>5

\* The duration that EndTransfer stores is the time in which a copy was running.
LEMMA CopyTimeIsBusyTime ==
  ASSUME HsaTypes, \A d \in AllDirs : times[d][1] <= times[d][2]
  PROVE  GetCopyTime(Len(hjob.dirs) = 2, hjob.dirs[1]) =
            Cardinality({t \in 0..(Ticks - 1) :
               \E d \in ToSet(hjob.dirs) : times[d][1] <= t /\ t < times[d][2]})
<1>. DEFINE B == {t \in 0..(Ticks - 1) :
                     \E d \in ToSet(hjob.dirs) : times[d][1] <= t /\ t < times[d][2]}
<1>1. /\ Ticks \in Nat /\ Pos = 1..Len(hjob.dirs) /\ Len(hjob.dirs) \in {1, 2}
      /\ 1 \in Pos /\ hjob.dirs[1] \in AllDirs
      /\ Len(hjob.dirs) = 2 => hjob.dirs[1] = "fwd" /\ hjob.dirs[2] = "rev"
  BY JobIs
<1>2. \A d \in AllDirs : /\ times[d][1] \in 0..Ticks /\ times[d][2] \in 0..Ticks
                         /\ times[d][1] <= times[d][2]
  BY DEF HsaTypes
<1>3. CASE Len(hjob.dirs) = 1
  <2>. DEFINE d == hjob.dirs[1]
  <2>1. ToSet(hjob.dirs) = {d}
    BY <1>1, <1>3 DEF ToSet, Pos
  <2>. HIDE DEF d
  <2>2. d \in AllDirs
    BY <1>1 DEF d
  <2>3. B = Busy(times[d][1], times[d][2])
    BY <2>1 DEF Busy
  <2>4. Cardinality(B) = times[d][2] - times[d][1]
    BY <1>1, <1>2, <2>2, <2>3, BusyIs
  <2>5. GetCopyTime(FALSE, d) = times[d][2] - times[d][1]
    BY DEF GetCopyTime
  <2>6. (Len(hjob.dirs) = 2) = FALSE
    BY <1>3
  <2>. QED  BY <2>4, <2>5, <2>6 DEF d
<1>4. CASE Len(hjob.dirs) = 2
  <2>1. ToSet(hjob.dirs) = {"fwd", "rev"}
    <3>1. DOMAIN hjob.dirs = {1, 2}
      BY <1>1, <1>4 DEF Pos
    <3>. QED  BY <1>1, <1>4, <3>1 DEF ToSet
  <2>. DEFINE a == times["fwd"][1]
              b == times["fwd"][2]
              c == times["rev"][1]
              e == times["rev"][2]
  <2>2. a \in 0..Ticks /\ b \in 0..Ticks /\ c \in 0..Ticks /\ e \in 0..Ticks /\ a <= b /\ c <= e
    BY <1>2 DEF AllDirs
  <2>3. B = Busy(a, b) \cup Busy(c, e)
    BY <2>1 DEF Busy
  <2>4. GetCopyTime(TRUE, "fwd") =
            IF b < c THEN SpanOf(a, b, c, e) - (c - b)
            ELSE IF e < a THEN SpanOf(a, b, c, e) - (a - e)
            ELSE SpanOf(a, b, c, e)
    BY DEF GetCopyTime, SpanOf
  <2>. HIDE DEF a, b, c, e
  <2>5. Cardinality(B) = GetCopyTime(TRUE, "fwd")
    <3>1. Cardinality(Busy(a, b) \cup Busy(c, e)) =
            IF b < c THEN SpanOf(a, b, c, e) - (c - b)
            ELSE IF e < a THEN SpanOf(a, b, c, e) - (a - e)
            ELSE SpanOf(a, b, c, e)
      BY <1>1, <2>2, SpanIs
    <3>. QED  BY <2>3, <2>4, <3>1
  <2>6. (Len(hjob.dirs) = 2) = TRUE
    BY <1>4
  <2>. QED  BY <1>1, <1>4, <2>5, <2>6
<1>. QED  BY <1>1, <1>3, <1>4

LEMMA EndTransferKeeps == HsaInv /\ EndTransfer => HsaInv'
<1>. SUFFICES ASSUME HsaInv, EndTransfer PROVE HsaInv'
  OBVIOUS
<1>0. /\ HsaTypes /\ Ownership /\ Pos' = Pos /\ hjob' = hjob /\ (Sends' <=> Sends)
      /\ hpc[1] = "count" /\ calls' = calls + 1
      /\ UNCHANGED <<dropped, flying, sig, times, badStarts>>
  BY StillJob DEF HsaInv, EndTransfer
<1>1. /\ hjob.warm \in Nat /\ hjob.hot \in Nat /\ calls \in Nat /\ counted \in Nat /\ 1 \in Pos
      /\ ~dropped /\ answer = 1 /\ hjob.kind \notin {"peer", "link"}
      /\ Sends => counted = IF calls > hjob.warm THEN calls - hjob.warm ELSE 0
  BY <1>0, JobIs DEF HsaInv, HsaTypes, Ownership, NothingHeldAtEnd, Counting
<1>2. flying = {}
  BY <1>0 DEF HsaInv, Flights
<1>3. IsHot <=> (~Sends \/ calls >= hjob.warm)
  BY DEF IsHot
<1>4. /\ counted' \in Nat
      /\ Sends => counted' = IF calls + 1 > hjob.warm THEN calls + 1 - hjob.warm ELSE 0
  <2>1. CASE IsHot
    <3>1. counted' = counted + 1
      BY <2>1 DEF EndTransfer
    <3>. QED  BY <1>1, <1>3, <2>1, <3>1
  <2>2. CASE ~IsHot
    <3>1. counted' = counted
      BY <2>2 DEF EndTransfer
    <3>. QED  BY <1>1, <1>3, <2>2, <3>1
  <2>. QED  BY <2>1, <2>2
<1>5. hpc' \in {<<"src", 1>>, <<"copy", 1>>, <<"end", 1>>}
  BY DEF EndTransfer
<1>6. HsaTypes'
  BY <1>0, <1>1, <1>4, <1>5 DEF HsaTypes, Places
<1>7. Flights'
  BY <1>0, <1>2, <1>5 DEF HsaInv, Flights
<1>8. CASE hpc' = <<"src", 1>> /\ owned' = {} /\ answer' = answer
  <2>1. \A i \in Pos, s \in Parts : ~Held(i, s)'
    <3>1. \A i \in Pos : ~(i < 1)
      BY <1>0, JobIs
    <3>. QED  BY <1>8, <3>1 DEF Held
  <2>2. HotCounted' /\ DurationIsBusyTime' /\ PeersReach' /\ NothingHeldAtEnd'
    BY <1>0, <1>1, <1>8, NotEnded
  <2>3. Ownership'
    BY <1>0, <1>8, <2>1, <2>2 DEF Ownership
  <2>4. Counting'
    BY <1>0, <1>1, <1>4, <1>8, <2>2 DEF HsaInv, Counting
  <2>. QED  BY <1>6, <1>7, <2>2, <2>3, <2>4 DEF HsaInv
<1>9. CASE hpc' = <<"copy", 1>> /\ owned' = owned /\ answer' = answer
  <2>1. HotCounted' /\ DurationIsBusyTime' /\ PeersReach' /\ NothingHeldAtEnd'
    BY <1>0, <1>1, <1>9, NotEnded
  <2>2. Ownership'
    BY <1>0, <1>9, AllHeld
  <2>3. Counting'
    BY <1>0, <1>1, <1>4, <1>9, <2>1 DEF HsaInv, Counting
  <2>. QED  BY <1>6, <1>7, <2>1, <2>2, <2>3 DEF HsaInv
<1>10. CASE /\ Sends => calls + 1 = Transfers
            /\ hpc' = <<"end", 1>> /\ owned' = {} /\ answer' = 0
  <2>1. Ownership'
    BY <1>0, <1>1, <1>10 DEF Ownership, NothingHeldAtEnd
  <2>2. PeersReach'
    BY <1>0, <1>1 DEF PeersReach
  <2>3. HotCounted'
    <3>1. SUFFICES ASSUME Sends PROVE counted' = hjob.hot
      BY <1>0 DEF HotCounted
    <3>2. calls + 1 = hjob.warm + hjob.hot
      BY <1>10, <3>1 DEF Transfers
    <3>. QED  BY <1>1, <1>4, <3>1, <3>2
  <2>4. DurationIsBusyTime'
    <3>1. SUFFICES ASSUME counted' > 0
                   PROVE  duration' = Cardinality({t \in 0..(Ticks - 1) :
                             \E d \in ToSet(hjob.dirs) : times[d][1] <= t /\ t < times[d][2]})
      BY <1>0 DEF DurationIsBusyTime
    <3>2. IsHot
      BY <1>1, <1>3, <1>4, <3>1
    <3>3. duration' = GetCopyTime(Len(hjob.dirs) = 2, hjob.dirs[1])
      BY <3>2 DEF EndTransfer
    <3>4. \A d \in AllDirs : times[d][1] <= times[d][2]
      BY DEF HsaInv, Flights
    <3>. QED  BY <1>0, <3>3, <3>4, CopyTimeIsBusyTime
  <2>5. Counting'
    BY <1>0, <1>1, <1>2, <1>4, <1>10, <2>3, <2>4 DEF HsaInv, Counting
  <2>. QED  BY <1>6, <1>7, <2>1, <2>2, <2>5 DEF HsaInv
<1>. QED  BY <1>8, <1>9, <1>10 DEF EndTransfer

-----------------------------------------------------------------------------
(* The theorems.                                                           *)

LEMMA HsaStarts == HsaInit => HsaInv
<1>. SUFFICES ASSUME HsaInit PROVE HsaInv
  OBVIOUS
<1>. USE DEF HsaInit, HsaStart
<1>1. MaxFailures \in Nat /\ Ticks \in Nat
  BY HsaJobsAreJobs
<1>2. /\ hjob.warm \in Nat /\ hjob.dirs \in {<<"fwd">>, <<"fwd", "rev">>, <<"rev">>}
  BY HsaJobsAreJobs
<1>3. 1 \in Pos
  BY <1>2 DEF Pos
<1>4. HsaTypes
  BY <1>1, <1>3 DEF HsaTypes, Places
<1>5. Ownership
  BY DEF Ownership, Held, NothingHeldAtEnd
<1>6. Flights
  BY DEF Flights
<1>7. HotCounted /\ DurationIsBusyTime /\ PeersReach
  BY DEF HotCounted, DurationIsBusyTime, PeersReach
<1>8. Counting
  BY <1>2, <1>7 DEF Counting
<1>. QED  BY <1>4, <1>5, <1>6, <1>7, <1>8 DEF HsaInv

LEMMA HsaStays == HsaInv /\ UNCHANGED hsaVars => HsaInv'
<1>. SUFFICES ASSUME HsaInv, UNCHANGED hsaVars PROVE HsaInv'
  OBVIOUS
<1>. USE DEF hsaVars
<1>1. Pos' = Pos /\ (Sends' <=> Sends) /\ \A i \in Pos, s \in Parts : Held(i, s)' <=> Held(i, s)
  BY StillJob DEF Held
<1>2. HsaTypes'
  BY <1>1 DEF HsaInv, HsaTypes
<1>3. Ownership'
  BY <1>1 DEF HsaInv, Ownership, NothingHeldAtEnd
<1>4. Flights'
  BY <1>1 DEF HsaInv, Flights
<1>5. HotCounted' /\ DurationIsBusyTime'
  BY <1>1 DEF HsaInv, Counting, HotCounted, DurationIsBusyTime
<1>6. Counting'
  BY <1>1, <1>5 DEF HsaInv, Counting
<1>7. PeersReach'
  BY SameAgents DEF HsaInv, PeersReach
<1>. QED  BY <1>2, <1>3, <1>4, <1>6, <1>7 DEF HsaInv

LEMMA HsaKeeps == HsaInv /\ [HsaNext]_hsaVars => HsaInv'
<1>. SUFFICES ASSUME HsaInv, [HsaNext]_hsaVars PROVE HsaInv'
  OBVIOUS
<1>1. CASE Query  BY <1>1, QueryKeeps
<1>2. CASE Begin  BY <1>2, BeginKeeps
<1>3. CASE AllowAccess  BY <1>3, AllowAccessKeeps
<1>4. CASE CreateSignal  BY <1>4, CreateSignalKeeps
<1>5. CASE StartCopy  BY <1>5, StartCopyKeeps
<1>6. CASE Wait  BY <1>6, WaitKeeps
<1>7. CASE EndTransfer  BY <1>7, EndTransferKeeps
<1>8. ASSUME NEW side \in Sides, TryPool(side) \/ NoPool(side) PROVE HsaInv'
  BY <1>8, TryPoolKeeps, NoPoolKeeps
<1>9. ASSUME NEW d \in AllDirs, Complete(d) PROVE HsaInv'
  BY <1>9, CompleteKeeps
<1>10. CASE UNCHANGED hsaVars  BY <1>10, HsaStays
<1>. QED  BY <1>1, <1>2, <1>3, <1>4, <1>5, <1>6, <1>7, <1>8, <1>9, <1>10 DEF HsaNext, HsaStutters

\* What is held, what flies and what is counted, at every place of every job.
THEOREM TransfersKeepAccount == HsaSpec => []HsaInv
BY HsaStarts, HsaKeeps, PTL DEF HsaSpec

\* Copies in flight have their buffers, in the places where the code sees to it.
LEMMA HasBuffers == HsaInv => FlyingHasBuffers
<1>. SUFFICES ASSUME HsaInv, Sends \/ badStarts = {}, NEW d \in flying
     PROVE  {<<d, "src">>, <<d, "dst">>, <<d, "signal">>} \subseteq owned
  BY DEF FlyingHasBuffers
<1>1. hpc[1] \in {"copy", "wait"}
  BY DEF HsaInv, Flights
<1>2. PICK i \in Pos : d = hjob.dirs[i]
  BY DEF HsaInv, Flights
<1>3. \A s \in Parts : Held(i, s)
  BY <1>1 DEF Held
<1>4. \A s \in Parts : <<d, s>> \in owned
  BY <1>1, <1>2, <1>3 DEF HsaInv, Ownership
<1>. QED  BY <1>4, PartsAre

\* Whichever pool, right, signal or copy fails: copies in flight have their buffers,
\* nothing is held or lost at the end, the duration is the time in which a copy ran,
\* the hot transfers are counted, and peers are those that reach each other.
THEOREM TransfersAreSound == HsaSpec => []HsaSound
<1>1. HsaInv => HsaSound
  BY HasBuffers DEF HsaInv, HsaSound, Ownership, Counting
<1>. QED  BY <1>1, TransfersKeepAccount, PTL

-----------------------------------------------------------------------------
(* The HSA transfers: the domains of the rest of the state.                *)

\* A send ends with its last transfer, a worker after MaxCopies; nothing fails more
\* often than it may; a duration fits into the ticks.
HsaDomains ==
    /\ pair \in [Sides -> Nat \ {0}]
    /\ badStarts \subseteq {hjob.dirs[i] : i \in Pos}
    /\ failures \in 0..MaxFailures /\ dropped \in BOOLEAN /\ answer \in Int
    /\ duration \in 0..Ticks /\ counted <= calls
    /\ Sends => calls <= Transfers
    /\ ~Sends => calls <= MaxCopies /\ (hpc[1] # "end" => calls < MaxCopies)

\* The domains a step does not touch.
LEMMA HsaSame ==
  ASSUME HsaDomains, hjob' = hjob, UNCHANGED <<duration, counted, calls>>,
         hpc[1] # "end" \/ hpc'[1] = "end",
         pair' \in [Sides -> Nat \ {0}], badStarts' \subseteq {hjob.dirs[i] : i \in Pos},
         failures' = failures \/ Failed, dropped' \in BOOLEAN, answer' \in Int
  PROVE  HsaDomains'
<1>1. Pos' = Pos /\ (Sends' <=> Sends) /\ Transfers' = Transfers
  BY StillJob DEF Transfers
<1>2. failures' \in 0..MaxFailures
  <2>1. MaxFailures \in Nat /\ failures \in 0..MaxFailures
    BY HsaJobsAreJobs DEF HsaDomains
  <2>. QED  BY <2>1 DEF Failed, MayFail
<1>. QED  BY <1>1, <1>2 DEF HsaDomains

\* Distances are numbers.
LEMMA DistanceIs ==
  ASSUME hjob \in HsaJobs
  PROVE  Distance[Len(hjob.hops)] \in Int
<1>. DEFINE l == Len(hjob.hops)
            hop(n) == IF n \in 1..l THEN hjob.hops[n] ELSE 0
            V == Nat \X Nat
            f == [x \in V |-> <<x[1] + 1, x[2] + hop(x[1] + 1)>>]
            v == <<0, 0>>
<1>0. hjob.hops \in Seq(Nat) /\ l \in Nat
  BY HsaJobsAreJobs
<1>1. \A n : hop(n) \in Nat
  BY <1>0
<1>. HIDE DEF hop
<1>2. v \in V /\ f \in [V -> V]
  BY <1>1
<1>. HIDE DEF V, f, v
<1>3. PICK g \in [Nat -> V] : g[0] = v /\ \A n \in Nat : g[n + 1] = f[g[n]]
  <2>1. \E g \in [Nat -> V] : g[0] = v /\ \A n \in Nat : g[n + 1] = f[g[n]]
    BY ONLY <1>2, Recursion
  <2>. QED  BY ONLY <2>1
<1>4. \A n \in Nat : g[n][1] = n
  <2>. DEFINE S == {n \in Nat : g[n][1] # n}
  <2>. SUFFICES ASSUME S # {} PROVE FALSE
    OBVIOUS
  <2>1. PICK m \in S : \A n \in S : m <= n
    BY LeastNumber
  <2>2. m \in Nat /\ m # 0
    BY <1>3 DEF v
  <2>3. m - 1 \in Nat /\ (m - 1) + 1 = m /\ m - 1 \notin S
    BY <2>1, <2>2
  <2>4. g[m - 1][1] = m - 1 /\ g[m] = f[g[m - 1]] /\ g[m - 1] \in V
    BY <1>3, <2>3
  <2>5. f[g[m - 1]] = <<g[m - 1][1] + 1, g[m - 1][2] + hop(g[m - 1][1] + 1)>>
    BY <2>4 DEF f
  <2>6. g[m][1] = (m - 1) + 1
    BY <2>4, <2>5
  <2>. QED  BY <2>3, <2>6
<1>. DEFINE h == [n \in 0..l |-> g[n][2]]
<1>5. h = [n \in 0..l |-> IF n = 0 THEN 0 ELSE h[n - 1] + hjob.hops[n]]
  <2>. SUFFICES ASSUME NEW n \in 0..l PROVE h[n] = IF n = 0 THEN 0 ELSE h[n - 1] + hjob.hops[n]
    OBVIOUS
  <2>1. CASE n = 0
    BY <1>3, <2>1 DEF v
  <2>2. CASE n # 0
    <3>1. n - 1 \in 0..l /\ n - 1 \in Nat /\ (n - 1) + 1 = n /\ n \in 1..l
      BY <1>0, <2>2
    <3>2. g[n] = f[g[n - 1]] /\ g[n - 1] \in V /\ g[n - 1][1] = n - 1
      BY <1>3, <1>4, <3>1
    <3>3. g[n][2] = g[n - 1][2] + hop(n)
      BY <3>1, <3>2 DEF f, V
    <3>. QED  BY <2>2, <3>1, <3>3 DEF hop
  <2>. QED  BY <2>1, <2>2
<1>. HIDE DEF h
<1>6. Distance = [n \in 0..l |-> IF n = 0 THEN 0 ELSE Distance[n - 1] + hjob.hops[n]]
  BY <1>5, Zenon DEF Distance
<1>7. \A n \in Nat : n <= l => Distance[n] \in Int
  <2>. DEFINE S == {n \in Nat : n <= l /\ Distance[n] \notin Int}
  <2>. SUFFICES ASSUME S # {} PROVE FALSE
    OBVIOUS
  <2>1. PICK m \in S : \A n \in S : m <= n
    BY LeastNumber
  <2>2. m \in Nat /\ m <= l /\ Distance[m] \notin Int
    OBVIOUS
  <2>. HIDE DEF l
  <2>3. m # 0
    BY <1>0, <1>6, <2>2
  <2>4. m - 1 \in Nat /\ m - 1 <= l /\ m - 1 \notin S /\ m \in 1..l
    BY <1>0, <2>1, <2>2, <2>3
  <2>5. Distance[m - 1] \in Int /\ hjob.hops[m] \in Nat
    BY <1>0, <2>4 DEF l
  <2>6. Distance[m] = Distance[m - 1] + hjob.hops[m]
    BY <1>0, <1>6, <2>2, <2>3
  <2>. QED  BY <2>2, <2>5, <2>6
<1>. QED  BY <1>0, <1>7

\* A copy takes no longer than there are ticks.
LEMMA CopyTimeFits ==
  ASSUME HsaTypes, \A d \in AllDirs : times[d][1] <= times[d][2]
  PROVE  GetCopyTime(Len(hjob.dirs) = 2, hjob.dirs[1]) \in 0..Ticks
<1>. DEFINE B == {t \in 0..(Ticks - 1) :
                     \E d \in ToSet(hjob.dirs) : times[d][1] <= t /\ t < times[d][2]}
<1>1. Ticks \in Nat /\ B \subseteq 0..(Ticks - 1)
  BY JobIs
<1>2. GetCopyTime(Len(hjob.dirs) = 2, hjob.dirs[1]) = Cardinality(B)
  BY CopyTimeIsBusyTime
<1>. HIDE DEF B
<1>3. IsFiniteSet(0..(Ticks - 1)) /\ Cardinality(0..(Ticks - 1)) = Ticks
  <2>1. 0 \in Int /\ Ticks - 1 \in Int
    BY <1>1
  <2>2. Cardinality(0..(Ticks - 1)) = IF 0 > Ticks - 1 THEN 0 ELSE Ticks - 1 - 0 + 1
    BY <2>1, FS_Interval
  <2>3. Cardinality(0..(Ticks - 1)) = Ticks
    BY <1>1, <2>2
  <2>. QED  BY <2>1, <2>3, FS_Interval
<1>4. IsFiniteSet(B) /\ Cardinality(B) \in Nat /\ Cardinality(B) <= Ticks
  BY <1>1, <1>3, FS_Subset, FS_CardinalityType
<1>. QED  BY <1>1, <1>2, <1>4

LEMMA HsaDomainsStart == ASSUME HsaInit PROVE HsaDomains
<1>. USE DEF HsaInit, HsaStart
<1>1. /\ MaxFailures \in Nat /\ MaxCopies \in Nat \ {0} /\ Ticks \in Nat
      /\ hjob.warm \in Nat /\ hjob.hot \in Nat
  BY HsaJobsAreJobs
<1>2. pair \in [Sides -> Nat \ {0}] /\ dropped \in BOOLEAN
  <2>1. 1 \in Nat \ {0}
    OBVIOUS
  <2>. QED  BY <2>1
<1>3. Transfers \in Nat /\ calls = 0 /\ counted = 0 /\ calls < MaxCopies
  BY <1>1 DEF Transfers
<1>. QED  BY <1>1, <1>2, <1>3 DEF HsaDomains

\* The counters after a transfer: the ones that end it are those that must.
LEMMA EndTransferStays == ASSUME HsaInv, HsaDomains, EndTransfer PROVE HsaDomains'
<1>0. /\ HsaTypes /\ hjob' = hjob /\ hpc[1] = "count" /\ calls' = calls + 1
      /\ UNCHANGED <<badStarts, failures, dropped>>
  BY DEF HsaInv, EndTransfer
<1>1. /\ HsaTypes /\ hjob' = hjob /\ hpc[1] = "count" /\ calls' = calls + 1 /\ Ticks \in Nat
      /\ UNCHANGED <<badStarts, failures, dropped>> /\ MaxCopies \in Nat
      /\ Pos' = Pos /\ (Sends' <=> Sends) /\ Transfers' = Transfers /\ Transfers \in Nat
      /\ calls \in Nat /\ counted \in Nat
  <2>1. Transfers \in Nat /\ Transfers' = Transfers
    BY <1>0, JobIs DEF Transfers
  <2>. QED  BY <1>0, <2>1, StillJob, JobIs, HsaJobsAreJobs DEF HsaTypes
<1>2. pair' \in [Sides -> Nat \ {0}]
  BY DEF EndTransfer
<1>3. duration' \in 0..Ticks /\ counted' <= calls'
  <2>1. CASE IsHot
    <3>1. counted' = counted + 1 /\ duration' = GetCopyTime(Len(hjob.dirs) = 2, hjob.dirs[1])
      BY <2>1 DEF EndTransfer
    <3>2. duration' \in 0..Ticks
      BY <1>1, <3>1, CopyTimeFits DEF HsaInv, Flights
    <3>. QED  BY <1>1, <3>1, <3>2 DEF HsaDomains
  <2>2. CASE ~IsHot
    BY <1>1, <2>2 DEF EndTransfer, HsaDomains
  <2>. QED  BY <2>1, <2>2
<1>4. Sends => calls' <= Transfers
  <2>1. \/ Sends /\ calls + 1 < Transfers
        \/ Sends /\ calls + 1 = Transfers
        \/ ~Sends
    BY DEF EndTransfer
  <2>. QED  BY <1>1, <2>1
<1>5. ~Sends => calls' <= MaxCopies /\ (hpc'[1] # "end" => calls' < MaxCopies)
  <2>. SUFFICES ASSUME ~Sends PROVE calls' <= MaxCopies /\ (hpc'[1] # "end" => calls' < MaxCopies)
    OBVIOUS
  <2>1. calls + 1 < MaxCopies \/ hpc' = <<"end", 1>>
    BY DEF EndTransfer
  <2>2. calls < MaxCopies
    BY <1>1 DEF HsaDomains
  <2>. QED  BY <1>1, <2>1, <2>2
<1>6. answer' \in Int
  BY DEF EndTransfer, HsaDomains
<1>. QED  BY <1>1, <1>2, <1>3, <1>4, <1>5, <1>6 DEF HsaDomains

LEMMA QueryStays == ASSUME HsaInv, HsaDomains, Query PROVE HsaDomains'
<1>. DEFINE s == FindAgent(hjob.src)
            d == FindAgent(hjob.dst)
<1>1. PeerStatus(s, d) \in Int /\ LinkInfo(s, d) \in Int /\ NO_CONN \in Int
  <2>1. PeerStatus(s, d) \in {0, 1, 2}
    BY PeersAre
  <2>2. hjob \in HsaJobs
    BY DEF HsaInv, HsaTypes
  <2>. QED  BY <2>1, <2>2, DistanceIs DEF LinkInfo, NO_CONN
<1>2. answer' \in {0, NO_CONN, PeerStatus(s, d), LinkInfo(s, d)}
  BY DEF Query
<1>. HIDE DEF s, d
<1>. QED  BY <1>1, <1>2, HsaSame DEF Query, HsaDomains

LEMMA HsaDomainsKept ==
  ASSUME HsaInv, HsaDomains, [HsaNext]_hsaVars
  PROVE  HsaDomains'
<1>0. /\ hpc[2] \in Pos /\ Dir \in {hjob.dirs[i] : i \in Pos}
      /\ pair \in [Sides -> Nat \ {0}] /\ dropped \in BOOLEAN /\ answer \in Int
      /\ badStarts \subseteq {hjob.dirs[i] : i \in Pos}
  BY AtPlace DEF HsaInv, HsaDomains, Dir
<1>1. CASE Query
  BY <1>1, QueryStays
<1>2. CASE Begin
  BY <1>0, <1>2, HsaSame DEF Begin
<1>3. CASE AllowAccess
  BY <1>0, <1>3, HsaSame DEF AllowAccess, Worked, Sides
<1>4. CASE CreateSignal
  <2>1. pair' \in [Sides -> Nat \ {0}] /\ answer' \in Int
    BY <1>0, <1>4 DEF CreateSignal, GiveUp
  <2>2. dropped' \in BOOLEAN
    BY <1>0, <1>4, Zenon DEF CreateSignal
  <2>. QED  BY <1>0, <1>4, <2>1, <2>2, HsaSame DEF CreateSignal, Worked, GiveUp
<1>5. CASE StartCopy
  <2>1. badStarts' \subseteq {hjob.dirs[i] : i \in Pos}
    BY <1>0, <1>5 DEF StartCopy
  <2>. QED  BY <1>0, <1>5, <2>1, HsaSame DEF StartCopy, Worked
<1>6. CASE Wait
  BY <1>0, <1>6, HsaSame DEF Wait
<1>7. CASE EndTransfer
  BY <1>7, EndTransferStays
<1>8. ASSUME NEW side \in Sides, TryPool(side) PROVE HsaDomains'
  <2>1. pair' \in [Sides -> Nat \ {0}]
    BY <1>0, <1>8 DEF TryPool, Sides
  <2>2. hpc[1] # "end"
    BY <1>8 DEF TryPool, Sides
  <2>3. dropped' \in BOOLEAN
    BY <1>0, <1>8, Zenon DEF TryPool
  <2>. QED  BY <1>0, <1>8, <2>1, <2>2, <2>3, HsaSame DEF TryPool, Worked
<1>9. ASSUME NEW side \in Sides, NoPool(side) PROVE HsaDomains'
  <2>1. pair' \in [Sides -> Nat \ {0}] /\ answer' \in Int
    BY <1>0, <1>9 DEF NoPool, Sides, GiveUp, NextSource
  <2>2. hpc[1] # "end"
    BY <1>9 DEF NoPool, Sides
  <2>. QED  BY <1>0, <1>9, <2>1, <2>2, HsaSame DEF NoPool
<1>10. ASSUME NEW d \in AllDirs, Complete(d) PROVE HsaDomains'
  BY <1>0, <1>10, HsaSame DEF Complete
<1>11. CASE UNCHANGED hsaVars
  BY <1>0, <1>11, HsaSame DEF hsaVars
<1>. QED  BY <1>1, <1>2, <1>3, <1>4, <1>5, <1>6, <1>7, <1>8, <1>9, <1>10, <1>11
          DEF HsaNext, HsaStutters

\* Together with the invariant they make the type of the whole state.
LEMMA HsaIsTyped == ASSUME HsaInv, HsaDomains PROVE HsaTypeOK
<1>1. /\ hjob \in HsaJobs /\ hpc[1] \in Places /\ hpc[2] \in Pos
      /\ sig \in [AllDirs -> {"none", "set", "met"}] /\ calls \in Nat /\ counted \in Nat
  BY AtPlace DEF HsaInv, HsaTypes
<1>2. ToSet(hjob.dirs) = {hjob.dirs[i] : i \in Pos}
  BY DEF ToSet, Pos
<1>3. owned \subseteq {<<d, s>> : d \in ToSet(hjob.dirs), s \in Parts}
  <2>1. CASE hpc[1] # "end"
    <3>1. owned \subseteq {<<hjob.dirs[i], s>> : i \in Pos, s \in Parts}
      BY <2>1 DEF HsaInv, Ownership
    <3>. QED  BY <1>2, <3>1
  <2>2. CASE hpc[1] = "end" /\ Sends
    <3>1. 1 \in Pos /\ hjob.dirs[1] = "fwd"
      BY <2>2, JobIs DEF HsaInv
    <3>2. <<"fwd", "signal">> \in {<<d, s>> : d \in ToSet(hjob.dirs), s \in Parts}
      BY <1>2, <3>1, PartsAre
    <3>. QED  BY <2>2, <3>2 DEF HsaInv, Ownership, NothingHeldAtEnd
  <2>3. CASE hpc[1] = "end" /\ ~Sends
    BY <2>3 DEF HsaInv, Ownership, NothingHeldAtEnd
  <2>. QED  BY <2>1, <2>2, <2>3
<1>4. flying \subseteq ToSet(hjob.dirs) /\ \A d \in flying : sig[d] = "set"
  BY <1>2 DEF HsaInv, Flights
<1>5. calls \in 0..Max({Transfers, MaxCopies})
  <2>1. Transfers \in Nat /\ MaxCopies \in Nat
    BY <1>1, JobIs, HsaJobsAreJobs DEF HsaInv, Transfers
  <2>2. Max({Transfers, MaxCopies}) = IF Transfers >= MaxCopies THEN Transfers ELSE MaxCopies
    BY <2>1, OfTwo
  <2>3. calls <= Transfers \/ calls <= MaxCopies
    BY DEF HsaDomains
  <2>. HIDE DEF Max
  <2>. QED  BY <1>1, <2>1, <2>2, <2>3
<1>6. counted \in 0..calls
  BY <1>1 DEF HsaDomains
<1>. QED  BY <1>1, <1>2, <1>3, <1>4, <1>5, <1>6 DEF HsaDomains, HsaTypeOK, Places, Parts, Pos

-----------------------------------------------------------------------------
(* The BLAS object: the invariant.                                         *)

BlasTypes ==
    /\ job \in Jobs /\ pc \in {"new", "built", "generated", "loop", "gemm", "check", "done", "gone"}
    /\ isError \in BOOLEAN /\ handleInit \in BOOLEAN /\ corrupt \in BOOLEAN /\ acc \in Nat
    /\ gemm \in {"none", "failed", "enqueued", "reported"}

\* Until its end an object holds only what it has acquired, one that has been built
\* memory for C with it.
Possessions ==
    /\ pc # "gone" => held \subseteq ToSet(Acquired) \cup Pinned
    /\ pc # "gone" /\ handleInit => "dc" \in held
    /\ NothingKept

\* A worker that asks has an object that is built.
AskedFor ==
    /\ pc \in {"new", "built"} => gemm = "none"
    /\ pc = "new" => ~handleInit
    /\ pc = "built" => isError = ~handleInit
    /\ job.worker \in Asks /\ (pc \in {"generated", "loop", "gemm", "check"} \/ gemm = "enqueued")
         => handleInit

\* What is generated has been copied before a GEMM that does not find an error.
Supplied == handleInit /\ ~job.hiprand /\ ~(job.worker = "perf" /\ job.copyMatrix)

CopiesEachTurn == job.worker = "gst" /\ job.copyMatrix

DataThere ==
    /\ handleInit /\ ~job.hiprand /\ pc \notin {"new", "built"} => hostData = HostGenerates
    /\ Supplied /\ (\/ gemm = "enqueued"
                    \/ pc = "gemm" /\ ~isError
                    \/ pc \in {"loop", "check"} /\ ~isError /\ ~CopiesEachTurn)
         => data = HostGenerates

\* With rocBLAS the check before has left an output, or zeros, in hpo; without
\* accumulation all outputs are of one GEMM.
Accumulates == InPlace /\ job.beta

Kept ==
    /\ ~Accumulates => acc = 0
    /\ job.source = "rocblas" =>
          \/ previous = <<>> \/ previous = Zeros
          \/ /\ previous \in {"output"} \X Nat \X BOOLEAN
             /\ ~Accumulates => previous[2] = 0

BlasInv == BlasTypes /\ Possessions /\ AskedFor /\ DataThere /\ Kept

\* What the object acquires, by where it is given back.
FromHost == {"lost a", "lost b", "lost c", "ha", "hb", "hc", "hsa", "hsb"}

OfGpu  == {"da", "db", "dc", "dd", "dsa", "dsb"}
OfBlas == {"hip_stream", "generator", "blas_handle", "hbl_handle", "layout_a", "layout_b",
           "layout_c", "layout_d", "matmul", "pref", "workspace"}
Things == FromHost \cup OfGpu \cup OfBlas

LEMMA Of0 == ASSUME NEW S PROVE <<>> \in Seq(S) /\ ToSet(<<>>) = {}
BY DEF ToSet

LEMMA Of1 ==
  ASSUME NEW S, NEW a \in S
  PROVE  <<a>> \in Seq(S) /\ ToSet(<<a>>) = {a}
<1>1. <<a>> \in Seq(S) /\ DOMAIN <<a>> = 1..1 /\ <<a>>[1] = a
  OBVIOUS
<1>. QED  BY <1>1 DEF ToSet

LEMMA Of2 ==
  ASSUME NEW S, NEW a \in S, NEW b \in S
  PROVE  <<a, b>> \in Seq(S) /\ ToSet(<<a, b>>) = {a, b}
<1>. DEFINE s == <<a, b>>
<1>1. s \in Seq(S) /\ DOMAIN s = 1..2
  OBVIOUS
<1>2. s[1] = a /\ s[2] = b
  OBVIOUS
<1>. HIDE DEF s
<1>3. ToSet(s) = {s[i] : i \in {1, 2}}
  <2>1. 1..2 = {1, 2}
    OBVIOUS
  <2>. QED  BY <1>1, <2>1 DEF ToSet
<1>4. ToSet(s) = {a, b}
  BY <1>2, <1>3
<1>. QED  BY <1>1, <1>4 DEF s

LEMMA Of3 ==
  ASSUME NEW S, NEW a \in S, NEW b \in S, NEW c \in S
  PROVE  <<a, b, c>> \in Seq(S) /\ ToSet(<<a, b, c>>) = {a, b, c}
<1>. DEFINE s == <<a, b, c>>
<1>1. s \in Seq(S) /\ DOMAIN s = 1..3
  OBVIOUS
<1>2. s[1] = a /\ s[2] = b /\ s[3] = c
  OBVIOUS
<1>. HIDE DEF s
<1>3. ToSet(s) = {s[i] : i \in {1, 2, 3}}
  <2>1. 1..3 = {1, 2, 3}
    OBVIOUS
  <2>. QED  BY <1>1, <2>1 DEF ToSet
<1>4. ToSet(s) = {a, b, c}
  BY <1>2, <1>3
<1>. QED  BY <1>1, <1>4 DEF s

LEMMA Joined ==
  ASSUME NEW S, NEW s \in Seq(S), NEW t \in Seq(S)
  PROVE  s \o t \in Seq(S) /\ ToSet(s \o t) = ToSet(s) \cup ToSet(t)
<1>1. /\ s \o t \in Seq(S) /\ Len(s \o t) = Len(s) + Len(t)
      /\ Len(s) \in Nat /\ Len(t) \in Nat
      /\ DOMAIN s = 1..Len(s) /\ DOMAIN t = 1..Len(t) /\ DOMAIN (s \o t) = 1..(Len(s) + Len(t))
      /\ \A i \in 1..(Len(s) + Len(t)) :
            (s \o t)[i] = IF i <= Len(s) THEN s[i] ELSE t[i - Len(s)]
  OBVIOUS
<1>2. ASSUME NEW x \in ToSet(s \o t) PROVE x \in ToSet(s) \cup ToSet(t)
  <2>1. PICK i \in 1..(Len(s) + Len(t)) : x = (s \o t)[i]
    BY <1>1 DEF ToSet
  <2>2. CASE i <= Len(s)
    BY <1>1, <2>1, <2>2 DEF ToSet
  <2>3. CASE i > Len(s)
    <3>1. i - Len(s) \in 1..Len(t) /\ x = t[i - Len(s)]
      BY <1>1, <2>1, <2>3
    <3>. QED  BY <1>1, <3>1 DEF ToSet
  <2>. QED  BY <1>1, <2>2, <2>3
<1>3. ASSUME NEW x \in ToSet(s) PROVE x \in ToSet(s \o t)
  <2>1. PICK i \in 1..Len(s) : x = s[i]
    BY <1>1 DEF ToSet
  <2>2. i \in 1..(Len(s) + Len(t)) /\ x = (s \o t)[i]
    BY <1>1, <2>1
  <2>. QED  BY <1>1, <2>2 DEF ToSet
<1>4. ASSUME NEW x \in ToSet(t) PROVE x \in ToSet(s \o t)
  <2>1. PICK i \in 1..Len(t) : x = t[i]
    BY <1>1 DEF ToSet
  <2>2. i + Len(s) \in 1..(Len(s) + Len(t)) /\ ~(i + Len(s) <= Len(s)) /\ (i + Len(s)) - Len(s) = i
    BY <1>1, <2>1
  <2>3. x = (s \o t)[i + Len(s)]
    BY <1>1, <2>1, <2>2
  <2>. QED  BY <1>1, <2>2, <2>3 DEF ToSet
<1>. QED  BY <1>1, <1>2, <1>3, <1>4

LEMMA HostArraysAre == HostArrays \in Seq(Things) /\ ToSet(HostArrays) \subseteq FromHost
<1>. DEFINE lost == IF job.ops # "" /\ job.data # "" THEN <<"lost a", "lost b", "lost c">> ELSE <<>>
            host == <<"ha", "hb", "hc">>
            scales == IF job.data = "mx" THEN <<"hsa", "hsb">> ELSE <<>>
<1>1. /\ "lost a" \in Things /\ "lost b" \in Things /\ "lost c" \in Things
      /\ "ha" \in Things /\ "hb" \in Things /\ "hc" \in Things /\ "hsa" \in Things /\ "hsb" \in Things
  BY DEF Things, FromHost
<1>2. lost \in Seq(Things) /\ ToSet(lost) \subseteq FromHost
  <2>1. /\ <<"lost a", "lost b", "lost c">> \in Seq(Things)
        /\ ToSet(<<"lost a", "lost b", "lost c">>) \subseteq FromHost
    <3>1. ToSet(<<"lost a", "lost b", "lost c">>) = {"lost a", "lost b", "lost c"}
      BY <1>1, Of3
    <3>. QED  BY <1>1, <3>1, Of3 DEF FromHost
  <2>2. CASE job.ops # "" /\ job.data # ""
    BY <2>1, <2>2
  <2>3. CASE ~(job.ops # "" /\ job.data # "")
    BY <2>3, Of0
  <2>. QED  BY <2>2, <2>3
<1>3. host \in Seq(Things) /\ ToSet(host) \subseteq FromHost
  <2>1. ToSet(host) = {"ha", "hb", "hc"}
    BY <1>1, Of3
  <2>. QED  BY <1>1, <2>1, Of3 DEF FromHost
<1>4. scales \in Seq(Things) /\ ToSet(scales) \subseteq FromHost
  <2>1. <<"hsa", "hsb">> \in Seq(Things) /\ ToSet(<<"hsa", "hsb">>) \subseteq FromHost
    <3>1. ToSet(<<"hsa", "hsb">>) = {"hsa", "hsb"}
      BY <1>1, Of2
    <3>. QED  BY <1>1, <3>1, Of2 DEF FromHost
  <2>2. CASE job.data = "mx"
    BY <2>1, <2>2
  <2>3. CASE job.data # "mx"
    BY <2>3, Of0
  <2>. QED  BY <2>2, <2>3
<1>5. HostArrays = IF job.hiprand THEN <<>> ELSE lost \o host \o scales
  BY DEF HostArrays
<1>. DEFINE first == lost \o host
<1>. HIDE DEF lost, host, scales
<1>6. first \in Seq(Things) /\ ToSet(first) \subseteq FromHost
  BY <1>2, <1>3, Joined
<1>. HIDE DEF first
<1>7. first \o scales \in Seq(Things) /\ ToSet(first \o scales) \subseteq FromHost
  <2>1. ToSet(first \o scales) = ToSet(first) \cup ToSet(scales)
    BY <1>4, <1>6, Joined
  <2>. QED  BY <1>4, <1>6, <2>1, Joined
<1>8. <<>> \in Seq(Things) /\ ToSet(<<>>) \subseteq FromHost
  BY Of0
<1>. QED  BY <1>5, <1>7, <1>8 DEF first

LEMMA GpuArraysAre == GpuArrays \in Seq(Things) /\ "dc" \in ToSet(GpuArrays)
<1>. DEFINE gpu == <<"da", "db", "dc">>
            output == IF job.data # "" THEN <<"dd">> ELSE <<>>
            scales == IF job.data = "mx" THEN <<"dsa", "dsb">> ELSE <<>>
<1>1. /\ "da" \in Things /\ "db" \in Things /\ "dc" \in Things /\ "dd" \in Things
      /\ "dsa" \in Things /\ "dsb" \in Things
  BY DEF Things, OfGpu
<1>2. gpu \in Seq(Things) /\ "dc" \in ToSet(gpu)
  <2>1. ToSet(gpu) = {"da", "db", "dc"}
    BY <1>1, Of3
  <2>. QED  BY <1>1, <2>1, Of3
<1>3. output \in Seq(Things)
  <2>1. <<"dd">> \in Seq(Things)
    BY <1>1, Of1
  <2>2. CASE job.data # ""
    BY <2>1, <2>2
  <2>3. CASE job.data = ""
    BY <2>3, Of0
  <2>. QED  BY <2>2, <2>3
<1>4. scales \in Seq(Things)
  <2>1. <<"dsa", "dsb">> \in Seq(Things)
    BY <1>1, Of2
  <2>2. CASE job.data = "mx"
    BY <2>1, <2>2
  <2>3. CASE job.data # "mx"
    BY <2>3, Of0
  <2>. QED  BY <2>2, <2>3
<1>. DEFINE both == gpu \o output
<1>5. GpuArrays = both \o scales
  BY DEF GpuArrays
<1>. HIDE DEF gpu, output, scales
<1>6. both \in Seq(Things) /\ "dc" \in ToSet(both)
  BY <1>2, <1>3, Joined
<1>. HIDE DEF both
<1>7. both \o scales \in Seq(Things) /\ ToSet(both \o scales) = ToSet(both) \cup ToSet(scales)
  BY <1>4, <1>6, Joined
<1>. QED  BY <1>5, <1>6, <1>7

LEMMA HandlesAre == Handles \in Seq(Things)
<1>1. /\ "blas_handle" \in Things /\ "hbl_handle" \in Things /\ "layout_a" \in Things
      /\ "layout_b" \in Things /\ "layout_c" \in Things /\ "layout_d" \in Things
      /\ "matmul" \in Things /\ "pref" \in Things /\ "workspace" \in Things
  BY DEF Things, OfBlas
<1>2. \A a, b, c, d, e, f, g, h \in Things : <<a, b, c, d, e, f, g, h>> \in Seq(Things)
  OBVIOUS
<1>3. /\ <<"hbl_handle", "layout_a", "layout_b", "layout_c", "layout_d", "matmul",
           "pref", "workspace">> \in Seq(Things)
      /\ <<"blas_handle">> \in Seq(Things)
  BY <1>1, <1>2, Of1
<1>4. CASE job.source = "rocblas"
  BY <1>3, <1>4 DEF Handles
<1>5. CASE job.source # "rocblas"
  BY <1>3, <1>5 DEF Handles
<1>. QED  BY <1>4, <1>5

LEMMA AcquiredIs ==
  /\ ToSet(Acquired) \subseteq FromHost \cup {"hip_stream", "generator"} \cup ToSet(GpuArrays)
                                 \cup ToSet(Handles)
  /\ "dc" \in ToSet(Acquired) /\ Acquired \in Seq(Things)
<1>. DEFINE stream == <<"hip_stream">>
            generator == IF job.hiprand THEN <<"generator">> ELSE <<>>
            first == HostArrays \o stream
            second == first \o GpuArrays
            third == second \o Handles
<1>0. "hip_stream" \in Things /\ "generator" \in Things
  BY DEF Things, OfBlas
<1>1. stream \in Seq(Things) /\ ToSet(stream) = {"hip_stream"}
  BY <1>0, Of1
<1>2. generator \in Seq(Things) /\ ToSet(generator) \subseteq {"generator"}
  <2>1. <<"generator">> \in Seq(Things) /\ ToSet(<<"generator">>) = {"generator"}
    BY <1>0, Of1
  <2>2. CASE job.hiprand
    BY <2>1, <2>2
  <2>3. CASE ~job.hiprand
    BY <2>3, Of0
  <2>. QED  BY <2>2, <2>3
<1>4. Acquired = third \o generator
  BY DEF Acquired
<1>. HIDE DEF stream, generator
<1>5. first \in Seq(Things) /\ ToSet(first) = ToSet(HostArrays) \cup {"hip_stream"}
  BY <1>1, HostArraysAre, Joined
<1>. HIDE DEF first
<1>6. second \in Seq(Things) /\ ToSet(second) = ToSet(first) \cup ToSet(GpuArrays)
  BY <1>5, GpuArraysAre, Joined
<1>. HIDE DEF second
<1>7. third \in Seq(Things) /\ ToSet(third) = ToSet(second) \cup ToSet(Handles)
  BY <1>6, HandlesAre, Joined
<1>. HIDE DEF third
<1>8. Acquired \in Seq(Things) /\ ToSet(Acquired) = ToSet(third) \cup ToSet(generator)
  BY <1>2, <1>4, <1>7, Joined
<1>. QED  BY <1>2, <1>5, <1>6, <1>7, <1>8, HostArraysAre, GpuArraysAre

\* The functions of the job, which no step changes.
LEMMA SameJob ==
  ASSUME job' = job
  PROVE  /\ Acquired' = Acquired /\ GpuArrays' = GpuArrays /\ Handles' = Handles
         /\ HostGenerates' = HostGenerates
         /\ InPlace' = InPlace /\ Output' = Output /\ Accumulates' = Accumulates
         /\ Supplied' = (handleInit' /\ ~job.hiprand /\ ~(job.worker = "perf" /\ job.copyMatrix))
         /\ CopiesEachTurn' = CopiesEachTurn
BY DEF Acquired, HostArrays, GpuArrays, Handles, HostGenerates, InPlace, Output, Accumulates,
       Supplied, CopiesEachTurn

\* An object that ends gives back what it holds.
LEMMA GivenBack ==
  ASSUME NEW x \in ToSet(Acquired) \cup Pinned, x \notin HostFreed \cup GpuFreed
  PROVE  x \in {"lost a", "lost b", "lost c"}
                 \cup (IF handleInit THEN {}
                       ELSE {"hip_stream", "generator"} \cup ToSet(Handles))
<1>1. \/ x \in FromHost \/ x \in {"hip_stream", "generator"} \/ x \in ToSet(GpuArrays)
      \/ x \in ToSet(Handles) \/ x \in Pinned
  BY AcquiredIs
<1>2. x \notin Pinned /\ x \notin {"ha", "hb", "hc", "hsa", "hsb"} /\ x \notin ToSet(GpuArrays)
  BY DEF HostFreed, GpuFreed
<1>3. handleInit => x \notin ToSet(Handles) \cup {"hip_stream", "generator"}
  BY DEF GpuFreed
<1>. QED  BY <1>1, <1>2, <1>3 DEF FromHost

\* A step that neither ends the object nor lets go of its memory.
LEMMA StillPossesses ==
  ASSUME BlasInv, job' = job, pc # "gone", pc' # "gone", UNCHANGED <<held, handleInit>>
  PROVE  Possessions'
BY SameJob DEF BlasInv, Possessions, NothingKept

LEMMA ConstructKeeps == BlasInv /\ Construct => BlasInv'
<1>. SUFFICES ASSUME BlasInv, Construct PROVE BlasInv'
  OBVIOUS
<1>1. /\ job' = job /\ pc = "new" /\ pc' = "built" /\ gemm = "none"
      /\ UNCHANGED <<hostData, data, acc, corrupt, gemm, previous>>
  BY DEF Construct, BlasInv, AskedFor, dataVars, checkVars
<1>2. PICK n \in 0..Len(Acquired), ok \in BOOLEAN :
         /\ ok => n = Len(Acquired)
         /\ LET got == {Acquired[i] : i \in 1..n}
            IN held' \in IF n > 0 /\ Acquired[n] = "pref" THEN {got, got \ {"pref"}}
                         ELSE {got \ {"pref"}, got \ {"pref", "workspace"}}
         /\ handleInit' = ok /\ isError' = ~ok
  BY DEF Construct
<1>. DEFINE got == {Acquired[i] : i \in 1..n}
<1>3. held' \subseteq got /\ got \ {"pref", "workspace"} \subseteq held'
  BY <1>2
<1>4. Acquired \in Seq(Things)
  BY AcquiredIs
<1>5. got \subseteq ToSet(Acquired) /\ (n = Len(Acquired) => got = ToSet(Acquired))
  BY <1>4 DEF ToSet
<1>. HIDE DEF got
<1>6. held' \subseteq ToSet(Acquired) /\ (handleInit' => "dc" \in held')
  BY <1>2, <1>3, <1>5, AcquiredIs
<1>7. BlasTypes'
  BY <1>1, <1>2 DEF BlasInv, BlasTypes
<1>8. Possessions'
  BY <1>1, <1>6, SameJob DEF Possessions, NothingKept
<1>9. AskedFor'
  BY <1>1, <1>2 DEF AskedFor
<1>10. DataThere'
  BY <1>1 DEF DataThere
<1>11. Kept'
  BY <1>1, SameJob DEF BlasInv, Kept
<1>. QED  BY <1>7, <1>8, <1>9, <1>10, <1>11 DEF BlasInv

LEMMA GenerateKeeps == BlasInv /\ Generate => BlasInv'
<1>. SUFFICES ASSUME BlasInv, Generate PROVE BlasInv'
  OBVIOUS
<1>1. /\ job' = job /\ pc = "built" /\ gemm = "none" /\ isError = ~handleInit
      /\ UNCHANGED <<held, handleInit, acc, corrupt, gemm, previous>>
      /\ isError \in BOOLEAN /\ handleInit \in BOOLEAN
  BY DEF Generate, BlasInv, BlasTypes, AskedFor, checkVars
<1>2. isError' \in BOOLEAN
  BY <1>1 DEF Generate, GpuGenerate
<1>3. \/ pc' = "done" /\ isError
      \/ pc' = "generated" /\ ~(job.worker \in Asks /\ isError)
  BY DEF Generate
<1>4. BlasTypes'
  BY <1>1, <1>2, <1>3 DEF BlasInv, BlasTypes
<1>5. Possessions'
  BY <1>1, <1>3, StillPossesses
<1>6. AskedFor'
  BY <1>1, <1>3 DEF AskedFor
<1>7. handleInit /\ ~job.hiprand => hostData' = HostGenerates
  BY <1>1, <1>3 DEF Generate
<1>8. DataThere'
  BY <1>1, <1>3, <1>7, SameJob DEF DataThere
<1>9. Kept'
  BY <1>1, SameJob DEF BlasInv, Kept
<1>. QED  BY <1>4, <1>5, <1>6, <1>8, <1>9 DEF BlasInv

\* A copy that works makes what the GPU holds that of the host.
LEMMA CopiesDo ==
  ASSUME BlasInv, pc \notin {"new", "built", "gone"}, NEW ok \in BOOLEAN, Copies(ok)
  PROVE  /\ isError' \in BOOLEAN /\ corrupt' \in BOOLEAN /\ acc' \in Nat
         /\ acc' = acc \/ acc' = 0
         /\ data' \in {data, hostData}
         /\ handleInit /\ ~job.hiprand => IF ok THEN data' = hostData ELSE data' = data /\ isError'
<1>1. /\ isError \in BOOLEAN /\ corrupt \in BOOLEAN /\ acc \in Nat
      /\ handleInit => "dc" \in held
  BY DEF BlasInv, BlasTypes, Possessions
<1>2. CASE job.hiprand
  BY <1>1, <1>2 DEF Copies
<1>3. CASE ~job.hiprand
  <2>1. /\ isError' = ~ok /\ data' = IF ok /\ "dc" \in held THEN hostData ELSE data
        /\ acc' = IF ok THEN 0 ELSE acc
    BY <1>3 DEF Copies
  <2>2. corrupt' = (corrupt /\ ~ok)
    BY <1>3 DEF Copies
  <2>3. corrupt' \in BOOLEAN
    BY <2>2
  <2>4. isError' \in BOOLEAN
    BY <2>1
  <2>5. CASE ok = TRUE
    BY <1>1, <1>3, <2>1, <2>3, <2>4, <2>5
  <2>6. CASE ok = FALSE
    BY <1>1, <1>3, <2>1, <2>3, <2>4, <2>6
  <2>. QED  BY <2>5, <2>6
<1>. QED  BY <1>2, <1>3

LEMMA SetUpCopyKeeps == BlasInv /\ SetUpCopy => BlasInv'
<1>. SUFFICES ASSUME BlasInv, SetUpCopy PROVE BlasInv'
  OBVIOUS
<1>1. /\ job' = job /\ pc = "generated"
      /\ UNCHANGED <<held, handleInit, hostData, gemm, previous>>
      /\ gemm # "enqueued" \/ gemm = "enqueued"
  BY DEF SetUpCopy, checkVars
<1>2. pc' \in {"loop", "done"}
  BY DEF SetUpCopy
<1>3. CASE pc' = "loop" /\ job.worker \in Asks /\ job.copyMatrix /\ UNCHANGED <<isError, data, acc, corrupt>>
  <2>1. BlasTypes'
    BY <1>1, <1>3 DEF BlasInv, BlasTypes
  <2>2. Possessions'
    BY <1>1, <1>3, StillPossesses
  <2>3. AskedFor'
    BY <1>1, <1>3 DEF BlasInv, AskedFor
  <2>4. ~Supplied' \/ CopiesEachTurn'
    BY <1>1, <1>3, SameJob DEF Supplied, CopiesEachTurn, Asks
  <2>5. Supplied' = Supplied
    BY <1>1 DEF Supplied
  <2>6. DataThere'
    BY <1>1, <1>3, <2>4, <2>5, SameJob DEF BlasInv, DataThere
  <2>7. Kept'
    BY <1>1, <1>3, SameJob DEF BlasInv, Kept
  <2>. QED  BY <2>1, <2>2, <2>3, <2>6, <2>7 DEF BlasInv
<1>4. ASSUME NEW ok \in BOOLEAN, Copies(ok), ok \/ isError' \/ pc' = "done" \/ job.hiprand
      PROVE  BlasInv'
  <2>1. /\ isError' \in BOOLEAN /\ corrupt' \in BOOLEAN /\ acc' \in Nat
        /\ acc' = acc \/ acc' = 0
        /\ data' \in {data, hostData}
        /\ handleInit /\ ~job.hiprand => IF ok THEN data' = hostData ELSE data' = data /\ isError'
    BY <1>1, <1>4, CopiesDo
  <2>2. BlasTypes'
    BY <1>1, <1>2, <2>1 DEF BlasInv, BlasTypes
  <2>3. Possessions'
    BY <1>1, <1>2, StillPossesses
  <2>4. AskedFor'
    BY <1>1, <1>2 DEF BlasInv, AskedFor
  <2>5. Supplied' = Supplied
    BY <1>1 DEF Supplied
  <2>6. Supplied => hostData = HostGenerates
    BY <1>1 DEF BlasInv, DataThere, Supplied
  <2>7. Supplied /\ gemm = "enqueued" => data' = HostGenerates
    BY <2>1, <2>6 DEF BlasInv, DataThere
  <2>8. Supplied /\ ~isError' /\ pc' = "loop" => data' = HostGenerates
    BY <2>1, <2>6 DEF Supplied
  <2>9. DataThere'
    BY <1>1, <1>2, <2>5, <2>7, <2>8, SameJob DEF BlasInv, DataThere
  <2>10. Kept'
    BY <1>1, <2>1, SameJob DEF BlasInv, Kept
  <2>. QED  BY <2>2, <2>3, <2>4, <2>9, <2>10 DEF BlasInv
<1>5. ASSUME NEW ok \in BOOLEAN, Copies(ok) PROVE BlasInv'
  <2>1. ok \/ isError' \/ job.hiprand
    BY <1>5 DEF Copies
  <2>. QED  BY <1>4, <1>5, <2>1
<1>. QED  BY <1>3, <1>5 DEF SetUpCopy

LEMMA TurnCopyKeeps == BlasInv /\ TurnCopy => BlasInv'
<1>. SUFFICES ASSUME BlasInv, TurnCopy PROVE BlasInv'
  OBVIOUS
<1>1. /\ job' = job /\ pc = "loop"
      /\ UNCHANGED <<held, handleInit, hostData, gemm, previous>>
  BY DEF TurnCopy, checkVars
<1>2. pc' \in {"gemm", "done"} /\ Supplied' = Supplied
  BY <1>1 DEF TurnCopy, Supplied
<1>3. Possessions' /\ AskedFor'
  BY <1>1, <1>2, StillPossesses DEF BlasInv, AskedFor
<1>4. CASE ~CopiesEachTurn /\ pc' = "gemm" /\ UNCHANGED <<isError, data, acc, corrupt>>
  <2>1. BlasTypes'
    BY <1>1, <1>4 DEF BlasInv, BlasTypes
  <2>2. DataThere'
    BY <1>1, <1>2, <1>4, SameJob DEF BlasInv, DataThere
  <2>3. Kept'
    BY <1>1, <1>4, SameJob DEF BlasInv, Kept
  <2>. QED  BY <1>3, <2>1, <2>2, <2>3 DEF BlasInv
<1>5. ASSUME NEW ok \in BOOLEAN, Copies(ok) PROVE BlasInv'
  <2>1. /\ isError' \in BOOLEAN /\ corrupt' \in BOOLEAN /\ acc' \in Nat
        /\ acc' = acc \/ acc' = 0
        /\ data' \in {data, hostData}
        /\ handleInit /\ ~job.hiprand => IF ok THEN data' = hostData ELSE data' = data /\ isError'
    BY <1>1, <1>5, CopiesDo
  <2>2. BlasTypes'
    BY <1>1, <1>2, <2>1 DEF BlasInv, BlasTypes
  <2>3. Supplied => hostData = HostGenerates
    BY <1>1 DEF BlasInv, DataThere, Supplied
  <2>4. Supplied /\ gemm = "enqueued" => data' = HostGenerates
    BY <2>1, <2>3 DEF BlasInv, DataThere
  <2>5. Supplied /\ ~isError' => data' = HostGenerates
    BY <2>1, <2>3 DEF Supplied
  <2>6. DataThere'
    BY <1>1, <1>2, <2>3, <2>4, <2>5, SameJob DEF BlasInv, DataThere
  <2>7. Kept'
    BY <1>1, <2>1, SameJob DEF BlasInv, Kept
  <2>. QED  BY <1>3, <2>2, <2>6, <2>7 DEF BlasInv
<1>. QED  BY <1>4, <1>5 DEF TurnCopy, CopiesEachTurn

LEMMA GemmKeeps == BlasInv /\ Gemm => BlasInv'
<1>. SUFFICES ASSUME BlasInv, Gemm PROVE BlasInv'
  OBVIOUS
<1>1. /\ job' = job /\ pc = "gemm"
      /\ UNCHANGED <<held, handleInit, hostData, data, previous>>
  BY DEF Gemm, checkVars
<1>2. PICK result \in BOOLEAN : /\ RunBlasGemm(result)
                                /\ pc' \in {"loop", "done", "check"}
  BY DEF Gemm
<1>3. Supplied' = Supplied
  BY <1>1 DEF Supplied
<1>4. /\ isError' \in BOOLEAN /\ (~isError' => result) /\ (result => ~isError)
      /\ gemm' \in {"failed", "enqueued", "reported"} /\ (gemm' = "enqueued" => result)
  <2>1. result = TRUE \/ result = FALSE
    OBVIOUS
  <2>2. CASE result = TRUE
    BY <1>2, <2>2 DEF RunBlasGemm
  <2>3. CASE result = FALSE
    BY <1>2, <2>3 DEF RunBlasGemm
  <2>. QED  BY <2>1, <2>2, <2>3
<1>5. job \in JobType /\ job.hot \in Nat /\ acc \in Nat /\ corrupt \in BOOLEAN
  <2>1. job \in Jobs /\ acc \in Nat /\ corrupt \in BOOLEAN
    BY DEF BlasInv, BlasTypes
  <2>2. job \in JobType
    BY <2>1, JobsAreJobs
  <2>3. job.hot \in 1..2
    BY <2>2 DEF JobType
  <2>. QED  BY <2>1, <2>2, <2>3
<1>6. /\ acc' \in Nat /\ corrupt' \in BOOLEAN
      /\ ~Accumulates => acc' = acc
  <2>1. acc' \in {acc, acc + job.hot} /\ (~Accumulates => acc' = acc)
    BY <1>2 DEF RunBlasGemm, Accumulates
  <2>2. corrupt' \in BOOLEAN
    BY <1>2, <1>5 DEF RunBlasGemm
  <2>. QED  BY <1>5, <2>1, <2>2
<1>7. BlasTypes'
  BY <1>1, <1>2, <1>4, <1>6 DEF BlasInv, BlasTypes
<1>8. Possessions'
  BY <1>1, <1>2, StillPossesses
<1>9. AskedFor'
  BY <1>1, <1>2 DEF BlasInv, AskedFor
<1>10. DataThere'
  <2>1. handleInit' /\ ~job.hiprand => hostData' = HostGenerates'
    BY <1>1, SameJob DEF BlasInv, DataThere
  <2>2. Supplied /\ ~isError => data = HostGenerates
    BY <1>1 DEF BlasInv, DataThere
  <2>3. (gemm' = "enqueued" \/ ~isError') => ~isError
    BY <1>4
  <2>4. data' = data /\ HostGenerates' = HostGenerates /\ pc' \notin {"gemm", "new", "built"}
    BY <1>1, <1>2, SameJob
  <2>. QED  BY <1>1, <1>3, <2>1, <2>2, <2>3, <2>4 DEF DataThere
<1>11. Kept'
  BY <1>1, <1>6, SameJob DEF BlasInv, Kept
<1>. QED  BY <1>7, <1>8, <1>9, <1>10, <1>11 DEF BlasInv

-----------------------------------------------------------------------------
(* Validation.                                                             *)

\* With rocBLAS a check that is made looks at the output of the GEMM.
LEMMA LooksAtOutput ==
  ASSUME BlasTypes, job.source = "rocblas", NEW check \in {"self", "accu"}, check \in Made
  PROVE  Looks(check) = Output /\ Value(check) = <<"output", acc, corrupt>>
<1>1. Looks(check) # "none"
  BY DEF Made
<1>2. job \in Jobs
  BY DEF BlasTypes
<1>3. job.ops # "" => job.data = ""
  BY <1>2, JobsAreJobs
<1>4. CASE job.ops \in {"sgemm", "dgemm"}
  BY <1>4 DEF Looks, Output, InPlace, Value
<1>5. CASE job.ops \notin {"sgemm", "dgemm"}
  <2>1. job.data \in {"fp8_r", "fp16_r", "bf16_r"} /\ Looks(check) = "dd"
    BY <1>1, <1>5 DEF Looks
  <2>. QED  BY <1>3, <2>1 DEF Output, InPlace, Value
<1>. QED  BY <1>4, <1>5

\* A check for consistency that compares has an output of before, and tells an error
\* just when it differs.
LEMMA ConsistencyTells ==
  ASSUME job.source = "rocblas", NEW s \in Consistency
  PROVE  /\ s.previous \in {previous, Value("self"), Zeros}
         /\ s.compares => previous # <<>> /\ (s.error <=> Injects \/ previous # Value("self"))
         /\ s.error => s.compares
<1>1. CASE s = Nothing
  BY <1>1 DEF Nothing
<1>2. CASE previous = <<>> /\ s # Nothing
  <2>. DEFINE values == {Value("self"), Zeros}
  <2>0. s \in {[error |-> FALSE, previous |-> p, compares |-> FALSE] : p \in values}
    BY <1>2 DEF Consistency
  <2>. HIDE DEF values
  <2>2. PICK p \in values : s = [error |-> FALSE, previous |-> p, compares |-> FALSE]
    BY <2>0
  <2>3. p \in {Value("self"), Zeros}
    BY DEF values
  <2>. QED  BY <2>2, <2>3
<1>3. CASE previous # <<>> /\ s # Nothing
  <2>. DEFINE found == Finds(Injects \/ previous # Value("self"))
              values == {previous, Value("self")}
  <2>0. s \in {[error |-> e, previous |-> p, compares |-> TRUE] : e \in found, p \in values}
    BY <1>3 DEF Consistency
  <2>. HIDE DEF found, values
  <2>1. PICK e \in found, p \in values : s = [error |-> e, previous |-> p, compares |-> TRUE]
    BY <2>0
  <2>2. e = (Injects \/ previous # Value("self")) /\ p \in {previous, Value("self")}
    BY DEF Finds, found, values
  <2>3. s.error = e /\ s.previous = p /\ s.compares = TRUE
    BY <2>1
  <2>4. s.error <=> Injects \/ previous # Value("self")
    BY <2>2, <2>3
  <2>. QED  BY <1>3, <2>2, <2>3, <2>4
<1>. QED  BY <1>1, <1>2, <1>3

LEMMA AccuracyTells ==
  ASSUME job.source = "rocblas", NEW s \in Accuracy
  PROVE  /\ s.compares => (s.error <=> Injects \/ ~Accurate)
         /\ s.error => s.compares
<1>1. CASE s = Nothing
  BY <1>1 DEF Nothing
<1>2. CASE s # Nothing
  <2>1. PICK e \in Finds(Injects \/ ~Accurate) : s = [Nothing EXCEPT !.error = e, !.compares = TRUE]
    BY <1>2 DEF Accuracy
  <2>2. s = [error |-> e, previous |-> previous, compares |-> TRUE]
    BY <2>1 DEF Nothing
  <2>3. e = (Injects \/ ~Accurate)
    BY <2>1 DEF Finds
  <2>4. s.error = e /\ s.compares = TRUE
    BY <2>2
  <2>. QED  BY <2>3, <2>4
<1>. QED  BY <1>1, <1>2

\* What a validation with rocBLAS makes of the two checks.
Tells(self, accu) ==
    /\ previous' \in {previous, <<"output", acc, corrupt>>, Zeros}
    /\ verdict' = Verdict(self, accu)
    /\ compared' # {} => self.compares \/ accu.compares
    /\ self.compares => /\ "self" \in Made /\ previous # <<>>
                        /\ self.error <=> Injects \/ previous # <<"output", acc, corrupt>>
    /\ accu.compares => "accu" \in Made /\ (accu.error <=> Injects \/ ~Accurate)
    /\ (self.error => self.compares) /\ (accu.error => accu.compares)

LEMMA ValidatesSo ==
  ASSUME BlasInv, Validates, job.source = "rocblas"
  PROVE  \E self, accu : Tells(self, accu)
<1>1. PICK self \in IF "self" \in Made THEN Consistency ELSE {Nothing},
           accu \in IF "accu" \in Made THEN Accuracy ELSE {Nothing} :
        /\ compared' = {Value(c)[1] : c \in {x \in {"self", "accu"} :
                            (x = "self" /\ self.compares) \/ (x = "accu" /\ accu.compares)}}
        /\ verdict' = Verdict(self, accu)
        /\ previous' = self.previous
  BY DEF Validates
<1>2. compared' # {} => self.compares \/ accu.compares
  BY <1>1
<1>3. /\ Nothing.previous = previous /\ ~Nothing.compares /\ ~Nothing.error
  BY DEF Nothing
<1>4. BlasTypes
  BY DEF BlasInv
<1>7. /\ accu.compares => "accu" \in Made /\ (accu.error <=> Injects \/ ~Accurate)
      /\ accu.error => accu.compares
  <2>1. CASE "accu" \in Made
    <3>1. accu \in Accuracy
      BY <1>1, <2>1
    <3>. QED  BY <2>1, <3>1, AccuracyTells
  <2>2. CASE "accu" \notin Made
    <3>1. accu = Nothing
      BY <1>1, <2>2
    <3>. QED  BY <1>3, <3>1
  <2>. QED  BY <2>1, <2>2
<1>5. CASE "self" \in Made
  <2>1. self \in Consistency /\ Value("self") = <<"output", acc, corrupt>>
    BY <1>1, <1>4, <1>5, LooksAtOutput
  <2>2. /\ previous' \in {previous, <<"output", acc, corrupt>>, Zeros}
        /\ self.compares => /\ "self" \in Made /\ previous # <<>>
                            /\ self.error <=> Injects \/ previous # <<"output", acc, corrupt>>
        /\ self.error => self.compares
    BY <1>1, <1>5, <2>1, ConsistencyTells
  <2>3. Tells(self, accu)
    <3>1. verdict' = Verdict(self, accu)
      BY <1>1
    <3>2. (self.error => self.compares) /\ (accu.error => accu.compares)
      BY <1>7, <2>2
    <3>3. /\ previous' \in {previous, <<"output", acc, corrupt>>, Zeros}
          /\ self.compares => /\ "self" \in Made /\ previous # <<>>
                              /\ self.error <=> Injects \/ previous # <<"output", acc, corrupt>>
      BY <2>2
    <3>4. accu.compares => "accu" \in Made /\ (accu.error <=> Injects \/ ~Accurate)
      BY <1>7
    <3>. QED  BY ONLY <1>2, <3>1, <3>2, <3>3, <3>4 DEF Tells
  <2>. QED  BY <2>3
<1>6. CASE "self" \notin Made
  <2>1. self = Nothing
    BY <1>1, <1>6
  <2>2. previous' = previous /\ ~self.compares /\ ~self.error
    BY <1>1, <1>3, <2>1
  <2>3. Tells(self, accu)
    <3>1. verdict' = Verdict(self, accu)
      BY <1>1
    <3>2. (self.error => self.compares) /\ (accu.error => accu.compares)
      BY <1>7, <2>2
    <3>3. /\ previous' \in {previous, <<"output", acc, corrupt>>, Zeros}
          /\ self.compares => /\ "self" \in Made /\ previous # <<>>
                              /\ self.error <=> Injects \/ previous # <<"output", acc, corrupt>>
      BY <2>2
    <3>4. accu.compares => "accu" \in Made /\ (accu.error <=> Injects \/ ~Accurate)
      BY <1>7
    <3>. QED  BY ONLY <1>2, <3>1, <3>2, <3>3, <3>4 DEF Tells
  <2>. QED  BY <2>3
<1>. QED  BY <1>5, <1>6

LEMMA CheckKeeps == BlasInv /\ Check => BlasInv'
<1>. SUFFICES ASSUME BlasInv, Check PROVE BlasInv'
  OBVIOUS
<1>1. /\ job' = job /\ pc = "check" /\ pc' \in {"done", "loop"}
      /\ UNCHANGED <<isError, handleInit, hostData, data, acc, corrupt, gemm>>
  BY DEF Check, dataVars
<1>2. held \subseteq held' /\ held' \subseteq held \cup Pinned
  BY DEF Check, Validates, Pinned
<1>3. BlasTypes'
  BY <1>1 DEF BlasInv, BlasTypes
<1>4. Possessions'
  BY <1>1, <1>2, SameJob DEF BlasInv, Possessions, NothingKept
<1>5. AskedFor'
  BY <1>1 DEF BlasInv, AskedFor
<1>6. Supplied' = Supplied
  BY <1>1 DEF Supplied
<1>7. DataThere'
  BY <1>1, <1>6, SameJob DEF BlasInv, DataThere
<1>8. Kept'
  <2>1. acc \in Nat /\ corrupt \in BOOLEAN /\ (~Accumulates => acc = 0)
    BY DEF BlasInv, BlasTypes, Kept
  <2>2. job.source = "rocblas" =>
           previous' \in {previous, <<"output", acc, corrupt>>, Zeros}
    <3>1. CASE Validates
      BY <3>1, ValidatesSo DEF Tells
    <3>2. CASE previous' = previous
      BY <3>2
    <3>. QED  BY <3>1, <3>2 DEF Check
  <2>3. /\ <<"output", acc, corrupt>> \in {"output"} \X Nat \X BOOLEAN
        /\ <<"output", acc, corrupt>>[2] = acc
    BY <2>1
  <2>4. /\ ~Accumulates => acc = 0
        /\ job.source = "rocblas" =>
              \/ previous = <<>> \/ previous = Zeros
              \/ /\ previous \in {"output"} \X Nat \X BOOLEAN
                 /\ ~Accumulates => previous[2] = 0
    BY DEF BlasInv, Kept
  <2>5. Accumulates' = Accumulates
    BY <1>1, SameJob
  <2>. QED  BY <1>1, <2>1, <2>2, <2>3, <2>4, <2>5 DEF Kept
<1>. QED  BY <1>3, <1>4, <1>5, <1>7, <1>8 DEF BlasInv

LEMMA LeaveKeeps == BlasInv /\ Leave => BlasInv'
<1>. SUFFICES ASSUME BlasInv, Leave PROVE BlasInv'
  OBVIOUS
<1>1. /\ job' = job /\ pc = "loop" /\ pc' \in {"check", "done"}
      /\ UNCHANGED <<held, isError, handleInit, hostData, data, acc, corrupt, gemm, previous>>
  BY DEF Leave, objVars, dataVars, checkVars
<1>2. BlasTypes'
  BY <1>1 DEF BlasInv, BlasTypes
<1>3. Possessions'
  BY <1>1, StillPossesses
<1>4. AskedFor'
  BY <1>1 DEF BlasInv, AskedFor
<1>5. Supplied' = Supplied
  BY <1>1 DEF Supplied
<1>6. DataThere'
  BY <1>1, <1>5, SameJob DEF BlasInv, DataThere
<1>7. Kept'
  BY <1>1, SameJob DEF BlasInv, Kept
<1>. QED  BY <1>2, <1>3, <1>4, <1>6, <1>7 DEF BlasInv

LEMMA DestroyKeeps == BlasInv /\ Destroy => BlasInv'
<1>. SUFFICES ASSUME BlasInv, Destroy PROVE BlasInv'
  OBVIOUS
<1>1. /\ job' = job /\ pc = "done" /\ pc' = "gone" /\ held' = held \ (HostFreed \cup GpuFreed)
      /\ UNCHANGED <<isError, handleInit, hostData, data, acc, corrupt, gemm, previous>>
  BY DEF Destroy, dataVars, checkVars
<1>2. BlasTypes'
  BY <1>1 DEF BlasInv, BlasTypes
<1>3. Possessions'
  <2>1. held \subseteq ToSet(Acquired) \cup Pinned
    BY <1>1 DEF BlasInv, Possessions
  <2>2. held' \subseteq {"lost a", "lost b", "lost c"}
                 \cup (IF handleInit THEN {}
                       ELSE {"hip_stream", "generator"} \cup ToSet(Handles))
    BY <1>1, <2>1, GivenBack
  <2>. QED  BY <1>1, <2>2, SameJob DEF Possessions, NothingKept
<1>4. AskedFor'
  BY <1>1 DEF BlasInv, AskedFor
<1>5. Supplied' = Supplied
  BY <1>1 DEF Supplied
<1>6. DataThere'
  BY <1>1, <1>5, SameJob DEF BlasInv, DataThere
<1>7. Kept'
  BY <1>1, SameJob DEF BlasInv, Kept
<1>. QED  BY <1>2, <1>3, <1>4, <1>6, <1>7 DEF BlasInv

LEMMA BlasStays == BlasInv /\ UNCHANGED blasVars => BlasInv'
<1>. SUFFICES ASSUME BlasInv, UNCHANGED blasVars PROVE BlasInv'
  OBVIOUS
<1>1. /\ job' = job /\ pc' = pc
      /\ UNCHANGED <<held, isError, handleInit, hostData, data, acc, corrupt, gemm, previous>>
  BY DEF blasVars, objVars, dataVars, checkVars
<1>2. BlasTypes' /\ AskedFor' /\ (Supplied' = Supplied)
  BY <1>1 DEF BlasInv, BlasTypes, AskedFor, Supplied
<1>3. Possessions'
  BY <1>1, SameJob DEF BlasInv, Possessions, NothingKept
<1>4. DataThere'
  BY <1>1, <1>2, SameJob DEF BlasInv, DataThere
<1>5. Kept'
  BY <1>1, SameJob DEF BlasInv, Kept
<1>. QED  BY <1>2, <1>3, <1>4, <1>5 DEF BlasInv

LEMMA BlasStarts == BlasInit => BlasInv
<1>. SUFFICES ASSUME BlasInit PROVE BlasInv
  OBVIOUS
<1>. USE DEF BlasInit, BlasStart
<1>1. BlasTypes
  BY DEF BlasTypes
<1>2. Possessions
  BY DEF Possessions, NothingKept
<1>3. AskedFor
  BY DEF AskedFor
<1>4. DataThere
  BY DEF DataThere
<1>5. Kept
  BY DEF Kept
<1>. QED  BY <1>1, <1>2, <1>3, <1>4, <1>5 DEF BlasInv

LEMMA BlasKeeps == BlasInv /\ [BlasNext]_blasVars => BlasInv'
BY ConstructKeeps, GenerateKeeps, SetUpCopyKeeps, TurnCopyKeeps, GemmKeeps, CheckKeeps,
   LeaveKeeps, DestroyKeeps, BlasStays DEF BlasNext, BlasStutters

LEMMA BlasHolds == BlasSpec => []BlasInv
BY BlasStarts, BlasKeeps, PTL DEF BlasSpec

LEMMA DataInTime == BlasInv => NothingKept /\ GemmsHaveData
<1>. SUFFICES ASSUME BlasInv PROVE NothingKept /\ GemmsHaveData
  OBVIOUS
<1>1. NothingKept
  BY DEF BlasInv, Possessions
<1>2. ASSUME gemm = "enqueued" PROVE job.worker \in Asks => handleInit
  BY <1>2 DEF BlasInv, AskedFor
<1>3. ASSUME gemm = "enqueued", Supplied
      PROVE  {"a", "b"} \cup (IF job.beta /\ job.data # "mx" THEN {"c"} ELSE {}) \subseteq data
  <2>1. data = HostGenerates
    BY <1>3 DEF BlasInv, DataThere
  <2>. QED  BY <2>1 DEF HostGenerates, Operands
<1>. QED  BY <1>1, <1>2, <1>3 DEF GemmsHaveData, Supplied

\* A step that validates is a validation.
LEMMA ChecksAre ==
  ASSUME BlasInv, BlasNext, Checked
  PROVE  Validates
BY DEF Checked, BlasNext, Construct, Generate, SetUpCopy, TurnCopy, Gemm, Check, Leave, Destroy,
       BlasStutters, blasVars

LEMMA WrongTold ==
  ASSUME BlasInv, BlasNext, Checked, job.source = "rocblas", "output" \in compared', corrupt,
         previous # <<>> => previous[1] = "output" /\ ~previous[3]
  PROVE  verdict' = "error"
<1>1. Validates
  BY ChecksAre
<1>7. PICK self, accu : Tells(self, accu)
  BY <1>1, ValidatesSo
<1>2. /\ verdict' = Verdict(self, accu)
      /\ compared' # {} => self.compares \/ accu.compares
      /\ self.compares => /\ "self" \in Made /\ previous # <<>>
                          /\ self.error <=> Injects \/ previous # <<"output", acc, corrupt>>
      /\ accu.compares => "accu" \in Made /\ (accu.error <=> Injects \/ ~Accurate)
  BY <1>7 DEF Tells
<1>3. self.error \/ accu.error
  <2>1. CASE self.compares
    <3>1. previous[3] # <<"output", acc, corrupt>>[3]
      BY <1>2, <2>1
    <3>. QED  BY <1>2, <2>1, <3>1
  <2>2. CASE accu.compares
    BY <1>2, <2>2 DEF Accurate
  <2>. QED  BY <1>2, <2>1, <2>2
<1>4. Made # {}
  BY <1>2
<1>5. ~(job.worker = "pulse" /\ Unsupported)
  <2>. SUFFICES ASSUME job.worker = "pulse", Unsupported PROVE FALSE
    OBVIOUS
  <2>1. job.accu => job.ops \in {"sgemm", "dgemm"}
    BY JobsAreJobs DEF BlasInv, BlasTypes
  <2>2. ~(job.accu /\ Looks("accu") = "none")
    BY <2>1 DEF Looks
  <2>3. job.self /\ Looks("self") = "none"
    BY <2>2 DEF Unsupported
  <2>. QED  BY <1>4, <2>3 DEF Made
<1>6. Verdict(self, accu) = "error"
  BY <1>3, <1>5 DEF Verdict
<1>. QED  BY <1>2, <1>6

LEMMA QuietTold ==
  ASSUME BlasInv, BlasNext, Checked, job.source = "rocblas", errorFreq = 0, ~Accumulates,
         verdict' = "error"
  PROVE  corrupt \/ (previous # <<>> /\ (previous[3] \/ previous[1] = "zeros"))
<1>1. Validates
  BY ChecksAre
<1>7. PICK self, accu : Tells(self, accu)
  BY <1>1, ValidatesSo
<1>2. /\ verdict' = Verdict(self, accu)
      /\ self.compares => /\ "self" \in Made /\ previous # <<>>
                          /\ self.error <=> Injects \/ previous # <<"output", acc, corrupt>>
      /\ accu.compares => "accu" \in Made /\ (accu.error <=> Injects \/ ~Accurate)
      /\ (self.error => self.compares) /\ (accu.error => accu.compares)
  BY <1>7 DEF Tells
<1>3. self.error \/ accu.error
  BY <1>2 DEF Verdict
<1>4. ~Injects /\ acc = 0 /\ BlasTypes
  BY DEF Injects, BlasInv, Kept
<1>5. CASE accu.error
  <2>1. Looks("accu") = Output
    BY <1>2, <1>4, <1>5, LooksAtOutput
  <2>. QED  BY <1>2, <1>4, <1>5, <2>1 DEF Accurate, Accumulates
<1>6. CASE self.error
  <2>1. previous # <<>> /\ previous # <<"output", acc, corrupt>>
    BY <1>2, <1>4, <1>6
  <2>2. CASE previous = Zeros
    BY <2>1, <2>2 DEF Zeros
  <2>3. CASE previous \in {"output"} \X Nat \X BOOLEAN /\ previous[2] = 0
    <3>1. previous = <<"output", 0, previous[3]>> /\ previous[3] \in BOOLEAN
      BY <2>3
    <3>2. corrupt \in BOOLEAN
      BY <1>4 DEF BlasTypes
    <3>3. CASE corrupt = TRUE
      BY <3>3
    <3>4. CASE corrupt = FALSE
      <4>1. previous[3] # FALSE
        BY <1>4, <2>1, <3>1, <3>4
      <4>. QED  BY <2>1, <3>1, <4>1
    <3>. QED  BY <3>2, <3>3, <3>4
  <2>. QED  BY <2>1, <2>2, <2>3 DEF BlasInv, Kept
<1>. QED  BY <1>3, <1>5, <1>6

\* Whichever call of a library fails: GEMMs run on data that is there, what is acquired
\* is given back, a wrong result is told and a right one is not.
THEOREM BlasIsSound == BlasSpec => BlasSound
<1>1. BlasSpec => [](NothingKept /\ GemmsHaveData)
  BY BlasHolds, DataInTime, PTL
<1>2. BlasInv /\ [BlasNext]_blasVars
        => [Checked /\ job.source = "rocblas" /\ "output" \in compared' /\ corrupt
            /\ (previous # <<>> => previous[1] = "output" /\ ~previous[3])
            => verdict' = "error"]_blasVars
  BY WrongTold
<1>3. BlasInv /\ [BlasNext]_blasVars
        => [Checked /\ job.source = "rocblas" /\ errorFreq = 0 /\ ~(InPlace /\ job.beta)
            /\ verdict' = "error"
            => corrupt \/ (previous # <<>> /\ (previous[3] \/ previous[1] = "zeros"))]_blasVars
  BY QuietTold DEF Accumulates
<1>4. BlasSpec => WrongResultReported
  BY <1>2, BlasHolds, PTL DEF BlasSpec, WrongResultReported
<1>5. BlasSpec => QuietWhenHealthy
  BY <1>3, BlasHolds, PTL DEF BlasSpec, QuietWhenHealthy
<1>. QED  BY <1>1, <1>4, <1>5 DEF BlasSound

-----------------------------------------------------------------------------
(* The BLAS object: the domains of the rest of the state.                  *)

WritesEachTurn == job.worker = "gst" /\ job.copyMatrix /\ ~job.hiprand

\* The turns whose GEMMs have been made, and the checks that have been counted.
Ran == IF pc = "gemm" THEN turns - 1 ELSE turns
CountedChecks ==
    IF job.worker = "gst" THEN IF pc \in {"gemm", "check"} THEN turns ELSE turns + 1
    ELSE IF job.worker = "pulse" /\ pc \in {"done", "gone"} THEN 2 ELSE 1

\* The output accumulates the GEMMs of all turns, of one where C is written in each;
\* one check is counted in a turn of gst and at the end of pulse.
Counters ==
    /\ turns \in 0..MaxTurns /\ (pc = "gemm" => turns > 0)
    /\ pc = "check" => job.worker \in {"gst", "pulse"}
    /\ WritesEachTurn => acc <= job.hot /\ (pc = "gemm" => acc = 0)
    /\ acc <= job.hot * Ran
    /\ errorFreq \in Nat /\ checkCount \in 1..CountedChecks

Contents ==
    /\ held \subseteq ToSet(Acquired) \cup Pinned
    /\ hostData \subseteq Operands /\ data \subseteq Operands
    /\ previous # <<>> => previous[1] \in {"C", "output", "zeros"}
    /\ compared \subseteq {"C", "output"}
    /\ verdict \in {"none", "ok", "unsupported", "error"}

BlasDomains == Counters /\ Contents

LEMMA BlasJobIs ==
  ASSUME BlasTypes
  PROVE  job.hot \in {1, 2} /\ MaxTurns \in Nat /\ acc \in Nat
<1>1. job \in JobType /\ MaxTurns \in Nat
  BY JobsAreJobs DEF BlasTypes
<1>2. job.hot \in 1..2
  BY <1>1 DEF JobType
<1>. QED  BY <1>1, <1>2 DEF BlasTypes

LEMMA MoreTurns ==
  ASSUME NEW h \in {1, 2}, NEW m \in Nat, NEW n \in Nat, NEW x \in Nat, NEW y \in Nat, x <= h * m
  PROVE  /\ m <= n /\ y <= x => y <= h * n
         /\ m + 1 <= n /\ y <= x + h => y <= h * n
<1>1. CASE h = 1
  BY <1>1
<1>2. CASE h = 2
  BY <1>2
<1>. QED  BY <1>1, <1>2

\* A step within a turn, or before and after all of them, that neither makes GEMMs
\* nor checks.
LEMMA CountersSame ==
  ASSUME BlasInv, Counters, job' = job, UNCHANGED <<turns, errorFreq, checkCount>>,
         acc' = acc \/ acc' = 0,
         \/ pc \notin {"gemm", "check", "done", "gone"} /\ pc' \notin {"gemm", "check"}
         \/ pc = "loop" /\ pc' = "check" /\ job.worker = "pulse"
         \/ pc \in {"done", "gone"} /\ pc' \in {"done", "gone"}
         \/ pc' = pc
  PROVE  Counters'
<1>1. job.hot \in {1, 2} /\ MaxTurns \in Nat /\ acc \in Nat /\ acc' \in Nat /\ turns \in Nat
      /\ (WritesEachTurn' <=> WritesEachTurn)
  BY BlasJobIs DEF WritesEachTurn, BlasInv, BlasTypes, Counters
<1>2. Ran' = Ran /\ Ran \in Nat /\ Ran' \in Nat
  BY <1>1 DEF Ran, Counters
<1>3. acc' <= job.hot * Ran'
  BY <1>1, <1>2, MoreTurns DEF Counters
<1>4. checkCount' \in 1..CountedChecks'
  <2>1. CountedChecks \in Nat /\ CountedChecks' \in Nat /\ CountedChecks <= CountedChecks'
    BY <1>1 DEF CountedChecks
  <2>. QED  BY <2>1 DEF Counters
<1>. QED  BY <1>1, <1>2, <1>3, <1>4 DEF Counters

\* A check leaves an output, C or zeros for the next one.
LEMMA ValidatesWithin ==
  ASSUME Contents, Validates, job' = job
  PROVE  /\ held' \subseteq ToSet(Acquired) \cup Pinned
         /\ previous' # <<>> => previous'[1] \in {"C", "output", "zeros"}
         /\ compared' \subseteq {"C", "output"}
         /\ verdict' \in {"none", "ok", "unsupported", "error"}
         /\ checkCount' = checkCount \/ checkCount' = checkCount + 1
<1>1. PICK self \in Consistency \cup {Nothing}, accu \in Accuracy \cup {Nothing} :
         /\ compared' = {Value(c)[1] : c \in {x \in {"self", "accu"} :
                            (x = "self" /\ self.compares) \/ (x = "accu" /\ accu.compares)}}
         /\ verdict' = Verdict(self, accu)
         /\ previous' = self.previous
         /\ checkCount' = IF errorFreq # 0 /\ ~Unsupported THEN checkCount + 1 ELSE checkCount
         /\ held' = held \cup (IF self.previous # <<>> THEN {"hco", "hpo"} ELSE {})
                         \cup (IF accu.compares THEN {"hout", "hdout"} ELSE {})
  BY DEF Validates
<1>2. \A c : Value(c) # <<>> /\ Value(c)[1] \in {"C", "output"}
  BY DEF Value
<1>3. self.previous \in {previous, Value("self"), Zeros}
  BY DEF Consistency, Nothing
<1>4. previous' # <<>> => previous'[1] \in {"C", "output", "zeros"}
  <2>1. previous' \in {previous, Value("self"), Zeros}
    BY <1>1, <1>3
  <2>2. Value("self")[1] \in {"C", "output"}
    BY <1>2
  <2>3. Zeros[1] = "zeros"
    BY DEF Zeros
  <2>. QED  BY <2>1, <2>2, <2>3 DEF Contents
<1>5. compared' \subseteq {"C", "output"}
  BY <1>1, <1>2
<1>6. verdict' \in {"none", "ok", "unsupported", "error"}
  BY <1>1 DEF Verdict
<1>7. held' \subseteq ToSet(Acquired) \cup Pinned
  BY <1>1 DEF Contents, Pinned
<1>. QED  BY <1>1, <1>4, <1>5, <1>6, <1>7

LEMMA ContentsSame ==
  ASSUME Contents, job' = job, held' \subseteq held,
         hostData' \subseteq Operands, data' \subseteq Operands,
         UNCHANGED <<previous, compared, verdict>>
  PROVE  Contents'
BY SameJob DEF Contents

LEMMA BlasDomainsStart == ASSUME BlasInit PROVE BlasDomains
<1>. USE DEF BlasInit, BlasStart
<1>1. /\ job \in JobType /\ MaxTurns \in Nat /\ MaxFreq \in Nat
  BY JobsAreJobs
<1>2. job.inject \in 0..2 /\ job.hot \in 1..2
  BY <1>1 DEF JobType
<1>3. errorFreq \in Nat
  BY <1>1, <1>2
<1>4. Counters
  <2>1. turns \in 0..MaxTurns /\ Ran = 0 /\ acc = 0 /\ job.hot * 0 = 0
    BY <1>1, <1>2 DEF Ran
  <2>2. checkCount \in 1..CountedChecks
    BY DEF CountedChecks
  <2>. QED  BY <1>2, <1>3, <2>1, <2>2 DEF Counters
<1>5. Contents
  BY DEF Contents
<1>. QED  BY <1>4, <1>5 DEF BlasDomains

LEMMA HostGeneratesIs == HostGenerates \subseteq Operands
BY DEF HostGenerates, Operands

\* What a copy does to the contents.
LEMMA CopiesWithin ==
  ASSUME Contents, NEW ok, Copies(ok), acc \in Nat
  PROVE  data' \subseteq Operands /\ (acc' = acc \/ acc' = 0) /\ (ok /\ ~job.hiprand => acc' = 0)
BY DEF Copies, Contents

LEMMA TurnCopyStays == ASSUME BlasInv, BlasDomains, TurnCopy PROVE BlasDomains'
<1>1. /\ job' = job /\ pc = "loop" /\ turns < MaxTurns /\ turns' = turns + 1
      /\ pc' \in {"gemm", "done"} /\ BlasTypes
      /\ UNCHANGED <<held, hostData, errorFreq, checkCount, previous, compared, verdict>>
  BY DEF TurnCopy, checkVars, BlasInv
<1>2. job.hot \in {1, 2} /\ MaxTurns \in Nat /\ acc \in Nat /\ turns \in Nat
      /\ (WritesEachTurn' <=> WritesEachTurn)
  BY <1>1, BlasJobIs DEF WritesEachTurn, BlasDomains, Counters
<1>3. /\ data' \subseteq Operands /\ (acc' = acc \/ acc' = 0)
      /\ WritesEachTurn /\ pc' = "gemm" => acc' = 0
  <2>1. CASE job.worker = "gst" /\ job.copyMatrix
    <3>1. PICK ok \in BOOLEAN : Copies(ok) /\ pc' = IF ok THEN "gemm" ELSE "done"
      BY <2>1 DEF TurnCopy
    <3>. QED  BY <1>2, <3>1, CopiesWithin DEF BlasDomains, WritesEachTurn
  <2>2. CASE ~(job.worker = "gst" /\ job.copyMatrix)
    BY <2>2 DEF TurnCopy, WritesEachTurn, BlasDomains, Contents
  <2>. QED  BY <2>1, <2>2
<1>4. Contents'
  BY <1>1, <1>3, ContentsSame DEF BlasDomains, Contents
<1>5. acc' <= job.hot * Ran'
  <2>1. Ran = turns /\ Ran' \in Nat /\ turns <= Ran' /\ acc' \in Nat /\ acc' <= acc
    BY <1>1, <1>2, <1>3 DEF Ran
  <2>. QED  BY <1>2, <2>1, MoreTurns DEF BlasDomains, Counters
<1>6. checkCount' \in 1..CountedChecks'
  <2>1. CountedChecks \in Nat /\ CountedChecks' \in Nat /\ CountedChecks <= CountedChecks'
    BY <1>1, <1>2 DEF CountedChecks
  <2>. QED  BY <1>1, <2>1 DEF BlasDomains, Counters
<1>7. Counters'
  BY <1>1, <1>2, <1>3, <1>5, <1>6 DEF BlasDomains, Counters
<1>. QED  BY <1>4, <1>7 DEF BlasDomains

LEMMA GemmStays == ASSUME BlasInv, BlasDomains, Gemm PROVE BlasDomains'
<1>1. /\ job' = job /\ pc = "gemm" /\ turns' = turns /\ pc' \in {"check", "done", "loop"}
      /\ pc' = "check" => job.worker = "gst" /\ BlasTypes
      /\ UNCHANGED <<held, hostData, data, errorFreq, checkCount, previous, compared, verdict>>
  BY DEF Gemm, checkVars, BlasInv
<1>2. job.hot \in {1, 2} /\ MaxTurns \in Nat /\ acc \in Nat /\ turns \in Nat /\ turns > 0
      /\ turns <= MaxTurns /\ (WritesEachTurn' <=> WritesEachTurn)
  BY <1>1, BlasJobIs DEF WritesEachTurn, BlasInv, BlasDomains, Counters
<1>3. acc' = acc \/ acc' = acc + job.hot
  <2>1. PICK result \in BOOLEAN : RunBlasGemm(result)
    BY DEF Gemm
  <2>. QED  BY <2>1 DEF RunBlasGemm
<1>4. Contents'
  BY <1>1, ContentsSame DEF BlasDomains, Contents
<1>5. acc' <= job.hot * Ran'
  <2>1. /\ Ran = turns - 1 /\ Ran \in Nat /\ Ran' = turns /\ Ran + 1 <= turns /\ acc' \in Nat
        /\ acc' <= acc + job.hot
    BY <1>1, <1>2, <1>3 DEF Ran
  <2>. QED  BY <1>2, <2>1, MoreTurns DEF BlasDomains, Counters
<1>6. checkCount' \in 1..CountedChecks'
  <2>1. CountedChecks \in Nat /\ CountedChecks' \in Nat /\ CountedChecks <= CountedChecks'
    BY <1>1, <1>2 DEF CountedChecks
  <2>. QED  BY <1>1, <2>1 DEF BlasDomains, Counters
<1>7. WritesEachTurn => acc' <= job.hot
  BY <1>1, <1>2, <1>3 DEF BlasDomains, Counters
<1>8. Counters'
  BY <1>1, <1>2, <1>5, <1>6, <1>7 DEF BlasDomains, Counters
<1>. QED  BY <1>4, <1>8 DEF BlasDomains

LEMMA CheckStays == ASSUME BlasInv, BlasDomains, Check PROVE BlasDomains'
<1>1. /\ job' = job /\ pc = "check" /\ turns' = turns
      /\ pc' = IF job.worker = "pulse" THEN "done" ELSE "loop"
      /\ UNCHANGED <<hostData, data, acc, errorFreq>> /\ BlasTypes
      /\ job.worker \in {"gst", "pulse"}
  BY DEF Check, dataVars, BlasInv, BlasDomains, Counters
<1>2. job.hot \in {1, 2} /\ MaxTurns \in Nat /\ acc \in Nat /\ turns \in Nat
      /\ (WritesEachTurn' <=> WritesEachTurn)
  BY <1>1, BlasJobIs DEF WritesEachTurn, BlasDomains, Counters
<1>3. /\ Contents'
      /\ checkCount' = checkCount \/ checkCount' = checkCount + 1
  <2>1. CASE job.self \/ job.accu
    <3>1. Validates
      BY <2>1 DEF Check
    <3>. QED  BY <1>1, <3>1, ValidatesWithin, SameJob DEF BlasDomains, Contents
  <2>2. CASE ~(job.self \/ job.accu)
    <3>1. UNCHANGED <<held, compared, verdict, previous, checkCount>>
      BY <2>2 DEF Check
    <3>. QED  BY <1>1, <3>1, ContentsSame DEF BlasDomains, Contents
  <2>. QED  BY <2>1, <2>2
<1>4. acc' <= job.hot * Ran'
  <2>1. Ran' = Ran
    BY <1>1 DEF Ran
  <2>. QED  BY <1>1, <2>1 DEF BlasDomains, Counters
<1>5. checkCount' \in 1..CountedChecks'
  <2>1. CountedChecks \in Nat /\ CountedChecks' = CountedChecks + 1
    BY <1>1, <1>2 DEF CountedChecks
  <2>2. checkCount \in 1..CountedChecks
    BY DEF BlasDomains, Counters
  <2>. QED  BY <1>3, <2>1, <2>2
<1>6. Counters'
  BY <1>1, <1>2, <1>4, <1>5 DEF BlasDomains, Counters
<1>. QED  BY <1>3, <1>6 DEF BlasDomains

LEMMA BlasDomainsKept ==
  ASSUME BlasInv, BlasDomains, [BlasNext]_blasVars
  PROVE  BlasDomains'
<1>0. BlasInv /\ Counters /\ Contents /\ acc \in Nat
  BY DEF BlasDomains, BlasInv, BlasTypes
<1>1. CASE Construct
  <2>1. Counters'
    BY <1>0, <1>1, CountersSame DEF Construct, dataVars, checkVars
  <2>2. held' \subseteq ToSet(Acquired)
    <3>1. PICK n \in 0..Len(Acquired) : held' \subseteq {Acquired[i] : i \in 1..n}
      BY <1>1 DEF Construct
    <3>2. Acquired \in Seq(Things)
      BY AcquiredIs
    <3>. QED  BY <3>1, <3>2 DEF ToSet
  <2>3. Contents'
    BY <1>0, <1>1, <2>2, SameJob DEF Construct, dataVars, checkVars, Contents
  <2>. QED  BY <2>1, <2>3 DEF BlasDomains
<1>2. CASE Generate
  <2>1. Counters'
    BY <1>0, <1>2, CountersSame DEF Generate, checkVars
  <2>2. hostData' \subseteq Operands /\ data' \subseteq Operands
    BY <1>0, <1>2, HostGeneratesIs DEF Generate, GpuGenerate, Contents
  <2>3. Contents'
    BY <1>0, <1>2, <2>2, ContentsSame DEF Generate, checkVars
  <2>. QED  BY <2>1, <2>3 DEF BlasDomains
<1>3. CASE SetUpCopy
  <2>1. data' \subseteq Operands /\ (acc' = acc \/ acc' = 0)
    BY <1>0, <1>3, CopiesWithin DEF SetUpCopy, Contents
  <2>2. pc' \in {"loop", "done"}
    BY <1>3 DEF SetUpCopy
  <2>3. Counters'
    BY <1>0, <1>3, <2>1, <2>2, CountersSame DEF SetUpCopy, checkVars
  <2>4. Contents'
    BY <1>0, <1>3, <2>1, ContentsSame DEF SetUpCopy, checkVars, Contents
  <2>. QED  BY <2>3, <2>4 DEF BlasDomains
<1>4. CASE TurnCopy
  BY <1>4, TurnCopyStays
<1>5. CASE Gemm
  BY <1>5, GemmStays
<1>6. CASE Check
  BY <1>6, CheckStays
<1>7. CASE Leave
  <2>1. Counters'
    BY <1>0, <1>7, CountersSame DEF Leave, dataVars, checkVars
  <2>2. Contents'
    BY <1>0, <1>7, ContentsSame DEF Leave, objVars, dataVars, checkVars, Contents
  <2>. QED  BY <2>1, <2>2 DEF BlasDomains
<1>8. CASE Destroy
  <2>1. Counters'
    BY <1>0, <1>8, CountersSame DEF Destroy, dataVars, checkVars
  <2>2. Contents'
    BY <1>0, <1>8, ContentsSame DEF Destroy, dataVars, checkVars, Contents
  <2>. QED  BY <2>1, <2>2 DEF BlasDomains
<1>9. CASE UNCHANGED blasVars
  <2>1. Counters'
    BY <1>0, <1>9, CountersSame DEF blasVars, dataVars, checkVars
  <2>2. Contents'
    BY <1>0, <1>9, ContentsSame DEF blasVars, objVars, dataVars, checkVars, Contents
  <2>. QED  BY <2>1, <2>2 DEF BlasDomains
<1>. QED  BY <1>1, <1>2, <1>3, <1>4, <1>5, <1>6, <1>7, <1>8, <1>9 DEF BlasNext, BlasStutters

LEMMA BlasIsTyped == ASSUME BlasInv, BlasDomains PROVE BlasTypeOK
<1>1. /\ BlasTypes /\ Counters /\ Contents /\ job.hot \in {1, 2} /\ MaxTurns \in Nat
      /\ acc \in Nat /\ turns \in 0..MaxTurns
  BY BlasJobIs DEF BlasInv, BlasDomains, Counters
<1>2. acc \in 0..job.hot * (IF WritesEachTurn THEN 1 ELSE MaxTurns)
  <2>1. CASE WritesEachTurn
    BY <1>1, <2>1 DEF Counters
  <2>2. CASE ~WritesEachTurn
    <3>1. Ran \in Nat /\ Ran <= MaxTurns
      BY <1>1 DEF Ran, Counters
    <3>2. acc <= job.hot * MaxTurns
      BY <1>1, <3>1, MoreTurns DEF Counters
    <3>. QED  BY <1>1, <2>2, <3>2
  <2>. QED  BY <2>1, <2>2
<1>3. checkCount \in 1..(MaxTurns + 2)
  <2>1. CountedChecks \in Nat /\ CountedChecks <= MaxTurns + 2
    BY <1>1 DEF CountedChecks
  <2>. QED  BY <1>1, <2>1 DEF Counters
<1>. QED  BY <1>1, <1>2, <1>3 DEF BlasTypes, Counters, Contents, BlasTypeOK, WritesEachTurn

-----------------------------------------------------------------------------
(* The memory test: the invariant.                                         *)

Marks == {"walk", "own", "0", "1", "80", "7f", "random", "modnar", "pairs", "p", "~p",
          "seed", "~seed", "even", "odd"}
PassSet == [op : {"write", "read", "readwrite", "record"}, sees : Marks, puts : Marks,
            where : {"powers", "grid", "dim", "first", "all"}, first : {0, 1}]

\* No error is ever counted, so no test is repeated; each worker has its own records.
MemTypes ==
    /\ mconf \in MemConfs
    /\ mpc \in [MemGpus -> {"idle", "size", "test", "done", "aborted"}]
    /\ tot \in [MemGpus -> Nat] /\ at \in [MemGpus -> (1..11) \X (Nat \ {0})]
    /\ blocks = [w \in MemGpus |-> blocks[w]] /\ seen = [w \in MemGpus |-> seen[w]]
    /\ errs = [w \in MemGpus |-> 0] /\ iteration = [w \in MemGpus |-> 0]
    /\ small = [w \in MemGpus |-> w]
    /\ memMain \in {"start", "join", "end"} /\ tested \subseteq MemGpus

\* Where the workers are in the turns of the action.
Turned ==
    /\ live = {w \in MemGpus : mpc[w] \in {"test", "aborted"}}
    /\ \A w \in MemGpus : mpc[w] # "idle" => w \in mconf.gpus
    /\ \A w \in MemGpus : mpc[w] = "done" => w \in tested \/ tot[w] = 0
    /\ memMain = "start" =>
          /\ Left # {}
          /\ \A w \in MemGpus : mpc[w] \in {"idle", "done"}
          /\ mconf.parallel => \A w \in MemGpus : mpc[w] = "idle"
    /\ memMain = "join" /\ mconf.parallel => Left = {}
    /\ memMain = "end" => \A w \in MemGpus : mpc[w] \in {"idle", "done"}
    /\ memResult = "success" => memMain = "end" /\ Left = {}

\* After pass k - 1 of the passes s over n blocks: where it wrote there is its pattern.
Wrote(s, k, n, mem) ==
    k > 1 /\ s[k - 1].op \in {"write", "readwrite"} =>
        \A b \in 0..n : Touches(s[k - 1], b, n) # 0 =>
            mem[b] = IF b \in mconf.bad THEN "junk" ELSE s[k - 1].puts

\* The first pass of a test that looks at all of the memory.
Finder(t) == IF t = 1 THEN 4 ELSE IF t \in {6, 8} THEN 3 ELSE 2

Found(t, k, n, found) ==
    k > Finder(t) /\ n < Wrap =>
        /\ t \in {1, 2, 3, 4, 5, 6, 10} /\ mconf.max >= Stride
             => {b \in mconf.bad : b < n} \subseteq found
        /\ t = 8 /\ mconf.max >= Stride
             => {b \in mconf.bad : b < n /\ b > 0} \subseteq found
        /\ t = 11 /\ mconf.iterations > 0 => {b \in mconf.bad : b < n} \subseteq found

Quiet(t, found) == t # 1 /\ mconf.max = Stride => found \subseteq mconf.bad

Testing(w) ==
    mpc[w] = "test" =>
        /\ at[w][2] <= Len(Passes(w)) + 1
        /\ DOMAIN blocks[w] = 0..tot[w]
        /\ Wrote(Passes(w), at[w][2], tot[w], blocks[w])
        /\ Found(at[w][1], at[w][2], tot[w], seen[w])
        /\ Quiet(at[w][1], seen[w])

MemInv == MemTypes /\ Turned /\ \A w \in MemGpus : Testing(w)

-----------------------------------------------------------------------------
(* The tests are passes that look only at what the pass before has written. *)

\* Pass q looks where p has written, for what it has written.
Follows(p, q) ==
    /\ p.op \in {"write", "readwrite"} /\ q.op \in {"read", "readwrite"} /\ p.puts = q.sees
    /\ p.first = q.first /\ (p.where = q.where \/ (p.where = "grid" /\ q.where = "dim"))
    /\ q.op = "readwrite" => q.where \in {"grid", "all"}

Ordered(s) == \A k \in 1..Len(s) : s[k].op = "write" \/ (k > 1 /\ Follows(s[k - 1], s[k]))
GoodTest(s) == s \in Seq(PassSet) /\ Ordered(s)

LEMMA GoodJoined ==
  ASSUME NEW s, NEW t, GoodTest(s), GoodTest(t)
  PROVE  /\ GoodTest(s \o t) /\ Len(s \o t) = Len(s) + Len(t)
         /\ \A i \in 1..Len(s) : (s \o t)[i] = s[i]
<1>. DEFINE u == s \o t
<1>1. s \in Seq(PassSet) /\ t \in Seq(PassSet) /\ Ordered(s) /\ Ordered(t)
  BY DEF GoodTest
<1>2. /\ u \in Seq(PassSet) /\ Len(u) = Len(s) + Len(t)
      /\ \A i \in 1..Len(s) : u[i] = s[i]
      /\ \A i \in (Len(s) + 1)..(Len(s) + Len(t)) : u[i] = t[i - Len(s)]
  BY <1>1
<1>3. Len(s) \in Nat /\ Len(t) \in Nat
  BY <1>1
<1>. HIDE DEF u
<1>4. ASSUME NEW k \in 1..Len(u)
      PROVE  u[k].op = "write" \/ (k > 1 /\ Follows(u[k - 1], u[k]))
  <2>1. CASE k <= Len(s)
    <3>1. u[k] = s[k] /\ (k > 1 => u[k - 1] = s[k - 1]) /\ k \in 1..Len(s)
      BY <1>2, <1>3, <2>1
    <3>. QED  BY <1>1, <3>1 DEF Ordered
  <2>2. CASE k > Len(s)
    <3>. DEFINE j == k - Len(s)
    <3>1. j \in 1..Len(t) /\ u[k] = t[j]
      BY <1>2, <1>3, <2>2
    <3>2. j > 1 => u[k - 1] = t[j - 1] /\ k > 1
      BY <1>2, <1>3, <2>2, <3>1
    <3>3. t[j].op = "write" \/ (j > 1 /\ Follows(t[j - 1], t[j]))
      BY <1>1, <3>1 DEF Ordered
    <3>. HIDE DEF j
    <3>. QED  BY <3>1, <3>2, <3>3
  <2>. QED  BY <1>3, <2>1, <2>2
<1>5. GoodTest(u)
  BY <1>2, <1>4 DEF GoodTest, Ordered
<1>. QED  BY <1>2, <1>5 DEF u

\* The passes of Times, by their number in s.
LEMMA TimesAre ==
  ASSUME NEW n \in Nat, NEW s \in Seq(PassSet), Len(s) # 0
  PROVE  /\ Times(n, s) \in Seq(PassSet) /\ Len(Times(n, s)) = n * Len(s)
         /\ \A i \in 1..(n * Len(s)) :
               /\ ((i - 1) % Len(s)) + 1 \in 1..Len(s)
               /\ Times(n, s)[i] = s[((i - 1) % Len(s)) + 1]
<1>. DEFINE l == Len(s)
            m == n * l
<1>1. l \in Nat \ {0} /\ m \in Nat
  OBVIOUS
<1>2. Times(n, s) = [i \in 1..m |-> s[((i - 1) % l) + 1]]
  BY DEF Times
<1>3. \A j \in 1..l : s[j] \in PassSet
  OBVIOUS
<1>. HIDE DEF l, m
<1>4. \A i \in 1..m : ((i - 1) % l) + 1 \in 1..l
  <2>. SUFFICES ASSUME NEW i \in 1..m PROVE ((i - 1) % l) + 1 \in 1..l
    OBVIOUS
  <2>1. i - 1 \in Nat
    BY <1>1
  <2>2. (i - 1) % l \in 0..(l - 1)
    BY <1>1, <2>1, Remainders
  <2>. QED  BY <1>1, <2>2
<1>5. \A i \in 1..m : s[((i - 1) % l) + 1] \in PassSet
  BY <1>3, <1>4
<1>6. Times(n, s) \in [1..m -> PassSet]
  BY <1>2, <1>5
<1>7. Times(n, s) \in Seq(PassSet) /\ Len(Times(n, s)) = m
  BY <1>1, <1>6
<1>. QED  BY <1>2, <1>4, <1>7 DEF l, m

\* The first of them are those of s.
LEMMA TimesBegins ==
  ASSUME NEW n \in Nat \ {0}, NEW s \in Seq(PassSet), Len(s) # 0
  PROVE  /\ Len(Times(n, s)) >= Len(s)
         /\ \A i \in 1..Len(s) : Times(n, s)[i] = s[i]
<1>1. Len(s) \in Nat \ {0}
  OBVIOUS
<1>2. n * Len(s) \in Nat /\ n * Len(s) >= Len(s)
  BY <1>1
<1>3. /\ Len(Times(n, s)) = n * Len(s)
      /\ \A i \in 1..(n * Len(s)) : Times(n, s)[i] = s[((i - 1) % Len(s)) + 1]
  BY TimesAre
<1>4. ASSUME NEW i \in 1..Len(s) PROVE Times(n, s)[i] = s[i]
  <2>1. i \in 1..(n * Len(s)) /\ i - 1 \in 0..(Len(s) - 1)
    BY <1>1, <1>2
  <2>2. (Len(s) * 0 + (i - 1)) % Len(s) = i - 1
    BY <1>1, <2>1, RemainderOf
  <2>3. Len(s) * 0 + (i - 1) = i - 1
    BY <1>1, <2>1
  <2>4. ((i - 1) % Len(s)) + 1 = i
    BY <2>1, <2>2, <2>3
  <2>. QED  BY <1>3, <2>1, <2>4
<1>. QED  BY <1>2, <1>3, <1>4

LEMMA GoodTimes ==
  ASSUME NEW n \in Nat, NEW s, GoodTest(s), Len(s) # 0
  PROVE  GoodTest(Times(n, s))
<1>. DEFINE l == Len(s)
            m == n * l
            u == Times(n, s)
            At(i) == ((i - 1) % l) + 1
<1>1. s \in Seq(PassSet) /\ Ordered(s)
  BY DEF GoodTest
<1>2. l \in Nat \ {0} /\ m \in Nat
  BY <1>1
<1>3. /\ u \in Seq(PassSet) /\ Len(u) = m
      /\ \A i \in 1..m : At(i) \in 1..l /\ u[i] = s[At(i)]
  BY <1>1, TimesAre
<1>30. \A j \in 1..l : s[j].op = "write" \/ (j > 1 /\ Follows(s[j - 1], s[j]))
  BY <1>1 DEF Ordered
<1>. HIDE DEF l, m, u, At
<1>4. ASSUME NEW k \in 1..m, At(k) > 1
      PROVE  k > 1 /\ At(k - 1) = At(k) - 1
  <2>. DEFINE x == k - 1
              q == x \div l
  <2>1. x \in Nat /\ x % l = At(k) - 1
    <3>1. x \in Nat
      BY <1>2
    <3>2. x % l \in 0..(l - 1)
      BY ONLY <1>2, <3>1, Remainders
    <3>3. At(k) = (x % l) + 1
      BY DEF At
    <3>. HIDE DEF x
    <3>. QED  BY <1>2, <3>1, <3>2, <3>3
  <2>2. x % l \in 0..(l - 1) /\ q \in Nat /\ x = l * q + (x % l)
    BY <1>2, <2>1, Remainders
  <2>3. x > 0
    <3>. SUFFICES ASSUME x = 0 PROVE FALSE
      BY <2>1
    <3>1. 0 % l = 0
      BY <1>2
    <3>2. At(k) \in 1..l
      BY <1>3
    <3>. QED  BY <1>2, <1>4, <2>1, <3>1, <3>2
  <2>4. (x - 1) % l = (x % l) - 1
    <3>1. x % l > 0
      BY <1>2, <1>3, <1>4, <2>1
    <3>2. x - 1 = l * q + ((x % l) - 1) /\ (x % l) - 1 \in 0..(l - 1)
      BY <1>2, <2>1, <2>2, <3>1
    <3>3. (l * q + ((x % l) - 1)) % l = (x % l) - 1
      BY <1>2, <2>2, <3>2, RemainderOf
    <3>. QED  BY <3>2, <3>3
  <2>. QED  BY <1>2, <2>1, <2>3, <2>4 DEF At
<1>5. ASSUME NEW k \in 1..m
      PROVE  u[k].op = "write" \/ (k > 1 /\ Follows(u[k - 1], u[k]))
  <2>1. At(k) \in 1..l /\ u[k] = s[At(k)]
    BY <1>3
  <2>2. CASE At(k) > 1
    <3>1. k > 1 /\ At(k - 1) = At(k) - 1
      BY <1>4, <2>2
    <3>2. k - 1 \in 1..m
      BY <1>2, <3>1
    <3>3. u[k - 1] = s[At(k) - 1]
      BY <1>3, <3>1, <3>2
    <3>. QED  BY <1>30, <2>1, <3>1, <3>3
  <2>3. CASE ~(At(k) > 1)
    BY <1>30, <2>1, <2>3
  <2>. QED  BY <2>2, <2>3
<1>6. GoodTest(u)
  BY <1>3, <1>5 DEF GoodTest, Ordered
<1>. QED  BY <1>6 DEF u

\* Pass k is the first that looks at all blocks from f on, which have been written.
Catches(s, k, f) ==
    /\ k \in 2..Len(s)
    /\ s[k - 1].op = "write" /\ s[k - 1].where = "grid" /\ s[k - 1].first = f
    /\ s[k].op \in {"read", "readwrite"} /\ s[k].where = "grid" /\ s[k].first = f

LEMMA PassesAre ==
  ASSUME NEW p \in Marks, NEW q \in Marks
  PROVE  /\ Write(p) = [op |-> "write", sees |-> p, puts |-> p, where |-> "grid", first |-> 0]
         /\ ReadWrite(p, q) =
               [op |-> "readwrite", sees |-> p, puts |-> q, where |-> "grid", first |-> 0]
         /\ Read(p) = [op |-> "read", sees |-> p, puts |-> p, where |-> "grid", first |-> 0]
         /\ Write(p) \in PassSet /\ ReadWrite(p, q) \in PassSet /\ Read(p) \in PassSet
BY DEF Write, ReadWrite, Read, Pass, PassSet

LEMMA TwoPasses ==
  ASSUME NEW p \in PassSet, NEW q \in PassSet, p.op = "write", q.op = "write" \/ Follows(p, q)
  PROVE  /\ GoodTest(<<p, q>>) /\ Len(<<p, q>>) = 2
         /\ <<p, q>>[1] = p /\ <<p, q>>[2] = q
<1>. DEFINE s == <<p, q>>
<1>1. s \in Seq(PassSet) /\ Len(s) = 2 /\ s[1] = p /\ s[2] = q
  OBVIOUS
<1>. HIDE DEF s
<1>2. Ordered(s)
  <2>. SUFFICES ASSUME NEW k \in 1..2
                PROVE  s[k].op = "write" \/ (k > 1 /\ Follows(s[k - 1], s[k]))
    BY <1>1 DEF Ordered
  <2>1. CASE k = 1
    BY <1>1, <2>1
  <2>2. CASE k = 2
    BY <1>1, <2>2
  <2>. QED  BY <2>1, <2>2
<1>3. GoodTest(s)
  BY <1>1, <1>2 DEF GoodTest
<1>. QED  BY <1>1, <1>3 DEF s

LEMMA ThreePasses ==
  ASSUME NEW p \in PassSet, NEW q \in PassSet, NEW r \in PassSet, p.op = "write",
         q.op = "write" \/ Follows(p, q), r.op = "write" \/ Follows(q, r)
  PROVE  /\ GoodTest(<<p, q, r>>) /\ Len(<<p, q, r>>) = 3
         /\ <<p, q, r>>[1] = p /\ <<p, q, r>>[2] = q /\ <<p, q, r>>[3] = r
<1>. DEFINE s == <<p, q, r>>
<1>1. s \in Seq(PassSet) /\ Len(s) = 3 /\ s[1] = p /\ s[2] = q /\ s[3] = r
  OBVIOUS
<1>. HIDE DEF s
<1>2. Ordered(s)
  <2>. SUFFICES ASSUME NEW k \in 1..3
                PROVE  s[k].op = "write" \/ (k > 1 /\ Follows(s[k - 1], s[k]))
    BY <1>1 DEF Ordered
  <2>1. CASE k = 1
    BY <1>1, <2>1
  <2>2. CASE k = 2
    BY <1>1, <2>2
  <2>3. CASE k = 3
    BY <1>1, <2>3
  <2>. QED  BY <2>1, <2>2, <2>3
<1>3. GoodTest(s)
  BY <1>1, <1>2 DEF GoodTest
<1>. QED  BY <1>1, <1>3 DEF s

LEMMA MoveInvIs ==
  ASSUME NEW p \in Marks, NEW q \in Marks
  PROVE  /\ GoodTest(move_inv_test(p, q)) /\ Len(move_inv_test(p, q)) = 3
         /\ Catches(move_inv_test(p, q), 2, 0)
<1>1. Follows(Write(p), ReadWrite(p, q)) /\ Follows(ReadWrite(p, q), Read(q))
  BY PassesAre DEF Follows
<1>2. /\ Write(p).op = "write" /\ Write(p).where = "grid" /\ Write(p).first = 0
      /\ ReadWrite(p, q).op = "readwrite" /\ ReadWrite(p, q).where = "grid"
      /\ ReadWrite(p, q).first = 0
      /\ Write(p) \in PassSet /\ ReadWrite(p, q) \in PassSet /\ Read(q) \in PassSet
  BY PassesAre
<1>3. /\ GoodTest(move_inv_test(p, q)) /\ Len(move_inv_test(p, q)) = 3
      /\ move_inv_test(p, q)[1] = Write(p) /\ move_inv_test(p, q)[2] = ReadWrite(p, q)
  BY <1>1, <1>2, ThreePasses DEF move_inv_test
<1>. QED  BY <1>2, <1>3 DEF Catches

\* A test that begins with passes that find does.
LEMMA FindsBefore ==
  ASSUME NEW s, NEW t, NEW k, NEW f, Catches(s, k, f), Len(t) >= Len(s), Len(s) \in Nat, Len(t) \in Nat,
         \A i \in 1..Len(s) : t[i] = s[i]
  PROVE  Catches(t, k, f)
<1>1. k \in 2..Len(s) /\ k \in 1..Len(s) /\ k - 1 \in 1..Len(s) /\ k \in 2..Len(t)
  BY DEF Catches
<1>2. t[k] = s[k] /\ t[k - 1] = s[k - 1]
  BY <1>1
<1>. QED  BY <1>1, <1>2 DEF Catches

LEMMA MoveInvTwice ==
  ASSUME NEW p \in Marks, NEW q \in Marks
  PROVE  /\ GoodTest(move_inv_test(p, q) \o move_inv_test(q, p))
         /\ Catches(move_inv_test(p, q) \o move_inv_test(q, p), 2, 0)
<1>. DEFINE s == move_inv_test(p, q)
            t == move_inv_test(q, p)
<1>1. GoodTest(s) /\ Len(s) = 3 /\ Catches(s, 2, 0) /\ GoodTest(t) /\ Len(t) = 3
  BY MoveInvIs
<1>. HIDE DEF s, t
<1>. DEFINE u == s \o t
<1>2. GoodTest(u) /\ Len(u) = Len(s) + Len(t) /\ \A i \in 1..Len(s) : u[i] = s[i]
  BY ONLY <1>1, GoodJoined
<1>. HIDE DEF u
<1>3. Len(u) >= Len(s) /\ Len(s) \in Nat /\ Len(u) \in Nat
  BY <1>1, <1>2
<1>30. Catches(s, 2, 0) /\ \A i \in 1..Len(s) : u[i] = s[i]
  BY <1>1, <1>2
<1>4. Catches(u, 2, 0)
  BY ONLY <1>3, <1>30, FindsBefore
<1>. QED  BY <1>2, <1>4 DEF s, t, u

LEMMA Movinv32Is ==
  ASSUME NEW p \in Marks, NEW q \in Marks
  PROVE  GoodTest(movinv32(p, q)) /\ Len(movinv32(p, q)) = 3
<1>. DEFINE r == ByBlockDim(Read(q))
<1>1. r = [op |-> "read", sees |-> q, puts |-> q, where |-> "dim", first |-> 0]
  BY PassesAre DEF ByBlockDim
<1>. HIDE DEF r
<1>2. r \in PassSet
  BY <1>1 DEF PassSet
<1>3. Follows(Write(p), ReadWrite(p, q)) /\ Follows(ReadWrite(p, q), r)
  BY <1>1, PassesAre DEF Follows
<1>4. Write(p).op = "write" /\ Write(p) \in PassSet /\ ReadWrite(p, q) \in PassSet
  BY PassesAre
<1>5. movinv32(p, q) = <<Write(p), ReadWrite(p, q), r>>
  BY DEF movinv32, r
<1>. QED  BY <1>2, <1>3, <1>4, <1>5, ThreePasses

LEMMA Test0Is == mconf \in MemConfs => test0 \in Seq(PassSet) /\ Catches(test0, 4, 0)
<1>. SUFFICES ASSUME mconf \in MemConfs PROVE test0 \in Seq(PassSet) /\ Catches(test0, 4, 0)
  OBVIOUS
<1>. DEFINE a == Pass("write", "walk", "walk", "powers", 0)
            b == Pass("record", "walk", "walk", "powers", 0)
            s == <<a, b>>
            c == <<Write("walk"), Read("walk")>>
            t == Times(mconf.passes, c)
            u == s \o t
<1>1. s \in Seq(PassSet) /\ Len(s) = 2
  <2>1. a \in PassSet /\ b \in PassSet
    BY DEF Pass, PassSet, Marks
  <2>. HIDE DEF a, b
  <2>. QED  BY <2>1
<1>2. /\ Write("walk").op = "write" /\ Write("walk").where = "grid" /\ Write("walk").first = 0
      /\ Read("walk").op = "read" /\ Read("walk").where = "grid" /\ Read("walk").first = 0
      /\ Write("walk") \in PassSet /\ Read("walk") \in PassSet
  BY PassesAre DEF Marks
<1>3. c \in Seq(PassSet) /\ Len(c) = 2 /\ c[1] = Write("walk") /\ c[2] = Read("walk")
  <2>. QED  BY <1>2
<1>4. mconf.passes \in Nat \ {0}
  BY MemConstants DEF MemConfType
<1>5. test0 = u
  BY DEF test0
<1>. HIDE DEF s, c
<1>6. t \in Seq(PassSet) /\ Len(t) >= 2 /\ t[1] = Write("walk") /\ t[2] = Read("walk")
  <2>1. c \in Seq(PassSet) /\ Len(c) # 0 /\ mconf.passes \in Nat /\ mconf.passes # 0
    BY <1>3, <1>4
  <2>2. t \in Seq(PassSet)
    BY ONLY <2>1, TimesAre
  <2>3. Len(t) >= Len(c) /\ \A i \in 1..Len(c) : t[i] = c[i]
    BY ONLY <2>1, TimesBegins
  <2>. HIDE DEF t
  <2>. QED  BY <1>3, <2>2, <2>3
<1>. HIDE DEF t
<1>7. u \in Seq(PassSet) /\ Len(u) >= 4 /\ Len(u) \in Nat /\ u[3] = t[1] /\ u[4] = t[2]
  <2>1. s \in Seq(PassSet) /\ t \in Seq(PassSet)
    BY <1>1, <1>6
  <2>2. /\ u \in Seq(PassSet) /\ Len(u) = Len(s) + Len(t)
        /\ \A i \in (Len(s) + 1)..(Len(s) + Len(t)) : u[i] = t[i - Len(s)]
    BY ONLY <2>1
  <2>3. Len(t) \in Nat /\ Len(s) = 2
    BY <1>1, <1>6
  <2>. HIDE DEF u
  <2>4. u[3] = t[3 - 2] /\ u[4] = t[4 - 2]
    BY <1>6, <2>2, <2>3
  <2>. QED  BY <1>6, <2>2, <2>3, <2>4
<1>. HIDE DEF u
<1>8. Catches(u, 4, 0)
  BY <1>2, <1>6, <1>7 DEF Catches
<1>. QED  BY <1>5, <1>7, <1>8

LEMMA Test1Is == GoodTest(test1) /\ Catches(test1, 2, 0)
<1>1. /\ Write("own").op = "write" /\ Write("own").where = "grid" /\ Write("own").first = 0
      /\ Read("own").op = "read" /\ Read("own").where = "grid" /\ Read("own").first = 0
      /\ Write("own") \in PassSet /\ Read("own") \in PassSet
      /\ Follows(Write("own"), Read("own"))
  BY PassesAre DEF Marks, Follows
<1>2. /\ GoodTest(test1) /\ Len(test1) = 2
      /\ test1[1] = Write("own") /\ test1[2] = Read("own")
  BY <1>1, TwoPasses DEF test1
<1>. QED  BY <1>1, <1>2 DEF Catches

LEMMA Test5Is == GoodTest(test5) /\ Catches(test5, 3, 0)
<1>1. /\ Write("pairs").op = "write" /\ Write("pairs").where = "grid" /\ Write("pairs").first = 0
      /\ Read("pairs").op = "read" /\ Read("pairs").where = "grid" /\ Read("pairs").first = 0
      /\ Write("pairs") \in PassSet /\ Read("pairs") \in PassSet
      /\ Follows(Write("pairs"), Read("pairs"))
  BY PassesAre DEF Marks, Follows
<1>2. /\ GoodTest(test5) /\ Len(test5) = 3
      /\ test5[2] = Write("pairs") /\ test5[3] = Read("pairs")
  BY <1>1, ThreePasses DEF test5
<1>. QED  BY <1>1, <1>2 DEF Catches

LEMMA Test6Is == GoodTest(test6)
<1>. DEFINE s == movinv32("p", "~p")
            t == movinv32("~p", "p")
            u == s \o t
<1>1. "p" \in Marks /\ "~p" \in Marks
  BY DEF Marks
<1>2. GoodTest(s) /\ Len(s) = 3 /\ GoodTest(t) /\ Len(t) = 3
  BY <1>1, Movinv32Is
<1>. HIDE DEF s, t
<1>3. GoodTest(u) /\ Len(u) = Len(s) + Len(t)
  BY ONLY <1>2, GoodJoined
<1>. HIDE DEF u
<1>4. Len(u) # 0
  BY <1>2, <1>3
<1>5. Patterns \in Nat
  BY MemConstants
<1>6. GoodTest(Times(Patterns, u))
  BY <1>3, <1>4, <1>5, GoodTimes
<1>. QED  BY <1>6 DEF test6, u, s, t

LEMMA Test7Is == GoodTest(test7) /\ Catches(test7, 3, 1)
<1>. DEFINE a == Pass("write", "seed", "seed", "first", 0)
            b == From1(Write("seed"))
            c == From1(ReadWrite("seed", "~seed"))
            d == From1(Read("~seed"))
            s == <<a, b, c, d>>
<1>1. a \in PassSet /\ a.op = "write"
  BY DEF Pass, PassSet, Marks
<1>0. "seed" \in Marks /\ "~seed" \in Marks
  BY DEF Marks
<1>10. /\ Write("seed") =
             [op |-> "write", sees |-> "seed", puts |-> "seed", where |-> "grid", first |-> 0]
       /\ ReadWrite("seed", "~seed") =
             [op |-> "readwrite", sees |-> "seed", puts |-> "~seed", where |-> "grid", first |-> 0]
       /\ Read("~seed") =
             [op |-> "read", sees |-> "~seed", puts |-> "~seed", where |-> "grid", first |-> 0]
  BY <1>0, PassesAre
<1>2. b = [op |-> "write", sees |-> "seed", puts |-> "seed", where |-> "grid", first |-> 1]
  BY <1>10 DEF From1
<1>3. c = [op |-> "readwrite", sees |-> "seed", puts |-> "~seed", where |-> "grid", first |-> 1]
  BY <1>10 DEF From1
<1>4. d = [op |-> "read", sees |-> "~seed", puts |-> "~seed", where |-> "grid", first |-> 1]
  BY <1>10 DEF From1
<1>. HIDE DEF a, b, c, d
<1>5. b \in PassSet /\ c \in PassSet /\ d \in PassSet /\ Follows(b, c) /\ Follows(c, d)
  BY <1>2, <1>3, <1>4 DEF PassSet, Marks, Follows
<1>6. s \in Seq(PassSet) /\ Len(s) = 4 /\ s[1] = a /\ s[2] = b /\ s[3] = c /\ s[4] = d
  BY <1>1, <1>5
<1>7. test7 = s
  BY DEF test7, a, b, c, d
<1>. HIDE DEF s
<1>8. Ordered(s)
  <2>. SUFFICES ASSUME NEW k \in 1..4
                PROVE  s[k].op = "write" \/ (k > 1 /\ Follows(s[k - 1], s[k]))
    BY <1>6 DEF Ordered
  <2>1. CASE k = 1  BY <1>1, <1>6, <2>1
  <2>2. CASE k = 2  BY <1>2, <1>6, <2>2
  <2>3. CASE k = 3  BY <1>5, <1>6, <2>3
  <2>4. CASE k = 4  BY <1>5, <1>6, <2>4
  <2>. QED  BY <2>1, <2>2, <2>3, <2>4
<1>9. Catches(s, 3, 1)
  BY <1>2, <1>3, <1>6 DEF Catches
<1>. QED  BY <1>6, <1>7, <1>8, <1>9 DEF GoodTest

LEMMA Test8Is == GoodTest(test8)
<1>. DEFINE a == ByBlockDim(Write("random"))
            b == ByBlockDim(Read("random"))
<1>0. "random" \in Marks
  BY DEF Marks
<1>10. /\ Write("random") =
             [op |-> "write", sees |-> "random", puts |-> "random", where |-> "grid", first |-> 0]
       /\ Read("random") =
             [op |-> "read", sees |-> "random", puts |-> "random", where |-> "grid", first |-> 0]
  BY <1>0, PassesAre
<1>1. a = [op |-> "write", sees |-> "random", puts |-> "random", where |-> "dim", first |-> 0]
  BY <1>10 DEF ByBlockDim
<1>2. b = [op |-> "read", sees |-> "random", puts |-> "random", where |-> "dim", first |-> 0]
  BY <1>10 DEF ByBlockDim
<1>3. modtest("random") = <<a, b>>
  BY DEF modtest
<1>. HIDE DEF a, b
<1>4. a \in PassSet /\ b \in PassSet /\ Follows(a, b) /\ a.op = "write"
  BY <1>1, <1>2 DEF PassSet, Marks, Follows
<1>5. GoodTest(modtest("random")) /\ Len(modtest("random")) = 2
  BY <1>3, <1>4, TwoPasses
<1>6. Patterns \in Nat
  BY MemConstants
<1>. QED  BY <1>5, <1>6, GoodTimes DEF test8

\* The stress test has three passes at most.
LEMMA Test10Is ==
  ASSUME mconf \in MemConfs
  PROVE  /\ GoodTest(test10)
         /\ mconf.iterations > 0 =>
               /\ Len(test10) >= 2 /\ test10[1].op = "write" /\ test10[1].where = "all"
               /\ test10[2].op = "readwrite" /\ test10[2].where = "all"
<1>. DEFINE a == Pass("write", "even", "even", "all", 0)
            b == Pass("readwrite", "even", "odd", "all", 0)
            c == Pass("readwrite", "odd", "even", "all", 0)
            n == mconf.iterations
            t == [i \in 1..n |-> IF i % 2 = 1 THEN b ELSE c]
            u == <<a>> \o t
<1>1. n \in {0, 1, 2}
  BY MemConstants DEF MemConfType
<1>2. /\ a \in PassSet /\ b \in PassSet /\ c \in PassSet /\ Follows(a, b) /\ Follows(b, c)
      /\ a.op = "write" /\ a.where = "all" /\ b.op = "readwrite" /\ b.where = "all"
  BY DEF Pass, PassSet, Marks, Follows
<1>3. test10 = u
  BY DEF test10
<1>. HIDE DEF a, b, c, n
<1>4. t \in Seq(PassSet) /\ Len(t) = n /\ (n > 0 => t[1] = b) /\ (n > 1 => t[2] = c)
  BY <1>1, <1>2
<1>. HIDE DEF t
<1>5. /\ u \in Seq(PassSet) /\ Len(u) = n + 1 /\ u[1] = a
      /\ n > 0 => u[2] = b
      /\ n > 1 => u[3] = c
  BY <1>1, <1>2, <1>4
<1>. HIDE DEF u
<1>6. Ordered(u)
  <2>. SUFFICES ASSUME NEW k \in 1..(n + 1)
                PROVE  u[k].op = "write" \/ (k > 1 /\ Follows(u[k - 1], u[k]))
    BY <1>5 DEF Ordered
  <2>1. CASE k = 1  BY <1>2, <1>5, <2>1
  <2>2. CASE k = 2  BY <1>1, <1>2, <1>5, <2>2
  <2>3. CASE k = 3  BY <1>1, <1>2, <1>5, <2>3
  <2>. QED  BY <1>1, <2>1, <2>2, <2>3
<1>7. n > 0 => /\ Len(u) >= 2 /\ u[1].op = "write" /\ u[1].where = "all"
               /\ u[2].op = "readwrite" /\ u[2].where = "all"
  BY <1>1, <1>2, <1>5
<1>. QED  BY <1>3, <1>5, <1>6, <1>7 DEF GoodTest, n

LEMMA TestsAre ==
  ASSUME mconf \in MemConfs
  PROVE  /\ Len(rvs_memtests) = 11
         /\ \A t \in 1..11 : rvs_memtests[t] \in Seq(PassSet)
         /\ \A t \in 2..11 : Ordered(rvs_memtests[t])
         /\ \A t \in {1, 2, 3, 4, 5, 6, 10} : Catches(rvs_memtests[t], Finder(t), 0)
         /\ Catches(rvs_memtests[8], Finder(8), 1)
         /\ mconf.iterations > 0 =>
               /\ Len(rvs_memtests[11]) >= 2
               /\ rvs_memtests[11][1].op = "write" /\ rvs_memtests[11][1].where = "all"
               /\ rvs_memtests[11][2].op = "readwrite" /\ rvs_memtests[11][2].where = "all"
<1>0. /\ "0" \in Marks /\ "1" \in Marks /\ "80" \in Marks /\ "7f" \in Marks
      /\ "random" \in Marks /\ "modnar" \in Marks
  BY DEF Marks
<1>1. /\ GoodTest(test2) /\ Catches(test2, 2, 0) /\ GoodTest(test3) /\ Catches(test3, 2, 0)
      /\ GoodTest(test4) /\ Catches(test4, 2, 0) /\ GoodTest(test9) /\ Catches(test9, 2, 0)
  BY <1>0, MoveInvIs, MoveInvTwice DEF test2, test3, test4, test9
<1>2. /\ rvs_memtests[1] = test0 /\ rvs_memtests[2] = test1 /\ rvs_memtests[3] = test2
      /\ rvs_memtests[4] = test3 /\ rvs_memtests[5] = test4 /\ rvs_memtests[6] = test5
      /\ rvs_memtests[7] = test6 /\ rvs_memtests[8] = test7 /\ rvs_memtests[9] = test8
      /\ rvs_memtests[10] = test9 /\ rvs_memtests[11] = test10 /\ Len(rvs_memtests) = 11
  BY DEF rvs_memtests
<1>3. /\ test0 \in Seq(PassSet) /\ GoodTest(test1) /\ GoodTest(test5) /\ GoodTest(test6)
      /\ GoodTest(test7) /\ GoodTest(test8) /\ GoodTest(test10)
  BY Test0Is, Test1Is, Test5Is, Test6Is, Test7Is, Test8Is, Test10Is
<1>4. /\ Catches(test0, 4, 0) /\ Catches(test1, 2, 0)
      /\ Catches(test5, 3, 0) /\ Catches(test7, 3, 1)
  BY Test0Is, Test1Is, Test5Is, Test7Is
<1>5. \A t \in 2..11 : GoodTest(rvs_memtests[t])
  BY <1>1, <1>2, <1>3
<1>6. \A t \in 1..11 : rvs_memtests[t] \in Seq(PassSet)
  <2>. SUFFICES ASSUME NEW t \in 1..11 PROVE rvs_memtests[t] \in Seq(PassSet)
    OBVIOUS
  <2>1. CASE t = 1
    BY <1>2, <1>3, <2>1
  <2>2. CASE t # 1
    <3>1. t \in 2..11
      BY <2>2
    <3>. QED  BY <1>5, <3>1 DEF GoodTest
  <2>. QED  BY <2>1, <2>2
<1>7. \A t \in {1, 2, 3, 4, 5, 6, 10} : Catches(rvs_memtests[t], Finder(t), 0)
  BY <1>1, <1>2, <1>4 DEF Finder
<1>8. Catches(rvs_memtests[8], Finder(8), 1)
  BY <1>2, <1>4 DEF Finder
<1>. QED  BY <1>2, <1>5, <1>6, <1>7, <1>8, Test10Is DEF GoodTest

-----------------------------------------------------------------------------
(* What a pass touches.                                                    *)

LEMMA ConfIs ==
  ASSUME mconf \in MemConfs
  PROVE  /\ mconf.max \in Nat /\ mconf.threads \in Nat /\ mconf.bad \subseteq Nat
         /\ mconf.iterations \in Nat /\ mconf.gpus \subseteq MemGpus /\ mconf.gpus # {}
         /\ mconf.total \in Nat /\ mconf.free \in Nat /\ mconf.count \in 0..MaxRounds
         /\ mconf.parallel \in BOOLEAN
         /\ Stride \in Nat \ {0} /\ Save \in Nat \ {0} /\ Wrap \in Nat \ {0}
         /\ MaxRounds \in Nat \ {0}
BY MemConstants DEF MemConfType

\* Less than 4 GB are allocated as they are asked for.
LEMMA AllocatedAll ==
  ASSUME mconf \in MemConfs, NEW n \in Nat, n < Wrap
  PROVE  Allocated(n) = n
<1>1. Wrap \in Nat \ {0} /\ n \in 0..(Wrap - 1)
  BY ConfIs
<1>2. (Wrap * 0 + n) % Wrap = n
  BY <1>1, RemainderOf
<1>3. Wrap * 0 + n = n
  BY <1>1
<1>. QED  BY <1>2, <1>3 DEF Allocated

Hits(pass, b, n) == {i \in Launches(pass, n) : b \in BlocksOf(pass, i, n)}

LEMMA HitsFinite ==
  ASSUME NEW pass \in PassSet, NEW n \in Nat, NEW b
  PROVE  /\ Cardinality(Hits(pass, b, n)) \in Nat
         /\ Cardinality(Hits(pass, b, n)) = 0 <=> Hits(pass, b, n) = {}
<1>1. Hits(pass, b, n) \in SUBSET (pass.first..n)
  BY DEF Hits, Launches
<1>2. pass.first \in Int /\ n \in Int
  BY DEF PassSet
<1>3. IsFiniteSet(Hits(pass, b, n))
  BY <1>1, <1>2, FS_Interval, FS_Subset
<1>. QED  BY <1>3, FS_CardinalityType, FS_EmptySet

LEMMA TouchesAre ==
  ASSUME NEW pass \in PassSet, NEW b, NEW n
  PROVE  /\ pass.where \in {"grid", "dim"} => Touches(pass, b, n) = Cardinality(Hits(pass, b, n))
         /\ pass.where = "first" => Touches(pass, b, n) \in {0, 1}
         /\ pass.where = "powers" => Touches(pass, b, n) \in {0, 1}
         /\ pass.where = "all" => Touches(pass, b, n) = IF b < Allocated(n) THEN 1 ELSE 0
BY DEF Touches, Hits

\* A grid that is as wide as the step, or wider, leaves no block out.
LEMMA GridCovers ==
  ASSUME mconf \in MemConfs, mconf.max >= Stride, NEW pass \in PassSet, pass.where = "grid",
         NEW n \in Nat, NEW b \in Nat, pass.first <= b, b < n
  PROVE  Touches(pass, b, n) \in Nat /\ Touches(pass, b, n) > 0
<1>. DEFINE f == pass.first
            x == b - f
            r == x % Stride
            q == x \div Stride
            i == b - r
<1>1. f \in {0, 1} /\ x \in Nat /\ Stride \in Nat \ {0} /\ mconf.max \in Nat
  BY ConfIs DEF PassSet
<1>2. r \in 0..(Stride - 1) /\ q \in Nat /\ x = Stride * q + r
  BY ONLY <1>1, Remainders
<1>. HIDE DEF r, q
<1>3. (Stride * q + 0) % Stride = 0 /\ Stride * q \in Nat
  BY <1>1, <1>2, RemainderOf
<1>4. (i - f) % Stride = 0
  <2>1. i - f = Stride * q + 0
    BY <1>1, <1>2, <1>3
  <2>. QED  BY <1>3, <2>1
<1>5. i \in f..n /\ i < n /\ b \in i..(i + mconf.max - 1)
  BY <1>1, <1>2, <1>3
<1>. HIDE DEF i, x
<1>6. i \in Hits(pass, b, n)
  BY <1>4, <1>5 DEF Hits, Launches, BlocksOf, Grid
<1>7. Cardinality(Hits(pass, b, n)) \in Nat /\ Cardinality(Hits(pass, b, n)) # 0
  BY <1>6, HitsFinite
<1>. QED  BY <1>7, TouchesAre

\* One that is just as wide comes to none twice.
LEMMA GridOnce ==
  ASSUME mconf \in MemConfs, mconf.max = Stride, NEW pass \in PassSet, pass.where = "grid",
         NEW n \in Nat, NEW b \in Nat
  PROVE  ~(Touches(pass, b, n) > 1)
<1>. DEFINE f == pass.first
            H == Hits(pass, b, n)
<1>1. f \in {0, 1} /\ Stride \in Nat \ {0}
  BY ConfIs DEF PassSet
<1>2. ASSUME NEW i \in H
      PROVE  i \in Nat /\ i - f \in Nat /\ (i - f) % Stride = 0 /\ i <= b /\ b < i + Stride
  BY <1>1 DEF Hits, Launches, BlocksOf, Grid
<1>3. ASSUME NEW i \in H, NEW j \in H PROVE ~(i < j)
  <2>. SUFFICES ASSUME i < j PROVE FALSE
    OBVIOUS
  <2>1. /\ i - f \in Nat /\ j - f \in Nat /\ (i - f) % Stride = (j - f) % Stride /\ i - f < j - f
        /\ b < i + Stride /\ j <= b /\ i \in Nat /\ j \in Nat
    BY <1>1, <1>2
  <2>2. (i - f) + Stride <= j - f
    BY ONLY <1>1, <2>1, Apart
  <2>. QED  BY <1>1, <2>1, <2>2
<1>4. \A i, j \in H : i = j
  BY <1>2, <1>3
<1>5. Cardinality(H) \in {0, 1}
  <2>1. CASE H = {}
    BY <2>1, FS_EmptySet
  <2>2. CASE H # {}
    <3>1. PICK i \in H : TRUE
      BY <2>2
    <3>2. H = {i}
      BY <1>4, <3>1
    <3>. QED  BY <3>2, FS_Singleton
  <2>. QED  BY <2>1, <2>2
<1>6. Touches(pass, b, n) = Cardinality(H)
  BY TouchesAre
<1>. QED  BY <1>5, <1>6

\* A pass that follows another looks where that one has written.
LEMMA FollowsTouched ==
  ASSUME mconf \in MemConfs, mconf.max = Stride, NEW p \in PassSet, NEW q \in PassSet, Follows(p, q),
         NEW n \in Nat, NEW b \in Nat, Touches(q, b, n) > 0
  PROVE  Touches(p, b, n) # 0
<1>1. CASE p.where = q.where
  <2>1. Touches(p, b, n) = Touches(q, b, n)
    BY <1>1 DEF Follows, Touches, Launches, BlocksOf, Grid
  <2>. QED  BY <2>1
<1>2. CASE p.where = "grid" /\ q.where = "dim"
  <2>1. Hits(q, b, n) # {}
    BY <1>2, TouchesAre, HitsFinite
  <2>2. PICK i \in Launches(q, n) : b \in BlocksOf(q, i, n)
    BY <2>1 DEF Hits
  <2>3. q.first \in {0, 1} /\ p.first = q.first /\ mconf.threads \in Nat /\ mconf.max >= Stride
    BY ConfIs DEF PassSet, Follows
  <2>4. b < n /\ p.first <= b
    <3>1. b < n /\ b \in Grid(q, i)
      BY <2>2 DEF BlocksOf
    <3>2. b = i + mconf.threads
      BY <1>2, <3>1 DEF Grid
    <3>3. i \in q.first..n
      BY DEF Launches
    <3>. QED  BY <2>3, <3>1, <3>2, <3>3
  <2>. QED  BY <1>2, <2>3, <2>4, GridCovers
<1>. QED  BY <1>1, <1>2 DEF Follows

-----------------------------------------------------------------------------
(* Passes.                                                                 *)

LEMMA MemSame ==
  ASSUME mconf' = mconf
  PROVE  /\ rvs_memtests' = rvs_memtests
         /\ \A s, k, n, mem : Wrote(s, k, n, mem)' = Wrote(s, k, n, mem)
         /\ \A t, k, n, found : Found(t, k, n, found)' = Found(t, k, n, found)
         /\ \A t, found : Quiet(t, found)' = Quiet(t, found)
<1>1. rvs_memtests' = rvs_memtests
  BY DEF rvs_memtests, test0, test1, test2, test3, test4, test5, test6, test7, test8, test9,
         test10, Times
<1>2. \A p, b, n : Touches(p, b, n)' = Touches(p, b, n)
  BY DEF Touches, BlocksOf, Grid
<1>3. \A s, k, n, mem : Wrote(s, k, n, mem)' = Wrote(s, k, n, mem)
  BY <1>2 DEF Wrote
<1>4. \A t, k, n, found : Found(t, k, n, found)' = Found(t, k, n, found)
  BY DEF Found
<1>5. \A t, found : Quiet(t, found)' = Quiet(t, found)
  BY DEF Quiet
<1>. QED  BY <1>1, <1>3, <1>4, <1>5

\* A worker in a test, whatever it has done to get there.
LEMMA TestingNow ==
  ASSUME mconf' = mconf, NEW w \in MemGpus, NEW t, NEW k, at'[w] = <<t, k>>,
         NEW s, s = rvs_memtests[t], k <= Len(s) + 1, DOMAIN blocks'[w] = 0..tot'[w],
         Wrote(s, k, tot'[w], blocks'[w]), Found(t, k, tot'[w], seen'[w]), Quiet(t, seen'[w])
  PROVE  Testing(w)'
<1>1. at'[w][1] = t /\ at'[w][2] = k
  OBVIOUS
<1>2. Passes(w)' = s
  BY <1>1, MemSame DEF Passes
<1>3. Wrote(Passes(w), at[w][2], tot[w], blocks[w])'
  BY <1>1, <1>2, MemSame
<1>. QED  BY <1>1, <1>2, <1>3, MemSame DEF Testing

\* One whose place, memory and records stay.
LEMMA TestingStill ==
  ASSUME mconf' = mconf, NEW w \in MemGpus, Testing(w), mpc'[w] = "test" => mpc[w] = "test",
         tot'[w] = tot[w], at'[w] = at[w], blocks'[w] = blocks[w], seen'[w] = seen[w]
  PROVE  Testing(w)'
<1>1. Passes(w)' = Passes(w)
  BY MemSame DEF Passes
<1>. QED  BY <1>1, MemSame DEF Testing

\* What a pass p records of the n blocks in mem.
Records(p, mem, n) ==
    {b \in DOMAIN mem :
        /\ Touches(p, b, n) > 0
        /\ \/ p.op = "record"
           \/ p.op \in {"read", "readwrite"} /\ mem[b] # p.sees
           \/ p.op = "readwrite" /\ Touches(p, b, n) > 1 /\ p.puts # p.sees}

\* Bad blocks are found by a pass that looks at them after one that has written them.
LEMMA FindsBad ==
  ASSUME mconf \in MemConfs, NEW s \in Seq(PassSet), NEW k \in 2..Len(s), NEW n \in Nat, NEW mem,
         DOMAIN mem = 0..n, Wrote(s, k, n, mem), s[k - 1].op = "write",
         s[k].op \in {"read", "readwrite"}, NEW b \in mconf.bad, b < n,
         Touches(s[k - 1], b, n) > 0, Touches(s[k], b, n) > 0
  PROVE  b \in Records(s[k], mem, n)
<1>1. b \in 0..n
  BY ConfIs
<1>2. mem[b] = "junk"
  <2>1. k > 1 /\ Touches(s[k - 1], b, n) # 0
    OBVIOUS
  <2>. QED  BY <1>1, <2>1 DEF Wrote
<1>3. "junk" # s[k].sees
  <2>1. s[k] \in PassSet
    OBVIOUS
  <2>2. s[k].sees \in Marks
    BY <2>1 DEF PassSet
  <2>3. "junk" \notin Marks
    BY DEF Marks
  <2>. QED  BY <2>2, <2>3
<1>. QED  BY <1>1, <1>2, <1>3 DEF Records

LEMMA StillFound ==
  ASSUME mconf \in MemConfs, NEW t \in 1..11, NEW s, s = rvs_memtests[t], NEW k \in 1..Len(s),
         NEW n \in Nat, NEW mem, DOMAIN mem = 0..n, Wrote(s, k, n, mem), NEW found,
         Found(t, k, n, found)
  PROVE  Found(t, k + 1, n, found \cup Records(s[k], mem, n))
<1>. DEFINE new == found \cup Records(s[k], mem, n)
<1>1. s \in Seq(PassSet) /\ Len(s) \in Nat /\ k \in Nat /\ Finder(t) \in Nat
  <2>1. s \in Seq(PassSet)
    BY TestsAre
  <2>2. Finder(t) \in Nat
    BY DEF Finder
  <2>. QED  BY <2>1, <2>2
<1>2. CASE k > Finder(t)
  BY <1>1, <1>2 DEF Found
<1>3. CASE k < Finder(t)
  BY <1>1, <1>3 DEF Found
<1>4. CASE k = Finder(t)
  <2>. SUFFICES ASSUME n < Wrap
                PROVE  /\ t \in {1, 2, 3, 4, 5, 6, 10} /\ mconf.max >= Stride
                             => {b \in mconf.bad : b < n} \subseteq new
                       /\ t = 8 /\ mconf.max >= Stride
                             => {b \in mconf.bad : b < n /\ b > 0} \subseteq new
                       /\ t = 11 /\ mconf.iterations > 0 => {b \in mconf.bad : b < n} \subseteq new
    BY DEF Found
  <2>1. ASSUME t \in {1, 2, 3, 4, 5, 6, 10}, mconf.max >= Stride, NEW b \in mconf.bad, b < n
        PROVE  b \in Records(s[k], mem, n)
    <3>1. Catches(s, k, 0)
      BY <1>4, <2>1, TestsAre
    <3>2. /\ k \in 2..Len(s) /\ s[k - 1] \in PassSet /\ s[k] \in PassSet /\ b \in Nat
          /\ s[k - 1].op = "write" /\ s[k - 1].where = "grid" /\ s[k - 1].first = 0
          /\ s[k].op \in {"read", "readwrite"} /\ s[k].where = "grid" /\ s[k].first = 0
      <4>1. b \in Nat
        BY ConfIs
      <4>2. s \in Seq(PassSet)
        BY <1>1
      <4>. QED  BY ONLY <3>1, <4>1, <4>2 DEF Catches
    <3>3. Touches(s[k - 1], b, n) > 0 /\ Touches(s[k], b, n) > 0
      BY <2>1, <3>2, GridCovers
    <3>. QED  BY <1>1, <2>1, <3>2, <3>3, FindsBad
  <2>2. ASSUME t = 8, mconf.max >= Stride, NEW b \in mconf.bad, b < n, b > 0
        PROVE  b \in Records(s[k], mem, n)
    <3>1. Catches(s, k, 1)
      BY <1>4, <2>2, TestsAre
    <3>2. /\ k \in 2..Len(s) /\ s[k - 1] \in PassSet /\ s[k] \in PassSet /\ b \in Nat
          /\ s[k - 1].op = "write" /\ s[k - 1].where = "grid" /\ s[k - 1].first = 1
          /\ s[k].op \in {"read", "readwrite"} /\ s[k].where = "grid" /\ s[k].first = 1
      <4>1. b \in Nat
        BY ConfIs
      <4>2. s \in Seq(PassSet)
        BY <1>1
      <4>. QED  BY ONLY <3>1, <4>1, <4>2 DEF Catches
    <3>3. Touches(s[k - 1], b, n) > 0 /\ Touches(s[k], b, n) > 0
      BY <2>2, <3>2, GridCovers
    <3>. QED  BY <1>1, <2>2, <3>2, <3>3, FindsBad
  <2>3. ASSUME t = 11, mconf.iterations > 0, NEW b \in mconf.bad, b < n
        PROVE  b \in Records(s[k], mem, n)
    <3>1. /\ k = 2 /\ k - 1 = 1 /\ k \in 2..Len(s) /\ s[1].op = "write" /\ s[1].where = "all"
          /\ s[2].op = "readwrite" /\ s[2].where = "all"
      BY <1>1, <1>4, <2>3, TestsAre DEF Finder
    <3>2. s[1] \in PassSet /\ s[2] \in PassSet
      BY <1>1, <3>1
    <3>3. Allocated(n) = n
      BY AllocatedAll
    <3>4. Touches(s[1], b, n) = 1 /\ Touches(s[2], b, n) = 1
      BY <2>3, <3>1, <3>2, <3>3, TouchesAre
    <3>5. Touches(s[k - 1], b, n) > 0 /\ Touches(s[k], b, n) > 0
      BY <3>1, <3>4
    <3>. QED  BY <1>1, <2>3, <3>1, <3>5, FindsBad
  <2>. QED  BY <2>1, <2>2, <2>3
<1>. QED  BY <1>1, <1>2, <1>3, <1>4

LEMMA StillQuiet ==
  ASSUME mconf \in MemConfs, NEW t \in 1..11, NEW s, s = rvs_memtests[t], NEW k \in 1..Len(s),
         NEW n \in Nat, NEW mem, DOMAIN mem = 0..n, Wrote(s, k, n, mem), NEW found,
         Quiet(t, found)
  PROVE  Quiet(t, found \cup Records(s[k], mem, n))
<1>. SUFFICES ASSUME t # 1, mconf.max = Stride, NEW b \in Records(s[k], mem, n)
              PROVE  b \in mconf.bad
  BY DEF Quiet
<1>1. s \in Seq(PassSet) /\ Ordered(s) /\ s[k] \in PassSet
  <2>1. s \in Seq(PassSet)
    BY TestsAre
  <2>2. t \in 2..11
    OBVIOUS
  <2>3. Ordered(s)
    BY <2>2, TestsAre
  <2>. QED  BY <2>1, <2>3
<1>2. b \in 0..n /\ b \in Nat /\ Touches(s[k], b, n) > 0
  BY DEF Records
<1>3. k > 1 /\ Follows(s[k - 1], s[k])
  <2>1. s[k].op # "write"
    BY DEF Records
  <2>. QED  BY <1>1, <2>1 DEF Ordered
<1>4. k - 1 \in 1..Len(s) /\ s[k - 1] \in PassSet
  BY <1>1, <1>3
<1>5. Touches(s[k - 1], b, n) # 0
  BY <1>1, <1>2, <1>3, <1>4, FollowsTouched
<1>6. mem[b] = IF b \in mconf.bad THEN "junk" ELSE s[k].sees
  BY <1>2, <1>3, <1>5 DEF Wrote, Follows
<1>7. s[k].op = "readwrite" => ~(Touches(s[k], b, n) > 1)
  <2>. SUFFICES ASSUME s[k].op = "readwrite" PROVE ~(Touches(s[k], b, n) > 1)
    OBVIOUS
  <2>1. CASE s[k].where = "grid"
    BY <1>1, <1>2, <2>1, GridOnce
  <2>2. CASE s[k].where = "all"
    BY <1>1, <2>2, TouchesAre
  <2>. QED  BY <1>3, <2>1, <2>2 DEF Follows
<1>8. s[k].op \in {"read", "readwrite"}
  BY <1>3 DEF Follows
<1>. QED  BY <1>6, <1>7, <1>8 DEF Records

LEMMA RunPassTests ==
  ASSUME MemInv, NEW w \in MemGpus, RunPass(w)
  PROVE  Testing(w)'
<1>. DEFINE t == at[w][1]
            k == at[w][2]
            s == rvs_memtests[t]
            n == tot[w]
            mem == blocks[w]
            p == s[k]
<1>1. /\ mconf \in MemConfs /\ mpc[w] = "test" /\ mconf' = mconf /\ mpc' = mpc /\ tot' = tot
      /\ at \in [MemGpus -> (1..11) \X (Nat \ {0})] /\ n \in Nat
      /\ blocks = [v \in MemGpus |-> blocks[v]] /\ seen = [v \in MemGpus |-> seen[v]]
      /\ at' = [at EXCEPT ![w] = <<@[1], @[2] + 1>>]
  BY DEF RunPass, MemInv, MemTypes
<1>2. /\ k <= Len(s) + 1 /\ DOMAIN mem = 0..n /\ Wrote(s, k, n, mem) /\ Found(t, k, n, seen[w])
      /\ Quiet(t, seen[w])
  BY <1>1 DEF MemInv, Testing, Passes
<1>3. t \in 1..11 /\ k \in Nat \ {0} /\ s \in Seq(PassSet) /\ at'[w] = <<t, k + 1>>
  BY <1>1, TestsAre
<1>4. k \in 1..Len(s) /\ p \in PassSet
  <2>1. ~(k > Len(s))
    BY <1>1 DEF RunPass, TestEnded, Passes
  <2>. QED  BY <1>2, <1>3, <2>1
<1>5. blocks'[w] = [b \in DOMAIN mem |->
            IF Touches(p, b, n) = 0 \/ p.op \in {"read", "record"} THEN mem[b]
            ELSE IF b \in mconf.bad THEN "junk" ELSE p.puts]
  BY <1>1 DEF RunPass, Passes
<1>6. seen'[w] = seen[w] \cup Records(p, mem, n)
  BY <1>1 DEF RunPass, Passes, Mismatch, Records
<1>. HIDE DEF t, k, s, n, mem
<1>7. DOMAIN blocks'[w] = 0..n
  BY <1>2, <1>5
<1>8. Wrote(s, k + 1, n, blocks'[w])
  <2>1. k + 1 > 1 /\ (k + 1) - 1 = k
    BY <1>3
  <2>. SUFFICES ASSUME p.op \in {"write", "readwrite"}, NEW b \in 0..n, Touches(p, b, n) # 0
                PROVE  blocks'[w][b] = IF b \in mconf.bad THEN "junk" ELSE p.puts
    BY <2>1 DEF Wrote
  <2>. QED  BY <1>2, <1>5
<1>12. s = rvs_memtests[t]
  BY DEF s
<1>9. Found(t, k + 1, n, seen'[w])
  <2>1. Found(t, k + 1, n, seen[w] \cup Records(p, mem, n))
    BY ONLY <1>1, <1>2, <1>3, <1>4, <1>12, StillFound
  <2>. QED  BY <1>6, <2>1
<1>10. Quiet(t, seen'[w])
  <2>1. Quiet(t, seen[w] \cup Records(p, mem, n))
    BY ONLY <1>1, <1>2, <1>3, <1>4, <1>12, StillQuiet
  <2>. QED  BY <1>6, <2>1
<1>11. tot'[w] = n /\ s = rvs_memtests[t] /\ k + 1 <= Len(s) + 1
  BY <1>1, <1>3, <1>4 DEF n, s
<1>. QED  BY <1>1, <1>3, <1>7, <1>8, <1>9, <1>10, <1>11, TestingNow

-----------------------------------------------------------------------------
(* The steps of the workers and of the action.                             *)

\* The action knows of its workers what they have come to and what they hold.
LEMMA TurnedStill ==
  ASSUME Turned, UNCHANGED <<mconf, mpc, tot, live, tested, memMain, memResult>>
  PROVE  Turned'
BY DEF Turned, Left

LEMMA RunPassKeeps == ASSUME MemInv, NEW w \in MemGpus, RunPass(w) PROVE MemInv'
<1>1. /\ UNCHANGED <<mconf, mpc, tot, live, tested, memMain, memResult>>
      /\ UNCHANGED <<small, iteration>>
      /\ at' = [at EXCEPT ![w] = <<@[1], @[2] + 1>>]
      /\ errs' = [errs EXCEPT ![w] = @ + 0]
  BY DEF RunPass, error_checking
<1>2. MemTypes
  BY DEF MemInv
<1>3. blocks' = [v \in MemGpus |-> blocks'[v]] /\ seen' = [v \in MemGpus |-> seen'[v]]
  BY <1>2 DEF RunPass, MemTypes
<1>4. \A v \in MemGpus : v # w => /\ at'[v] = at[v] /\ blocks'[v] = blocks[v]
                                  /\ seen'[v] = seen[v]
  BY <1>2 DEF RunPass, MemTypes
<1>5. MemTypes'
  <2>1. at' \in [MemGpus -> (1..11) \X (Nat \ {0})]
    BY <1>1, <1>2 DEF MemTypes
  <2>2. errs' = [v \in MemGpus |-> 0]
    BY <1>1, <1>2 DEF MemTypes
  <2>. QED  BY <1>1, <1>2, <1>3, <2>1, <2>2 DEF MemTypes
<1>6. Turned'
  BY <1>1, TurnedStill DEF MemInv
<1>7. \A v \in MemGpus : v # w => Testing(v)'
  BY <1>1, <1>4, TestingStill DEF MemInv
<1>. QED  BY <1>5, <1>6, <1>7, RunPassTests DEF MemInv

\* The number of blocks is an unsigned int, whatever the sizes.
LEMMA TotalWraps ==
  ASSUME mconf \in MemConfs
  PROVE  TotalBlocks \in Nat /\ TotalBlocks < Wrap * Wrap
<1>1. \A a, b \in Int : Min({a, b}) \in Int
  <2>. SUFFICES ASSUME NEW a \in Int, NEW b \in Int PROVE Min({a, b}) \in {a, b}
    OBVIOUS
  <2>1. \E x \in {a, b} : \A y \in {a, b} : x <= y
    <3>1. CASE a <= b  BY <3>1
    <3>2. CASE b <= a  BY <3>2
    <3>. QED  BY <3>1, <3>2
  <2>. QED  BY <2>1 DEF Min
<1>2. /\ mconf.total \in Nat /\ mconf.free \in Nat /\ mconf.max \in Nat /\ Save \in Nat
      /\ Wrap \in Nat \ {0}
  BY ConfIs
<1>3. Fitting \in Int
  <2>. DEFINE device == mconf.total - Save
              wanted == IF mconf.max # 0 THEN Min({mconf.max + Save, device}) ELSE device
  <2>1. device \in Int /\ mconf.max + Save \in Int /\ mconf.free - Save \in Int
    BY <1>2
  <2>. HIDE DEF device
  <2>2. wanted \in Int
    BY <1>1, <2>1
  <2>. HIDE DEF wanted
  <2>3. Fitting = IF mconf.free < Save THEN wanted ELSE Min({wanted, mconf.free - Save})
    BY DEF Fitting, wanted, device
  <2>4. Min({wanted, mconf.free - Save}) \in Int
    BY <1>1, <2>1, <2>2
  <2>. QED  BY <2>2, <2>3, <2>4
<1>4. Wrap * Wrap \in Nat \ {0}
  BY <1>2
<1>5. \A x \in Int, d \in Nat \ {0} : x % d \in Nat /\ x % d < d
  OBVIOUS
<1>. DEFINE square == Wrap * Wrap
<1>. HIDE DEF square
<1>6. Fitting + square - Save \in Int /\ square \in Nat \ {0}
  BY <1>2, <1>3, <1>4 DEF square
<1>. QED  BY <1>5, <1>6 DEF TotalBlocks, square

LEMMA SizeWorkerKeeps == ASSUME MemInv, NEW w \in MemGpus, SizeWorker(w) PROVE MemInv'
<1>1. /\ UNCHANGED <<mconf, tested, memMain, memResult>>
      /\ mpc[w] = "size" /\ tot' = [tot EXCEPT ![w] = TotalBlocks]
      /\ small' = [small EXCEPT ![w] = w] /\ at' = [at EXCEPT ![w] = <<1, 1>>]
      /\ blocks' = [blocks EXCEPT ![w] = [b \in 0..TotalBlocks |-> "old"]]
      /\ seen' = [seen EXCEPT ![w] = {}] /\ errs' = [errs EXCEPT ![w] = 0]
      /\ iteration' = [iteration EXCEPT ![w] = 0]
  BY DEF SizeWorker, allocate_small_mem
<1>2. MemTypes /\ Turned /\ TotalBlocks \in Nat
  BY TotalWraps DEF MemInv, MemTypes
<1>3. \E x \in {"done", "aborted", "test"} :
        /\ mpc' = [mpc EXCEPT ![w] = x] /\ (x = "done" => TotalBlocks = 0)
        /\ live' = IF TotalBlocks = 0 THEN live \ {small'[w]} ELSE live \cup {small'[w]}
        /\ TotalBlocks = 0 => x = "done"
  BY DEF SizeWorker
<1>4. PICK x \in {"done", "aborted", "test"} :
        /\ mpc' = [mpc EXCEPT ![w] = x] /\ (x = "done" => TotalBlocks = 0)
        /\ live' = IF TotalBlocks = 0 THEN live \ {small'[w]} ELSE live \cup {small'[w]}
        /\ TotalBlocks = 0 => x = "done"
  BY <1>3
<1>5. small'[w] = w
  BY <1>1, <1>2 DEF MemTypes
<1>6. \A v \in MemGpus : v # w => /\ at'[v] = at[v] /\ blocks'[v] = blocks[v] /\ tot'[v] = tot[v]
                                  /\ seen'[v] = seen[v] /\ mpc'[v] = mpc[v]
  BY <1>1, <1>2, <1>4 DEF MemTypes
<1>7. mpc'[w] = x /\ tot'[w] = TotalBlocks
  BY <1>1, <1>2, <1>4 DEF MemTypes
<1>8. MemTypes'
  <2>1. mpc' \in [MemGpus -> {"idle", "size", "test", "done", "aborted"}]
    BY <1>2, <1>4 DEF MemTypes
  <2>2. /\ tot' \in [MemGpus -> Nat] /\ at' \in [MemGpus -> (1..11) \X (Nat \ {0})]
        /\ small' = [v \in MemGpus |-> v]
    BY <1>1, <1>2 DEF MemTypes
  <2>3. blocks' = [v \in MemGpus |-> blocks'[v]] /\ seen' = [v \in MemGpus |-> seen'[v]]
    BY <1>1, <1>2 DEF MemTypes
  <2>4. errs' = [v \in MemGpus |-> 0] /\ iteration' = [v \in MemGpus |-> 0]
    BY <1>1, <1>2 DEF MemTypes
  <2>. QED  BY <1>1, <1>2, <2>1, <2>2, <2>3, <2>4 DEF MemTypes
<1>9. Turned'
  <2>1. mpc[w] # "idle" /\ w \in mconf.gpus /\ memMain \notin {"start", "end"}
    BY <1>1, <1>2 DEF Turned
  <2>2. memResult # "success"
    BY <1>2, <2>1 DEF Turned
  <2>3. live' = {v \in MemGpus : mpc'[v] \in {"test", "aborted"}}
    BY <1>1, <1>2, <1>4, <1>5, <1>6, <1>7 DEF Turned
  <2>4. \A v \in MemGpus : mpc'[v] # "idle" => v \in mconf.gpus
    BY <1>2, <1>6, <2>1 DEF Turned
  <2>5. \A v \in MemGpus : mpc'[v] = "done" => v \in tested \/ tot'[v] = 0
    BY <1>2, <1>4, <1>6, <1>7 DEF Turned
  <2>6. Left' = Left
    <3>1. \A v \in MemGpus : mpc'[v] = "idle" <=> mpc[v] = "idle"
      BY <1>1, <1>4, <1>6, <1>7
    <3>2. mconf.gpus \subseteq MemGpus
      BY <1>2, ConfIs DEF MemTypes
    <3>. QED  BY <1>1, <3>1, <3>2 DEF Left
  <2>. QED  BY <1>1, <1>2, <2>1, <2>2, <2>3, <2>4, <2>5, <2>6 DEF Turned
<1>10. Testing(w)'
  <2>. DEFINE s == rvs_memtests[1]
  <2>1. at'[w] = <<1, 1>> /\ DOMAIN blocks'[w] = 0..tot'[w] /\ seen'[w] = {}
    BY <1>1, <1>2, <1>7 DEF MemTypes
  <2>2. Wrote(s, 1, tot'[w], blocks'[w]) /\ Found(1, 1, tot'[w], seen'[w]) /\ Quiet(1, seen'[w])
    BY DEF Wrote, Found, Finder, Quiet
  <2>3. 1 <= Len(s) + 1
    <3>1. s \in Seq(PassSet)
      BY <1>2, TestsAre DEF MemTypes
    <3>. QED  BY <3>1
  <2>. HIDE DEF s
  <2>4. s = rvs_memtests[1]
    BY DEF s
  <2>. QED  BY <1>1, <2>1, <2>2, <2>3, <2>4, TestingNow
<1>11. \A v \in MemGpus : v # w => Testing(v)'
  BY <1>1, <1>6, TestingStill DEF MemInv
<1>. QED  BY <1>8, <1>9, <1>10, <1>11 DEF MemInv

LEMMA EndTestKeeps == ASSUME MemInv, NEW w \in MemGpus, EndTest(w) PROVE MemInv'
<1>. DEFINE t == at[w][1]
            s == rvs_memtests[t + 1]
<1>1. /\ UNCHANGED <<mconf, tot, blocks, small, memMain, memResult>> /\ mpc[w] = "test"
  BY DEF EndTest, TestEnded
<1>2. MemTypes /\ Turned
  BY DEF MemInv
<1>3. at[w] \in (1..11) \X (Nat \ {0}) /\ t \in 1..11
  BY <1>2 DEF MemTypes
<1>4. ~Repeats(w)
  BY <1>2 DEF Repeats, MemTypes
<1>5. Len(rvs_memtests) = 11
  BY <1>2, TestsAre DEF MemTypes
<1>6. /\ errs' = [errs EXCEPT ![w] = 0] /\ iteration' = [iteration EXCEPT ![w] = 0]
      /\ seen' = [seen EXCEPT ![w] = {}]
      /\ \/ /\ t < 11 /\ at' = [at EXCEPT ![w] = <<t + 1, 1>>]
            /\ UNCHANGED <<mpc, live, tested>>
         \/ /\ mpc' = [mpc EXCEPT ![w] = "done"] /\ live' = live \ {small[w]}
            /\ tested' = tested \cup {w} /\ at' = at
  BY <1>4, <1>5 DEF EndTest
<1>. HIDE DEF t
<1>7. \A v \in MemGpus : v # w => /\ at'[v] = at[v] /\ blocks'[v] = blocks[v] /\ tot'[v] = tot[v]
                                  /\ seen'[v] = seen[v] /\ mpc'[v] = mpc[v]
  BY <1>1, <1>2, <1>6 DEF MemTypes
<1>8. MemTypes'
  <2>1. mpc' \in [MemGpus -> {"idle", "size", "test", "done", "aborted"}]
    BY <1>2, <1>6 DEF MemTypes
  <2>2. at' \in [MemGpus -> (1..11) \X (Nat \ {0})]
    <3>1. CASE at' = at
      BY <1>2, <3>1 DEF MemTypes
    <3>2. CASE t < 11 /\ at' = [at EXCEPT ![w] = <<t + 1, 1>>]
      <4>1. <<t + 1, 1>> \in (1..11) \X (Nat \ {0})
        BY <1>3, <3>2
      <4>. QED  BY <1>2, <3>2, <4>1 DEF MemTypes
    <3>. QED  BY <1>6, <3>1, <3>2
  <2>3. seen' = [v \in MemGpus |-> seen'[v]]
    BY <1>2, <1>6 DEF MemTypes
  <2>4. errs' = [v \in MemGpus |-> 0] /\ iteration' = [v \in MemGpus |-> 0]
    BY <1>2, <1>6 DEF MemTypes
  <2>5. tested' \subseteq MemGpus
    BY <1>2, <1>6 DEF MemTypes
  <2>. QED  BY <1>1, <1>2, <2>1, <2>2, <2>3, <2>4, <2>5 DEF MemTypes
<1>9. Turned'
  <2>1. CASE UNCHANGED <<mpc, live, tested>>
    BY <1>1, <1>2, <2>1, TurnedStill
  <2>2. CASE /\ mpc' = [mpc EXCEPT ![w] = "done"] /\ live' = live \ {small[w]}
             /\ tested' = tested \cup {w}
    <3>1. small[w] = w /\ mpc'[w] = "done"
      BY <1>2, <2>2 DEF MemTypes
    <3>2. w \in mconf.gpus /\ memMain \notin {"start", "end"} /\ memResult # "success"
      BY <1>1, <1>2 DEF Turned
    <3>3. live' = {v \in MemGpus : mpc'[v] \in {"test", "aborted"}}
      BY <1>2, <1>7, <2>2, <3>1 DEF Turned
    <3>4. /\ \A v \in MemGpus : mpc'[v] # "idle" => v \in mconf.gpus
          /\ \A v \in MemGpus : mpc'[v] = "done" => v \in tested' \/ tot'[v] = 0
      BY <1>2, <1>7, <2>2, <3>2 DEF Turned
    <3>5. Left' = Left
      <4>1. \A v \in MemGpus : mpc'[v] = "idle" <=> mpc[v] = "idle"
        BY <1>1, <1>7, <3>1
      <4>2. mconf.gpus \subseteq MemGpus
        BY <1>2, ConfIs DEF MemTypes
      <4>. QED  BY <1>1, <4>1, <4>2 DEF Left
    <3>. QED  BY <1>1, <1>2, <3>2, <3>3, <3>4, <3>5 DEF Turned
  <2>. QED  BY <1>6, <2>1, <2>2
<1>10. Testing(w)'
  <2>1. CASE t < 11 /\ at' = [at EXCEPT ![w] = <<t + 1, 1>>]
    <3>1. at'[w] = <<t + 1, 1>> /\ seen'[w] = {}
      BY <1>2, <1>6, <2>1 DEF MemTypes
    <3>2. DOMAIN blocks'[w] = 0..tot'[w]
      BY <1>1 DEF MemInv, Testing
    <3>3. Wrote(s, 1, tot'[w], blocks'[w])
      BY DEF Wrote
    <3>4. t + 1 \in 1..11
      BY <1>3, <2>1
    <3>5. Found(t + 1, 1, tot'[w], seen'[w])
      <4>1. Finder(t + 1) \in Nat \ {0}
        BY DEF Finder
      <4>. QED  BY <4>1 DEF Found
    <3>6. Quiet(t + 1, seen'[w])
      BY <3>1 DEF Quiet
    <3>7. 1 <= Len(s) + 1
      <4>1. s \in Seq(PassSet)
        BY <1>2, <3>4, TestsAre DEF MemTypes
      <4>. QED  BY <4>1
    <3>8. s = rvs_memtests[t + 1]
      OBVIOUS
    <3>. HIDE DEF s
    <3>. QED  BY <1>1, <3>1, <3>2, <3>3, <3>5, <3>6, <3>7, <3>8, TestingNow
  <2>2. CASE mpc' = [mpc EXCEPT ![w] = "done"]
    BY <1>2, <2>2 DEF Testing, MemTypes
  <2>. QED  BY <1>6, <2>1, <2>2
<1>11. \A v \in MemGpus : v # w => Testing(v)'
  BY <1>1, <1>7, TestingStill DEF MemInv
<1>. QED  BY <1>8, <1>9, <1>10, <1>11 DEF MemInv

\* The workers started are of the action, and there are some.
LEMMA StartsAre ==
  ASSUME mconf \in MemConfs, Left # {}
  PROVE  Starts \subseteq mconf.gpus /\ (mconf.parallel => Starts = mconf.gpus)
<1>1. CASE mconf.parallel
  BY <1>1 DEF Starts
<1>2. CASE ~mconf.parallel
  <2>1. Left \subseteq {1, 2} /\ Left # {}
    BY ConfIs DEF Left, MemGpus
  <2>2. \E x \in Left : \A y \in Left : x <= y
    <3>1. CASE 1 \in Left
      <4>1. \A y \in Left : 1 <= y
        BY <2>1
      <4>. QED  BY <3>1, <4>1
    <3>2. CASE 1 \notin Left
      <4>1. Left = {2}
        BY <2>1, <3>2
      <4>. QED  BY <4>1
    <3>. QED  BY <3>1, <3>2
  <2>3. Min(Left) \in Left
    BY <2>2 DEF Min
  <2>. QED  BY <1>2, <2>3 DEF Starts, Left
<1>. QED  BY <1>1, <1>2

LEMMA StartWorkersKeeps == ASSUME MemInv, StartWorkers PROVE MemInv'
<1>1. /\ UNCHANGED <<mconf, tot, at, blocks, seen, errs, iteration, small, live, tested,
                     memResult>>
      /\ memMain = "start" /\ memMain' = "join"
      /\ mpc' = [w \in MemGpus |-> IF w \in Starts THEN "size" ELSE mpc[w]]
  BY DEF StartWorkers
<1>2. MemTypes /\ Turned
  BY DEF MemInv
<1>3. Starts \subseteq mconf.gpus /\ (mconf.parallel => Starts = mconf.gpus)
  BY <1>1, <1>2, StartsAre DEF MemTypes, Turned
<1>. HIDE DEF Starts
<1>4. MemTypes'
  BY <1>1, <1>2 DEF MemTypes
<1>5. \A w \in MemGpus : mpc[w] \in {"idle", "done"}
  BY <1>1, <1>2 DEF Turned
<1>6. Turned'
  <2>1. live' = {w \in MemGpus : mpc'[w] \in {"test", "aborted"}}
    BY <1>1, <1>2, <1>5 DEF Turned
  <2>2. \A w \in MemGpus : mpc'[w] # "idle" => w \in mconf.gpus
    BY <1>1, <1>2, <1>3 DEF Turned
  <2>3. \A w \in MemGpus : mpc'[w] = "done" => w \in tested \/ tot[w] = 0
    BY <1>1, <1>2 DEF Turned
  <2>4. mconf.parallel => Left' = {}
    <3>1. mconf.gpus \subseteq MemGpus
      BY <1>2, ConfIs DEF MemTypes
    <3>. QED  BY <1>1, <1>3, <3>1 DEF Left
  <2>5. memResult # "success"
    BY <1>1, <1>2 DEF Turned
  <2>. QED  BY <1>1, <2>1, <2>2, <2>3, <2>4, <2>5 DEF Turned
<1>7. \A w \in MemGpus : Testing(w)'
  <2>1. \A w \in MemGpus : mpc'[w] # "test"
    BY <1>1, <1>5
  <2>. QED  BY <2>1 DEF Testing
<1>. QED  BY <1>4, <1>6, <1>7 DEF MemInv

LEMMA JoinWorkersKeeps == ASSUME MemInv, JoinWorkers PROVE MemInv'
<1>1. /\ UNCHANGED <<mconf, tot, at, blocks, seen, errs, iteration, small, live>>
      /\ memMain = "join"
  BY DEF JoinWorkers
<1>2. MemTypes /\ Turned
  BY DEF MemInv
<1>3. mconf.gpus \subseteq MemGpus /\ mconf.gpus # {}
  BY <1>2, ConfIs DEF MemTypes
<1>4. \A w \in MemGpus : mpc[w] \in {"idle", "done"}
  BY <1>2 DEF JoinWorkers, Turned
<1>5. memResult # "success"
  BY <1>1, <1>2 DEF Turned
<1>6. \/ mpc' = mpc /\ tested' = tested /\ memMain' = "end" /\ memResult' = "failed"
      \/ /\ mpc' = mpc /\ tested' = tested /\ memMain' = "start" /\ memResult' = memResult
         /\ Left # {}
      \/ mpc' = mpc /\ tested' = tested /\ memMain' = "end" /\ Left = {}
      \/ /\ mpc' = [w \in MemGpus |-> "idle"] /\ tested' = {} /\ memMain' = "start"
         /\ memResult' = memResult
  BY DEF JoinWorkers
<1>7. \A w \in MemGpus : mpc'[w] \in {"idle", "done"}
  BY <1>4, <1>6
<1>8. MemTypes'
  BY <1>1, <1>2, <1>6 DEF MemTypes
<1>9. Turned'
  <2>1. live' = {w \in MemGpus : mpc'[w] \in {"test", "aborted"}}
    BY <1>1, <1>2, <1>4, <1>7 DEF Turned
  <2>2. CASE mpc' = mpc /\ tested' = tested
    <3>1. Left' = Left
      BY <1>1, <2>2 DEF Left
    <3>2. memMain' = "start" => Left # {}
      <4>1. (\A w \in MemGpus : mpc[w] = "idle") => Left = mconf.gpus
        BY <1>3 DEF Left
      <4>. QED  BY <1>3, <1>6, <2>2, <4>1
    <3>3. memMain' # "join" /\ (memResult' = "success" => memMain' = "end" /\ Left = {})
      BY <1>5, <1>6
    <3>4. memMain' = "start" => ~mconf.parallel \/ \A w \in MemGpus : mpc[w] = "idle"
      BY <1>1, <1>2, <3>2 DEF Turned
    <3>. QED  BY <1>1, <1>2, <1>7, <2>1, <2>2, <3>1, <3>2, <3>3, <3>4 DEF Turned
  <2>3. CASE /\ mpc' = [w \in MemGpus |-> "idle"] /\ memMain' = "start"
             /\ memResult' = memResult
    <3>1. Left' = mconf.gpus
      BY <1>1, <1>3, <2>3 DEF Left
    <3>. QED  BY <1>1, <1>3, <1>5, <2>1, <2>3, <3>1 DEF Turned
  <2>. QED  BY <1>6, <2>2, <2>3
<1>10. \A w \in MemGpus : Testing(w)'
  <2>1. \A w \in MemGpus : mpc'[w] # "test"
    BY <1>7
  <2>. QED  BY <2>1 DEF Testing
<1>. QED  BY <1>8, <1>9, <1>10 DEF MemInv

LEMMA MemStarts == ASSUME MemInit PROVE MemInv
<1>1. /\ mconf \in MemConfs /\ mpc = [w \in MemGpus |-> "idle"] /\ live = {} /\ tested = {}
      /\ memMain = "start" /\ memResult = "none"
  BY DEF MemInit, MemStart
<1>2. MemTypes
  BY DEF MemInit, MemStart, MemTypes
<1>3. Turned
  <2>1. Left = mconf.gpus /\ mconf.gpus # {}
    BY <1>1, ConfIs DEF Left
  <2>. QED  BY <1>1, <2>1 DEF Turned
<1>4. \A w \in MemGpus : Testing(w)
  BY <1>1 DEF Testing
<1>. QED  BY <1>2, <1>3, <1>4 DEF MemInv

LEMMA MemKeeps == ASSUME MemInv, [MemNext]_memVars PROVE MemInv'
<1>1. CASE StartWorkers
  BY <1>1, StartWorkersKeeps
<1>2. CASE JoinWorkers
  BY <1>2, JoinWorkersKeeps
<1>3. CASE AskMemStop \/ MemStutters \/ UNCHANGED memVars
  <2>1. UNCHANGED <<mconf, workerVars, memMain, memResult>>
    BY <1>3 DEF AskMemStop, MemStutters, memVars
  <2>2. MemTypes'
    BY <2>1 DEF MemInv, MemTypes, workerVars
  <2>3. Turned'
    BY <2>1, TurnedStill DEF MemInv, workerVars
  <2>4. \A w \in MemGpus : Testing(w)'
    BY <2>1, TestingStill DEF MemInv, workerVars
  <2>. QED  BY <2>2, <2>3, <2>4 DEF MemInv
<1>4. CASE \E w \in MemGpus : SizeWorker(w) \/ RunPass(w) \/ EndTest(w)
  BY <1>4, SizeWorkerKeeps, RunPassKeeps, EndTestKeeps
<1>. QED  BY <1>1, <1>2, <1>3, <1>4 DEF MemNext

\* The invariant of the memory test.
LEMMA MemIsKept == MemSpec => []MemInv
<1>1. MemInit => MemInv
  BY MemStarts
<1>2. MemInv /\ [MemNext]_memVars => MemInv'
  BY MemKeeps
<1>. QED  BY <1>1, <1>2, PTL DEF MemSpec

-----------------------------------------------------------------------------
(* What the invariant says of the tests.                                   *)

LEMMA MemIsInside == ASSUME MemInv PROVE InsideTheAllocation
<1>. SUFFICES ASSUME NEW w \in MemGpus, mpc[w] = "test", ~TestEnded(w), tot[w] < Wrap,
                     NEW pass, pass = Passes(w)[at[w][2]], NEW i \in Launches(pass, tot[w]),
                     pass.where \in {"grid", "dim"}, NEW b \in BlocksOf(pass, i, tot[w])
              PROVE  b \in 0..(Allocated(tot[w]) - 1)
  BY DEF InsideTheAllocation
<1>1. mconf \in MemConfs /\ tot[w] \in Nat /\ at[w] \in (1..11) \X (Nat \ {0})
  BY DEF MemInv, MemTypes
<1>2. mconf.max \in Nat /\ mconf.threads \in Nat /\ Wrap \in Nat \ {0}
  BY <1>1, ConfIs
<1>3. pass \in PassSet
  <2>1. Passes(w) \in Seq(PassSet)
    BY <1>1, TestsAre DEF Passes
  <2>2. ~(at[w][2] > Len(Passes(w))) /\ at[w][2] \in Nat \ {0}
    BY <1>1 DEF TestEnded
  <2>3. at[w][2] \in 1..Len(Passes(w))
    BY <2>1, <2>2
  <2>. QED  BY <2>1, <2>3
<1>4. pass.first \in {0, 1}
  BY <1>3 DEF PassSet
<1>5. Allocated(tot[w]) = tot[w]
  BY <1>1, AllocatedAll
<1>6. i \in Nat /\ b < tot[w] /\ b \in Grid(pass, i)
  BY <1>1, <1>4 DEF Launches, BlocksOf
<1>7. b \in Nat
  BY <1>2, <1>6 DEF Grid
<1>. QED  BY <1>1, <1>5, <1>6, <1>7

LEMMA MemIsFound == ASSUME MemInv PROVE FaultsFound
<1>. SUFFICES ASSUME NEW w \in MemGpus, TestEnded(w), tot[w] < Wrap
              PROVE  /\ at[w][1] \in {1, 2, 3, 4, 5, 6, 10} /\ mconf.max >= Stride
                          => {b \in mconf.bad : b < tot[w]} \subseteq seen[w]
                     /\ at[w][1] = 8 /\ mconf.max >= Stride
                          => {b \in mconf.bad : b < tot[w] /\ b > 0} \subseteq seen[w]
                     /\ at[w][1] = 11 /\ mconf.iterations > 0
                          => {b \in mconf.bad : b < tot[w]} \subseteq seen[w]
  BY DEF FaultsFound
<1>. DEFINE t == at[w][1]
            k == at[w][2]
            s == rvs_memtests[t]
<1>1. mconf \in MemConfs /\ at[w] \in (1..11) \X (Nat \ {0})
  BY DEF MemInv, MemTypes
<1>2. t \in 1..11 /\ k \in Nat \ {0} /\ s \in Seq(PassSet) /\ Len(s) \in Nat
  <2>1. t \in 1..11 /\ k \in Nat \ {0}
    BY <1>1
  <2>2. s \in Seq(PassSet)
    BY <1>1, <2>1, TestsAre
  <2>. QED  BY <2>1, <2>2
<1>3. k > Len(s) /\ Found(t, k, tot[w], seen[w])
  BY DEF TestEnded, Passes, MemInv, Testing
<1>4. t \in {1, 2, 3, 4, 5, 6, 10} => k > Finder(t)
  <2>. SUFFICES ASSUME t \in {1, 2, 3, 4, 5, 6, 10} PROVE k > Finder(t)
    OBVIOUS
  <2>1. Catches(s, Finder(t), 0)
    BY <1>1, TestsAre
  <2>. HIDE DEF t, k, s
  <2>. QED  BY <1>2, <1>3, <2>1 DEF Catches
<1>5. t = 8 => k > Finder(t)
  <2>. SUFFICES ASSUME t = 8 PROVE k > Finder(t)
    OBVIOUS
  <2>1. Catches(s, Finder(t), 1)
    BY <1>1, TestsAre
  <2>. HIDE DEF t, k, s
  <2>. QED  BY <1>2, <1>3, <2>1 DEF Catches
<1>6. t = 11 /\ mconf.iterations > 0 => k > Finder(t)
  <2>. SUFFICES ASSUME t = 11, mconf.iterations > 0 PROVE k > Finder(t)
    OBVIOUS
  <2>1. Len(s) >= 2 /\ Finder(t) = 2
    BY <1>1, TestsAre DEF Finder
  <2>. HIDE DEF t, k, s
  <2>. QED  BY <1>2, <1>3, <2>1
<1>. HIDE DEF k
<1>. QED  BY <1>3, <1>4, <1>5, <1>6 DEF Found

LEMMA MemIsQuiet == ASSUME MemInv PROVE HealthyIsQuiet
BY DEF MemInv, Testing, Quiet, HealthyIsQuiet

LEMMA MemIsOwned == ASSUME MemInv PROVE RecordsOwned
<1>1. small = [w \in MemGpus |-> w] /\ live = {w \in MemGpus : mpc[w] \in {"test", "aborted"}}
  BY DEF MemInv, MemTypes, Turned
<1>2. memMain = "end" => \A w \in MemGpus : mpc[w] \in {"idle", "done"}
  BY DEF MemInv, Turned
<1>. QED  BY <1>1, <1>2 DEF RecordsOwned

LEMMA MemIsTested == ASSUME MemInv PROVE SuccessMeansTestedMemory
<1>. SUFFICES ASSUME memResult = "success", NEW w \in mconf.gpus
              PROVE  w \in tested \/ (mpc[w] = "done" /\ tot[w] = 0)
  BY DEF SuccessMeansTestedMemory
<1>1. memMain = "end" /\ Left = {} /\ w \in MemGpus
  BY ConfIs DEF MemInv, MemTypes, Turned
<1>2. mpc[w] = "done"
  BY <1>1 DEF MemInv, Turned, Left
<1>. QED  BY <1>1, <1>2 DEF MemInv, Turned

\* Whatever the configuration: the tests stay inside the memory of a worker of less
\* than 4 GB, record its bad blocks and, in a grid as wide as the step, no other, in
\* records of the worker's own; a success has tested every GPU with memory to test.
THEOREM MemTestIsSound == MemSpec => []MemTestSound
<1>1. MemInv => MemTestSound
  BY MemIsInside, MemIsFound, MemIsQuiet, MemIsOwned, MemIsTested DEF MemTestSound
<1>. QED  BY <1>1, MemIsKept, PTL

-----------------------------------------------------------------------------
(* The memory test: the domains of the rest of the state.                  *)

\* What a worker has: a number of blocks that an unsigned int holds, a place in its
\* test, records of its own blocks.
WorkerDomains(w) ==
    /\ tot[w] < Wrap * Wrap /\ at[w][2] <= Len(Passes(w)) + 1
    /\ seen[w] \subseteq 0..tot[w]

MemDomains ==
    /\ \A w \in MemGpus : WorkerDomains(w)
    /\ tested \subseteq mconf.gpus /\ round \in 1..MaxRounds /\ memStop \in BOOLEAN
    /\ memResult \in {"none", "success", "failed"}
    /\ memMain = "end" <=> memResult # "none"

\* A worker whose memory, place and records stay.
LEMMA WorkerSame ==
  ASSUME mconf' = mconf, NEW w \in MemGpus, WorkerDomains(w),
         tot'[w] = tot[w], at'[w] = at[w], seen'[w] = seen[w]
  PROVE  WorkerDomains(w)'
BY MemSame DEF WorkerDomains, Passes

LEMMA MemDomainsStart == ASSUME MemInit PROVE MemDomains
<1>. USE DEF MemInit, MemStart
<1>1. MaxRounds \in Nat \ {0} /\ Wrap \in Nat \ {0}
  BY ConfIs
<1>2. Wrap * Wrap > 0
  BY <1>1
<1>3. \A w \in MemGpus : WorkerDomains(w)
  <2>1. rvs_memtests[1] \in Seq(PassSet)
    BY TestsAre
  <2>2. Len(rvs_memtests[1]) \in Nat
    BY <2>1
  <2>3. \A w \in MemGpus : tot[w] = 0 /\ at[w][1] = 1 /\ at[w][2] = 1 /\ seen[w] = {}
    OBVIOUS
  <2>. QED  BY <1>2, <2>2, <2>3 DEF WorkerDomains, Passes
<1>4. tested = {} /\ round = 1 /\ memStop = FALSE /\ memResult = "none" /\ memMain = "start"
  OBVIOUS
<1>5. round \in 1..MaxRounds
  BY <1>1, <1>4
<1>. QED  BY <1>3, <1>4, <1>5 DEF MemDomains

LEMMA SizeWorkerStays == ASSUME MemInv, MemDomains, NEW w \in MemGpus, SizeWorker(w) PROVE MemDomains'
<1>1. /\ UNCHANGED <<mconf, tested, memMain, round, memStop, memResult>>
      /\ tot' = [tot EXCEPT ![w] = TotalBlocks] /\ at' = [at EXCEPT ![w] = <<1, 1>>]
      /\ seen' = [seen EXCEPT ![w] = {}]
  BY DEF SizeWorker
<1>2. MemTypes /\ TotalBlocks \in Nat /\ TotalBlocks < Wrap * Wrap
  BY TotalWraps DEF MemInv, MemTypes
<1>. HIDE DEF TotalBlocks
<1>3. WorkerDomains(w)'
  <2>1. tot'[w] = TotalBlocks /\ at'[w] = <<1, 1>> /\ seen'[w] = {}
    BY <1>1, <1>2 DEF MemTypes
  <2>2. rvs_memtests[1] \in Seq(PassSet)
    BY <1>2, TestsAre DEF MemTypes
  <2>3. Len(rvs_memtests[1]) \in Nat
    BY <2>2
  <2>4. Passes(w)' = rvs_memtests[1]
    BY <1>1, <2>1, MemSame DEF Passes
  <2>. QED  BY <1>2, <2>1, <2>3, <2>4 DEF WorkerDomains
<1>4. ASSUME NEW v \in MemGpus, v # w PROVE WorkerDomains(v)'
  <2>1. tot'[v] = tot[v] /\ at'[v] = at[v] /\ seen'[v] = seen[v]
    BY <1>1, <1>2, <1>4 DEF MemTypes
  <2>. QED  BY <1>1, <2>1, WorkerSame DEF MemDomains
<1>. QED  BY <1>1, <1>3, <1>4 DEF MemDomains

LEMMA RunPassStays == ASSUME MemInv, MemDomains, NEW w \in MemGpus, RunPass(w) PROVE MemDomains'
<1>1. /\ UNCHANGED <<mconf, tot, tested, memMain, round, memStop, memResult>>
      /\ at' = [at EXCEPT ![w] = <<@[1], @[2] + 1>>] /\ mpc[w] = "test" /\ ~TestEnded(w)
  BY DEF RunPass
<1>2. MemTypes /\ at[w] \in (1..11) \X (Nat \ {0})
  BY DEF MemInv, MemTypes
<1>3. WorkerDomains(w)'
  <2>1. at'[w] = <<at[w][1], at[w][2] + 1>>
    BY <1>1, <1>2 DEF MemTypes
  <2>2. Passes(w)' = Passes(w)
    BY <1>1, <2>1, MemSame DEF Passes
  <2>3. Passes(w) \in Seq(PassSet)
    BY <1>2, TestsAre DEF Passes, MemTypes
  <2>4. at'[w][2] <= Len(Passes(w)') + 1
    <3>1. Len(Passes(w)) \in Nat /\ at[w][2] \in Nat
      BY <1>2, <2>3
    <3>2. ~(at[w][2] > Len(Passes(w)))
      BY <1>1 DEF TestEnded
    <3>. QED  BY <2>1, <2>2, <3>1, <3>2
  <2>5. seen'[w] \subseteq 0..tot'[w]
    <3>1. PICK m : m \subseteq DOMAIN blocks[w] /\ seen' = [seen EXCEPT ![w] = @ \cup m]
      BY DEF RunPass
    <3>2. DOMAIN blocks[w] = 0..tot[w] /\ seen[w] \subseteq 0..tot[w]
      BY <1>1 DEF MemInv, Testing, MemDomains, WorkerDomains
    <3>3. seen'[w] = seen[w] \cup m
      BY <1>2, <3>1 DEF MemTypes
    <3>. QED  BY <1>1, <3>1, <3>2, <3>3
  <2>. QED  BY <1>1, <2>4, <2>5 DEF WorkerDomains, MemDomains
<1>4. ASSUME NEW v \in MemGpus, v # w PROVE WorkerDomains(v)'
  <2>1. at'[v] = at[v] /\ seen'[v] = seen[v]
    BY <1>2, <1>4 DEF MemTypes, RunPass
  <2>. QED  BY <1>1, <2>1, WorkerSame DEF MemDomains
<1>. QED  BY <1>1, <1>3, <1>4 DEF MemDomains

LEMMA EndTestStays == ASSUME MemInv, MemDomains, NEW w \in MemGpus, EndTest(w) PROVE MemDomains'
<1>. DEFINE t == at[w][1]
<1>1. /\ UNCHANGED <<mconf, tot, memMain, round, memStop, memResult>> /\ mpc[w] = "test"
  BY DEF EndTest, TestEnded
<1>2. MemTypes /\ t \in 1..11 /\ w \in mconf.gpus
  BY <1>1 DEF MemInv, MemTypes, Turned
<1>3. Len(rvs_memtests) = 11
  BY <1>2, TestsAre DEF MemTypes
<1>4. /\ tested' = tested \/ tested' = tested \cup {w}
      /\ \/ at' = [at EXCEPT ![w] = <<t, 1>>]
         \/ t < 11 /\ at' = [at EXCEPT ![w] = <<t + 1, 1>>]
         \/ at' = at
      /\ seen' = seen \/ seen' = [seen EXCEPT ![w] = {}]
  BY <1>3 DEF EndTest
<1>. HIDE DEF t
<1>5. WorkerDomains(w)'
  <2>1. seen'[w] \subseteq 0..tot'[w]
    BY <1>1, <1>2, <1>4 DEF MemTypes, MemDomains, WorkerDomains
  <2>2. at'[w][2] <= Len(Passes(w)') + 1
    <3>1. CASE at' = at
      <4>1. Passes(w)' = Passes(w)
        BY <1>1, <3>1, MemSame DEF Passes
      <4>. QED  BY <3>1, <4>1 DEF MemDomains, WorkerDomains
    <3>2. ASSUME NEW u \in 1..11, at' = [at EXCEPT ![w] = <<u, 1>>]
          PROVE  at'[w][2] <= Len(Passes(w)') + 1
      <4>1. at'[w] = <<u, 1>>
        BY <1>2, <3>2 DEF MemTypes
      <4>2. Passes(w)' = rvs_memtests[u]
        BY <1>1, <4>1, MemSame DEF Passes
      <4>3. rvs_memtests[u] \in Seq(PassSet)
        BY <1>2, TestsAre DEF MemTypes
      <4>4. Len(rvs_memtests[u]) \in Nat
        BY <4>3
      <4>. QED  BY <4>1, <4>2, <4>4
    <3>3. t < 11 => t + 1 \in 1..11
      BY <1>2
    <3>. QED  BY <1>2, <1>4, <3>1, <3>2, <3>3
  <2>. QED  BY <1>1, <2>1, <2>2 DEF WorkerDomains, MemDomains
<1>6. ASSUME NEW v \in MemGpus, v # w PROVE WorkerDomains(v)'
  <2>1. at'[v] = at[v] /\ seen'[v] = seen[v]
    BY <1>2, <1>4, <1>6 DEF MemTypes
  <2>. QED  BY <1>1, <2>1, WorkerSame DEF MemDomains
<1>. QED  BY <1>1, <1>2, <1>4, <1>5, <1>6 DEF MemDomains

LEMMA MemDomainsKept == ASSUME MemInv, MemDomains, [MemNext]_memVars PROVE MemDomains'
<1>1. CASE StartWorkers
  <2>1. \A w \in MemGpus : WorkerDomains(w)'
    BY <1>1, WorkerSame DEF StartWorkers, MemDomains
  <2>. QED  BY <1>1, <2>1 DEF StartWorkers, MemDomains
<1>2. CASE JoinWorkers
  <2>1. \A w \in MemGpus : WorkerDomains(w)'
    BY <1>2, WorkerSame DEF JoinWorkers, MemDomains
  <2>2. mconf' = mconf /\ memStop' = memStop /\ (tested' = tested \/ tested' = {}) /\ memMain = "join"
    BY <1>2 DEF JoinWorkers
  <2>3. round' \in 1..MaxRounds
    <3>1. round \in 1..MaxRounds /\ MaxRounds \in Nat \ {0}
      BY ConfIs DEF MemDomains, MemInv, MemTypes
    <3>2. round' = round \/ round' = IF round < MaxRounds THEN round + 1 ELSE 1
      BY <1>2 DEF JoinWorkers
    <3>. QED  BY <3>1, <3>2
  <2>4. /\ memResult' \in {"none", "success", "failed"}
        /\ memMain' = "end" <=> memResult' # "none"
    <3>1. memResult = "none"
      BY <2>2 DEF MemDomains
    <3>. QED  BY <1>2, <3>1 DEF JoinWorkers
  <2>. QED  BY <2>1, <2>2, <2>3, <2>4 DEF MemDomains
<1>3. CASE AskMemStop \/ MemStutters \/ UNCHANGED memVars
  <2>1. /\ UNCHANGED <<mconf, workerVars, memMain, round, memResult>>
        /\ memStop' = memStop \/ memStop' = TRUE
    BY <1>3 DEF AskMemStop, MemStutters, memVars
  <2>2. \A w \in MemGpus : WorkerDomains(w)'
    BY <2>1, WorkerSame DEF workerVars, MemDomains
  <2>. QED  BY <2>1, <2>2 DEF MemDomains, workerVars
<1>4. CASE \E w \in MemGpus : SizeWorker(w) \/ RunPass(w) \/ EndTest(w)
  BY <1>4, SizeWorkerStays, RunPassStays, EndTestStays
<1>. QED  BY <1>1, <1>2, <1>3, <1>4 DEF MemNext

LEMMA MemIsTyped == ASSUME MemInv, MemDomains PROVE MemTypeOK
<1>1. /\ mconf.iterations \in Nat /\ MemTypes /\ Wrap \in Nat
  BY ConfIs DEF MemInv, MemTypes
<1>2. ASSUME NEW w \in MemGpus
      PROVE  /\ tot[w] \in 0..(Wrap * Wrap - 1)
             /\ at[w][1] \in 1..11 /\ at[w][2] \in 1..(Len(Passes(w)) + 1)
             /\ seen[w] \subseteq 0..tot[w] /\ errs[w] \in Nat
             /\ iteration[w] \in 0..mconf.iterations
  <2>1. /\ tot[w] \in Nat /\ at[w] \in (1..11) \X (Nat \ {0}) /\ errs[w] = 0 /\ iteration[w] = 0
    BY <1>1 DEF MemTypes
  <2>2. Passes(w) \in Seq(PassSet)
    BY <1>1, <2>1, TestsAre DEF Passes, MemTypes
  <2>3. Wrap * Wrap \in Nat /\ Len(Passes(w)) \in Nat
    BY <1>1, <2>2
  <2>4. WorkerDomains(w)
    BY DEF MemDomains
  <2>5. tot[w] \in 0..(Wrap * Wrap - 1)
    BY <2>1, <2>3, <2>4 DEF WorkerDomains
  <2>6. at[w][2] \in 1..(Len(Passes(w)) + 1)
    BY <2>1, <2>3, <2>4 DEF WorkerDomains
  <2>. QED  BY <1>1, <2>1, <2>4, <2>5, <2>6 DEF WorkerDomains
<1>3. small \in [MemGpus -> MemGpus] /\ live \subseteq MemGpus
  BY <1>1 DEF MemTypes, MemInv, Turned
<1>. QED  BY <1>1, <1>2, <1>3 DEF MemTypes, MemDomains, MemTypeOK

-----------------------------------------------------------------------------
(* Babel: the invariant.                                                   *)

BabelTypes ==
    /\ bconf \in BabelConfs
    /\ bpc \in [Workers -> {"idle", "new", "run", "done"}]
    /\ \A w \in Workers : bpc[w] # "idle" => w \in bconf.gpus
    /\ arrays = [w \in Workers |-> arrays[w]] /\ step \in [Workers -> 1..7]
    /\ iter \in [Workers -> Nat] /\ samples = iter
    /\ buffers = [w \in Workers |-> IF bpc[w] = "run" THEN Buffers ELSE {}]
    /\ rates \in [Workers -> {"none", "number", "undefined"}]
    /\ bresult \in [Workers -> BOOLEAN]

\* All that writes to the arrays is asked for, and they begin as check_solution has it.
Golds ==
    /\ bconf.init = "default" /\ <<elements_per_lane, bconf.chunks>> \in Compiled
    /\ bconf.type \in {3, 4} \/ {"copy", "mul", "add", "triad"} \subseteq bconf.tests

\* The arrays d at place s of an iteration that began with g in every element.
Between(d, s, g) ==
    \A x \in Indices :
        /\ d.a[x] = IF s = 7 THEN Golden(g).a ELSE g.a
        /\ s = 1 => d.b[x] = g.b /\ d.c[x] = g.c
        /\ s = 4 => d.c[x] = g.a
        /\ s \in {5, 6, 7} => d.b[x] = Golden(g).b
        /\ s \in {6, 7} => d.c[x] = Golden(g).c

\* Of a stream that exists: it was not refused, and where it is in its iterations.
Streaming(w) ==
    /\ bconf.type \in 1..4 /\ ~Throws(w) /\ rates[w] = "none"
    /\ step[w] = 1 \/ (bconf.type \notin {3, 4} /\ From(step[w]) # {})
    /\ ~bconf.timed =>
          iter[w] <= bconf.num_iter /\ (step[w] # 1 => iter[w] < bconf.num_iter)
    /\ arrays[w] = [n \in {"a", "b", "c"} |-> arrays[w][n]]
    /\ Golds => Between(arrays[w], step[w], Gold[iter[w]])

\* Of a worker that has logged or is done.
Measured(w) ==
    /\ rates[w] # "none" /\ ~bconf.timed => rates[w] = "number" /\ iter[w] = bconf.num_iter
    /\ bpc[w] = "done" /\ bresult[w] => bconf.type \in 1..4 /\ rates[w] # "none"

BabelInv ==
    /\ BabelTypes /\ KernelsInside
    /\ \A w \in Workers : (bpc[w] = "run" => Streaming(w)) /\ Measured(w)
    /\ babelStatus = "success" =>
          bmain = "end" /\ \A w \in bconf.gpus : bpc[w] = "done" /\ bresult[w]

-----------------------------------------------------------------------------
(* The lanes of a kernel.                                                  *)

LEMMA BabelConfIs ==
  ASSUME bconf \in BabelConfs
  PROVE  /\ bconf.gpus \subseteq Workers /\ bconf.gpus # {} /\ bconf.parallel \in BOOLEAN
         /\ bconf.type \in 0..5 /\ bconf.tests \subseteq Kernels /\ bconf.timed \in BOOLEAN
         /\ bconf.num_iter \in Nat /\ bconf.num_iter >= 2 /\ bconf.array_size \in Nat \ {0}
         /\ bconf.dwords \in Nat \ {0} /\ bconf.chunks \in Nat \ {0} /\ bconf.tb \in Nat \ {0}
         /\ Modulus \in Nat /\ Modulus > 5 /\ MaxTimed \in Nat /\ MaxTurnsOfAction \in Nat \ {0}
BY BabelConstants DEF BabelConfType

\* Chunks of e elements, c of them to each of l lanes, are the first l * c * e numbers.
LEMMA Chunks ==
  ASSUME NEW l \in Nat, NEW e \in Nat \ {0}, NEW c \in Nat \ {0}
  PROVE  /\ \A lane \in 0..(l - 1), i \in 0..(c - 1), j \in 0..(e - 1) :
               lane * e + i * l * e + j \in 0..(l * (e * c) - 1)
         /\ \A x \in 0..(l * (e * c) - 1) :
               \E lane \in 0..(l - 1), i \in 0..(c - 1), j \in 0..(e - 1) :
                  x = lane * e + i * l * e + j
<1>1. \A a, b \in Nat, k \in Nat : a <= b => a * k <= b * k
  OBVIOUS
<1>2. \A a, b \in Nat, k \in Nat : a * k < b * k => a < b
  BY <1>1
<1>3. l * c \in Nat /\ e * c \in Nat /\ l * (e * c) = (l * c) * e /\ (l * c) * e \in Nat
  OBVIOUS
<1>4. ASSUME NEW lane \in 0..(l - 1), NEW i \in 0..(c - 1), NEW j \in 0..(e - 1)
      PROVE  lane * e + i * l * e + j \in 0..(l * (e * c) - 1)
  <2>. DEFINE y == lane + i * l
  <2>1. i * l \in Nat /\ c * l \in Nat /\ (i + 1) * l <= c * l
    BY <1>1
  <2>2. (i + 1) * l = i * l + l /\ c * l = l * c
    OBVIOUS
  <2>3. y \in Nat /\ y + 1 <= l * c
    BY <2>1, <2>2
  <2>4. lane * e + i * l * e = y * e
    OBVIOUS
  <2>. HIDE DEF y
  <2>5. (y + 1) * e <= (l * c) * e /\ (y + 1) * e = y * e + e /\ y * e \in Nat
    BY <1>1, <1>3, <2>3
  <2>6. y * e + j \in 0..((l * c) * e - 1)
    BY <1>3, <2>5
  <2>. QED  BY <1>3, <2>4, <2>6
<1>5. ASSUME NEW x \in 0..(l * (e * c) - 1)
      PROVE  \E lane \in 0..(l - 1), i \in 0..(c - 1), j \in 0..(e - 1) :
                x = lane * e + i * l * e + j
  <2>. DEFINE j == x % e
              y == x \div e
  <2>1. x \in Nat /\ x < (l * c) * e
    BY <1>3
  <2>2. j \in 0..(e - 1) /\ y \in Nat /\ x = e * y + j
    BY ONLY <2>1, e \in Nat \ {0}, Remainders
  <2>. HIDE DEF j, y
  <2>3. y * e < (l * c) * e
    BY <1>3, <2>1, <2>2
  <2>4. y < l * c
    BY ONLY <1>2, <1>3, <2>2, <2>3, e \in Nat \ {0}
  <2>5. l \in Nat \ {0}
    <3>. SUFFICES ASSUME l = 0 PROVE FALSE
      OBVIOUS
    <3>1. l * c = 0
      OBVIOUS
    <3>. QED  BY <2>2, <2>4, <3>1
  <2>. DEFINE lane == y % l
              i == y \div l
  <2>6. lane \in 0..(l - 1) /\ i \in Nat /\ y = l * i + lane
    BY ONLY <2>2, <2>5, Remainders
  <2>. HIDE DEF lane, i
  <2>7. i * l < c * l
    <3>1. i * l \in Nat /\ c * l \in Nat /\ l * i = i * l /\ l * c = c * l
      BY <2>6
    <3>. QED  BY <2>4, <2>6, <3>1
  <2>8. i \in 0..(c - 1)
    <3>1. i < c
      BY ONLY <1>2, <2>6, <2>7, l \in Nat, c \in Nat \ {0}
    <3>. QED  BY <2>6, <3>1
  <2>9. x = lane * e + i * l * e + j
    <3>1. y * e = lane * e + i * l * e
      BY <2>6
    <3>2. e * y = y * e /\ y * e \in Int
      BY <2>2
    <3>. QED  BY <2>2, <3>1, <3>2
  <2>. QED  BY <2>2, <2>6, <2>8, <2>9
<1>. QED  BY <1>4, <1>5

\* A stream that is not refused has whole blocks, and arrays of whole lanes.
LEMMA Divides ==
  ASSUME bconf \in BabelConfs, NEW w, ~Throws(w)
  PROVE  /\ elements_per_lane \in Nat \ {0} /\ Lanes \in Nat
         /\ bconf.array_size = Lanes * (elements_per_lane * bconf.chunks)
<1>. DEFINE e == elements_per_lane
            c == bconf.chunks
            t == bconf.tb
            n == bconf.array_size
            d == t * e * c
            b == n \div d
<1>1. c \in Nat \ {0} /\ t \in Nat \ {0} /\ n \in Nat \ {0} /\ bconf.dwords \in Nat \ {0}
  BY BabelConfIs
<1>2. e \in Nat \ {0}
  <2>1. Size \in {1, 2}
    BY DEF Size
  <2>2. CASE bconf.dwords < Size
    BY <2>2 DEF elements_per_lane
  <2>3. CASE ~(bconf.dwords < Size)
    <3>1. bconf.dwords \div Size \in Nat \ {0}
      BY <1>1, <2>1, <2>3
    <3>. QED  BY <2>3, <3>1 DEF elements_per_lane
  <2>. QED  BY <2>2, <2>3
<1>3. n % d = 0
  BY DEF Throws
<1>4. Lanes = b * t
  BY DEF Lanes, block_cnt
<1>. HIDE DEF e, c, t, n
<1>5. d \in Nat \ {0}
  <2>1. \A x, y \in Nat \ {0} : x * y \in Nat \ {0}
    OBVIOUS
  <2>2. t * e \in Nat \ {0}
    BY <1>1, <1>2, <2>1
  <2>. QED  BY <1>1, <2>1, <2>2
<1>6. b \in Nat /\ n = d * b + (n % d)
  <2>. HIDE DEF d
  <2>. QED  BY ONLY <1>1, <1>5, Remainders
<1>. HIDE DEF b
<1>7. n = d * b
  <2>. HIDE DEF d
  <2>. QED  BY <1>3, <1>5, <1>6
<1>8. d * b = (b * t) * (e * c) /\ b * t \in Nat
  BY <1>1, <1>2, <1>6
<1>. QED  BY <1>2, <1>4, <1>7, <1>8 DEF e, c, n

\* The lanes of a compiled shape reach all elements, and none else; those of another do
\* not leave the arrays when they have eight elements each or more.
LEMMA TouchedAre ==
  ASSUME bconf \in BabelConfs, NEW w, ~Throws(w)
  PROVE  /\ <<elements_per_lane, bconf.chunks>> \in Compiled => Touched = Indices
         /\ elements_per_lane * bconf.chunks >= 8 => Touched \subseteq Indices
<1>. DEFINE e == elements_per_lane
            c == bconf.chunks
            l == Lanes
            p == Shape[1]
            q == Shape[2]
<1>1. e \in Nat \ {0} /\ c \in Nat \ {0} /\ l \in Nat /\ Indices = 0..(l * (e * c) - 1)
  BY BabelConfIs, Divides DEF Indices
<1>2. Shape = IF <<e, c>> \in Compiled THEN <<e, c>> ELSE <<4, 2>>
  BY DEF Shape
<1>3. \A x : x \in Touched <=>
        \E lane \in 0..(l - 1), i \in 0..(q - 1), j \in 0..(p - 1) :
           x = lane * p + i * l * p + j
  BY DEF Touched, ElementsOf
<1>. HIDE DEF e, c, l, p, q
<1>4. p \in Nat \ {0} /\ q \in Nat \ {0}
  BY <1>1, <1>2 DEF p, q
<1>5. Touched = 0..(l * (p * q) - 1)
  <2>1. \A x \in Touched : x \in 0..(l * (p * q) - 1)
    <3>1. \A lane \in 0..(l - 1), i \in 0..(q - 1), j \in 0..(p - 1) :
             lane * p + i * l * p + j \in 0..(l * (p * q) - 1)
      BY ONLY <1>1, <1>4, Chunks, ZenonT(60)
    <3>. QED  BY ONLY <1>3, <3>1
  <2>2. \A x \in 0..(l * (p * q) - 1) : x \in Touched
    <3>1. \A x \in 0..(l * (p * q) - 1) :
             \E lane \in 0..(l - 1), i \in 0..(q - 1), j \in 0..(p - 1) :
                x = lane * p + i * l * p + j
      BY ONLY <1>1, <1>4, Chunks, ZenonT(60)
    <3>. QED  BY ONLY <1>3, <3>1
  <2>. QED  BY <2>1, <2>2
<1>6. CASE <<e, c>> \in Compiled
  <2>1. p = e /\ q = c
    BY <1>2, <1>6 DEF p, q
  <2>. QED  BY <1>1, <1>5, <2>1 DEF e, c
<1>7. CASE <<e, c>> \notin Compiled
  <2>1. p = 4 /\ q = 2
    BY <1>2, <1>7 DEF p, q
  <2>2. e * c >= 8 => l * 8 <= l * (e * c)
    <3>1. \A a, b \in Nat, k \in Nat : a <= b => k * a <= k * b
      OBVIOUS
    <3>2. e * c \in Nat
      BY <1>1
    <3>. QED  BY <1>1, <3>1, <3>2
  <2>3. Touched = 0..(l * 8 - 1)
    BY <1>5, <2>1
  <2>4. l * 8 \in Int /\ l * (e * c) \in Int
    BY <1>1
  <2>5. e * c >= 8 => Touched \subseteq Indices
    BY <1>1, <2>2, <2>3, <2>4
  <2>. QED  BY <1>7, <2>5 DEF e, c
<1>. QED  BY <1>6, <1>7

-----------------------------------------------------------------------------
(* What the kernels of an iteration compute.                               *)

Residues == [a : 0..(Modulus - 1), b : 0..(Modulus - 1), c : 0..(Modulus - 1)]

LEMMA GoldenIs ==
  ASSUME bconf \in BabelConfs, NEW g \in Residues
  PROVE  /\ Golden(g) \in Residues
         /\ bconf.type \in {3, 4} =>
               /\ Golden(g).b = g.b /\ Golden(g).c = g.c
               /\ Golden(g).a = (g.b + startScalar * g.c) % Modulus
         /\ bconf.type \notin {3, 4} =>
               /\ Golden(g).b = (startScalar * g.a) % Modulus
               /\ Golden(g).c = (g.a + Golden(g).b) % Modulus
               /\ Golden(g).a = (Golden(g).b + startScalar * Golden(g).c) % Modulus
<1>. DEFINE b == IF bconf.type \in {3, 4} THEN g.b ELSE (startScalar * g.a) % Modulus
            c == IF bconf.type \in {3, 4} THEN g.c ELSE (g.a + b) % Modulus
            a == (b + startScalar * c) % Modulus
<1>1. Golden(g) = [a |-> a, b |-> b, c |-> c]
  BY DEF Golden
<1>2. g.a \in 0..(Modulus - 1) /\ g.b \in 0..(Modulus - 1) /\ g.c \in 0..(Modulus - 1)
  BY DEF Residues
<1>3. Modulus \in Nat \ {0}
  BY BabelConfIs
<1>4. \A x \in Nat : x % Modulus \in 0..(Modulus - 1)
  BY ONLY <1>3, Remainders
<1>5. b \in 0..(Modulus - 1)
  <2>1. startScalar * g.a \in Nat
    BY <1>2, <1>3 DEF startScalar
  <2>. QED  BY <1>2, <1>4, <2>1
<1>. HIDE DEF b
<1>6. c \in 0..(Modulus - 1)
  <2>1. g.a + b \in Nat
    BY <1>2, <1>3, <1>5
  <2>. QED  BY <1>2, <1>4, <2>1
<1>. HIDE DEF c
<1>7. a \in 0..(Modulus - 1)
  <2>1. b + startScalar * c \in Nat
    BY <1>3, <1>5, <1>6 DEF startScalar
  <2>. QED  BY <1>4, <2>1
<1>. HIDE DEF a
<1>8. Golden(g) \in Residues
  BY <1>1, <1>5, <1>6, <1>7 DEF Residues
<1>9. Golden(g).a = a /\ Golden(g).b = b /\ Golden(g).c = c
  BY <1>1
<1>. QED  BY <1>8, <1>9 DEF a, b, c

LEMMA GoldIs ==
  ASSUME bconf \in BabelConfs
  PROVE  /\ Gold[0] = [a |-> startA, b |-> startB, c |-> startC]
         /\ \A n \in Nat : Gold[n] \in Residues /\ Gold[n + 1] = Golden(Gold[n])
<1>. DEFINE v == [a |-> startA, b |-> startB, c |-> startC]
            f == [r \in Residues |-> Golden(r)]
<1>1. v \in Residues
  BY BabelConfIs DEF Residues, startA, startB, startC
<1>2. f \in [Residues -> Residues]
  BY GoldenIs
<1>. HIDE DEF f, v
<1>3. PICK h \in [Nat -> Residues] : h[0] = v /\ \A n \in Nat : h[n + 1] = f[h[n]]
  <2>1. \E h \in [Nat -> Residues] : h[0] = v /\ \A n \in Nat : h[n + 1] = f[h[n]]
    BY ONLY <1>1, <1>2, Recursion
  <2>. QED  BY ONLY <2>1
<1>4. h = [n \in Nat |-> IF n = 0 THEN v ELSE Golden(h[n - 1])]
  <2>. SUFFICES ASSUME NEW n \in Nat PROVE h[n] = IF n = 0 THEN v ELSE Golden(h[n - 1])
    BY <1>3
  <2>1. CASE n = 0
    BY <1>3, <2>1
  <2>2. CASE n # 0
    <3>1. n - 1 \in Nat /\ (n - 1) + 1 = n
      BY <2>2
    <3>2. h[n] = f[h[n - 1]] /\ h[n - 1] \in Residues
      BY <1>3, <3>1
    <3>. QED  BY <2>2, <3>2 DEF f
  <2>. QED  BY <2>1, <2>2
<1>5. Gold = [n \in Nat |-> IF n = 0 THEN v ELSE Golden(Gold[n - 1])]
  BY <1>4, Zenon DEF Gold, v
<1>6. Gold[0] = v /\ \A n \in Nat : Gold[n + 1] = Golden(Gold[n])
  BY <1>5
<1>7. \A n \in Nat : Gold[n] \in Residues
  <2>. DEFINE S == {n \in Nat : Gold[n] \notin Residues}
  <2>. SUFFICES ASSUME S # {} PROVE FALSE
    OBVIOUS
  <2>1. PICK m \in S : \A n \in S : m <= n
    BY LeastNumber
  <2>2. m \in Nat /\ m # 0
    BY <1>1, <1>6
  <2>3. m - 1 \in Nat /\ (m - 1) + 1 = m /\ m - 1 \notin S
    BY <2>1, <2>2
  <2>4. Gold[m - 1] \in Residues /\ Gold[m] = Golden(Gold[m - 1])
    BY <1>6, <2>3
  <2>. QED  BY <2>4, GoldenIs
<1>. QED  BY <1>6, <1>7 DEF v

LEMMA BabelSame ==
  ASSUME bconf' = bconf
  PROVE  /\ Gold' = Gold /\ (Golds' <=> Golds) /\ Touched' = Touched /\ Indices' = Indices
         /\ \A w : Throws(w)' <=> Throws(w)
         /\ \A s : From(s)' = From(s)
         /\ \A d, s, g : Between(d, s, g)' <=> Between(d, s, g)
<1>1. Gold' = Gold
  BY DEF Gold, Golden
<1>2. elements_per_lane' = elements_per_lane
  BY DEF elements_per_lane, Size
<1>3. Touched' = Touched /\ Indices' = Indices
  BY DEF Touched, Indices, ElementsOf, Lanes, block_cnt, Shape, elements_per_lane, Size
<1>4. Golds' <=> Golds
  BY <1>2 DEF Golds
<1>5. \A w : Throws(w)' <=> Throws(w)
  BY <1>2 DEF Throws, Size
<1>6. \A s : From(s)' = From(s)
  BY DEF From, Subtests
<1>7. \A d, s, g : Between(d, s, g)' <=> Between(d, s, g)
  <2>1. \A g : Golden(g)' = Golden(g)
    BY DEF Golden
  <2>. QED  BY <1>3, <2>1 DEF Between
<1>. QED  BY <1>1, <1>3, <1>4, <1>5, <1>6, <1>7

\* What each kernel stores, when its lanes reach all elements.
LEMMA KernelsAre ==
  ASSUME Touched = Indices, NEW d, d = [n \in {"a", "b", "c"} |-> d[n]]
  PROVE  /\ Run("read", d) = d /\ Run("dot", d) = d
         /\ Run("write", d).a = d.a /\ Run("write", d).b = d.b
         /\ Run("copy", d).a = d.a /\ Run("copy", d).b = d.b
         /\ Run("mul", d).a = d.a /\ Run("mul", d).c = d.c
         /\ Run("add", d).a = d.a /\ Run("add", d).b = d.b
         /\ Run("triad", d).b = d.b /\ Run("triad", d).c = d.c
         /\ \A x \in Indices :
               /\ Run("copy", d).c[x] = d.a[x] % Modulus
               /\ Run("mul", d).b[x] = (startScalar * d.c[x]) % Modulus
               /\ Run("add", d).c[x] = (d.a[x] + d.b[x]) % Modulus
               /\ Run("triad", d).a[x] = (d.b[x] + startScalar * d.c[x]) % Modulus
         /\ \A k \in Kernels : Run(k, d) = [n \in {"a", "b", "c"} |-> Run(k, d)[n]]
<1>1. /\ Run("read", d) = d /\ Run("dot", d) = d /\ Run("write", d) = write(d)
      /\ Run("copy", d) = copy(d) /\ Run("mul", d) = mul(d) /\ Run("add", d) = add(d)
      /\ Run("triad", d) = triad(d)
  BY DEF Run
<1>2. write(d).a = d.a /\ write(d).b = d.b /\ write(d) = [n \in {"a", "b", "c"} |-> write(d)[n]]
  BY DEF write
<1>3. /\ copy(d).a = d.a /\ copy(d).b = d.b /\ copy(d) = [n \in {"a", "b", "c"} |-> copy(d)[n]]
      /\ copy(d).c = Stored(d.c, d.a)
  BY DEF copy
<1>4. /\ mul(d).a = d.a /\ mul(d).c = d.c /\ mul(d) = [n \in {"a", "b", "c"} |-> mul(d)[n]]
      /\ mul(d).b = Stored(d.b, [x \in Indices |-> startScalar * d.c[x]])
  BY DEF mul
<1>5. /\ add(d).a = d.a /\ add(d).b = d.b /\ add(d) = [n \in {"a", "b", "c"} |-> add(d)[n]]
      /\ add(d).c = Stored(d.c, [x \in Indices |-> d.a[x] + d.b[x]])
  BY DEF add
<1>6. /\ triad(d).b = d.b /\ triad(d).c = d.c
      /\ triad(d) = [n \in {"a", "b", "c"} |-> triad(d)[n]]
      /\ triad(d).a = Stored(d.a, [x \in Indices |-> d.b[x] + startScalar * d.c[x]])
  BY DEF triad
<1>7. \A old, v : \A x \in Indices : Stored(old, v)[x] = v[x] % Modulus
  BY DEF Stored
<1>8. \A k \in Kernels : Run(k, d) = [n \in {"a", "b", "c"} |-> Run(k, d)[n]]
  <2>. TAKE k \in Kernels
  <2>1. k \in {"read", "dot"} \/ k \in {"write", "copy", "mul"} \/ k \in {"add", "triad"}
    BY DEF Kernels
  <2>. QED  BY <1>1, <1>2, <1>3, <1>4, <1>5, <1>6, <2>1
<1>9. \A x \in Indices : Run("copy", d).c[x] = d.a[x] % Modulus
  BY <1>1, <1>3, <1>7
<1>10. \A x \in Indices : Run("mul", d).b[x] = (startScalar * d.c[x]) % Modulus
  BY <1>1, <1>4, <1>7
<1>11. \A x \in Indices : Run("add", d).c[x] = (d.a[x] + d.b[x]) % Modulus
  BY <1>1, <1>5, <1>7
<1>12. \A x \in Indices : Run("triad", d).a[x] = (d.b[x] + startScalar * d.c[x]) % Modulus
  BY <1>1, <1>6, <1>7
<1>13. Run("write", d).a = d.a /\ Run("write", d).b = d.b
  BY <1>1, <1>2
<1>14. /\ Run("copy", d).a = d.a /\ Run("copy", d).b = d.b
       /\ Run("mul", d).a = d.a /\ Run("mul", d).c = d.c
  BY <1>1, <1>3, <1>4
<1>15. /\ Run("add", d).a = d.a /\ Run("add", d).b = d.b
       /\ Run("triad", d).b = d.b /\ Run("triad", d).c = d.c
  BY <1>1, <1>5, <1>6
<1>. QED  BY <1>1, <1>8, <1>9, <1>10, <1>11, <1>12, <1>13, <1>14, <1>15

\* One kernel further, the next place or the next iteration.
LEMMA KernelGoesOn ==
  ASSUME bconf \in BabelConfs, bconf.type \in 1..4, Golds, Touched = Indices,
         NEW g \in Residues, NEW d, d = [n \in {"a", "b", "c"} |-> d[n]],
         NEW s \in 1..7, s = 1 \/ bconf.type \notin {3, 4}, Between(d, s, g),
         NEW k \in From(s), \A i \in From(s) : k <= i
  PROVE  /\ From(k + 1) = {} => Between(Run(Order[k], d), 1, Golden(g))
         /\ From(k + 1) # {} => Between(Run(Order[k], d), k + 1, g) /\ bconf.type \notin {3, 4}
<1>. DEFINE h == Golden(g)
            M == Modulus
<1>1. /\ Order[1] = "read" /\ Order[2] = "write" /\ Order[3] = "copy" /\ Order[4] = "mul"
      /\ Order[5] = "add" /\ Order[6] = "triad" /\ Order[7] = "dot" /\ Len(Order) = 7
  BY DEF Order
<1>2. \A i, j : i \in From(j) <=> i \in j..7 /\ Order[i] \in Subtests
  BY <1>1 DEF From
<1>3. M \in Nat /\ M > 5 /\ g.a \in 0..(M - 1)
  BY BabelConfIs DEF Residues
<1>4. g.a % M = g.a
  BY <1>3
<1>5. k \in s..7 /\ Order[k] \in Subtests
  BY <1>2
<1>6. \A x \in Indices :
        /\ d.a[x] = IF s = 7 THEN h.a ELSE g.a
        /\ s = 1 => d.b[x] = g.b /\ d.c[x] = g.c
        /\ s = 4 => d.c[x] = g.a
        /\ s \in {5, 6, 7} => d.b[x] = h.b
        /\ s \in {6, 7} => d.c[x] = h.c
  BY DEF Between
<1>7. CASE bconf.type \in {3, 4}
  <2>1. Subtests = {"triad"} /\ s = 1
    BY <1>7 DEF Subtests
  <2>2. k = 6 /\ From(k + 1) = {}
    BY <1>1, <1>2, <1>5, <2>1
  <2>3. h.b = g.b /\ h.c = g.c /\ h.a = (g.b + startScalar * g.c) % M
    BY <1>7, GoldenIs
  <2>. DEFINE e == Run("triad", d)
  <2>4. /\ e.b = d.b /\ e.c = d.c
        /\ \A x \in Indices : e.a[x] = (d.b[x] + startScalar * d.c[x]) % M
    BY KernelsAre
  <2>. HIDE DEF e, h
  <2>5. \A x \in Indices : e.a[x] = h.a /\ e.b[x] = h.b /\ e.c[x] = h.c
    BY <1>6, <2>1, <2>3, <2>4
  <2>6. Between(e, 1, h)
    BY <2>5 DEF Between
  <2>. QED  BY <1>1, <2>2, <2>6 DEF e, h
<1>8. CASE bconf.type \notin {3, 4}
  <2>1. Subtests = bconf.tests /\ {"copy", "mul", "add", "triad"} \subseteq Subtests
    BY <1>8 DEF Subtests, Golds
  <2>2. \A i \in 3..6 : Order[i] \in Subtests
    BY <1>1, <2>1
  <2>3. /\ s <= 3 => k <= 3
        /\ s \in 4..6 => k = s
        /\ s = 7 => k = 7
    <3>1. \A i \in 3..6 : s <= i => k <= i
      BY <1>2, <2>2
    <3>. QED  BY <1>5, <3>1
  <2>4. k <= 5 => From(k + 1) # {}
    <3>1. k <= 5 => 6 \in From(k + 1)
      BY <1>2, <1>5, <2>2
    <3>. QED  BY <3>1
  <2>5. /\ h.b = (startScalar * g.a) % M /\ h.c = (g.a + h.b) % M
        /\ h.a = (h.b + startScalar * h.c) % M
    BY <1>8, GoldenIs
  <2>. HIDE DEF h
  <2>. DEFINE e == Run(Order[k], d)
  <2>6. CASE k = 1
    <3>1. e = d /\ s = 1
      BY <1>1, <1>5, <2>6, KernelsAre
    <3>2. Between(e, 2, g)
      BY <1>6, <3>1 DEF Between
    <3>. QED  BY <1>8, <2>4, <2>6, <3>2
  <2>7. CASE k = 2
    <3>1. e.a = d.a /\ s # 7
      BY <1>1, <1>5, <2>7, KernelsAre
    <3>2. Between(e, 3, g)
      BY <1>6, <3>1 DEF Between
    <3>. QED  BY <1>8, <2>4, <2>7, <3>2
  <2>8. CASE k = 3
    <3>1. e.a = d.a /\ s # 7 /\ \A x \in Indices : e.c[x] = d.a[x] % M
      BY <1>1, <1>5, <2>8, KernelsAre
    <3>2. \A x \in Indices : e.a[x] = g.a /\ e.c[x] = g.a
      BY <1>4, <1>6, <3>1
    <3>3. Between(e, 4, g)
      BY <3>2 DEF Between
    <3>. QED  BY <1>8, <2>4, <2>8, <3>3
  <2>9. CASE k = 4
    <3>1. s = 4
      BY <1>5, <2>3, <2>9
    <3>2. e.a = d.a /\ \A x \in Indices : e.b[x] = (startScalar * d.c[x]) % M
      BY <1>1, <2>9, KernelsAre
    <3>3. \A x \in Indices : e.a[x] = g.a /\ e.b[x] = h.b
      BY <1>6, <2>5, <3>1, <3>2
    <3>4. Between(e, 5, g)
      BY <3>3 DEF Between, h
    <3>. QED  BY <1>8, <2>4, <2>9, <3>4
  <2>10. CASE k = 5
    <3>1. s = 5
      BY <1>5, <2>3, <2>10
    <3>2. e.a = d.a /\ e.b = d.b /\ \A x \in Indices : e.c[x] = (d.a[x] + d.b[x]) % M
      BY <1>1, <2>10, KernelsAre
    <3>3. \A x \in Indices : e.a[x] = g.a /\ e.b[x] = h.b /\ e.c[x] = h.c
      BY <1>6, <2>5, <3>1, <3>2
    <3>4. Between(e, 6, g)
      BY <3>3 DEF Between, h
    <3>. QED  BY <1>8, <2>4, <2>10, <3>4
  <2>11. CASE k = 6
    <3>1. s = 6
      BY <1>5, <2>3, <2>11
    <3>2. /\ e.b = d.b /\ e.c = d.c
          /\ \A x \in Indices : e.a[x] = (d.b[x] + startScalar * d.c[x]) % M
      BY <1>1, <2>11, KernelsAre
    <3>3. \A x \in Indices : e.a[x] = h.a /\ e.b[x] = h.b /\ e.c[x] = h.c
      BY <1>6, <2>5, <3>1, <3>2
    <3>4. Between(e, 7, g) /\ Between(e, 1, h)
      BY <3>3 DEF Between, h
    <3>. QED  BY <1>8, <2>11, <3>4 DEF h
  <2>12. CASE k = 7
    <3>1. e = d /\ s = 7
      BY <1>1, <1>5, <2>3, <2>12, KernelsAre
    <3>2. From(k + 1) = {}
      BY <1>2, <2>12
    <3>3. \A x \in Indices : e.a[x] = h.a /\ e.b[x] = h.b /\ e.c[x] = h.c
      BY <1>6, <3>1
    <3>4. Between(e, 1, h)
      BY <3>3 DEF Between
    <3>. QED  BY <3>2, <3>4 DEF h
  <2>13. k \in 1..7
    BY <1>5
  <2>. QED  BY <2>6, <2>7, <2>8, <2>9, <2>10, <2>11, <2>12, <2>13
<1>. QED  BY <1>7, <1>8

-----------------------------------------------------------------------------
(* The steps of the streams and of the action.                             *)

\* The measure of a worker whose place, counts and rates stay.
LEMMA MeasuredStill ==
  ASSUME bconf' = bconf, NEW w \in Workers, Measured(w), rates'[w] = rates[w],
         iter'[w] = iter[w], bpc'[w] = "done" => bpc[w] = "done", bresult'[w] = bresult[w]
  PROVE  Measured(w)'
BY DEF Measured

LEMMA StreamingStill ==
  ASSUME bconf' = bconf, NEW w \in Workers, Streaming(w), rates'[w] = rates[w],
         iter'[w] = iter[w], step'[w] = step[w], arrays'[w] = arrays[w]
  PROVE  Streaming(w)'
BY BabelSame DEF Streaming

\* What the streams of the other workers hold stays.
LEMMA OthersStill ==
  ASSUME BabelInv, bconf' = bconf, NEW w \in Workers, NEW v \in Workers, v # w,
         bpc'[v] = bpc[v], rates'[v] = rates[v], iter'[v] = iter[v], step'[v] = step[v],
         arrays'[v] = arrays[v], bresult'[v] = bresult[v]
  PROVE  (bpc'[v] = "run" => Streaming(v)') /\ Measured(v)'
BY MeasuredStill, StreamingStill DEF BabelInv

LEMMA InsideStill ==
  ASSUME KernelsInside, bconf' = bconf, wild' = wild
  PROVE  KernelsInside'
<1>1. elements_per_lane' = elements_per_lane
  BY DEF elements_per_lane, Size
<1>. QED  BY <1>1 DEF KernelsInside

LEMMA NewStreamKeeps == ASSUME BabelInv, NEW w \in Workers, NewStream(w) PROVE BabelInv'
<1>1. BabelTypes /\ bconf' = bconf /\ bpc[w] = "new"
      /\ UNCHANGED <<bconf, bmain, bround, babelStop, babelStatus>>
  BY DEF BabelInv, NewStream
<1>2. CASE bconf.type \notin 1..4
  <2>1. /\ bpc' = [bpc EXCEPT ![w] = "done"] /\ bresult' = [bresult EXCEPT ![w] = FALSE]
        /\ UNCHANGED <<arrays, step, iter, samples, wild, buffers, rates, terminated>>
    BY <1>2 DEF NewStream
  <2>2. BabelTypes'
    BY <1>1, <2>1 DEF BabelTypes
  <2>3. Measured(w)'
    BY <1>1, <2>1 DEF Measured, BabelTypes, BabelInv
  <2>4. \A v \in Workers : (bpc'[v] = "run" => Streaming(v)') /\ Measured(v)'
    <3>1. \A v \in Workers : v # w => (bpc'[v] = "run" => Streaming(v)') /\ Measured(v)'
      BY <1>1, <2>1, OthersStill DEF BabelTypes
    <3>2. bpc'[w] # "run"
      BY <1>1, <2>1 DEF BabelTypes
    <3>. QED  BY <2>3, <3>1, <3>2
  <2>5. babelStatus = "success" =>
          bmain = "end" /\ \A v \in bconf.gpus : bpc'[v] = "done" /\ bresult'[v]
    BY <1>1, <2>1, BabelConfIs DEF BabelInv, BabelTypes
  <2>. QED  BY <1>1, <2>1, <2>2, <2>4, <2>5, InsideStill DEF BabelInv
<1>3. CASE bconf.type \in 1..4 /\ Throws(w)
  <2>1. UNCHANGED <<bpc, arrays, step, iter, samples, wild, buffers, rates, bresult>>
    BY <1>3 DEF NewStream
  <2>2. BabelTypes'
    BY <1>1, <2>1 DEF BabelTypes
  <2>3. \A v \in Workers : (bpc'[v] = "run" => Streaming(v)') /\ Measured(v)'
    BY <1>1, <2>1, StreamingStill, MeasuredStill DEF BabelInv
  <2>. QED  BY <1>1, <2>1, <2>2, <2>3, InsideStill DEF BabelInv
<1>4. CASE bconf.type \in 1..4 /\ ~Throws(w)
  <2>. DEFINE d == [n \in {"a", "b", "c"} |-> [x \in Indices |-> InitialValue(n)]]
  <2>1. /\ bpc' = [bpc EXCEPT ![w] = "run"] /\ buffers' = [buffers EXCEPT ![w] = Buffers]
        /\ arrays' = [arrays EXCEPT ![w] = d]
        /\ step' = [step EXCEPT ![w] = 1] /\ iter' = [iter EXCEPT ![w] = 0]
        /\ samples' = [samples EXCEPT ![w] = 0] /\ rates' = [rates EXCEPT ![w] = "none"]
        /\ UNCHANGED <<wild, bresult, terminated>>
    BY <1>4 DEF NewStream
  <2>2. BabelTypes'
    <3>1. bpc' \in [Workers -> {"idle", "new", "run", "done"}] /\ step' \in [Workers -> 1..7]
      BY <1>1, <2>1 DEF BabelTypes
    <3>2. iter' \in [Workers -> Nat] /\ samples' = iter'
      BY <1>1, <2>1 DEF BabelTypes
    <3>3. rates' \in [Workers -> {"none", "number", "undefined"}]
      BY <1>1, <2>1 DEF BabelTypes
    <3>4. arrays' = [v \in Workers |-> arrays'[v]]
      BY <1>1, <2>1 DEF BabelTypes
    <3>5. buffers' = [v \in Workers |-> IF bpc'[v] = "run" THEN Buffers ELSE {}]
      BY <1>1, <2>1 DEF BabelTypes
    <3>. QED  BY <1>1, <2>1, <3>1, <3>2, <3>3, <3>4, <3>5 DEF BabelTypes
  <2>3. Golds => Between(d, 1, Gold[0])
    <3>. SUFFICES ASSUME Golds PROVE Between(d, 1, Gold[0])
      OBVIOUS
    <3>1. Gold[0] = [a |-> startA, b |-> startB, c |-> startC]
      BY <1>1, GoldIs DEF BabelTypes
    <3>2. InitialValue("a") = startA /\ InitialValue("b") = startB /\ InitialValue("c") = startC
      BY DEF InitialValue, Golds
    <3>3. \A x \in Indices : d.a[x] = startA /\ d.b[x] = startB /\ d.c[x] = startC
      BY <3>2
    <3>. HIDE DEF d
    <3>. QED  BY <3>1, <3>3 DEF Between
  <2>4. arrays'[w] = d /\ step'[w] = 1 /\ iter'[w] = 0 /\ rates'[w] = "none" /\ bpc'[w] = "run"
    BY <1>1, <2>1 DEF BabelTypes
  <2>5. d = [n \in {"a", "b", "c"} |-> d[n]]
    OBVIOUS
  <2>. HIDE DEF d
  <2>6. Streaming(w)'
    <3>1. bconf.num_iter \in Nat /\ bconf.timed \in BOOLEAN
      BY <1>1, BabelConfIs DEF BabelTypes
    <3>2. (Golds => Between(arrays[w], step[w], Gold[iter[w]]))'
      BY <1>1, <2>3, <2>4, BabelSame
    <3>3. ~Throws(w)'
      BY <1>1, <1>4, BabelSame
    <3>. QED  BY <1>1, <1>4, <2>4, <2>5, <3>1, <3>2, <3>3 DEF Streaming
  <2>7. Measured(w)'
    BY <2>4 DEF Measured
  <2>8. \A v \in Workers : v # w => (bpc'[v] = "run" => Streaming(v)') /\ Measured(v)'
    BY <1>1, <2>1, OthersStill DEF BabelTypes
  <2>9. babelStatus = "success" =>
          bmain = "end" /\ \A v \in bconf.gpus : bpc'[v] = "done" /\ bresult'[v]
    BY <1>1, <2>1, BabelConfIs DEF BabelInv, BabelTypes
  <2>. QED  BY <1>1, <2>1, <2>2, <2>6, <2>7, <2>8, <2>9, InsideStill DEF BabelInv
<1>. QED  BY <1>2, <1>3, <1>4

\* What a stream counts.
LEMMA CountIs ==
  ASSUME BabelTypes, NEW w \in Workers, CountIteration(w)
  PROVE  /\ step' \in [Workers -> 1..7] /\ iter' \in [Workers -> Nat] /\ samples' = iter'
         /\ step'[w] = 1 /\ iter'[w] = iter[w] + 1
         /\ \A v \in Workers : v # w => step'[v] = step[v] /\ iter'[v] = iter[v]
BY DEF BabelTypes, CountIteration

LEMMA RunKernelKeeps == ASSUME BabelInv, NEW w \in Workers, RunKernel(w) PROVE BabelInv'
<1>1. /\ UNCHANGED <<bconf, bpc, buffers, rates, bresult, terminated, bmain, bround, babelStop,
                     babelStatus>>
      /\ bpc[w] = "run" /\ (step[w] = 1 => MayGoOn(w))
  BY DEF RunKernel
<1>2. BabelTypes /\ Streaming(w) /\ step[w] \in 1..7 /\ iter[w] \in Nat
  BY <1>1 DEF BabelInv, BabelTypes
<1>3. PICK k \in From(step[w]) :
        /\ \A i \in From(step[w]) : k <= i
        /\ arrays' = [arrays EXCEPT ![w] = Run(Order[k], @)]
        /\ wild' = IF Touched \subseteq Indices THEN wild ELSE wild \cup {w}
        /\ IF From(k + 1) = {} THEN CountIteration(w)
           ELSE step' = [step EXCEPT ![w] = k + 1] /\ UNCHANGED <<iter, samples>>
  BY DEF RunKernel
<1>4. k \in 1..7 /\ (From(k + 1) # {} => k + 1 \in 1..7)
  BY <1>2 DEF From, Order
<1>5. ~Throws(w) /\ bconf \in BabelConfs /\ bconf.type \in 1..4
  BY <1>2 DEF Streaming, BabelTypes
<1>6. KernelsInside'
  <2>1. elements_per_lane' = elements_per_lane
    BY <1>1 DEF elements_per_lane, Size
  <2>2. <<elements_per_lane, bconf.chunks>> \in Compiled
          \/ elements_per_lane * bconf.chunks >= 8 => wild' = wild
    BY <1>3, <1>5, TouchedAre
  <2>. QED  BY <1>1, <2>1, <2>2 DEF BabelInv, KernelsInside
<1>7. arrays'[w] = Run(Order[k], arrays[w])
  BY <1>2, <1>3 DEF BabelTypes
<1>8. /\ step' \in [Workers -> 1..7] /\ iter' \in [Workers -> Nat] /\ samples' = iter'
      /\ From(k + 1) = {} => step'[w] = 1 /\ iter'[w] = iter[w] + 1
      /\ From(k + 1) # {} => step'[w] = k + 1 /\ iter'[w] = iter[w]
      /\ \A v \in Workers : v # w => step'[v] = step[v] /\ iter'[v] = iter[v]
  <2>1. CASE From(k + 1) = {}
    BY <1>2, <1>3, <2>1, CountIs
  <2>2. CASE From(k + 1) # {}
    BY <1>2, <1>3, <1>4, <2>2 DEF BabelTypes
  <2>. QED  BY <2>1, <2>2
<1>9. \A v \in Workers : v # w => arrays'[v] = arrays[v]
  BY <1>2, <1>3 DEF BabelTypes
<1>10. arrays' = [v \in Workers |-> arrays'[v]]
  BY <1>2, <1>3 DEF BabelTypes
<1>11. BabelTypes'
  BY <1>1, <1>2, <1>8, <1>10 DEF BabelTypes
<1>12. Streaming(w)'
  <2>1. arrays'[w] = [n \in {"a", "b", "c"} |-> arrays'[w][n]]
    <3>1. Order[k] \in {"read", "write", "copy", "mul", "add", "triad", "dot"}
      BY <1>4 DEF Order
    <3>2. arrays[w] = [n \in {"a", "b", "c"} |-> arrays[w][n]]
      BY <1>2 DEF Streaming
    <3>. QED  BY <1>7, <3>1, <3>2 DEF Run, write, copy, mul, add, triad
  <2>2. ~bconf.timed => iter[w] < bconf.num_iter
    BY <1>1, <1>2 DEF Streaming, MayGoOn
  <2>3. ~bconf.timed => /\ iter'[w] <= bconf.num_iter
                        /\ step'[w] # 1 => iter'[w] < bconf.num_iter
    <3>1. bconf.num_iter \in Nat
      BY <1>5, BabelConfIs
    <3>. QED  BY <1>2, <1>8, <2>2, <3>1
  <2>4. From(k + 1) # {} => bconf.type \notin {3, 4}
    <3>1. CASE bconf.type \in {3, 4}
      <4>1. Subtests = {"triad"}
        BY <3>1 DEF Subtests
      <4>2. \A i \in 1..7 : Order[i] = "triad" => i = 6
        BY DEF Order
      <4>3. \A i, j : i \in From(j) <=> i \in j..7 /\ Order[i] \in Subtests
        BY DEF From, Order
      <4>4. k = 6
        BY <1>4, <4>1, <4>2, <4>3
      <4>5. From(7) = {}
        BY <4>1, <4>2, <4>3
      <4>. QED  BY <4>4, <4>5
    <3>. QED  BY <3>1
  <2>5. step'[w] = 1 \/ (bconf.type \notin {3, 4} /\ From(step'[w]) # {})
    BY <1>8, <2>4
  <2>6. ASSUME Golds PROVE Between(arrays'[w], step'[w], Gold[iter'[w]])
    <3>1. Touched = Indices
      BY <1>5, <2>6, TouchedAre DEF Golds
    <3>2. Gold[iter[w]] \in Residues /\ Gold[iter[w] + 1] = Golden(Gold[iter[w]])
      BY <1>2, <1>5, GoldIs
    <3>3. /\ arrays[w] = [n \in {"a", "b", "c"} |-> arrays[w][n]]
          /\ Between(arrays[w], step[w], Gold[iter[w]])
          /\ step[w] = 1 \/ bconf.type \notin {3, 4}
      BY <1>2, <2>6 DEF Streaming
    <3>4. /\ From(k + 1) = {} =>
               Between(Run(Order[k], arrays[w]), 1, Golden(Gold[iter[w]]))
          /\ From(k + 1) # {} => Between(Run(Order[k], arrays[w]), k + 1, Gold[iter[w]])
      BY ONLY <1>2, <1>3, <1>5, <2>6, <3>1, <3>2, <3>3, KernelGoesOn
    <3>. QED  BY <1>7, <1>8, <3>2, <3>4
  <2>7. (Golds => Between(arrays[w], step[w], Gold[iter[w]]))'
    BY <1>1, <2>6, BabelSame
  <2>8. ~Throws(w)' /\ From(step[w])' = From(step'[w])
    BY <1>1, <1>5, BabelSame
  <2>9. rates[w] = "none"
    BY <1>2 DEF Streaming
  <2>. QED  BY <1>1, <1>5, <2>1, <2>3, <2>5, <2>7, <2>8, <2>9 DEF Streaming
<1>13. Measured(w)'
  BY <1>1, <1>2 DEF Measured, Streaming
<1>14. \A v \in Workers : v # w => (bpc'[v] = "run" => Streaming(v)') /\ Measured(v)'
  BY <1>1, <1>8, <1>9, OthersStill
<1>. QED  BY <1>1, <1>6, <1>11, <1>12, <1>13, <1>14 DEF BabelInv

LEMMA RunNoneKeeps == ASSUME BabelInv, NEW w \in Workers, RunNone(w) PROVE BabelInv'
<1>1. /\ UNCHANGED <<bconf, bpc, arrays, wild, buffers, rates, bresult, bmain, babelStatus>>
      /\ bpc[w] = "run" /\ MayGoOn(w) /\ From(1) = {} /\ CountIteration(w)
  BY DEF RunNone, AtTop
<1>2. BabelTypes /\ Streaming(w)
  BY <1>1 DEF BabelInv
<1>3. /\ step' \in [Workers -> 1..7] /\ iter' \in [Workers -> Nat] /\ samples' = iter'
      /\ step'[w] = 1 /\ iter'[w] = iter[w] + 1
      /\ \A v \in Workers : v # w => step'[v] = step[v] /\ iter'[v] = iter[v]
  BY <1>1, <1>2, CountIs
<1>4. BabelTypes'
  BY <1>1, <1>2, <1>3 DEF BabelTypes
<1>5. ~Golds
  <2>. SUFFICES ASSUME Golds PROVE FALSE
    OBVIOUS
  <2>1. "triad" \in Subtests
    BY DEF Golds, Subtests
  <2>2. 6 \in From(1)
    BY <2>1 DEF From, Order
  <2>. QED  BY <1>1, <2>2
<1>6. Streaming(w)'
  <2>1. ~bconf.timed => iter'[w] <= bconf.num_iter
    <3>1. bconf.num_iter \in Nat /\ iter[w] \in Nat
      BY <1>2, BabelConfIs DEF BabelTypes
    <3>. QED  BY <1>1, <1>3, <3>1 DEF MayGoOn
  <2>2. ~Golds' /\ ~Throws(w)'
    BY <1>1, <1>2, <1>5, BabelSame DEF Streaming
  <2>. QED  BY <1>1, <1>2, <1>3, <2>1, <2>2 DEF Streaming
<1>7. Measured(w)'
  BY <1>1, <1>2 DEF Measured, Streaming
<1>8. \A v \in Workers : v # w => (bpc'[v] = "run" => Streaming(v)') /\ Measured(v)'
  BY <1>1, <1>3, OthersStill
<1>. QED  BY <1>1, <1>4, <1>6, <1>7, <1>8, InsideStill DEF BabelInv

LEMMA EndStreamKeeps == ASSUME BabelInv, NEW w \in Workers, EndStream(w) PROVE BabelInv'
<1>1. /\ UNCHANGED <<bconf, arrays, step, iter, samples, wild, bmain, babelStatus>>
      /\ bpc[w] = "run" /\ step[w] = 1 /\ MayEnd(w)
      /\ rates' = [rates EXCEPT ![w] = Rate(w)]
      /\ buffers' = [buffers EXCEPT ![w] = @ \ Freed]
      /\ bresult' = [bresult EXCEPT ![w] = TRUE]
      /\ bpc' = [bpc EXCEPT ![w] = "done"]
  BY DEF EndStream, AtTop
<1>2. BabelTypes /\ Streaming(w)
  BY <1>1 DEF BabelInv
<1>3. Rate(w) \in {"number", "undefined"}
  BY DEF Rate
<1>4. /\ bpc'[w] = "done" /\ rates'[w] = Rate(w)
      /\ \A v \in Workers : v # w => bpc'[v] = bpc[v] /\ rates'[v] = rates[v]
                                     /\ bresult'[v] = bresult[v]
  BY <1>1, <1>2 DEF BabelTypes
<1>5. BabelTypes'
  <2>1. bpc' \in [Workers -> {"idle", "new", "run", "done"}] /\ bresult' \in [Workers -> BOOLEAN]
    BY <1>1, <1>2 DEF BabelTypes
  <2>2. rates' \in [Workers -> {"none", "number", "undefined"}]
    BY <1>1, <1>2, <1>3 DEF BabelTypes
  <2>3. buffers' = [v \in Workers |-> IF bpc'[v] = "run" THEN Buffers ELSE {}]
    <3>1. buffers[w] \ Freed = {}
      BY <1>1, <1>2 DEF BabelTypes, Freed, Buffers
    <3>2. bpc \in [Workers -> {"idle", "new", "run", "done"}]
      BY <1>2 DEF BabelTypes
    <3>. QED  BY <1>1, <1>2, <3>1, <3>2 DEF BabelTypes
  <2>. QED  BY <1>1, <1>2, <2>1, <2>2, <2>3 DEF BabelTypes
<1>6. Measured(w)'
  <2>1. bconf.type \in 1..4
    BY <1>2 DEF Streaming
  <2>2. ASSUME ~bconf.timed PROVE Rate(w) = "number" /\ iter[w] = bconf.num_iter
    <3>1. bconf.num_iter \in Nat /\ bconf.num_iter >= 2 /\ iter[w] \in Nat
      BY <1>2, BabelConfIs DEF BabelTypes
    <3>2. iter[w] <= bconf.num_iter /\ ~(iter[w] < bconf.num_iter)
      BY <1>1, <1>2, <2>2 DEF Streaming, MayEnd, MayGoOn
    <3>3. iter[w] = bconf.num_iter
      BY <3>1, <3>2
    <3>4. samples[w] >= 2
      BY <1>2, <3>1, <3>3 DEF BabelTypes
    <3>. QED  BY <3>3, <3>4 DEF Rate
  <2>. QED  BY <1>1, <1>3, <1>4, <2>1, <2>2 DEF Measured
<1>7. \A v \in Workers : v # w => (bpc'[v] = "run" => Streaming(v)') /\ Measured(v)'
  BY <1>1, <1>4, OthersStill
<1>8. babelStatus = "success" =>
        bmain = "end" /\ \A v \in bconf.gpus : bpc'[v] = "done" /\ bresult'[v]
  BY <1>1, <1>2, BabelConfIs DEF BabelInv, BabelTypes
<1>. QED  BY <1>1, <1>4, <1>5, <1>6, <1>7, <1>8, InsideStill DEF BabelInv

LEMMA BabelStartKeeps == ASSUME BabelInv, BabelStart PROVE BabelInv'
<1>1. /\ UNCHANGED <<bconf, arrays, step, iter, samples, wild, buffers, rates, bresult,
                     babelStatus>>
      /\ bmain = "start"
  BY DEF BabelStart
<1>2. PICK S \in SUBSET Idle : bpc' = [w \in Workers |-> IF w \in S THEN "new" ELSE bpc[w]]
  <2>. DEFINE S == {w \in Idle : bconf.parallel \/ \A v \in Idle : w <= v}
  <2>1. bpc' = [w \in Workers |-> IF w \in S THEN "new" ELSE bpc[w]]
    BY DEF BabelStart
  <2>. QED  BY <2>1
<1>3. \A w \in Workers : bpc'[w] = bpc[w] \/ (bpc[w] = "idle" /\ bpc'[w] = "new")
  BY <1>2 DEF Idle
<1>4. BabelTypes
  BY DEF BabelInv
<1>5. BabelTypes'
  <2>1. bpc' \in [Workers -> {"idle", "new", "run", "done"}]
    BY <1>2, <1>4 DEF BabelTypes
  <2>2. buffers' = [w \in Workers |-> IF bpc'[w] = "run" THEN Buffers ELSE {}]
    BY <1>1, <1>3, <1>4 DEF BabelTypes
  <2>3. \A w \in Workers : bpc'[w] # "idle" => w \in bconf.gpus
    BY <1>2, <1>4 DEF BabelTypes, Idle
  <2>. QED  BY <1>1, <1>4, <2>1, <2>2, <2>3 DEF BabelTypes
<1>6. \A w \in Workers : (bpc'[w] = "run" => Streaming(w)') /\ Measured(w)'
  <2>. TAKE w \in Workers
  <2>1. (bpc'[w] = "run" => bpc[w] = "run") /\ (bpc'[w] = "done" => bpc[w] = "done")
    BY <1>3
  <2>2. (bpc[w] = "run" => Streaming(w)) /\ Measured(w)
    BY DEF BabelInv
  <2>. QED  BY <1>1, <2>1, <2>2, StreamingStill, MeasuredStill
<1>7. babelStatus # "success"
  BY <1>1 DEF BabelInv
<1>. QED  BY <1>1, <1>5, <1>6, <1>7, InsideStill DEF BabelInv

LEMMA BabelJoinKeeps == ASSUME BabelInv, BabelJoin PROVE BabelInv'
<1>1. /\ UNCHANGED <<bconf, arrays, step, iter, samples, wild, buffers, rates, bresult>>
      /\ bmain = "join" /\ \A w \in bconf.gpus : bpc[w] \in {"idle", "done"}
  BY DEF BabelJoin
<1>2. BabelTypes /\ babelStatus # "success"
  BY <1>1 DEF BabelInv
<1>3. bconf.gpus \subseteq Workers
  BY <1>2, BabelConfIs DEF BabelTypes
<1>4. \/ bpc' = bpc /\ babelStatus' \in {babelStatus, "failed"}
      \/ /\ bpc' = bpc /\ Idle = {} /\ bmain' = "end"
         /\ babelStatus' = IF AllGood THEN "success" ELSE "failed"
      \/ /\ bpc' = [w \in Workers |-> "idle"] /\ Idle = {} /\ babelStatus' = babelStatus
  BY DEF BabelJoin
<1>5. ASSUME NEW w \in Workers
      PROVE  /\ bpc'[w] = "run" => bpc[w] = "run"
             /\ bpc'[w] = "done" => bpc[w] = "done"
  BY <1>4
<1>6. \A w \in Workers : (bpc'[w] = "run" => Streaming(w)') /\ Measured(w)'
  <2>. TAKE w \in Workers
  <2>1. (bpc[w] = "run" => Streaming(w)) /\ Measured(w)
    BY DEF BabelInv
  <2>. QED  BY <1>1, <1>5, <2>1, StreamingStill, MeasuredStill
<1>7. BabelTypes'
  <2>1. bpc' \in [Workers -> {"idle", "new", "run", "done"}]
    BY <1>2, <1>4 DEF BabelTypes
  <2>2. \A w \in Workers : bpc'[w] = "run" <=> bpc[w] = "run"
    <3>1. CASE bpc' = bpc
      BY <3>1
    <3>2. CASE bpc' = [w \in Workers |-> "idle"]
      BY <1>1, <1>2, <3>2 DEF BabelTypes
    <3>. QED  BY <1>4, <3>1, <3>2
  <2>3. buffers' = [w \in Workers |-> IF bpc'[w] = "run" THEN Buffers ELSE {}]
    BY <1>1, <1>2, <2>2 DEF BabelTypes
  <2>4. \A w \in Workers : bpc'[w] # "idle" => w \in bconf.gpus
    BY <1>2, <1>4 DEF BabelTypes
  <2>. QED  BY <1>1, <1>2, <2>1, <2>3, <2>4 DEF BabelTypes
<1>8. babelStatus' = "success" =>
        bmain' = "end" /\ \A w \in bconf.gpus : bpc'[w] = "done" /\ bresult[w]
  BY <1>1, <1>2, <1>4 DEF AllGood, Idle
<1>. QED  BY <1>1, <1>6, <1>7, <1>8, InsideStill DEF BabelInv

LEMMA BabelStarts == ASSUME BabelInit PROVE BabelInv
<1>1. /\ bconf \in BabelConfs /\ bpc = [w \in Workers |-> "idle"]
      /\ arrays = [w \in Workers |-> <<>>] /\ step = [w \in Workers |-> 1]
      /\ iter = [w \in Workers |-> 0] /\ samples = [w \in Workers |-> 0]
      /\ wild = {} /\ buffers = [w \in Workers |-> {}]
      /\ rates = [w \in Workers |-> "none"] /\ bresult = [w \in Workers |-> FALSE]
      /\ babelStatus = "none"
  BY DEF BabelInit, BabelBegin
<1>2. BabelTypes
  BY <1>1 DEF BabelTypes
<1>3. KernelsInside
  BY <1>1 DEF KernelsInside
<1>4. \A w \in Workers : bpc[w] # "run" /\ Measured(w)
  BY <1>1 DEF Measured
<1>. QED  BY <1>1, <1>2, <1>3, <1>4 DEF BabelInv

LEMMA BabelKeeps == ASSUME BabelInv, [BabelNext]_babelVars PROVE BabelInv'
<1>1. CASE BabelStart
  BY <1>1, BabelStartKeeps
<1>2. CASE BabelJoin
  BY <1>2, BabelJoinKeeps
<1>3. CASE AskBabelStop \/ BabelStutters \/ UNCHANGED babelVars
  <2>1. /\ UNCHANGED <<bconf, bpc, arrays, step, iter, samples, wild, buffers, rates, bresult>>
        /\ UNCHANGED <<bmain, babelStatus>>
    BY <1>3 DEF AskBabelStop, BabelStutters, babelVars, streamVars
  <2>2. BabelTypes'
    BY <2>1 DEF BabelInv, BabelTypes
  <2>3. \A w \in Workers : (bpc'[w] = "run" => Streaming(w)') /\ Measured(w)'
    BY <2>1, StreamingStill, MeasuredStill DEF BabelInv
  <2>. QED  BY <2>1, <2>2, <2>3, InsideStill DEF BabelInv
<1>4. CASE \E w \in Workers : NewStream(w) \/ RunKernel(w) \/ RunNone(w) \/ EndStream(w)
  BY <1>4, NewStreamKeeps, RunKernelKeeps, RunNoneKeeps, EndStreamKeeps
<1>. QED  BY <1>1, <1>2, <1>3, <1>4 DEF BabelNext

\* What the invariant says of the streams.
LEMMA BabelHolds == ASSUME BabelInv PROVE BabelSound
<1>1. SolutionHolds
  <2>. SUFFICES ASSUME NEW w \in Workers, AtTop(w), Golds, NEW n \in {"a", "b", "c"},
                       NEW x \in Indices
                PROVE  arrays[w][n][x] = Gold[iter[w]][n]
    BY DEF SolutionHolds, Golds
  <2>1. Between(arrays[w], 1, Gold[iter[w]])
    BY DEF BabelInv, Streaming, AtTop
  <2>. DEFINE d == arrays[w]
              g == Gold[iter[w]]
  <2>2. d.a[x] = g.a /\ d.b[x] = g.b /\ d.c[x] = g.c
    BY <2>1 DEF Between
  <2>. HIDE DEF d, g
  <2>3. d[n][x] = g[n]
    BY <2>2
  <2>. QED  BY <2>3 DEF d, g
<1>2. RatesAreNumbers
  BY DEF BabelInv, Measured, RatesAreNumbers
<1>3. StreamsFreed
  BY DEF BabelInv, BabelTypes, StreamsFreed
<1>4. SuccessMeansMeasured
  <2>. SUFFICES ASSUME babelStatus = "success"
                PROVE  /\ bconf.type \in 1..4
                       /\ \A w \in bconf.gpus : bpc[w] = "done" /\ rates[w] # "none"
    BY DEF SuccessMeansMeasured
  <2>1. bconf.gpus \subseteq Workers /\ bconf.gpus # {}
    BY BabelConfIs DEF BabelInv, BabelTypes
  <2>2. \A w \in bconf.gpus : bpc[w] = "done" /\ bresult[w] /\ Measured(w)
    BY <2>1 DEF BabelInv
  <2>3. \A w \in bconf.gpus : bpc[w] = "done" /\ bconf.type \in 1..4 /\ rates[w] # "none"
    BY <2>2 DEF Measured
  <2>. QED  BY <2>1, <2>3
<1>. QED  BY <1>1, <1>2, <1>3, <1>4 DEF BabelInv, BabelSound

\* Whatever the shape, the size and the number of iterations: the kernels stay in the
\* arrays of their stream, the arrays hold after each iteration what check_solution
\* calculates, what is logged has been measured, and nothing is left of a stream.
THEOREM BabelIsSound == BabelSpec => []BabelSound
<1>1. BabelInit => BabelInv
  BY BabelStarts
<1>2. BabelInv /\ [BabelNext]_babelVars => BabelInv'
  BY BabelKeeps
<1>3. BabelInv => BabelSound
  BY BabelHolds
<1>. QED  BY <1>1, <1>2, <1>3, PTL DEF BabelSpec
-----------------------------------------------------------------------------
(* Babel: the domains of the rest of the state.                            *)

\* The arrays of a stream hold residues in all of their elements.
Residual(d) == \A n \in {"a", "b", "c"} : d[n] \in [Indices -> 0..(Modulus - 1)]

BabelDomains ==
    /\ \A w \in Workers : bpc[w] = "run" => Residual(arrays[w])
    /\ wild \subseteq Workers /\ terminated \in BOOLEAN /\ babelStop \in BOOLEAN
    /\ bmain \in {"start", "join", "end"} /\ bround \in 1..MaxTurnsOfAction
    /\ babelStatus \in {"none", "success", "failed"}
    /\ bmain = "end" <=> babelStatus # "none"

LEMMA StoredIs ==
  ASSUME bconf \in BabelConfs, NEW old \in [Indices -> 0..(Modulus - 1)],
         NEW v \in [Indices -> Nat]
  PROVE  Stored(old, v) \in [Indices -> 0..(Modulus - 1)]
<1>1. Modulus \in Nat \ {0}
  BY BabelConfIs
<1>2. \A x \in Nat : x % Modulus \in 0..(Modulus - 1)
  BY ONLY <1>1, Remainders
<1>. QED  BY <1>2 DEF Stored

\* Every kernel leaves residues.
LEMMA KernelsResidual ==
  ASSUME bconf \in BabelConfs, NEW d, d = [n \in {"a", "b", "c"} |-> d[n]], Residual(d),
         NEW kernel \in Kernels
  PROVE  Residual(Run(kernel, d))
<1>1. Modulus \in Nat \ {0}
  BY BabelConfIs
<1>2. /\ d.a \in [Indices -> 0..(Modulus - 1)] /\ d.b \in [Indices -> 0..(Modulus - 1)]
      /\ d.c \in [Indices -> 0..(Modulus - 1)]
  BY DEF Residual
<1>3. \A u \in {d.a, d.b, d.c} : u \in [Indices -> Nat] /\ \A x \in Indices : u[x] \in Nat
  BY <1>1, <1>2
<1>4. CASE kernel = "write"
  <2>. DEFINE v == [x \in Indices |-> startC]
  <2>1. Run(kernel, d) = [d EXCEPT !.c = Stored(d.c, v)]
    BY <1>4 DEF Run, write
  <2>2. v \in [Indices -> Nat]
    BY DEF startC
  <2>. HIDE DEF v
  <2>3. Stored(d.c, v) \in [Indices -> 0..(Modulus - 1)]
    BY <1>2, <2>2, StoredIs
  <2>. QED  BY <1>2, <2>1, <2>3 DEF Residual
<1>5. CASE kernel = "copy"
  <2>1. Run(kernel, d) = [d EXCEPT !.c = Stored(d.c, d.a)]
    BY <1>5 DEF Run, copy
  <2>2. Stored(d.c, d.a) \in [Indices -> 0..(Modulus - 1)]
    BY <1>2, <1>3, StoredIs
  <2>. QED  BY <1>2, <2>1, <2>2 DEF Residual
<1>6. CASE kernel = "mul"
  <2>. DEFINE v == [x \in Indices |-> startScalar * d.c[x]]
  <2>1. Run(kernel, d) = [d EXCEPT !.b = Stored(d.b, v)]
    BY <1>6 DEF Run, mul
  <2>2. v \in [Indices -> Nat]
    BY <1>3 DEF startScalar
  <2>. HIDE DEF v
  <2>3. Stored(d.b, v) \in [Indices -> 0..(Modulus - 1)]
    BY <1>2, <2>2, StoredIs
  <2>. QED  BY <1>2, <2>1, <2>3 DEF Residual
<1>7. CASE kernel = "add"
  <2>. DEFINE v == [x \in Indices |-> d.a[x] + d.b[x]]
  <2>1. Run(kernel, d) = [d EXCEPT !.c = Stored(d.c, v)]
    BY <1>7 DEF Run, add
  <2>2. v \in [Indices -> Nat]
    BY <1>3
  <2>. HIDE DEF v
  <2>3. Stored(d.c, v) \in [Indices -> 0..(Modulus - 1)]
    BY <1>2, <2>2, StoredIs
  <2>. QED  BY <1>2, <2>1, <2>3 DEF Residual
<1>8. CASE kernel = "triad"
  <2>. DEFINE v == [x \in Indices |-> d.b[x] + startScalar * d.c[x]]
  <2>1. Run(kernel, d) = [d EXCEPT !.a = Stored(d.a, v)]
    BY <1>8 DEF Run, triad
  <2>2. v \in [Indices -> Nat]
    BY <1>3 DEF startScalar
  <2>. HIDE DEF v
  <2>3. Stored(d.a, v) \in [Indices -> 0..(Modulus - 1)]
    BY <1>2, <2>2, StoredIs
  <2>. QED  BY <1>2, <2>1, <2>3 DEF Residual
<1>9. CASE kernel \in {"read", "dot"}
  BY <1>9 DEF Run
<1>. QED  BY <1>4, <1>5, <1>6, <1>7, <1>8, <1>9 DEF Kernels

\* The streams of a step that neither makes nor runs one.
LEMMA ResidualStill ==
  ASSUME bconf' = bconf, NEW w \in Workers, bpc'[w] = "run" => bpc[w] = "run",
         arrays'[w] = arrays[w], bpc[w] = "run" => Residual(arrays[w])
  PROVE  (bpc[w] = "run" => Residual(arrays[w]))'
BY BabelSame DEF Residual

LEMMA BabelDomainsStart == ASSUME BabelInit PROVE BabelDomains
<1>1. /\ bconf \in BabelConfs /\ bpc = [w \in Workers |-> "idle"] /\ wild = {}
      /\ terminated = FALSE /\ bmain = "start" /\ bround = 1 /\ babelStop = FALSE
      /\ babelStatus = "none"
  BY DEF BabelInit, BabelBegin
<1>2. MaxTurnsOfAction \in Nat \ {0}
  BY <1>1, BabelConfIs
<1>3. bround \in 1..MaxTurnsOfAction
  BY <1>1, <1>2
<1>. QED  BY <1>1, <1>3 DEF BabelDomains

LEMMA NewStreamStays ==
  ASSUME BabelInv, BabelDomains, NEW w \in Workers, NewStream(w)
  PROVE  BabelDomains'
<1>1. /\ UNCHANGED <<bconf, bmain, bround, babelStop, babelStatus, wild>>
      /\ terminated' = terminated \/ terminated' = TRUE
      /\ BabelTypes
  BY DEF NewStream, BabelInv
<1>2. ASSUME NEW v \in Workers PROVE (bpc[v] = "run" => Residual(arrays[v]))'
  <2>1. CASE bconf.type \in 1..4 /\ ~Throws(w) /\ v = w
    <3>1. arrays'[w] = [n \in {"a", "b", "c"} |-> [x \in Indices |-> InitialValue(n)]]
      BY <1>1, <2>1 DEF NewStream, BabelTypes
    <3>2. Modulus \in Nat /\ Modulus > 5
      BY <1>1, BabelConfIs DEF BabelTypes
    <3>3. \A n : InitialValue(n) \in 0..(Modulus - 1)
      <4>1. \A n : InitialValue(n) \in {0, 1, 2, 5}
        BY DEF InitialValue, startA, startB, startC
      <4>. QED  BY <3>2, <4>1
    <3>4. Indices' = Indices
      BY <1>1, BabelSame
    <3>. QED  BY <2>1, <3>1, <3>3, <3>4 DEF Residual
  <2>2. CASE ~(bconf.type \in 1..4 /\ ~Throws(w) /\ v = w)
    <3>1. arrays'[v] = arrays[v] /\ (bpc'[v] = "run" => bpc[v] = "run")
      BY <1>1, <2>2 DEF NewStream, BabelTypes
    <3>. QED  BY <1>1, <3>1, ResidualStill DEF BabelDomains
  <2>. QED  BY <2>1, <2>2
<1>. QED  BY <1>1, <1>2 DEF BabelDomains

LEMMA RunKernelStays ==
  ASSUME BabelInv, BabelDomains, NEW w \in Workers, RunKernel(w)
  PROVE  BabelDomains'
<1>1. /\ UNCHANGED <<bconf, bpc, terminated, bmain, bround, babelStop, babelStatus>>
      /\ bpc[w] = "run" /\ BabelTypes /\ Streaming(w)
  BY DEF RunKernel, BabelInv
<1>2. PICK k \in From(step[w]) :
        /\ arrays' = [arrays EXCEPT ![w] = Run(Order[k], @)]
        /\ wild' = IF Touched \subseteq Indices THEN wild ELSE wild \cup {w}
  BY DEF RunKernel
<1>3. Order[k] \in Kernels
  <2>1. k \in 1..7
    BY <1>1 DEF BabelTypes, From, Order
  <2>. QED  BY <2>1 DEF Order, Kernels
<1>4. arrays'[w] = Run(Order[k], arrays[w])
  BY <1>1, <1>2 DEF BabelTypes
<1>5. Residual(arrays'[w])
  <2>1. arrays[w] = [n \in {"a", "b", "c"} |-> arrays[w][n]]
    BY <1>1 DEF Streaming
  <2>2. Residual(arrays[w]) /\ bconf \in BabelConfs
    BY <1>1 DEF BabelDomains, BabelTypes
  <2>. QED  BY <1>3, <1>4, <2>1, <2>2, KernelsResidual
<1>6. ASSUME NEW v \in Workers PROVE (bpc[v] = "run" => Residual(arrays[v]))'
  <2>1. CASE v = w
    <3>1. Indices' = Indices
      BY <1>1, BabelSame
    <3>. QED  BY <1>5, <2>1, <3>1 DEF Residual
  <2>2. CASE v # w
    <3>1. arrays'[v] = arrays[v]
      BY <1>1, <1>2, <2>2 DEF BabelTypes
    <3>. QED  BY <1>1, <3>1, ResidualStill DEF BabelDomains
  <2>. QED  BY <2>1, <2>2
<1>. QED  BY <1>1, <1>2, <1>6 DEF BabelDomains

LEMMA BabelDomainsKept == ASSUME BabelInv, BabelDomains, [BabelNext]_babelVars PROVE BabelDomains'
<1>0. BabelTypes
  BY DEF BabelInv
<1>1. CASE BabelStart
  <2>1. ASSUME NEW v \in Workers PROVE (bpc[v] = "run" => Residual(arrays[v]))'
    <3>1. bpc'[v] = "run" => bpc[v] = "run"
      BY <1>1 DEF BabelStart
    <3>. QED  BY <1>1, <3>1, ResidualStill DEF BabelStart, BabelDomains
  <2>. QED  BY <1>1, <2>1 DEF BabelStart, BabelDomains
<1>2. CASE BabelJoin
  <2>1. ASSUME NEW v \in Workers PROVE (bpc[v] = "run" => Residual(arrays[v]))'
    <3>1. bpc'[v] = "run" => bpc[v] = "run"
      BY <1>2 DEF BabelJoin
    <3>. QED  BY <1>2, <3>1, ResidualStill DEF BabelJoin, BabelDomains
  <2>2. bround' \in 1..MaxTurnsOfAction
    <3>1. MaxTurnsOfAction \in Nat \ {0} /\ bround \in 1..MaxTurnsOfAction
      BY <1>0, BabelConfIs DEF BabelTypes, BabelDomains
    <3>2. bround' = bround \/ bround' = IF bround < MaxTurnsOfAction THEN bround + 1 ELSE 1
      BY <1>2 DEF BabelJoin
    <3>. QED  BY <3>1, <3>2
  <2>3. UNCHANGED <<wild, terminated, babelStop>> /\ bmain = "join" /\ babelStatus = "none"
    BY <1>2 DEF BabelJoin, BabelDomains
  <2>4. /\ bmain' \in {"start", "join", "end"} /\ babelStatus' \in {"none", "success", "failed"}
        /\ bmain' = "end" <=> babelStatus' # "none"
    BY <1>2, <2>3 DEF BabelJoin
  <2>. QED  BY <2>1, <2>2, <2>3, <2>4 DEF BabelDomains
<1>3. CASE AskBabelStop \/ BabelStutters \/ UNCHANGED babelVars
  <2>1. /\ UNCHANGED <<bconf, bpc, arrays, wild, terminated, bmain, bround, babelStatus>>
        /\ babelStop' = babelStop \/ babelStop' = TRUE
    BY <1>3 DEF AskBabelStop, BabelStutters, babelVars, streamVars
  <2>. QED  BY <2>1, ResidualStill DEF BabelDomains
<1>4. ASSUME NEW w \in Workers, NewStream(w) \/ RunKernel(w) PROVE BabelDomains'
  BY <1>4, NewStreamStays, RunKernelStays
<1>5. ASSUME NEW w \in Workers, RunNone(w) PROVE BabelDomains'
  BY <1>5, ResidualStill DEF RunNone, BabelDomains
<1>6. ASSUME NEW w \in Workers, EndStream(w) PROVE BabelDomains'
  <2>1. ASSUME NEW v \in Workers PROVE (bpc[v] = "run" => Residual(arrays[v]))'
    <3>1. bpc'[v] = "run" => bpc[v] = "run"
      BY <1>0, <1>6 DEF EndStream, BabelTypes
    <3>. QED  BY <1>6, <3>1, ResidualStill DEF EndStream, BabelDomains
  <2>. QED  BY <1>6, <2>1 DEF EndStream, BabelDomains
<1>. QED  BY <1>1, <1>2, <1>3, <1>4, <1>5, <1>6 DEF BabelNext

LEMMA BabelIsTyped == ASSUME BabelInv, BabelDomains PROVE BabelTypeOK
<1>1. BabelTypes
  BY DEF BabelInv
<1>2. ASSUME NEW w \in Workers
      PROVE  /\ step[w] \in 1..7 /\ iter[w] \in Nat /\ samples[w] = iter[w]
             /\ buffers[w] \subseteq Buffers /\ rates[w] \in {"none", "number", "undefined"}
  BY <1>1 DEF BabelTypes
<1>3. \A w \in Workers : bpc[w] = "run" =>
         \A n \in {"a", "b", "c"} : arrays[w][n] \in [Indices -> 0..(Modulus - 1)]
  BY DEF BabelDomains, Residual
<1>. QED  BY <1>1, <1>2, <1>3 DEF BabelTypes, BabelDomains, BabelTypeOK

-----------------------------------------------------------------------------
(* The parts together.  A part that stands still stands at a start of its  *)
(* own, and a step of one part leaves the others where they are: for every *)
(* part a step of the whole is a step of it or a stutter.                  *)

DevicesInv ==
    /\ part \in {"blas", "mem", "babel", "hsa"}
    /\ BlasInv /\ BlasDomains
    /\ MemInv /\ MemDomains
    /\ BabelInv /\ BabelDomains
    /\ HsaInv /\ HsaDomains

LEMMA PartsStart ==
  ASSUME DevicesInit
  PROVE  BlasInit /\ MemInit /\ BabelInit /\ HsaInit
BY StandingPartsAreStarts
   DEF DevicesInit, BlasStands, MemStands, BabelStands, HsaStands,
       BlasInit, MemInit, BabelInit, HsaInit

LEMMA PartsStep ==
  ASSUME [DevicesNext]_devicesVars
  PROVE  [BlasNext]_blasVars /\ [MemNext]_memVars /\ [BabelNext]_babelVars /\ [HsaNext]_hsaVars
BY DEF DevicesNext, devicesVars

LEMMA DevicesStarts == ASSUME DevicesInit PROVE DevicesInv
<1>1. BlasInit /\ MemInit /\ BabelInit /\ HsaInit
  BY PartsStart
<1>2. BlasInv /\ BlasDomains
  BY <1>1, BlasStarts, BlasDomainsStart
<1>3. MemInv /\ MemDomains
  BY <1>1, MemStarts, MemDomainsStart
<1>4. BabelInv /\ BabelDomains
  BY <1>1, BabelStarts, BabelDomainsStart
<1>5. HsaInv /\ HsaDomains
  BY <1>1, HsaStarts, HsaDomainsStart
<1>. QED  BY <1>2, <1>3, <1>4, <1>5 DEF DevicesInv, DevicesInit

LEMMA DevicesKeeps == ASSUME DevicesInv, [DevicesNext]_devicesVars PROVE DevicesInv'
<1>0. [BlasNext]_blasVars /\ [MemNext]_memVars /\ [BabelNext]_babelVars /\ [HsaNext]_hsaVars
  BY PartsStep
<1>1. (BlasInv /\ BlasDomains)'
  BY <1>0, BlasKeeps, BlasDomainsKept DEF DevicesInv
<1>2. (MemInv /\ MemDomains)'
  BY <1>0, MemKeeps, MemDomainsKept DEF DevicesInv
<1>3. (BabelInv /\ BabelDomains)'
  BY <1>0, BabelKeeps, BabelDomainsKept DEF DevicesInv
<1>4. (HsaInv /\ HsaDomains)'
  BY <1>0, HsaKeeps, HsaDomainsKept DEF DevicesInv
<1>5. part' = part
  BY DEF DevicesNext, devicesVars
<1>. QED  BY <1>1, <1>2, <1>3, <1>4, <1>5 DEF DevicesInv

LEMMA DevicesHolds == DevicesSpec => []DevicesInv
<1>1. DevicesInit => DevicesInv
  BY DevicesStarts
<1>2. DevicesInv /\ [DevicesNext]_devicesVars => DevicesInv'
  BY DevicesKeeps
<1>. QED  BY <1>1, <1>2, PTL DEF DevicesSpec

\* Positions stay inside the lists and ladders they walk over, counters inside what the
\* keys allow, and sets inside what there is to be held, tested or counted, in every part:
\* the accumulated GEMMs and checks of a BLAS object, the blocks and error records of a
\* memory test in its allocation, the samples of a stream in its iterations, the times and
\* the ends of a transfer in the lists of the HSA wrapper.
THEOREM DevicesAreTyped == DevicesSpec => []DevicesTypeOK
<1>1. DevicesInv => DevicesTypeOK
  BY BlasIsTyped, MemIsTyped, BabelIsTyped, HsaIsTyped DEF DevicesInv, DevicesTypeOK
<1>. QED  BY <1>1, DevicesHolds, PTL

\* Seen alone, each part of the whole is a behaviour of its own module: what has been
\* proved of it there holds where the actions of a run follow each other.
THEOREM DevicesArePart ==
  DevicesSpec => /\ BlasSpec /\ MemSpec /\ BabelSpec
                 /\ HsaInit /\ [][HsaNext]_hsaVars
<1>1. DevicesInit => BlasInit /\ MemInit /\ BabelInit /\ HsaInit
  BY PartsStart
<1>2. [DevicesNext]_devicesVars =>
        [BlasNext]_blasVars /\ [MemNext]_memVars /\ [BabelNext]_babelVars /\ [HsaNext]_hsaVars
  BY PartsStep
<1>. QED  BY <1>1, <1>2, PTL DEF DevicesSpec, BlasSpec, MemSpec, BabelSpec

\* In a run of actions one after the other, no memory, handle, buffer or access right of a
\* part is used before it is there or kept after its end, what is counted, checked and
\* reported is what happened, and it is so whichever part runs.
THEOREM DevicesAreSound ==
  DevicesSpec => BlasSound /\ [](MemTestSound /\ BabelSound /\ HsaSound)
<1>1. DevicesInv => HsaSound
  BY HasBuffers DEF DevicesInv, HsaInv, HsaSound, Ownership, Counting
<1>. QED  BY <1>1, DevicesHolds, DevicesArePart, BlasIsSound, MemTestIsSound, BabelIsSound, PTL
=============================================================================
