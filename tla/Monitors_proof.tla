---------------------------- MODULE Monitors_proof ----------------------------
(***************************************************************************)
(* Proofs about Monitors, for any monitors: any number of devices and      *)
(* passes, any readings.                                                   *)
(***************************************************************************)
EXTENDS Monitors, TLAPS

\* The order of the metrics, which a pass follows.
LEMMA OrderIs ==
  /\ DOMAIN Order = 1..5 /\ Len(Order) = 5
  /\ Metrics = {"mem_clock", "clock", "temp", "fan", "power"}
  /\ \A i, j \in 1..5 : Order[i] = Order[j] => i = j
<1>1. DOMAIN Order = 1..5 /\ Len(Order) = 5
  BY DEF Order
<1>2. /\ Order[1] = "mem_clock" /\ Order[2] = "clock" /\ Order[3] = "temp"
      /\ Order[4] = "fan" /\ Order[5] = "power"
  BY DEF Order
<1>3. \A i \in 1..5 : i = 1 \/ i = 2 \/ i = 3 \/ i = 4 \/ i = 5
  OBVIOUS
<1>4. \A i, j \in 1..5 : Order[i] = Order[j] => i = j
  BY <1>2, <1>3
<1>5. Metrics = {"mem_clock", "clock", "temp", "fan", "power"}
  BY <1>1, <1>2, <1>3 DEF Metrics
<1>. QED  BY <1>1, <1>4, <1>5

LEMMA ConfIs ==
  ASSUME TypeOK
  PROVE  /\ conf.devices \in Nat \ {0} /\ conf.metrics \subseteq Metrics
         /\ conf.module \in {"pesm", "gm"}
         /\ MaxPasses \in Nat \ {0} /\ MaxReading \in Nat \ {0}
         /\ Devices = 1..conf.devices
BY ConfigsAssumption, BoundsAssumption DEF TypeOK, MonitorConfig, Devices

-----------------------------------------------------------------------------
(* What a step of a pass of gm is.                                         *)

\* A reading is added, and what is left of the pass may be given up.
Reads(m, v) ==
    /\ Sampling(m) /\ m \in conf.metrics
    /\ Add(m, v) /\ (Violation(m) \/ Fine)
    /\ (Moves /\ UNCHANGED missed) \/ (Breaks /\ missed')
    /\ UNCHANGED <<conf, count, pesmVars>>

\* There is no reading.
Misses(m) ==
    /\ Sampling(m) /\ missed' /\ Moves /\ Fine
    /\ UNCHANGED <<conf, count, sum, low, high, pesmVars>>

\* The process exits.
Leaves(m) == Sampling(m) /\ m \in conf.metrics /\ Exits(m)

LEMMA Samples ==
  ASSUME Sample
  PROVE  \E m \in Metrics : \/ Skip(m) \/ Misses(m) \/ Leaves(m)
                            \/ \E v \in 1..MaxReading : Reads(m, v)
<1>1. ASSUME NEW m \in {"mem_clock", "clock", "temp"}, SampleClock(m)
      PROVE  Leaves(m) \/ \E v \in 1..MaxReading : Reads(m, v)
  BY <1>1 DEF SampleClock, Leaves, Reads
<1>2. ASSUME SampleTemp PROVE Misses("temp") \/ Leaves("temp") \/ \E v \in 1..MaxReading : Reads("temp", v)
  BY <1>1, <1>2 DEF SampleTemp, Misses
<1>3. ASSUME SampleFan PROVE Misses("fan") \/ Leaves("fan") \/ \E v \in 1..MaxReading : Reads("fan", v)
  BY <1>3 DEF SampleFan, Misses, Leaves, Reads
<1>4. ASSUME SamplePower PROVE Leaves("power") \/ \E v \in 1..MaxReading : Reads("power", v)
  BY <1>4 DEF SamplePower, Leaves, Reads
<1>. QED  BY <1>1, <1>2, <1>3, <1>4, OrderIs DEF Sample

-----------------------------------------------------------------------------
(* The types.                                                              *)

LEMMA CountersGet ==
  ASSUME NEW S, NEW f \in Counters(S), NEW d \in Devices, NEW m \in S
  PROVE  f[d][m] \in Nat
BY DEF Counters

\* One number of one device is changed.
LEMMA CountersSet ==
  ASSUME NEW S, NEW f \in Counters(S), NEW d \in Devices, NEW m \in S, NEW x \in Nat
  PROVE  /\ [f EXCEPT ![d][m] = x] \in Counters(S)
         /\ [f EXCEPT ![d][m] = x][d][m] = x
         /\ \A e \in Devices, n \in S :
               e # d \/ n # m => [f EXCEPT ![d][m] = x][e][n] = f[e][n]
<1>1. f \in [Devices -> [S -> Nat]] /\ f[d] \in [S -> Nat]
  BY DEF Counters
<1>2. [f[d] EXCEPT ![m] = x] \in [S -> Nat]
  BY <1>1
<1>3. [f EXCEPT ![d][m] = x] = [f EXCEPT ![d] = [f[d] EXCEPT ![m] = x]]
  BY <1>1
<1>. QED  BY <1>1, <1>2, <1>3 DEF Counters

LEMMA CountersNow ==
  ASSUME NEW S, NEW f \in Counters(S), NEW d \in Devices, NEW m \in S, NEW x \in Nat,
         NEW g, g = [f EXCEPT ![d][m] = x]
  PROVE  /\ g[d][m] = x
         /\ \A e \in Devices, n \in S : e # d \/ n # m => g[e][n] = f[e][n]
BY CountersSet

LEMMA TypeInit == Init => TypeOK
<1>. SUFFICES ASSUME Init PROVE TypeOK
  OBVIOUS
<1>0. /\ conf \in Configs /\ conf.devices \in Nat \ {0}
      /\ MaxPasses \in Nat \ {0} /\ MaxReading \in Nat \ {0}
  BY ConfigsAssumption, BoundsAssumption DEF Init, MonitorConfig
<1>1. /\ sum \in Counters(conf.metrics) /\ bad \in Counters(conf.metrics)
      /\ low \in Counters(conf.metrics) /\ high \in Counters(conf.metrics)
      /\ old \in Counters(Kinds) /\ first \in Counters(Kinds)
  BY <1>0 DEF Init, Counters, Each
<1>2. change \in [Devices -> [Kinds -> {"", "true", "false"}]]
  BY DEF Init, Each
<1>3. differs \in [Devices -> [Kinds -> BOOLEAN]]
  BY Zenon DEF Init, Each
<1>4. shown \in [Devices -> [count : Nat, sum : [conf.metrics -> Nat]]]
  BY DEF Init
<1>5. 1 \in DOMAIN Order /\ 1 \in 1..(conf.devices + 1) /\ 0 \in 0..(MaxPasses + 1) /\ count \in Nat
  <2>1. 1 \in DOMAIN Order
    BY OrderIs
  <2>2. 1 \in 1..(conf.devices + 1) /\ 0 \in 0..(MaxPasses + 1)
    BY <1>0
  <2>3. count \in {0, 1}
    BY DEF Init
  <2>. QED  BY <2>1, <2>2, <2>3
<1>. QED  BY <1>0, <1>1, <1>2, <1>3, <1>4, <1>5 DEF Init, TypeOK

LEMMA MovesTypes ==
  ASSUME TypeOK, dev \in Devices, Moves \/ Breaks, conf' = conf
  PROVE  /\ dev' \in 1..(conf.devices + 1) /\ met' \in DOMAIN Order
         /\ UNCHANGED <<thread, passes>>
<1>1. /\ conf.devices \in Nat /\ dev \in 1..conf.devices /\ DOMAIN Order = 1..5
      /\ Len(Order) = 5 /\ met \in 1..5
  BY ConfIs, OrderIs DEF TypeOK
<1>2. CASE Moves
  BY <1>1, <1>2 DEF Moves
<1>3. CASE Breaks
  BY <1>1, <1>3 DEF Breaks
<1>. QED  BY <1>2, <1>3

LEMMA SampleTypes == TypeOK /\ Sample => TypeOK'
<1>. SUFFICES ASSUME TypeOK, Sample PROVE TypeOK'
  OBVIOUS
<1>1. PICK m \in Metrics : \/ Skip(m) \/ Misses(m) \/ Leaves(m)
                           \/ \E v \in 1..MaxReading : Reads(m, v)
  BY Samples
<1>2. dev \in Devices /\ Order[met] = m /\ conf' = conf
  BY <1>1 DEF Skip, Misses, Leaves, Reads, Sampling, Exits
<1>3. ASSUME UNCHANGED <<shown, row>>, main' \in {main, "gone"}, thread' \in {thread, "gone"},
             brun' \in BOOLEAN, bStop' \in BOOLEAN, missed' \in BOOLEAN,
             dev' \in 1..(conf.devices + 1), met' \in DOMAIN Order,
             UNCHANGED <<passes, count, pesmVars>>,
             sum' \in Counters(conf.metrics), bad' \in Counters(conf.metrics),
             low' \in Counters(conf.metrics), high' \in Counters(conf.metrics)
      PROVE  TypeOK'
  BY <1>2, <1>3 DEF TypeOK, Counters, Devices, pesmVars
<1>4. CASE Skip(m) \/ Misses(m)
  BY <1>2, <1>3, <1>4, MovesTypes DEF Skip, Misses, Fine, TypeOK, mainVars, gmVars, pesmVars
<1>5. CASE Leaves(m)
  <2>1. bad' \in Counters(conf.metrics)
    <3>1. bad \in Counters(conf.metrics) /\ m \in conf.metrics
      BY <1>5 DEF TypeOK, Leaves
    <3>2. bad' = [bad EXCEPT ![dev][m] = bad[dev][m] + 1]
      BY <1>5 DEF Leaves, Exits
    <3>3. bad[dev][m] + 1 \in Nat
      BY <1>2, <3>1, CountersGet
    <3>. QED  BY <1>2, <3>1, <3>2, <3>3, CountersSet
  <2>. QED  BY <1>2, <1>3, <1>5, <2>1 DEF Leaves, Exits, TypeOK, pesmVars
<1>6. ASSUME NEW v \in 1..MaxReading, Reads(m, v) PROVE TypeOK'
  <2>0. m \in conf.metrics /\ v \in Nat
    BY <1>6, ConfIs DEF Reads
  <2>1. /\ sum \in Counters(conf.metrics) /\ low \in Counters(conf.metrics)
        /\ high \in Counters(conf.metrics) /\ bad \in Counters(conf.metrics)
        /\ sum[dev][m] \in Nat /\ low[dev][m] \in Nat /\ high[dev][m] \in Nat /\ bad[dev][m] \in Nat
    BY <1>2, <2>0, CountersGet DEF TypeOK
  <2>2. sum' \in Counters(conf.metrics)
    <3>1. sum' = sum \/ sum' = [sum EXCEPT ![dev][m] = sum[dev][m] + v]
      BY <1>6 DEF Reads, Add
    <3>. QED  BY <1>2, <2>0, <2>1, <3>1, CountersSet
  <2>3. low' \in Counters(conf.metrics) /\ high' \in Counters(conf.metrics)
    <3>1. CASE Accounted
      <4>1. /\ low' = [low EXCEPT ![dev][m] = IF v < low[dev][m] THEN v ELSE low[dev][m]]
            /\ high' = [high EXCEPT ![dev][m] = IF v > high[dev][m] THEN v ELSE high[dev][m]]
        BY <1>6, <3>1 DEF Reads, Add
      <4>2. /\ (IF v < low[dev][m] THEN v ELSE low[dev][m]) \in Nat
            /\ (IF v > high[dev][m] THEN v ELSE high[dev][m]) \in Nat
        BY <2>0, <2>1
      <4>. QED  BY <1>2, <2>0, <2>1, <4>1, <4>2, CountersSet
    <3>2. CASE ~Accounted
      BY <1>6, <2>1, <3>2 DEF Reads, Add
    <3>. QED  BY <3>1, <3>2
  <2>4. bad' \in Counters(conf.metrics)
    <3>1. bad' = bad \/ bad' = [bad EXCEPT ![dev][m] = bad[dev][m] + 1]
      BY <1>6 DEF Reads, Violation, Fine
    <3>. QED  BY <1>2, <2>0, <2>1, <3>1, CountersSet
  <2>5. bStop' \in BOOLEAN /\ brun' \in BOOLEAN
    BY <1>6 DEF Reads, Violation, Fine, TypeOK
  <2>6. UNCHANGED mainVars /\ missed' \in BOOLEAN
    BY <1>6 DEF Reads, Violation, Fine, TypeOK
  <2>7. /\ dev' \in 1..(conf.devices + 1) /\ met' \in DOMAIN Order
        /\ UNCHANGED <<thread, passes, count, pesmVars>>
    BY <1>2, <1>6, MovesTypes DEF Reads
  <2>. QED  BY <1>3, <2>1, <2>2, <2>3, <2>4, <2>5, <2>6, <2>7 DEF mainVars
<1>. QED  BY <1>1, <1>4, <1>5, <1>6

\* A step that reads nothing.
LEMMA TypeFrom ==
  ASSUME TypeOK, conf' = conf, UNCHANGED <<sum, bad, low, high, pesmVars>>,
         main' \in {"start", "running", "report", "join", "done", "gone"},
         row' \in 1..(conf.devices + 1),
         shown' \in [Devices -> [count : Nat, sum : [conf.metrics -> Nat]]],
         brun' \in BOOLEAN, bStop' \in BOOLEAN, missed' \in BOOLEAN,
         thread' \in {"none", "begin", "filled", "loop", "pass", "exited", "gone"},
         dev' \in 1..(conf.devices + 1), met' \in DOMAIN Order,
         passes' \in 0..(MaxPasses + 1), count' \in Nat
  PROVE  TypeOK'
BY DEF TypeOK, Counters, Devices, pesmVars

LEMMA TypeKeeps == TypeOK /\ [Next]_vars => TypeOK'
<1>. SUFFICES ASSUME TypeOK, [Next]_vars PROVE TypeOK'
  OBVIOUS
<1>0. /\ conf.devices \in Nat \ {0} /\ Devices = 1..conf.devices /\ 1 \in DOMAIN Order
      /\ MaxPasses \in Nat \ {0}
  BY ConfIs, OrderIs
<1>1. CASE UNCHANGED vars
  BY <1>1 DEF TypeOK, Counters, Devices, vars, mainVars, placeVars, gmVars, pesmVars
<1>9. /\ main \in {"start", "running", "report", "join", "done", "gone"}
      /\ row \in 1..(conf.devices + 1)
      /\ shown \in [Devices -> [count : Nat, sum : [conf.metrics -> Nat]]]
      /\ brun \in BOOLEAN /\ bStop \in BOOLEAN /\ missed \in BOOLEAN
      /\ thread \in {"none", "begin", "filled", "loop", "pass", "exited", "gone"}
      /\ dev \in 1..(conf.devices + 1) /\ met \in DOMAIN Order
      /\ passes \in 0..(MaxPasses + 1) /\ count \in Nat
  BY DEF TypeOK
<1>2. CASE Start \/ Signal \/ Join
  BY <1>2, <1>9, TypeFrom DEF Start, Signal, Join, mainVars, placeVars, gmVars
<1>3. CASE ReportRow
  <2>1. /\ row' \in 1..(conf.devices + 1) /\ main' \in {"report", "join"}
        /\ UNCHANGED <<conf, brun, placeVars, gmVars, bStop, pesmVars>>
    <3>1. (row' = row + 1 /\ row \in Devices) \/ row' = row
      BY <1>3 DEF ReportRow
    <3>2. row' \in 1..(conf.devices + 1)
      BY <1>0, <1>9, <3>1
    <3>. QED  BY <1>3, <3>2 DEF ReportRow
  <2>2. shown' \in [Devices -> [count : Nat, sum : [conf.metrics -> Nat]]]
    <3>1. CASE UNCHANGED shown
      BY <3>1 DEF TypeOK
    <3>2. CASE row \in Devices /\ shown' = [shown EXCEPT ![row] = [count |-> count, sum |-> sum[row]]]
      <4>1. [count |-> count, sum |-> sum[row]] \in [count : Nat, sum : [conf.metrics -> Nat]]
        BY <3>2 DEF TypeOK, Counters
      <4>. QED  BY <3>2, <4>1 DEF TypeOK
    <3>. QED  BY <1>3, <3>1, <3>2 DEF ReportRow
  <2>. QED  BY <1>9, <2>1, <2>2, TypeFrom DEF placeVars, gmVars
<1>4. CASE Begin \/ ResetCount
  <2>1. CASE Begin
    BY <2>1, <1>9, TypeFrom DEF Begin, mainVars, gmVars
  <2>2. CASE ResetCount
    BY <2>2, <1>9, TypeFrom DEF ResetCount, mainVars
  <2>. QED  BY <1>4, <2>1, <2>2
<1>5. CASE Turn
  <2>1. passes' \in 0..(MaxPasses + 1)
    <3>1. passes' = passes \/ (passes <= MaxPasses /\ passes' = passes + 1)
      BY <1>0, <1>5, <1>9 DEF Turn
    <3>. QED  BY <1>0, <1>9, <3>1
  <2>2. dev' \in 1..(conf.devices + 1) /\ met' \in DOMAIN Order /\ thread' \in {"pass", "exited"}
    BY <1>0, <1>5 DEF Turn
  <2>. QED  BY <1>5, <1>9, <2>1, <2>2, TypeFrom DEF Turn, mainVars, gmVars
<1>6. CASE Sample
  BY <1>6, SampleTypes
<1>7. CASE PassEnds
  BY <1>7, <1>9, TypeFrom DEF PassEnds, mainVars
<1>8. CASE LookAt
  <2>0. dev \in Devices /\ dev' = dev + 1
    BY <1>8 DEF LookAt
  <2>1. PICK now \in [Kinds -> 1..MaxReading] :
           /\ old' = [old EXCEPT ![dev] = now]
           /\ \/ /\ first' = [first EXCEPT ![dev] = now]
                 /\ UNCHANGED <<change, differs>>
              \/ /\ change' = [change EXCEPT ![dev] = [k \in Kinds |-> Changed(k, now[k])]]
                 /\ differs' = [differs EXCEPT ![dev] =
                                  [k \in Kinds |-> differs[dev][k] \/ now[k] # first[dev][k]]]
                 /\ UNCHANGED first
    BY <1>8 DEF LookAt
  <2>2. now \in [Kinds -> Nat]
    BY ConfIs
  <2>3. old' \in Counters(Kinds) /\ first' \in Counters(Kinds)
    <3>1. old \in [Devices -> [Kinds -> Nat]] /\ first \in [Devices -> [Kinds -> Nat]]
      BY DEF TypeOK, Counters
    <3>2. old' = [old EXCEPT ![dev] = now]
      BY <2>1
    <3>3. first' = first \/ first' = [first EXCEPT ![dev] = now]
      BY <2>1
    <3>4. conf' = conf
      BY <1>8 DEF LookAt
    <3>. QED  BY <2>0, <2>2, <3>1, <3>2, <3>3, <3>4 DEF Counters, Devices
  <2>4. change' \in [Devices -> [Kinds -> {"", "true", "false"}]]
    <3>1. \A k \in Kinds : Changed(k, now[k]) \in {"", "true", "false"}
      BY <2>0 DEF Changed, TypeOK
    <3>2. [k \in Kinds |-> Changed(k, now[k])] \in [Kinds -> {"", "true", "false"}]
      BY <3>1
    <3>3. change' = change \/ change' = [change EXCEPT ![dev] = [k \in Kinds |-> Changed(k, now[k])]]
      BY <2>1
    <3>. QED  BY <2>0, <3>2, <3>3 DEF TypeOK
  <2>5. differs' \in [Devices -> [Kinds -> BOOLEAN]]
    <3>1. [k \in Kinds |-> differs[dev][k] \/ now[k] # first[dev][k]] \in [Kinds -> BOOLEAN]
      BY Zenon
    <3>2. \/ differs' = differs
          \/ differs' = [differs EXCEPT ![dev] = [k \in Kinds |-> differs[dev][k] \/ now[k] # first[dev][k]]]
      BY <2>1
    <3>. QED  BY <2>0, <3>1, <3>2 DEF TypeOK
  <2>6. dev' \in 1..(conf.devices + 1) /\ UNCHANGED <<conf, mainVars, brun, thread, met, passes, gmVars, bStop>>
    BY <1>0, <1>8, <2>0 DEF LookAt
  <2>. QED  BY <2>3, <2>4, <2>5, <2>6 DEF TypeOK, Counters, Devices, mainVars, gmVars
<1>. QED  BY <1>1, <1>2, <1>3, <1>4, <1>5, <1>6, <1>7, <1>8 DEF Next, Main, Worker, Done

-----------------------------------------------------------------------------
(* The invariant.                                                          *)

\* A pass has been at the j-th metric of device d.
Before(d, j) == d < dev \/ (d = dev /\ j < met)

\* How many readings of it a sum holds.
Taken(d, j) ==
    IF thread = "pass" /\ Accounted /\ Before(d, j) THEN count + 1 ELSE count

\* The places of the two threads.
Places ==
    /\ thread = "gone" => main = "gone"
    /\ thread = "none" <=> main = "start"
    /\ main = "report" => conf.module = "gm"

\* Nothing is added before count is reset, and then each sum holds so many readings
\* as passes have been at its metric.
Sums ==
    conf.module = "gm" =>
       /\ thread \in {"none", "begin", "filled"} =>
             \A d \in Devices, m \in conf.metrics : sum[d][m] = 0
       /\ thread \in {"loop", "pass", "exited"} /\ ~missed =>
             \A d \in Devices, j \in 1..5 : Order[j] \in conf.metrics =>
                /\ Taken(d, j) * low[d][Order[j]] <= sum[d][Order[j]]
                /\ sum[d][Order[j]] <= Taken(d, j) * high[d][Order[j]]

\* What pesm says of a GPU, and the readings it keeps.
Changes ==
    \A d \in Devices, k \in Kinds :
       /\ old[d]["power"] = 0 => change[d][k] = ""
       /\ change[d][k] = "true" <=> differs[d][k]
       /\ old[d]["power"] # 0 /\ change[d][k] # "true" => old[d][k] = first[d][k]

MonitorsInv == TypeOK /\ Places /\ Sums /\ PrintedNearly /\ Changes

-----------------------------------------------------------------------------
(* The sums.                                                               *)

LEMMA TimesGrows ==
  ASSUME NEW r \in Nat, NEW a \in Nat, NEW b \in Nat, a <= b
  PROVE  r * a <= r * b /\ (r + 1) * a = r * a + a /\ r * a \in Nat
<1>1. \E c \in Nat : b = a + c
  BY b - a \in Nat /\ b = a + (b - a)
<1>2. PICK c \in Nat : b = a + c
  BY <1>1
<1>3. r * b = r * a + r * c /\ r * c \in Nat /\ r * a \in Nat
  BY <1>2
<1>. QED  BY <1>3

\* One reading more, and the bounds it may move.
LEMMA OneMore ==
  ASSUME NEW r \in Nat, NEW s \in Nat, NEW l \in Nat, NEW h \in Nat, NEW v \in Nat,
         r * l <= s, s <= r * h
  PROVE  /\ (r + 1) * (IF v < l THEN v ELSE l) <= s + v
         /\ s + v <= (r + 1) * (IF v > h THEN v ELSE h)
<1>. DEFINE low1 == IF v < l THEN v ELSE l
            high1 == IF v > h THEN v ELSE h
<1>1. low1 \in Nat /\ high1 \in Nat /\ low1 <= l /\ low1 <= v /\ h <= high1 /\ v <= high1
  OBVIOUS
<1>. HIDE DEF low1, high1
<1>2. r * low1 <= r * l /\ (r + 1) * low1 = r * low1 + low1 /\ r * low1 \in Nat /\ r * l \in Nat
  BY <1>1, TimesGrows
<1>3. r * h <= r * high1 /\ (r + 1) * high1 = r * high1 + high1 /\ r * high1 \in Nat /\ r * h \in Nat
  BY <1>1, TimesGrows
<1>4. (r + 1) * low1 <= s + v
  BY <1>1, <1>2
<1>5. s + v <= (r + 1) * high1
  BY <1>1, <1>3
<1>. QED  BY <1>4, <1>5 DEF low1, high1

LEMMA MovesOn ==
  ASSUME TypeOK, dev \in Devices, Moves, NEW d \in Devices, NEW j \in 1..5
  PROVE  Before(d, j)' <=> Before(d, j) \/ (d = dev /\ j = met)
<1>0. /\ conf.devices \in Nat /\ dev \in 1..conf.devices /\ d \in 1..conf.devices
      /\ met \in 1..5 /\ Len(Order) = 5
  BY ConfIs, OrderIs DEF TypeOK
<1>1. dev \in Nat /\ d \in Nat /\ j \in 1..5 /\ met \in 1..5 /\ Len(Order) = 5
  BY <1>0
<1>2. CASE met < 5
  BY <1>1, <1>2 DEF Moves, Before
<1>3. CASE met = 5
  BY <1>1, <1>3 DEF Moves, Before
<1>. QED  BY <1>1, <1>2, <1>3

\* A reading of gm.
LEMMA SumsAdd ==
  ASSUME MonitorsInv, NEW m \in Metrics, NEW v \in 1..MaxReading, Reads(m, v)
  PROVE  Sums' /\ PrintedNearly'
<1>a. TypeOK
  BY DEF MonitorsInv
<1>b. v \in Nat /\ conf.metrics \subseteq Metrics
  BY <1>a, ConfIs
<1>c. /\ m \in conf.metrics /\ Order[met] = m
      /\ thread = "pass" /\ conf.module = "gm" /\ dev \in Devices
  BY DEF Reads, Sampling
<1>d. /\ met \in 1..5 /\ DOMAIN Order = 1..5
      /\ \A i, j \in 1..5 : Order[i] = Order[j] => i = j
  BY <1>a, OrderIs DEF TypeOK
<1>0. /\ TypeOK /\ m \in conf.metrics /\ v \in Nat /\ conf.metrics \subseteq Metrics
      /\ met \in 1..5 /\ Order[met] = m /\ DOMAIN Order = 1..5
      /\ \A i, j \in 1..5 : Order[i] = Order[j] => i = j
      /\ thread = "pass" /\ conf.module = "gm" /\ dev \in Devices
  BY <1>a, <1>b, <1>c, <1>d
<1>e. UNCHANGED <<conf, count, shown>> /\ Devices' = Devices
  BY DEF Reads, Violation, Fine, Devices, mainVars
<1>f. (Moves /\ missed' = missed) \/ (Breaks /\ missed')
  BY DEF Reads
<1>g. UNCHANGED <<thread, passes>>
  BY <1>f DEF Moves, Breaks
<1>1. /\ UNCHANGED <<conf, count, thread, passes, shown>> /\ Devices' = Devices
      /\ ~missed' => ~missed /\ Moves
  BY <1>e, <1>f, <1>g
<1>2. /\ \A d \in Devices, n \in conf.metrics :
            /\ sum[d][n] \in Nat /\ low[d][n] \in Nat /\ high[d][n] \in Nat
            /\ shown[d].sum[n] \in Nat /\ shown[d].count \in Nat
      /\ count \in Nat
  <2>1. \A d \in Devices : shown[d] \in [count : Nat, sum : [conf.metrics -> Nat]]
    BY <1>0 DEF TypeOK
  <2>2. \A d \in Devices, n \in conf.metrics : shown[d].sum[n] \in Nat /\ shown[d].count \in Nat
    BY <2>1
  <2>3. \A c \in {sum, low, high} : c \in Counters(conf.metrics)
    BY <1>0 DEF TypeOK
  <2>4. \A c \in {sum, low, high}, d \in Devices, n \in conf.metrics : c[d][n] \in Nat
    BY <2>3, CountersGet
  <2>5. count \in Nat
    BY <1>0 DEF TypeOK
  <2>. QED  BY <2>2, <2>4, <2>5
<1>3. /\ Accounted =>
            /\ sum'[dev][m] = sum[dev][m] + v
            /\ low'[dev][m] = IF v < low[dev][m] THEN v ELSE low[dev][m]
            /\ high'[dev][m] = IF v > high[dev][m] THEN v ELSE high[dev][m]
      /\ ~Accounted => UNCHANGED <<sum, low, high>>
      /\ \A d \in Devices, n \in conf.metrics : d # dev \/ n # m =>
            UNCHANGED <<sum[d][n], low[d][n], high[d][n]>>
  <2>1. CASE Accounted
    <3>. DEFINE l == IF v < low[dev][m] THEN v ELSE low[dev][m]
                h == IF v > high[dev][m] THEN v ELSE high[dev][m]
    <3>1. /\ sum' = [sum EXCEPT ![dev][m] = sum[dev][m] + v]
          /\ low' = [low EXCEPT ![dev][m] = l]
          /\ high' = [high EXCEPT ![dev][m] = h]
      BY <2>1 DEF Reads, Add
    <3>2. /\ sum \in Counters(conf.metrics) /\ low \in Counters(conf.metrics)
          /\ high \in Counters(conf.metrics)
      BY <1>0 DEF TypeOK
    <3>3. sum[dev][m] + v \in Nat /\ l \in Nat /\ h \in Nat
      BY <1>0, <1>2
    <3>. HIDE DEF l, h
    <3>4. /\ sum'[dev][m] = sum[dev][m] + v
          /\ \A d \in Devices, n \in conf.metrics : d # dev \/ n # m => sum'[d][n] = sum[d][n]
      <4>1. sum \in Counters(conf.metrics) /\ sum[dev][m] + v \in Nat
            /\ sum' = [sum EXCEPT ![dev][m] = sum[dev][m] + v]
        BY <3>1, <3>2, <3>3
      <4>. QED  BY <1>c, <4>1, CountersNow
    <3>5. /\ low'[dev][m] = l
          /\ \A d \in Devices, n \in conf.metrics : d # dev \/ n # m => low'[d][n] = low[d][n]
      <4>1. low \in Counters(conf.metrics) /\ l \in Nat /\ low' = [low EXCEPT ![dev][m] = l]
        BY <3>1, <3>2, <3>3
      <4>. QED  BY <1>c, <4>1, CountersNow
    <3>6. /\ high'[dev][m] = h
          /\ \A d \in Devices, n \in conf.metrics : d # dev \/ n # m => high'[d][n] = high[d][n]
      <4>1. high \in Counters(conf.metrics) /\ h \in Nat /\ high' = [high EXCEPT ![dev][m] = h]
        BY <3>1, <3>2, <3>3
      <4>. QED  BY <1>c, <4>1, CountersNow
    <3>7. /\ low'[dev][m] = IF v < low[dev][m] THEN v ELSE low[dev][m]
          /\ high'[dev][m] = IF v > high[dev][m] THEN v ELSE high[dev][m]
      BY <3>5, <3>6 DEF l, h
    <3>. QED  BY <2>1, <3>4, <3>5, <3>6, <3>7
  <2>2. CASE ~Accounted
    BY <2>2 DEF Reads, Add
  <2>. QED  BY <2>1, <2>2
<1>. SUFFICES ASSUME ~missed' PROVE Sums' /\ PrintedNearly'
  BY <1>0, <1>1 DEF Sums, PrintedNearly
<1>4. ~missed /\ Moves /\ (Accounted' <=> Accounted)
  BY <1>1 DEF Accounted
<1>5. ASSUME NEW d \in Devices, NEW j \in 1..5, Order[j] \in conf.metrics
      PROVE  /\ (Taken(d, j) * low[d][Order[j]] <= sum[d][Order[j]])'
             /\ (sum[d][Order[j]] <= Taken(d, j) * high[d][Order[j]])'
  <2>1. /\ Taken(d, j) * low[d][Order[j]] <= sum[d][Order[j]]
        /\ sum[d][Order[j]] <= Taken(d, j) * high[d][Order[j]]
    BY <1>0, <1>4, <1>5 DEF MonitorsInv, Sums
  <2>2. Before(d, j)' <=> Before(d, j) \/ (d = dev /\ j = met)
    BY <1>0, <1>4, MovesOn
  <2>3. CASE Accounted /\ d = dev /\ j = met
    <3>0. dev \in Nat /\ met \in Nat
      <4>1. dev \in 1..conf.devices /\ conf.devices \in Nat
        BY <1>0, ConfIs
      <4>. QED  BY <1>0, <4>1
    <3>a. ~Before(d, j)
      BY <2>3, <3>0 DEF Before
    <3>1. Taken(d, j) = count /\ Taken(d, j)' = count + 1
      BY <1>0, <1>1, <1>4, <2>2, <2>3, <3>a DEF Taken
    <3>2. /\ sum[d][m] \in Nat /\ low[d][m] \in Nat /\ high[d][m] \in Nat /\ Order[j] = m
          /\ count * low[d][m] <= sum[d][m] /\ sum[d][m] <= count * high[d][m]
      BY <1>0, <1>2, <2>1, <2>3, <3>1
    <3>3. /\ (count + 1) * low'[d][m] <= sum'[d][m]
          /\ sum'[d][m] <= (count + 1) * high'[d][m]
      BY <1>0, <1>2, <1>3, <2>3, <3>2, OneMore
    <3>. QED  BY <3>1, <3>2, <3>3
  <2>4. CASE ~(Accounted /\ d = dev /\ j = met)
    <3>1. Taken(d, j)' = Taken(d, j)
      BY <1>1, <1>4, <2>2, <2>4 DEF Taken
    <3>2. d # dev \/ Order[j] # m \/ ~Accounted
      BY <1>0, <2>4
    <3>3. UNCHANGED <<sum[d][Order[j]], low[d][Order[j]], high[d][Order[j]]>>
      BY <1>3, <1>5, <3>2
    <3>. QED  BY <2>1, <3>1, <3>3
  <2>. QED  BY <2>3, <2>4
<1>6. Sums'
  BY <1>0, <1>1, <1>5 DEF Sums
<1>7. ASSUME NEW d \in Devices, NEW n \in conf.metrics
      PROVE  (shown[d].sum[n] <= (shown[d].count + 1) * high[d][n])'
  <2>1. shown[d].sum[n] <= (shown[d].count + 1) * high[d][n]
    BY <1>4 DEF MonitorsInv, PrintedNearly
  <2>2. high[d][n] <= high'[d][n] /\ high'[d][n] \in Nat
    BY <1>0, <1>2, <1>3
  <2>3. /\ (shown[d].count + 1) * high[d][n] <= (shown[d].count + 1) * high'[d][n]
        /\ (shown[d].count + 1) * high[d][n] \in Nat /\ (shown[d].count + 1) * high'[d][n] \in Nat
    BY <1>2, <2>2, TimesGrows
  <2>. QED  BY <1>1, <1>2, <2>1, <2>3
<1>8. PrintedNearly'
  BY <1>1, <1>7 DEF PrintedNearly
<1>. QED  BY <1>6, <1>8

\* The sums are left alone, and the pass moves on.
LEMMA SumsPass ==
  ASSUME MonitorsInv, NEW m \in Metrics, Skip(m) \/ Misses(m) \/ Leaves(m)
  PROVE  Sums' /\ PrintedNearly'
<1>1. UNCHANGED <<conf, count, sum, low, high, shown, passes>> /\ Devices' = Devices
  BY DEF Skip, Misses, Leaves, Exits, Moves, Fine, mainVars, gmVars, Devices
<1>2. Sampling(m) /\ Order[met] = m
  BY DEF Skip, Misses, Leaves, Sampling
<1>3. PrintedNearly'
  <2>1. ~missed' => ~missed
    BY DEF Skip, Misses, Leaves, Exits, gmVars
  <2>. QED  BY <1>1, <2>1 DEF PrintedNearly, MonitorsInv
<1>4. CASE Leaves(m)
  <2>1. thread' = "gone"
    BY <1>4 DEF Leaves, Exits
  <2>. QED  BY <1>3, <2>1 DEF Sums
<1>5. CASE Misses(m)
  <2>1. missed' /\ thread' = "pass"
    BY <1>2, <1>5 DEF Misses, Moves, Sampling
  <2>. QED  BY <1>3, <2>1 DEF Sums
<1>6. CASE Skip(m)
  <2>1. Moves /\ m \notin conf.metrics /\ UNCHANGED <<missed, thread>> /\ thread = "pass"
    BY <1>2, <1>6 DEF Skip, Moves, gmVars, Sampling
  <2>2. dev \in Devices /\ TypeOK /\ conf.module = "gm"
    BY <1>2 DEF Sampling, MonitorsInv
  <2>3. ASSUME NEW d \in Devices, NEW j \in 1..5, Order[j] \in conf.metrics
        PROVE  Taken(d, j)' = Taken(d, j)
    <3>1. Before(d, j)' <=> Before(d, j) \/ (d = dev /\ j = met)
      BY <2>1, <2>2, MovesOn
    <3>2. j # met
      BY <1>2, <2>1, <2>3
    <3>3. Accounted' <=> Accounted
      BY <1>1 DEF Accounted
    <3>. QED  BY <1>1, <2>1, <3>1, <3>2, <3>3 DEF Taken
  <2>4. Sums'
    BY <1>1, <2>1, <2>2, <2>3 DEF Sums, MonitorsInv
  <2>. QED  BY <1>3, <2>4
<1>. QED  BY <1>4, <1>5, <1>6

\* gm resets count: no sum has a reading.
LEMMA SumsReset == MonitorsInv /\ ResetCount => Sums'
<1>. SUFFICES ASSUME MonitorsInv, ResetCount PROVE Sums'
  OBVIOUS
<1>1. /\ count' = 0 /\ thread = "filled" /\ thread' = "loop"
      /\ UNCHANGED <<conf, sum, low, high>> /\ Devices' = Devices
  BY DEF ResetCount, Devices
<1>2. ASSUME conf.module = "gm", NEW d \in Devices, NEW j \in 1..5, Order[j] \in conf.metrics
      PROVE  /\ (Taken(d, j) * low[d][Order[j]] <= sum[d][Order[j]])'
             /\ (sum[d][Order[j]] <= Taken(d, j) * high[d][Order[j]])'
  <2>1. Taken(d, j)' = 0
    BY <1>1 DEF Taken
  <2>2. sum[d][Order[j]] = 0
    BY <1>1, <1>2 DEF MonitorsInv, Sums
  <2>3. low[d][Order[j]] \in Nat /\ high[d][Order[j]] \in Nat
    BY <1>2, CountersGet DEF MonitorsInv, TypeOK
  <2>4. 0 * low[d][Order[j]] = 0 /\ 0 * high[d][Order[j]] = 0
    BY <2>3
  <2>. QED  BY <1>1, <2>1, <2>2, <2>4
<1>. QED  BY <1>1, <1>2 DEF Sums

\* A pass begins before the first metric of the first device, and a thread that is
\* between two passes has taken what count says.
LEMMA SumsTurn == MonitorsInv /\ Turn => Sums'
<1>. SUFFICES ASSUME MonitorsInv, Turn PROVE Sums'
  OBVIOUS
<1>1. /\ thread = "loop" /\ thread' \in {"pass", "exited"} /\ dev' = 1 /\ met' = 1
      /\ UNCHANGED <<conf, count, missed, sum, low, high>> /\ Devices' = Devices
  BY DEF Turn, gmVars, Devices
<1>2. ASSUME NEW d \in Devices, NEW j \in 1..5
      PROVE  Taken(d, j) = count /\ Taken(d, j)' = count
  <2>1. conf.devices \in Nat /\ d \in 1..conf.devices
    BY ConfIs DEF MonitorsInv
  <2>2. d \in Nat /\ ~(d < 1) /\ ~(j < 1)
    BY <2>1
  <2>3. ~Before(d, j)'
    BY <1>1, <2>2 DEF Before
  <2>. QED  BY <1>1, <2>3 DEF Taken
<1>. QED  BY <1>1, <1>2 DEF Sums, MonitorsInv

\* A pass that has ended was at every metric of every device.
LEMMA SumsPassEnds == MonitorsInv /\ PassEnds => Sums'
<1>. SUFFICES ASSUME MonitorsInv, PassEnds PROVE Sums'
  OBVIOUS
<1>1. /\ thread = "pass" /\ thread' = "loop" /\ dev \notin Devices
      /\ UNCHANGED <<conf, missed, sum, low, high, passes>> /\ Devices' = Devices
      /\ count' = IF conf.module = "gm" /\ Accounted THEN count + 1 ELSE count
  BY DEF PassEnds, Devices
<1>2. ASSUME conf.module = "gm", NEW d \in Devices, NEW j \in 1..5
      PROVE  Taken(d, j)' = Taken(d, j)
  <2>1. /\ conf.devices \in Nat /\ d \in 1..conf.devices /\ dev \in 1..(conf.devices + 1)
        /\ dev \notin 1..conf.devices
    BY <1>1, ConfIs DEF MonitorsInv, TypeOK
  <2>2. d < dev
    BY <2>1
  <2>. QED  BY <1>1, <1>2, <2>2 DEF Taken, Before
<1>. QED  BY <1>1, <1>2 DEF Sums, MonitorsInv

\* A row of the report: a sum has at most one reading more than count.
LEMMA ReportNearly == MonitorsInv /\ ReportRow => PrintedNearly'
<1>. SUFFICES ASSUME MonitorsInv, ReportRow, ~missed' PROVE PrintedNearly'
  BY DEF PrintedNearly
<1>1. /\ UNCHANGED <<conf, thread, dev, met, passes, count, sum, high, missed>>
      /\ Devices' = Devices /\ main = "report"
  BY DEF ReportRow, placeVars, gmVars, Devices
<1>2. CASE UNCHANGED shown
  BY <1>1, <1>2 DEF PrintedNearly, MonitorsInv
<1>3. CASE /\ count # 0 /\ thread # "begin" /\ row \in Devices
           /\ shown' = [shown EXCEPT ![row] = [count |-> count, sum |-> sum[row]]]
  <2>1. /\ TypeOK /\ conf.module = "gm" /\ count \in Nat
        /\ thread \in {"filled", "loop", "pass", "exited"}
    BY <1>1, <1>3 DEF MonitorsInv, Places, TypeOK
  <2>2. ASSUME NEW n \in conf.metrics
        PROVE  sum[row][n] <= (count + 1) * high[row][n]
    <3>1. sum[row][n] \in Nat /\ high[row][n] \in Nat
      BY <1>3, <2>1, CountersGet DEF TypeOK
    <3>2. CASE thread = "filled"
      <4>1. sum[row][n] = 0
        BY <1>3, <2>1, <3>2 DEF MonitorsInv, Sums
      <4>2. (count + 1) * high[row][n] \in Nat
        BY <2>1, <3>1, TimesGrows
      <4>. QED  BY <4>1, <4>2
    <3>3. CASE thread # "filled"
      <4>1. n \in Metrics
        BY <2>1, ConfIs
      <4>2. PICK j \in 1..5 : Order[j] = n
        BY <4>1, OrderIs DEF Metrics
      <4>3. sum[row][n] <= Taken(row, j) * high[row][n]
        BY <1>1, <1>3, <2>1, <3>3, <4>2 DEF MonitorsInv, Sums
      <4>4. Taken(row, j) \in {count, count + 1}
        BY DEF Taken
      <4>5. /\ (count + 1) * high[row][n] = count * high[row][n] + high[row][n]
            /\ count * high[row][n] \in Nat
        BY <2>1, <3>1, TimesGrows
      <4>. QED  BY <3>1, <4>3, <4>4, <4>5
    <3>. QED  BY <3>2, <3>3
  <2>3. ASSUME NEW d \in Devices, NEW n \in conf.metrics
        PROVE  (shown[d].sum[n] <= (shown[d].count + 1) * high[d][n])'
    <3>1. CASE d = row
      <4>1. shown'[d].sum = sum[row] /\ shown'[d].count = count
        BY <1>3, <2>1, <3>1 DEF TypeOK
      <4>. QED  BY <1>1, <2>2, <3>1, <4>1
    <3>2. CASE d # row
      <4>1. shown'[d] = shown[d]
        BY <1>3, <2>1, <3>2 DEF TypeOK
      <4>2. shown[d].sum[n] <= (shown[d].count + 1) * high[d][n]
        BY <1>1 DEF MonitorsInv, PrintedNearly
      <4>. QED  BY <1>1, <4>1, <4>2
    <3>. QED  BY <3>1, <3>2
  <2>. QED  BY <1>1, <2>3 DEF PrintedNearly
<1>. QED  BY <1>2, <1>3 DEF ReportRow

\* pesm reads a GPU.
LEMMA ChangesLookAt == MonitorsInv /\ LookAt => Changes'
<1>. SUFFICES ASSUME MonitorsInv, LookAt PROVE Changes'
  OBVIOUS
<1>0. TypeOK /\ dev \in Devices /\ Devices' = Devices /\ "power" \in Kinds
  BY DEF MonitorsInv, LookAt, Devices, Kinds
<1>1. PICK now \in [Kinds -> 1..MaxReading] :
         /\ old' = [old EXCEPT ![dev] = now]
         /\ \/ /\ old[dev]["power"] = 0
               /\ first' = [first EXCEPT ![dev] = now]
               /\ UNCHANGED <<change, differs>>
            \/ /\ old[dev]["power"] # 0
               /\ change' = [change EXCEPT ![dev] = [k \in Kinds |-> Changed(k, now[k])]]
               /\ differs' = [differs EXCEPT ![dev] =
                                [k \in Kinds |-> differs[dev][k] \/ now[k] # first[dev][k]]]
               /\ UNCHANGED first
  BY DEF LookAt
<1>2. now["power"] # 0
  BY <1>0, ConfIs
<1>3. /\ old'[dev] = now
      /\ \A d \in Devices : d # dev =>
            UNCHANGED <<old[d], first[d], change[d], differs[d]>>
  <2>1. /\ old'[dev] = now
        /\ \A d \in Devices : d # dev => old'[d] = old[d] /\ first'[d] = first[d]
    BY <1>0, <1>1 DEF TypeOK, Counters
  <2>2. \A d \in Devices : d # dev => change'[d] = change[d]
    BY <1>0, <1>1 DEF TypeOK
  <2>3. \A d \in Devices : d # dev => differs'[d] = differs[d]
    BY <1>0, <1>1 DEF TypeOK
  <2>. QED  BY <2>1, <2>2, <2>3
<1>4. ASSUME NEW k \in Kinds
      PROVE  /\ (change'[dev][k] = "true") <=> differs'[dev][k]
             /\ change'[dev][k] # "true" => now[k] = first'[dev][k]
  <2>1. /\ old[dev]["power"] = 0 => change[dev][k] = ""
        /\ (change[dev][k] = "true") <=> differs[dev][k]
        /\ old[dev]["power"] # 0 /\ change[dev][k] # "true" => old[dev][k] = first[dev][k]
    BY <1>0 DEF MonitorsInv, Changes
  <2>2. CASE old[dev]["power"] = 0
    <3>1. first'[dev] = now /\ UNCHANGED <<change, differs>>
      BY <1>0, <1>1, <2>2 DEF TypeOK, Counters
    <3>. QED  BY <2>1, <3>1
  <2>3. CASE old[dev]["power"] # 0
    <3>. DEFINE differ == [n \in Kinds |-> differs[dev][n] \/ now[n] # first[dev][n]]
                changed == [n \in Kinds |-> Changed(n, now[n])]
    <3>1. /\ change' = [change EXCEPT ![dev] = changed] /\ first' = first
          /\ differs' = [differs EXCEPT ![dev] = differ]
      BY <1>1, <2>3
    <3>2. dev \in DOMAIN change /\ dev \in DOMAIN differs
      BY <1>0 DEF TypeOK
    <3>3. change'[dev] = changed /\ differs'[dev] = differ
      BY <3>1, <3>2
    <3>4. change'[dev][k] = Changed(k, now[k])
      BY <3>3
    <3>5. differs'[dev][k] <=> (differs[dev][k] \/ now[k] # first[dev][k])
      BY <3>3, Zenon
    <3>. HIDE DEF differ, changed
    <3>6. CASE change[dev][k] = "true"
      <4>1. change'[dev][k] = "true" /\ differs'[dev][k]
        BY <2>1, <3>4, <3>5, <3>6 DEF Changed
      <4>. QED  BY <4>1
    <3>7. CASE change[dev][k] # "true"
      <4>1. ~differs[dev][k] /\ old[dev][k] = first[dev][k]
        BY <2>1, <2>3, <3>7
      <4>2. (change'[dev][k] = "true") <=> now[k] # first[dev][k]
        BY <3>4, <3>7, <4>1 DEF Changed
      <4>3. differs'[dev][k] <=> now[k] # first[dev][k]
        BY <3>5, <4>1
      <4>. QED  BY <3>1, <4>2, <4>3
    <3>. QED  BY <3>6, <3>7
  <2>. QED  BY <2>2, <2>3
<1>5. ASSUME NEW d \in Devices, NEW k \in Kinds
      PROVE  /\ old'[d]["power"] = 0 => change'[d][k] = ""
             /\ (change'[d][k] = "true") <=> differs'[d][k]
             /\ old'[d]["power"] # 0 /\ change'[d][k] # "true" => old'[d][k] = first'[d][k]
  <2>1. CASE d = dev
    BY <1>2, <1>3, <1>4, <2>1
  <2>2. CASE d # dev
    <3>1. UNCHANGED <<old[d], first[d], change[d], differs[d]>>
      BY <1>3, <2>2
    <3>2. /\ old[d]["power"] = 0 => change[d][k] = ""
          /\ (change[d][k] = "true") <=> differs[d][k]
          /\ old[d]["power"] # 0 /\ change[d][k] # "true" => old[d][k] = first[d][k]
      BY DEF MonitorsInv, Changes
    <3>. QED  BY <3>1, <3>2
  <2>. QED  BY <2>1, <2>2
<1>. QED  BY <1>0, <1>5 DEF Changes

-----------------------------------------------------------------------------
(* The theorems.                                                           *)

LEMMA MonitorsInit == Init => MonitorsInv
<1>. SUFFICES ASSUME Init PROVE MonitorsInv
  OBVIOUS
<1>0. TypeOK /\ conf.devices \in Nat \ {0}
  BY TypeInit, ConfIs
<1>1. Places
  BY DEF Init, Places
<1>2. \A d \in Devices, m \in conf.metrics : sum[d][m] = 0
  BY DEF Init, Each
<1>3. Sums
  BY <1>2 DEF Init, Sums
<1>4. PrintedNearly
  <2>1. ASSUME NEW d \in Devices, NEW m \in conf.metrics
        PROVE  shown[d].sum[m] <= (shown[d].count + 1) * high[d][m]
    <3>1. shown[d].sum[m] = 0 /\ shown[d].count = 0 /\ high[d][m] = 0
      BY DEF Init, Each
    <3>. QED  BY <3>1
  <2>. QED  BY <2>1 DEF PrintedNearly
<1>5. Changes
  <2>1. ASSUME NEW d \in Devices, NEW k \in Kinds
        PROVE  old[d]["power"] = 0 /\ change[d][k] = "" /\ (differs[d][k] <=> FALSE)
    BY DEF Init, Each, Kinds
  <2>. QED  BY <2>1 DEF Changes
<1>. QED  BY <1>0, <1>1, <1>3, <1>4, <1>5 DEF MonitorsInv

\* A step that leaves the readings and the report alone.
LEMMA KeepsFrom ==
  ASSUME MonitorsInv, UNCHANGED <<conf, count, sum, low, high, missed, dev, met, passes>>,
         thread' = thread \/ {thread, thread'} \subseteq {"none", "begin", "filled"}
            \/ conf.module = "pesm"
  PROVE  Sums'
<1>1. Devices' = Devices
  BY DEF Devices
<1>2. CASE thread' = thread
  <2>1. ASSUME NEW d \in Devices, NEW j \in 1..5 PROVE Taken(d, j)' = Taken(d, j)
    BY <1>2 DEF Taken, Before, Accounted
  <2>. QED  BY <1>1, <1>2, <2>1 DEF MonitorsInv, Sums
<1>3. CASE {thread, thread'} \subseteq {"none", "begin", "filled"}
  BY <1>1, <1>3 DEF MonitorsInv, Sums
<1>4. CASE conf.module = "pesm"
  BY <1>4 DEF Sums
<1>. QED  BY <1>2, <1>3, <1>4

LEMMA MonitorsKeeps == MonitorsInv /\ [Next]_vars => MonitorsInv'
<1>. SUFFICES ASSUME MonitorsInv, [Next]_vars PROVE MonitorsInv'
  OBVIOUS
<1>0. TypeOK /\ TypeOK' /\ conf' = conf /\ Devices' = Devices
  <2>1. TypeOK'
    BY TypeKeeps DEF MonitorsInv
  <2>2. Sample => conf' = conf
    BY Samples DEF Skip, Misses, Leaves, Reads, Exits
  <2>3. conf' = conf
    BY <2>2 DEF Next, Main, Worker, Done, Start, Signal, ReportRow, Join, Begin,
                ResetCount, Turn, PassEnds, LookAt, vars
  <2>. QED  BY <2>1, <2>3 DEF MonitorsInv, Devices
<1>. DEFINE Alone == UNCHANGED <<old, change, first, differs>>
            Silent == ~missed' => UNCHANGED <<missed, shown, high>>
<1>a. ASSUME Alone PROVE Changes'
  BY <1>0, <1>a DEF MonitorsInv, Changes
<1>b. ASSUME Silent PROVE PrintedNearly'
  BY <1>0, <1>b DEF MonitorsInv, PrintedNearly
<1>1. CASE UNCHANGED vars
  <2>1. Alone /\ Silent /\ Places'
    BY <1>1 DEF vars, mainVars, gmVars, pesmVars, placeVars, MonitorsInv, Places
  <2>2. Sums'
    BY <1>1, KeepsFrom DEF vars, gmVars, placeVars
  <2>. QED  BY <1>0, <1>a, <1>b, <2>1, <2>2 DEF MonitorsInv
<1>2. CASE Start \/ Signal \/ Join
  <2>1. Alone /\ Silent
    BY <1>2 DEF Start, Signal, Join, pesmVars, gmVars
  <2>2. Places'
    BY <1>0, <1>2 DEF Start, Signal, Join, placeVars, MonitorsInv, Places, TypeOK
  <2>3. Sums'
    BY <1>2, KeepsFrom DEF Start, Signal, Join, placeVars, gmVars, MonitorsInv, Places
  <2>. QED  BY <1>0, <1>a, <1>b, <2>1, <2>2, <2>3 DEF MonitorsInv
<1>3. CASE ReportRow
  <2>1. Alone /\ Places'
    BY <1>3 DEF ReportRow, pesmVars, placeVars, MonitorsInv, Places
  <2>2. Sums'
    BY <1>3, KeepsFrom DEF ReportRow, placeVars, gmVars
  <2>. QED  BY <1>0, <1>3, <1>a, <2>1, <2>2, ReportNearly DEF MonitorsInv
<1>4. CASE Begin
  <2>1. Alone /\ Silent
    BY <1>4 DEF Begin, pesmVars, gmVars, mainVars
  <2>2. Places'
    BY <1>0, <1>4 DEF Begin, mainVars, MonitorsInv, Places
  <2>3. Sums'
    BY <1>0, <1>4, KeepsFrom, ConfIs DEF Begin, gmVars
  <2>. QED  BY <1>0, <1>a, <1>b, <2>1, <2>2, <2>3 DEF MonitorsInv
<1>5. CASE ResetCount
  <2>1. Alone /\ Silent
    BY <1>5 DEF ResetCount, pesmVars, mainVars
  <2>2. Places'
    BY <1>0, <1>5 DEF ResetCount, mainVars, MonitorsInv, Places
  <2>. QED  BY <1>0, <1>5, <1>a, <1>b, <2>1, <2>2, SumsReset DEF MonitorsInv
<1>6. CASE Turn
  <2>1. Alone /\ Silent
    BY <1>6 DEF Turn, pesmVars, mainVars, gmVars
  <2>2. Places'
    BY <1>0, <1>6 DEF Turn, mainVars, MonitorsInv, Places
  <2>. QED  BY <1>0, <1>6, <1>a, <1>b, <2>1, <2>2, SumsTurn DEF MonitorsInv
<1>7. CASE Sample
  <2>1. PICK m \in Metrics : \/ Skip(m) \/ Misses(m) \/ Leaves(m)
                             \/ \E v \in 1..MaxReading : Reads(m, v)
    BY <1>7, Samples
  <2>2. Alone
    BY <2>1 DEF Skip, Misses, Leaves, Reads, Exits, pesmVars
  <2>3. Places'
    <3>1. CASE Leaves(m)
      BY <1>0, <3>1 DEF Leaves, Exits, MonitorsInv, Places, Sampling
    <3>2. CASE ~Leaves(m)
      <4>1. UNCHANGED <<main, thread>>
        BY <2>1, <3>2 DEF Skip, Misses, Reads, Moves, Breaks, Fine, Violation, mainVars
      <4>. QED  BY <1>0, <4>1 DEF MonitorsInv, Places
    <3>. QED  BY <3>1, <3>2
  <2>4. Sums' /\ PrintedNearly'
    BY <2>1, SumsPass, SumsAdd
  <2>. QED  BY <1>0, <1>a, <2>2, <2>3, <2>4 DEF MonitorsInv
<1>8. CASE PassEnds
  <2>1. Alone /\ Silent
    BY <1>8 DEF PassEnds, pesmVars, mainVars
  <2>2. Places'
    BY <1>0, <1>8 DEF PassEnds, mainVars, MonitorsInv, Places
  <2>. QED  BY <1>0, <1>8, <1>a, <1>b, <2>1, <2>2, SumsPassEnds DEF MonitorsInv
<1>9. CASE LookAt
  <2>1. Silent /\ Places'
    BY <1>0, <1>9 DEF LookAt, mainVars, gmVars, MonitorsInv, Places
  <2>2. Sums'
    BY <1>0, <1>9 DEF LookAt, Sums
  <2>. QED  BY <1>0, <1>9, <1>b, <2>1, <2>2, ChangesLookAt DEF MonitorsInv
<1>. QED  BY <1>1, <1>2, <1>3, <1>4, <1>5, <1>6, <1>7, <1>8, <1>9 DEF Next, Main, Worker, Done

\* The invariant holds throughout, whatever is monitored: gm's threads share the
\* sums and count without a lock (Worker::run and Worker::stop).
THEOREM MonitorsCorrect == Spec => []MonitorsInv
<1>. QED  BY MonitorsInit, MonitorsKeeps, PTL DEF Spec

\* The state of a monitor has its types.
THEOREM MonitorsTypeCorrect == Spec => []TypeOK
<1>1. MonitorsInv => TypeOK
  BY DEF MonitorsInv
<1>. QED  BY <1>1, MonitorsCorrect, PTL

\* The averages of gm: between two passes sum and count belong together, and what
\* stop() prints in the middle of a pass is at most one reading off.
THEOREM AveragesAreRight == Spec => []AveragesRight
<1>1. ASSUME MonitorsInv, thread \in {"loop", "exited"}, conf.module = "gm", ~missed,
             NEW d \in Devices, NEW m \in conf.metrics
      PROVE  sum[d][m] >= count * low[d][m] /\ sum[d][m] <= count * high[d][m]
  <2>1. TypeOK /\ m \in Metrics
    BY <1>1, ConfIs DEF MonitorsInv
  <2>2. PICK j \in 1..5 : Order[j] = m
    BY <2>1, OrderIs DEF Metrics
  <2>3. Taken(d, j) = count
    BY <1>1 DEF Taken
  <2>4. count * low[d][m] <= sum[d][m] /\ sum[d][m] <= count * high[d][m]
    BY <1>1, <2>2, <2>3 DEF MonitorsInv, Sums
  <2>5. count \in Nat /\ sum[d][m] \in Nat /\ low[d][m] \in Nat
    BY <1>1, <2>1, CountersGet DEF TypeOK
  <2>6. count * low[d][m] \in Nat
    BY <2>5, TimesGrows
  <2>. QED  BY <2>4, <2>5, <2>6
<1>2. MonitorsInv => AveragesRight
  BY <1>1 DEF AveragesRight, AverageOfReadings, MonitorsInv
<1>. QED  BY <1>2, MonitorsCorrect, PTL

\* pesm says that the speed or the power state of a GPU has changed exactly when a
\* reading differed from the first, although it compares with the one before.
THEOREM ChangesAreKnown == Spec => []ChangeIsKnown
<1>1. MonitorsInv => ChangeIsKnown
  BY DEF MonitorsInv, Changes, ChangeIsKnown
<1>. QED  BY <1>1, MonitorsCorrect, PTL
=============================================================================
