------------------------------- MODULE Babel -------------------------------
(***************************************************************************)
(* The babel action: workers that run the BabelStream kernels over three   *)
(* arrays of their GPU, in iterations or for a duration, and the rates     *)
(* they log.                                                               *)
(*                                                                         *)
(* The elements of the arrays are numbers modulo Modulus.  A block of      *)
(* threads has conf.tb lanes; dwords are counted, so a float is 1 and a    *)
(* double is 2 of them.  The events around kernels are not used            *)
(* (event_timing is FALSE).                                                *)
(***************************************************************************)
EXTENDS Integers, Sequences, FiniteSets

CONSTANTS BabelConfs,   \* what the keys ask for and what the machine has
          Modulus,
          MaxTimed,     \* iterations that fit in a duration
          MaxTurnsOfAction

Workers == {1, 2}
Kernels == {"read", "write", "copy", "mul", "add", "triad", "dot"}

BabelConfType ==
    [gpus: SUBSET Workers, parallel: BOOLEAN, count: 0..MaxTurnsOfAction,
     type: 0..5, tests: SUBSET Kernels, num_iter: Nat, timed: BOOLEAN,
     array_size: Nat \ {0}, dwords: Nat \ {0}, chunks: Nat \ {0}, tb: Nat \ {0},
     init: {"default", "zero_init", "cpu_norm_dist", "gpu_norm_dist"},
     devices: Nat, memory: Nat]

\* get_all_mem_config_keys lets no fewer than two iterations through.  The values the
\* arrays start with are below Modulus.
ASSUME BabelConstants ==
    /\ Modulus \in Nat /\ Modulus > 5 /\ MaxTimed \in Nat /\ MaxTurnsOfAction \in Nat \ {0}
    /\ \A c \in BabelConfs : c \in BabelConfType /\ c.gpus # {} /\ c.num_iter >= 2

VARIABLES bconf,
          bpc,       \* of each worker: "idle", "new", "run", "ended", "done"
          arrays,    \* of each worker: what a, b and c hold
          step,      \* of each worker: its place in the iteration, 1 at the top
          iter,      \* of each worker: actual_iterations
          samples,   \* of each worker: times taken of each kernel
          wild,      \* workers whose kernels left the arrays
          buffers,   \* of each worker: what its stream holds
          rates,     \* of each worker: what it logged
          bresult,   \* of each worker: result
          terminated,\* an exception left a thread
          bmain, bround, babelStop, babelStatus

streamVars == <<bpc, arrays, step, iter, samples, wild, buffers, rates, bresult, terminated>>
babelVars == <<bconf, streamVars, bmain, bround, babelStop, babelStatus>>

-----------------------------------------------------------------------------
(* The geometry of the kernels.                                            *)

Size == IF bconf.type \in {1, 3} THEN 1 ELSE 2
elements_per_lane == IF bconf.dwords < Size THEN 1 ELSE bconf.dwords \div Size

\* Seeded fault: the chunks of a block are forgotten.
block_cntOfOne == bconf.array_size \div (bconf.tb * elements_per_lane)

block_cnt == bconf.array_size \div (bconf.tb * elements_per_lane * bconf.chunks)

\* The kernels that have been compiled; any other is asked for as the last one.
Compiled == {4, 2} \X {1, 2, 4}
Shape ==
    IF <<elements_per_lane, bconf.chunks>> \in Compiled
    THEN <<elements_per_lane, bconf.chunks>> ELSE <<4, 2>>

Lanes == block_cnt * bconf.tb

\* The elements of a lane: chunks that are a grid apart.
ElementsOf(lane) ==
    {lane * Shape[1] + i * Lanes * Shape[1] + j : i \in 0..(Shape[2] - 1), j \in 0..(Shape[1] - 1)}

Touched == UNION {ElementsOf(lane) : lane \in 0..(Lanes - 1)}
Indices == 0..(bconf.array_size - 1)

-----------------------------------------------------------------------------
(* The kernels.  The stores of one are to indices no other lane has.       *)

startA == 1
startB == 2
startC == 0
startScalar == 4

\* Where the lanes go, the value v has there; elsewhere the old one.
Stored(old, v) == [x \in Indices |-> IF x \in Touched THEN v[x] % Modulus ELSE old[x]]

write(d) == [d EXCEPT !.c = Stored(d.c, [x \in Indices |-> startC])]
copy(d) == [d EXCEPT !.c = Stored(d.c, d.a)]

mul(d) == [d EXCEPT !.b = Stored(d.b, [x \in Indices |-> startScalar * d.c[x]])]
add(d) == [d EXCEPT !.c = Stored(d.c, [x \in Indices |-> d.a[x] + d.b[x]])]
triad(d) == [d EXCEPT !.a = Stored(d.a, [x \in Indices |-> d.b[x] + startScalar * d.c[x]])]

\* read and dot leave the arrays alone.
Run(kernel, d) ==
    CASE kernel = "write" -> write(d) [] kernel = "copy" -> copy(d)
      [] kernel = "mul" -> mul(d)     [] kernel = "add" -> add(d)
      [] kernel = "triad" -> triad(d) [] OTHER -> d

\* The kernels of an iteration, in the order of the loop; run_triad has one.
Order == <<"read", "write", "copy", "mul", "add", "triad", "dot">>
Subtests == IF bconf.type \in {3, 4} THEN {"triad"} ELSE bconf.tests

\* The places of an iteration that have one, from place s on.
From(s) == {k \in s..Len(Order) : Order[k] \in Subtests}

-----------------------------------------------------------------------------
(* A worker.                                                               *)

\* The constructor refuses the shape, the size, the device or the memory, which is
\* always that of device 0; nothing catches what it throws.
Throws(w) ==
    \/ bconf.dwords >= Size /\ bconf.dwords % Size # 0
    \/ bconf.array_size % (bconf.tb * elements_per_lane * bconf.chunks) # 0
    \/ w > bconf.devices
    \/ bconf.memory < 3 * bconf.array_size * Size

Buffers == {"sums", "a", "b", "c", "events"}

\* The values generated for a distribution are one of their own.
InitialValue(array) ==
    CASE bconf.init = "zero_init" -> 0
      [] bconf.init = "default" -> IF array = "a" THEN startA ELSE IF array = "b" THEN startB ELSE startC
      [] OTHER -> 5

\* run_babel and the HIPStream of a worker, with its arrays.
NewStream(w) ==
    /\ bpc[w] = "new" /\ ~terminated
    /\ \/ /\ bconf.type \notin 1..4
          /\ bpc' = [bpc EXCEPT ![w] = "done"]
          /\ bresult' = [bresult EXCEPT ![w] = FALSE]
          /\ UNCHANGED <<arrays, step, iter, samples, wild, buffers, rates, terminated>>
       \/ /\ bconf.type \in 1..4 /\ Throws(w)
          /\ terminated' = TRUE
          /\ UNCHANGED <<bpc, arrays, step, iter, samples, wild, buffers, rates, bresult>>
       \/ /\ bconf.type \in 1..4 /\ ~Throws(w)
          /\ bpc' = [bpc EXCEPT ![w] = "run"]
          /\ buffers' = [buffers EXCEPT ![w] = Buffers]
          /\ arrays' = [arrays EXCEPT ![w] =
                [n \in {"a", "b", "c"} |-> [x \in Indices |-> InitialValue(n)]]]
          /\ step' = [step EXCEPT ![w] = 1] /\ iter' = [iter EXCEPT ![w] = 0]
          /\ samples' = [samples EXCEPT ![w] = 0]
          /\ rates' = [rates EXCEPT ![w] = "none"]
          /\ UNCHANGED <<wild, bresult, terminated>>
    /\ UNCHANGED <<bconf, bmain, bround, babelStop, babelStatus>>

AtTop(w) == bpc[w] = "run" /\ step[w] = 1

MayGoOn(w) == IF bconf.timed THEN iter[w] < MaxTimed ELSE iter[w] < bconf.num_iter
MayEnd(w) == bconf.timed \/ ~MayGoOn(w)

\* The iteration of a worker is over.
CountIteration(w) ==
    /\ step' = [step EXCEPT ![w] = 1] /\ iter' = [iter EXCEPT ![w] = @ + 1]
    /\ samples' = [samples EXCEPT ![w] = @ + 1]

\* One kernel of the loop, with its time; the last of an iteration counts it.
RunKernel(w) ==
    /\ bpc[w] = "run" /\ ~terminated
    /\ step[w] = 1 => MayGoOn(w)
    /\ \E k \in From(step[w]) :
        /\ \A i \in From(step[w]) : k <= i
        /\ arrays' = [arrays EXCEPT ![w] = Run(Order[k], @)]
        /\ wild' = IF Touched \subseteq Indices THEN wild ELSE wild \cup {w}
        /\ IF From(k + 1) = {} THEN CountIteration(w)
           ELSE step' = [step EXCEPT ![w] = k + 1] /\ UNCHANGED <<iter, samples>>
    /\ UNCHANGED <<bconf, bpc, buffers, rates, bresult, terminated, bmain, bround,
                   babelStop, babelStatus>>

\* An iteration with all subtests switched off.
RunNone(w) ==
    /\ AtTop(w) /\ ~terminated /\ MayGoOn(w) /\ From(1) = {}
    /\ CountIteration(w)
    /\ UNCHANGED <<bconf, bpc, arrays, wild, buffers, rates, bresult, terminated, bmain,
                   bround, babelStop, babelStatus>>

\* Of each subtest the first time is left out of the least, the greatest and the
\* average; run_triad takes the time of all.
Rate(w) ==
    IF bconf.type \in {3, 4} \/ bconf.tests = {} \/ samples[w] >= 2
    THEN "number" ELSE "undefined"

Freed == {"sums", "a", "b", "c", "events"}

\* The end of the loop: the rates are logged and the stream is deleted.
EndStream(w) ==
    /\ AtTop(w) /\ MayEnd(w) /\ ~terminated
    /\ rates' = [rates EXCEPT ![w] = Rate(w)]
    /\ buffers' = [buffers EXCEPT ![w] = @ \ Freed]
    /\ bresult' = [bresult EXCEPT ![w] = TRUE]
    /\ bpc' = [bpc EXCEPT ![w] = "done"]
    /\ UNCHANGED <<bconf, arrays, step, iter, samples, wild, terminated, bmain, bround,
                   babelStop, babelStatus>>

-----------------------------------------------------------------------------
(* The action.                                                             *)

Idle == {w \in bconf.gpus : bpc[w] = "idle"}

BabelStart ==
    /\ bmain = "start" /\ ~terminated
    /\ bpc' = [w \in Workers |->
        IF w \in Idle /\ (bconf.parallel \/ \A v \in Idle : w <= v) THEN "new" ELSE bpc[w]]
    /\ bmain' = "join"
    /\ UNCHANGED <<bconf, arrays, step, iter, samples, wild, buffers, rates, bresult,
                   terminated, bround, babelStop, babelStatus>>

AllGood == \A w \in bconf.gpus : bresult[w]

BabelJoin ==
    /\ bmain = "join" /\ ~terminated
    /\ \A w \in bconf.gpus : bpc[w] \in {"idle", "done"}
    /\ \/ /\ babelStop
          /\ bmain' = "end" /\ babelStatus' = "failed"
          /\ UNCHANGED <<bpc, bround>>
       \/ /\ ~babelStop /\ Idle # {}
          /\ bmain' = "start" /\ UNCHANGED <<bpc, bround, babelStatus>>
       \/ /\ ~babelStop /\ Idle = {} /\ bround = bconf.count
          /\ bmain' = "end" /\ babelStatus' = IF AllGood THEN "success" ELSE "failed"
          /\ UNCHANGED <<bpc, bround>>
       \/ /\ ~babelStop /\ Idle = {} /\ bround # bconf.count
          /\ bmain' = "start" /\ bpc' = [w \in Workers |-> "idle"]
          /\ bround' = IF bround < MaxTurnsOfAction THEN bround + 1 ELSE 1
          /\ UNCHANGED babelStatus
    /\ UNCHANGED <<bconf, arrays, step, iter, samples, wild, buffers, rates, bresult,
                   terminated, babelStop>>

AskBabelStop ==
    /\ bmain # "end" /\ ~babelStop /\ ~terminated
    /\ babelStop' = TRUE
    /\ UNCHANGED <<bconf, streamVars, bmain, bround, babelStatus>>

BabelStutters == (bmain = "end" \/ terminated) /\ UNCHANGED babelVars

BabelBegin ==
    /\ bpc = [w \in Workers |-> "idle"]
    /\ arrays = [w \in Workers |-> <<>>] /\ step = [w \in Workers |-> 1]
    /\ iter = [w \in Workers |-> 0] /\ samples = [w \in Workers |-> 0]
    /\ wild = {} /\ buffers = [w \in Workers |-> {}]
    /\ rates = [w \in Workers |-> "none"] /\ bresult = [w \in Workers |-> FALSE]
    /\ terminated = FALSE
    /\ bmain = "start" /\ bround = 1 /\ babelStop = FALSE /\ babelStatus = "none"

BabelInit == bconf \in BabelConfs /\ BabelBegin

BabelNext ==
    \/ BabelStart \/ BabelJoin \/ AskBabelStop \/ BabelStutters
    \/ \E w \in Workers : NewStream(w) \/ RunKernel(w) \/ RunNone(w) \/ EndStream(w)

BabelSpec == BabelInit /\ [][BabelNext]_babelVars

-----------------------------------------------------------------------------
(* Properties.                                                             *)

BabelTypeOK ==
    /\ bconf \in BabelConfs
    /\ bpc \in [Workers -> {"idle", "new", "run", "done"}]
    /\ \A w \in Workers :
        /\ bpc[w] = "run" =>
            \A n \in {"a", "b", "c"} : arrays[w][n] \in [Indices -> 0..(Modulus - 1)]
        /\ step[w] \in 1..7 /\ iter[w] \in Nat /\ samples[w] = iter[w]
        /\ buffers[w] \subseteq Buffers /\ rates[w] \in {"none", "number", "undefined"}
    /\ wild \subseteq Workers /\ bresult \in [Workers -> BOOLEAN] /\ terminated \in BOOLEAN
    /\ bmain \in {"start", "join", "end"} /\ bround \in 1..MaxTurnsOfAction
    /\ babelStop \in BOOLEAN
    /\ babelStatus \in {"none", "success", "failed"}
    /\ bmain = "end" <=> babelStatus # "none"

\* The kernels stay in the arrays of their worker.  Known to be otherwise: fewer than
\* eight elements per lane in all, of a shape that is not compiled, run as <4, 2>.
KernelsInside ==
    <<elements_per_lane, bconf.chunks>> \in Compiled \/ elements_per_lane * bconf.chunks >= 8
        => wild = {}

\* What check_solution calculates for one more iteration, by the element.
Golden(g) ==
    LET b == IF bconf.type \in {3, 4} THEN g.b ELSE (startScalar * g.a) % Modulus
        c == IF bconf.type \in {3, 4} THEN g.c ELSE (g.a + b) % Modulus
    IN  [a |-> (b + startScalar * c) % Modulus, b |-> b, c |-> c]

Gold[n \in Nat] ==
    IF n = 0 THEN [a |-> startA, b |-> startB, c |-> startC] ELSE Golden(Gold[n - 1])

\* After every iteration of all kernels that write, or of the triad alone, each
\* element is what check_solution, whose call is commented out, would expect: no
\* element is left out, whatever the compiled shape.
SolutionHolds ==
    \A w \in Workers :
        /\ AtTop(w) /\ bconf.init = "default"
        /\ bconf.type \in {3, 4} \/ {"copy", "mul", "add", "triad"} \subseteq bconf.tests
        /\ <<elements_per_lane, bconf.chunks>> \in Compiled
        => \A n \in {"a", "b", "c"}, x \in Indices : arrays[w][n][x] = Gold[iter[w]][n]

\* The rates of a worker that counts its iterations are numbers, of all the iterations
\* asked for; a duration that ends before two iterations is known to give none.
RatesAreNumbers ==
    \A w \in Workers : rates[w] # "none" /\ ~bconf.timed =>
        rates[w] = "number" /\ iter[w] = bconf.num_iter

\* A stream that has ended holds nothing, and a worker that is done has none.
StreamsFreed == \A w \in Workers : bpc[w] \in {"idle", "new", "done"} => buffers[w] = {}

\* An action that succeeds has measured every GPU, with a kind of test there is.
SuccessMeansMeasured ==
    babelStatus = "success" =>
        /\ bconf.type \in 1..4
        /\ \A w \in bconf.gpus : bpc[w] = "done" /\ rates[w] # "none"

\* The streams of babel stay in their arrays and hold what the kernels compute for every
\* shape that is compiled and fits, free what they have, and a success has measured.
BabelSound ==
    /\ KernelsInside /\ SolutionHolds /\ RatesAreNumbers
    /\ StreamsFreed /\ SuccessMeansMeasured
=============================================================================
