------------------------------ MODULE MemTest ------------------------------
(***************************************************************************)
(* The mem action and its workers: the memory each GPU has tested, the     *)
(* eleven tests as sequences of kernel passes over its blocks, the record  *)
(* of mismatches and the result of the action.                             *)
(*                                                                         *)
(* A block of 1 MB is abstracted to the pattern it holds.  A block that is *)
(* bad holds junk after every write.  The passes of a test over many       *)
(* patterns are cut to Patterns of them.                                   *)
(***************************************************************************)
EXTENDS Integers, Sequences, FiniteSets, SequencesExt, FiniteSetsExt

CONSTANTS MemConfs,  \* what the keys ask for and what the GPUs have
          Stride,    \* GRIDSIZE, 128: the step of the loops over the blocks
          Save,      \* MEM_NUM_SAVE_BLOCKS, 16
          Wrap,      \* blocks in 2^32 bytes, 4096
          Patterns,  \* patterns of a test that walks through 32 or 20 of them
          MaxRounds  \* rounds of an action

MemGpus == {1, 2}

MemConfType ==
    [gpus: SUBSET MemGpus, parallel: BOOLEAN, count: 0..MaxRounds,
     max: Nat, threads: Nat,             \* mem_blocks, thrds_per_blk
     passes: 1..2, iterations: 0..2,     \* num_passes, num_iter
     total: Nat, free: Nat,              \* memory of each GPU, in blocks
     bad: SUBSET Nat]                    \* bad blocks of each GPU

ASSUME MemConstants ==
    /\ {Stride, Save, Wrap, Patterns, MaxRounds} \subseteq Nat \ {0}
    /\ \A c \in MemConfs :
        c \in MemConfType /\ c.gpus # {} /\ c.total >= 2 * Save /\ c.free <= c.total

VARIABLES mconf,    \* the configuration
          mpc,      \* of each worker: "idle", "size", "test", "done", "aborted"
          tot,      \* of each worker: tot_num_blocks
          at,       \* of each worker: its test and the next pass of it
          blocks,   \* of each worker: what the blocks hold
          seen,     \* of each worker: blocks recorded by the kernels of the test
          errs,     \* of each worker: *err of the test
          iteration,
          small,    \* of each worker: the allocation its record pointers hold
          live,     \* allocations of records
          tested,   \* workers of this round that called back
          memMain, round, memStop, memResult

workerVars == <<mpc, tot, at, blocks, seen, errs, iteration, small, live, tested>>
memVars == <<mconf, workerVars, memMain, round, memStop, memResult>>

-----------------------------------------------------------------------------
(* The memory of a worker.                                                 *)

\* The blocks wanted, without those to be left alone of the device and of what is
\* free; free blocks that are fewer than Save wrap to more than any other number.
Fitting ==
    LET device == mconf.total - Save
        wanted == IF mconf.max # 0 THEN Min({mconf.max + Save, device}) ELSE device
    IN  IF mconf.free < Save THEN wanted ELSE Min({wanted, mconf.free - Save})

\* Seeded fault: the difference is taken for a signed number.
TotalBlocksSigned == Fitting - Save

\* tot_num_blocks, an unsigned int, of which there are Wrap ^ 2 here.
TotalBlocks == (Fitting + Wrap * Wrap - Save) % (Wrap * Wrap)

\* alloc_size: an unsigned int of bytes.
Allocated(n) == n % Wrap

-----------------------------------------------------------------------------
(* The tests.                                                              *)

\* A pass: the kernel, what it expects and what it writes, and where.
Pass(op, sees, puts, where, first) ==
    [op |-> op, sees |-> sees, puts |-> puts, where |-> where, first |-> first]

Write(p) == Pass("write", p, p, "grid", 0)
ReadWrite(p, q) == Pass("readwrite", p, q, "grid", 0)
Read(p) == Pass("read", p, p, "grid", 0)
From1(pass) == [pass EXCEPT !.first = 1]
\* A kernel that takes the size of a block of threads for its number.
ByBlockDim(pass) == [pass EXCEPT !.where = "dim"]

\* n times the passes s.
Times(n, s) == [i \in 1..(n * Len(s)) |-> s[((i - 1) % Len(s)) + 1]]

move_inv_test(p, q) == <<Write(p), ReadWrite(p, q), Read(q)>>

movinv32(p, q) == <<Write(p), ReadWrite(p, q), ByBlockDim(Read(q))>>

modtest(p) == <<ByBlockDim(Write(p)), ByBlockDim(Read(p))>>

\* Patterns are named by whether they are the complement of the other one.
test0 ==
    <<Pass("write", "walk", "walk", "powers", 0), Pass("record", "walk", "walk", "powers", 0)>>
    \o Times(mconf.passes, <<Write("walk"), Read("walk")>>)
test1 == <<Write("own"), Read("own")>>
test2 == move_inv_test("0", "1") \o move_inv_test("1", "0")
test3 == move_inv_test("80", "7f") \o move_inv_test("7f", "80")
test4 == move_inv_test("random", "modnar")
test5 == <<Write("pairs"), Write("pairs"), Read("pairs")>>
test6 == Times(Patterns, movinv32("p", "~p") \o movinv32("~p", "p"))
test7 ==
    <<Pass("write", "seed", "seed", "first", 0), From1(Write("seed")),
      From1(ReadWrite("seed", "~seed")), From1(Read("~seed"))>>
test8 == Times(Patterns, modtest("random"))
test9 == move_inv_test("0", "1")
test10 ==
    <<Pass("write", "even", "even", "all", 0)>>
    \o [i \in 1..mconf.iterations |->
            IF i % 2 = 1 THEN Pass("readwrite", "even", "odd", "all", 0)
            ELSE Pass("readwrite", "odd", "even", "all", 0)]

rvs_memtests ==
    <<test0, test1, test2, test3, test4, test5, test6, test7, test8, test9, test10>>

\* The first blocks of the launches of a pass.
Launches(pass, n) == {i \in pass.first..n : i < n /\ (i - pass.first) % Stride = 0}

\* The blocks of the grid of a launch at block i.
Grid(pass, i) ==
    IF pass.where = "grid" THEN i..(i + mconf.max - 1)
    ELSE IF mconf.max = 0 THEN {} ELSE {i + mconf.threads}

\* Seeded fault: the kernels do not look at end_ptr.
BlocksOfUnguarded(pass, i, n) == Grid(pass, i)

\* A block of the grid that begins at or after end_ptr returns.
BlocksOf(pass, i, n) == {b \in Grid(pass, i) : b < n}

\* How often a pass works on block b of n.  The stress kernels take the bytes as an
\* int: nothing is said of them from half of Wrap on.
Touches(pass, b, n) ==
    CASE pass.where = "powers" ->
            IF mconf.max # 0 /\ b < n /\ (b = 0 \/ \E k \in 0..b : 2 ^ k = b) THEN 1 ELSE 0
      [] pass.where = "first" -> IF b = 0 THEN 1 ELSE 0
      [] pass.where = "all" -> IF b < Allocated(n) THEN 1 ELSE 0
      [] OTHER -> Cardinality({i \in Launches(pass, n) : b \in BlocksOf(pass, i, n)})

\* What a kernel records: a block that is not as expected, and one it comes to
\* again after it has written the other pattern.
Mismatch(w, pass, b) ==
    LET k == Touches(pass, b, tot[w])
    IN  /\ k > 0
        /\ \/ pass.op = "record"
           \/ pass.op \in {"read", "readwrite"} /\ blocks[w][b] # pass.sees
           \/ pass.op = "readwrite" /\ k > 1 /\ pass.puts # pass.sees

\* The kernels move their pointer to the count and leave the count: error_checking
\* finds 0.
error_checking(mismatches) == 0

-----------------------------------------------------------------------------
(* The worker.                                                             *)

allocate_small_mem(w) == small' = [small EXCEPT ![w] = w]

\* run up to the allocation, whose failure ends the process.
SizeWorker(w) ==
    /\ mpc[w] = "size"
    /\ tot' = [tot EXCEPT ![w] = TotalBlocks]
    /\ mpc' = [mpc EXCEPT ![w] =
        IF TotalBlocks = 0 THEN "done"
        ELSE IF Allocated(TotalBlocks) > mconf.free THEN "aborted"
        ELSE "test"]
    /\ allocate_small_mem(w)
    /\ live' = IF TotalBlocks = 0 THEN live \ {small'[w]} ELSE live \cup {small'[w]}
    /\ at' = [at EXCEPT ![w] = <<1, 1>>]
    /\ blocks' = [blocks EXCEPT ![w] = [b \in 0..TotalBlocks |-> "old"]]
    /\ seen' = [seen EXCEPT ![w] = {}]
    /\ errs' = [errs EXCEPT ![w] = 0]
    /\ iteration' = [iteration EXCEPT ![w] = 0]
    /\ UNCHANGED <<mconf, tested, memMain, round, memStop, memResult>>

Passes(w) == rvs_memtests[at[w][1]]
TestEnded(w) == mpc[w] = "test" /\ at[w][2] > Len(Passes(w))

\* A pass over all blocks and, when its kernel compares, error_checking.
RunPass(w) ==
    /\ mpc[w] = "test" /\ ~TestEnded(w)
    /\ LET pass == Passes(w)[at[w][2]]
           mismatches == {b \in DOMAIN blocks[w] : Mismatch(w, pass, b)}
       IN  /\ blocks' = [blocks EXCEPT ![w] = [b \in DOMAIN blocks[w] |->
                IF Touches(pass, b, tot[w]) = 0 \/ pass.op \in {"read", "record"}
                THEN blocks[w][b]
                ELSE IF b \in mconf.bad THEN "junk" ELSE pass.puts]]
           /\ seen' = [seen EXCEPT ![w] = @ \cup mismatches]
           /\ errs' = [errs EXCEPT ![w] = @ + error_checking(mismatches)]
    /\ at' = [at EXCEPT ![w] = <<@[1], @[2] + 1>>]
    /\ UNCHANGED <<mconf, mpc, tot, iteration, small, live, tested, memMain, round,
                   memStop, memResult>>

\* Tests 5, 8 and 9 are repeated after an error, to num_iter.
Repeats(w) ==
    /\ at[w][1] \in {5, 8, 9}
    /\ ~(errs[w] = 0 /\ iteration[w] = 0) /\ iteration[w] < mconf.iterations

\* The next test, or the end of the last one: the callback and what is freed.
EndTest(w) ==
    /\ TestEnded(w)
    /\ IF Repeats(w)
       THEN /\ at' = [at EXCEPT ![w] = <<@[1], 1>>]
            /\ errs' = [errs EXCEPT ![w] = 0]
            /\ iteration' = [iteration EXCEPT ![w] = @ + 1]
            /\ UNCHANGED <<mpc, seen, live, tested>>
       ELSE /\ errs' = [errs EXCEPT ![w] = 0]
            /\ iteration' = [iteration EXCEPT ![w] = 0]
            /\ seen' = [seen EXCEPT ![w] = {}]
            /\ IF at[w][1] < Len(rvs_memtests)
               THEN /\ at' = [at EXCEPT ![w] = <<@[1] + 1, 1>>]
                    /\ UNCHANGED <<mpc, live, tested>>
               ELSE /\ mpc' = [mpc EXCEPT ![w] = "done"]
                    /\ live' = live \ {small[w]}
                    /\ tested' = tested \cup {w}
                    /\ UNCHANGED at
    /\ UNCHANGED <<mconf, tot, blocks, small, memMain, round, memStop, memResult>>

-----------------------------------------------------------------------------
(* The action.                                                             *)

\* The workers to be started now: all, or the next one.
Starts ==
    IF mconf.parallel THEN mconf.gpus ELSE {Min({w \in mconf.gpus : mpc[w] = "idle"})}

StartWorkers ==
    /\ memMain = "start"
    /\ mpc' = [w \in MemGpus |-> IF w \in Starts THEN "size" ELSE mpc[w]]
    /\ memMain' = "join"
    /\ UNCHANGED <<mconf, tot, at, blocks, seen, errs, iteration, small, live, tested,
                   round, memStop, memResult>>

\* The GPUs whose worker has not been started in this round.
Left == {w \in mconf.gpus : mpc[w] = "idle"}

\* All that were started have been joined: the next worker, the next round, the
\* end of the action or a stop.
JoinWorkers ==
    /\ memMain = "join"
    /\ \A w \in mconf.gpus : mpc[w] \in {"idle", "done"}
    /\ \/ /\ memStop
          /\ memMain' = "end" /\ memResult' = "failed"
          /\ UNCHANGED <<mpc, round, tested>>
       \/ /\ ~memStop /\ Left # {}
          /\ memMain' = "start"
          /\ UNCHANGED <<mpc, round, tested, memResult>>
       \/ /\ ~memStop /\ Left = {} /\ round = mconf.count
          /\ memMain' = "end" /\ memResult' = "success"
          /\ UNCHANGED <<mpc, round, tested>>
       \/ /\ ~memStop /\ Left = {} /\ round # mconf.count
          /\ memMain' = "start"
          /\ mpc' = [w \in MemGpus |-> "idle"] /\ tested' = {}
          /\ round' = IF round < MaxRounds THEN round + 1 ELSE 1
          /\ UNCHANGED memResult
    /\ UNCHANGED <<mconf, tot, at, blocks, seen, errs, iteration, small, live, memStop>>

\* rvs::lp::Stop, from another thread.
AskMemStop ==
    /\ memMain # "end" /\ ~memStop
    /\ memStop' = TRUE
    /\ UNCHANGED <<mconf, workerVars, memMain, round, memResult>>

MemStutters ==
    /\ memMain = "end" \/ \E w \in MemGpus : mpc[w] = "aborted"
    /\ UNCHANGED memVars

MemStart ==
    /\ mpc = [w \in MemGpus |-> "idle"] /\ tot = [w \in MemGpus |-> 0]
    /\ at = [w \in MemGpus |-> <<1, 1>>] /\ blocks = [w \in MemGpus |-> <<>>]
    /\ seen = [w \in MemGpus |-> {}] /\ errs = [w \in MemGpus |-> 0]
    /\ iteration = [w \in MemGpus |-> 0]
    /\ small = [w \in MemGpus |-> w] /\ live = {} /\ tested = {}
    /\ memMain = "start" /\ round = 1 /\ memStop = FALSE /\ memResult = "none"

MemInit == mconf \in MemConfs /\ MemStart

MemNext ==
    \/ StartWorkers \/ JoinWorkers \/ AskMemStop \/ MemStutters
    \/ \E w \in MemGpus : SizeWorker(w) \/ RunPass(w) \/ EndTest(w)

MemSpec == MemInit /\ [][MemNext]_memVars

-----------------------------------------------------------------------------
(* Properties.                                                             *)

MemTypeOK ==
    /\ mconf \in MemConfs
    /\ mpc \in [MemGpus -> {"idle", "size", "test", "done", "aborted"}]
    /\ \A w \in MemGpus :
        /\ tot[w] \in 0..(Wrap * Wrap - 1)
        /\ at[w][1] \in 1..11 /\ at[w][2] \in 1..(Len(Passes(w)) + 1)
        /\ seen[w] \subseteq 0..tot[w] /\ errs[w] \in Nat
        /\ iteration[w] \in 0..mconf.iterations
    /\ small \in [MemGpus -> MemGpus] /\ live \subseteq MemGpus
    /\ tested \subseteq mconf.gpus
    /\ memMain \in {"start", "join", "end"} /\ round \in 1..MaxRounds
    /\ memStop \in BOOLEAN /\ memResult \in {"none", "success", "failed"}
    /\ memMain = "end" <=> memResult # "none"

\* No kernel leaves the memory of its worker, as long as the blocks are bytes an
\* unsigned int holds; from 4 GB on the allocation is known to be too small.
InsideTheAllocation ==
    \A w \in MemGpus : mpc[w] = "test" /\ ~TestEnded(w) /\ tot[w] < Wrap =>
        LET pass == Passes(w)[at[w][2]]
        IN  \A i \in Launches(pass, tot[w]) :
                pass.where \in {"grid", "dim"} =>
                    BlocksOf(pass, i, tot[w]) \subseteq 0..(Allocated(tot[w]) - 1)

\* The test of the addresses, the moving inversions over whole blocks, the block
\* moves, the random sequence and the fading record every bad block, when the grid
\* is as wide as the step; the stress test does whatever the grid.
FaultsFound ==
    \A w \in MemGpus : TestEnded(w) /\ tot[w] < Wrap =>
        /\ at[w][1] \in {1, 2, 3, 4, 5, 6, 10} /\ mconf.max >= Stride
             => {b \in mconf.bad : b < tot[w]} \subseteq seen[w]
        /\ at[w][1] = 8 /\ mconf.max >= Stride
             => {b \in mconf.bad : b < tot[w] /\ b > 0} \subseteq seen[w]
        /\ at[w][1] = 11 /\ mconf.iterations > 0
             => {b \in mconf.bad : b < tot[w]} \subseteq seen[w]

\* No kernel records a block of healthy memory when the grid is exactly as wide as
\* the step.  Known to be otherwise: the first test records what it reads along the
\* address lines, and a wider grid, as the default, comes to blocks again after it
\* has inverted them.
HealthyIsQuiet ==
    \A w \in MemGpus :
        mpc[w] = "test" /\ at[w][1] # 1 /\ mconf.max = Stride => seen[w] \subseteq mconf.bad

\* The kernels of a worker write to records that are its own and have not been
\* freed, and none are left at the end of the action.
RecordsOwned ==
    /\ \A w \in MemGpus : mpc[w] = "test" =>
        small[w] \in live /\ \A v \in MemGpus : mpc[v] = "test" /\ v # w => small[v] # small[w]
    /\ memMain = "end" => live = {}

\* An action that succeeds has tested every GPU in its last round, save those with
\* no memory left for it.
SuccessMeansTestedMemory ==
    memResult = "success" =>
        \A w \in mconf.gpus : w \in tested \/ (mpc[w] = "done" /\ tot[w] = 0)

\* A test that recorded a bad block ends with errors.
ErrorsReported ==
    \A w \in MemGpus : TestEnded(w) /\ seen[w] \cap mconf.bad # {} => errs[w] > 0

\* Whatever the number of blocks is against the grid, and wherever the bad ones are,
\* the tests of the memory stay inside it, find the bad and nothing else, and write
\* to the records of their own GPU; a success has tested every GPU that had memory.
MemTestSound ==
    /\ InsideTheAllocation /\ FaultsFound /\ HealthyIsQuiet
    /\ RecordsOwned /\ SuccessMeansTestedMemory
=============================================================================
