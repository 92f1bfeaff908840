-------------------------------- MODULE Blas --------------------------------
(***************************************************************************)
(* The life of one rvs_blas object and of the worker that owns it: what    *)
(* the constructor acquires before it fails or succeeds, which data the    *)
(* GEMMs find in their operands, what a validation compares, and what the  *)
(* destructor gives back.                                                  *)
(*                                                                         *)
(* A job is the worker and the arguments of the constructor as far as the  *)
(* functions tell them apart.  The matrices are abstracted to whether they *)
(* hold generated data and, for the output, to how many GEMMs have been    *)
(* accumulated in it.  The build is the one without F8 types of rocBLAS.   *)
(***************************************************************************)
EXTENDS Naturals, Sequences, FiniteSets, SequencesExt

CONSTANTS Jobs,      \* records with the fields of JobType
          MaxTurns,  \* turns of the worker's loop
          MaxFreq    \* what a number nobody has set may hold, at most

JobType ==
    [worker: {"gst", "iet", "tst", "perf", "pulse"},
     source: {"rocblas", "hipblaslt"},
     ops: {"", "sgemm", "dgemm", "hgemm"},
     data: {"", "mx", "fp8_r", "fp8_e4m3_r", "fp8_e5m2_r", "fp16_r", "bf16_r",
            "i8_r", "fp32_r", "fp64_r"},
     hiprand: BOOLEAN,    \* matrix_init: the GPU generates the data
     beta: BOOLEAN,       \* beta is not 0: the GEMM reads C
     copyMatrix: BOOLEAN, \* copy before each GEMM, not once
     hot: 1..2,           \* GEMMs of one turn
     self: BOOLEAN, accu: BOOLEAN,
     inject: 0..2,        \* error_freq of an error_inject, 0 without
     blocks: 1..2]        \* block_count

\* One of operation and data type, and the pairs that the pulse action makes of an
\* operation; it checks the accuracy only where validate_gemm can.
ASSUME JobsAreJobs ==
    /\ MaxTurns \in Nat /\ MaxFreq \in Nat
    /\ \A j \in Jobs :
        /\ j \in JobType
        /\ j.source = "rocblas" => j.data \notin {"mx", "fp8_r", "fp8_e4m3_r", "fp8_e5m2_r"}
        /\ j.source = "hipblaslt" => j.data # ""
        /\ j.ops = "" => j.data # ""
        /\ j.ops # "" /\ j.data # ""
             => j.worker = "pulse" /\ j.source = "hipblaslt"
                /\ <<j.ops, j.data>> \in {<<"sgemm", "fp32_r">>, <<"dgemm", "fp64_r">>,
                                          <<"hgemm", "fp16_r">>}
        /\ j.worker \in {"tst", "perf"} => j.source = "rocblas" /\ j.ops # ""
        /\ j.hiprand => j.worker \in {"gst", "iet", "pulse"}
        /\ j.blocks # 1 => j.worker = "gst" /\ j.source = "hipblaslt"
        /\ j.self \/ j.accu => j.worker \in {"gst", "pulse"}
        /\ j.worker = "pulse" /\ j.accu => j.ops \in {"sgemm", "dgemm"}
        /\ j.inject # 0 => j.worker = "gst" /\ (j.self \/ j.accu)

VARIABLES
    job, pc, turns,
    held,        \* what has been acquired and not given back
    isError, handleInit,
    hostData,    \* operands generated in host memory
    data,        \* operands that hold data in every block on the GPU
    acc,         \* GEMMs accumulated in the output since C was written
    corrupt,     \* the output of the last GEMM is wrong
    gemm,        \* the last run_blas_gemm: it failed, enqueued its GEMMs, or
                 \* reported success without
    errorFreq, checkCount,
    previous,    \* the output of the check before, if there was one
    compared,    \* what the last validation compared: "C", "output"
    verdict      \* of the last validation

objVars   == <<held, isError, handleInit>>
dataVars  == <<hostData, data, acc, corrupt>>
checkVars == <<errorFreq, checkCount, previous, compared, verdict>>
blasVars  == <<job, pc, turns, objVars, dataVars, gemm, checkVars>>

Operands == {"a", "b", "c"}
Asks == {"gst", "perf"}           \* the workers that look at error()

-----------------------------------------------------------------------------
(* The constructor: allocate_host_matrix_mem, then init_gpu_device.        *)

\* The host arrays.  With both an operation and a data type they are allocated
\* twice, and the first ones are lost.
HostArrays ==
    IF job.hiprand THEN <<>>
    ELSE (IF job.ops # "" /\ job.data # "" THEN <<"lost a", "lost b", "lost c">> ELSE <<>>)
         \o <<"ha", "hb", "hc">>
         \o (IF job.data = "mx" THEN <<"hsa", "hsb">> ELSE <<>>)

\* The memory of the GPU, by the element types the ladder knows.
GpuArrays ==
    <<"da", "db", "dc">>
    \o (IF job.data # "" THEN <<"dd">> ELSE <<>>)
    \o (IF job.data = "mx" THEN <<"dsa", "dsb">> ELSE <<>>)

Handles ==
    IF job.source = "rocblas" THEN <<"blas_handle">>
    ELSE <<"hbl_handle", "layout_a", "layout_b", "layout_c", "layout_d", "matmul",
           "pref", "workspace">>

Acquired ==
    HostArrays \o <<"hip_stream">> \o GpuArrays \o Handles
    \o (IF job.hiprand THEN <<"generator">> ELSE <<>>)

Pinned == {"hco", "hpo", "hout", "hdout"}

\* The constructor gets through the first n acquisitions.  When the one after
\* them, or a setting in between, fails it leaves everything as it is.  The
\* preference is destroyed by the search for an algorithm, which comes after it,
\* and nobody looks at whether there is memory for the workspace.
Construct ==
    /\ pc = "new"
    /\ \E n \in 0..Len(Acquired), ok \in BOOLEAN :
        /\ ok => n = Len(Acquired)
        /\ ~ok => ~(n = Len(Acquired) /\ Last(Acquired) = "workspace")
        /\ LET got == {Acquired[i] : i \in 1..n}
           IN held' \in IF n > 0 /\ Acquired[n] = "pref" THEN {got, got \ {"pref"}}
                        ELSE {got \ {"pref"}, got \ {"pref", "workspace"}}
        /\ handleInit' = ok /\ isError' = ~ok
    /\ pc' = "built"
    /\ UNCHANGED <<job, turns, dataVars, gemm, checkVars>>

-----------------------------------------------------------------------------
(* generate_random_matrix_data and copy_data_to_gpu.                       *)

\* Element types the generator of the GPU fills, and the functions of the host.
GpuGenerates  == job.ops \in {"sgemm", "dgemm"} \/ job.data \in {"fp32_r", "fp64_r"}
HostGenerates == IF job.data = "mx" THEN {"a", "b"} ELSE Operands

\* The generator writes the first block only.
GpuGenerate ==
    IF ~GpuGenerates THEN UNCHANGED <<isError, data>>
    ELSE \E done \in BOOLEAN :
            /\ isError' = ~done
            /\ data' = IF done /\ job.blocks = 1 THEN Operands ELSE data

\* A worker that asks gives up on an object that is not built.
Generate ==
    /\ pc = "built"
    /\ IF job.worker \in Asks /\ isError
       THEN pc' = "done" /\ UNCHANGED <<isError, hostData, data>>
       ELSE /\ pc' = "generated"
            /\ CASE isError -> UNCHANGED <<isError, hostData, data>>
                 [] job.hiprand /\ ~isError -> GpuGenerate /\ UNCHANGED hostData
                 [] OTHER -> hostData' = HostGenerates /\ UNCHANGED <<isError, data>>
    /\ UNCHANGED <<job, turns, held, handleInit, acc, corrupt, gemm, checkVars>>

\* copy_data_to_gpu: every operand there is memory for, and a success takes back
\* the error of the object.  With hipRAND there is nothing to copy.
Copies(ok) ==
    IF job.hiprand THEN ok /\ UNCHANGED <<isError, data, acc, corrupt>>
    ELSE /\ ~ok => "da" \in held
         /\ isError' = ~ok
         /\ data' = IF ok /\ "dc" \in held THEN hostData ELSE data
         /\ acc' = IF ok THEN 0 ELSE acc
         /\ corrupt' = (corrupt /\ ~ok)

\* The copy of the set-up.  gst and perf make it only if they are not to copy
\* before each GEMM; iet and tst do not look at what comes of it.
SetUpCopy ==
    /\ pc = "generated"
    /\ IF job.worker \in Asks /\ job.copyMatrix
       THEN pc' = "loop" /\ UNCHANGED <<isError, data, acc, corrupt>>
       ELSE \E ok \in BOOLEAN :
               /\ Copies(ok)
               /\ pc' = IF ok \/ job.worker \in {"iet", "tst"} THEN "loop" ELSE "done"
    /\ UNCHANGED <<job, turns, held, handleInit, hostData, gemm, checkVars>>

-----------------------------------------------------------------------------
(* The loop of the worker: copy, GEMMs, wait, validate.                    *)

\* The copy before each GEMM, which only gst makes.
TurnCopy ==
    /\ pc = "loop" /\ turns < MaxTurns
    /\ IF job.worker = "gst" /\ job.copyMatrix
       THEN \E ok \in BOOLEAN : Copies(ok) /\ pc' = IF ok THEN "gemm" ELSE "done"
       ELSE pc' = "gemm" /\ UNCHANGED <<isError, data, acc, corrupt>>
    /\ turns' = turns + 1
    /\ UNCHANGED <<job, held, handleInit, hostData, gemm, checkVars>>

\* The GEMMs of rocBLAS that work on C itself; the others have a D.
InPlace == job.source = "rocblas" /\ job.ops # ""

\* Types there is a call for; with others the loop makes none and reports success
\* all the same.
Calls ==
    \/ job.source = "hipblaslt"
    \/ job.ops # "" \/ job.data \in {"fp16_r", "bf16_r"}

\* What the library needs of the object.
Usable ==
    IF job.source = "rocblas" THEN "blas_handle" \in held ELSE "matmul" \in held

\* run_blas_gemm.  A wrong result stays in C until the next copy.
RunBlasGemm(result) ==
    /\ result => ~isError /\ (Calls => Usable)
    /\ ~result => isError \/ Calls
    /\ isError' = ~result
    /\ gemm' = CASE ~result -> "failed"
                 [] result /\ Calls -> "enqueued"
                 [] OTHER -> "reported"
    /\ IF gemm' = "enqueued"
       THEN /\ acc' = IF InPlace /\ job.beta THEN acc + job.hot ELSE acc
            /\ corrupt' \in IF InPlace /\ job.beta /\ corrupt THEN {TRUE} ELSE BOOLEAN
       ELSE UNCHANGED <<acc, corrupt>>

\* gst and iet give up on a failure, of the GEMMs or of the wait for them
\* (is_gemm_op_complete); tst and perf go on, and so does pulse, which is not to
\* halt on an error.  Only gst validates each turn.
Gemm ==
    /\ pc = "gemm"
    /\ \E result, complete \in BOOLEAN :
        /\ RunBlasGemm(result)
        /\ pc' = IF job.worker \in {"gst", "iet"} /\ ~(result /\ complete) THEN "done"
                 ELSE IF job.worker = "gst" THEN "check" ELSE "loop"
    /\ UNCHANGED <<job, turns, held, handleInit, hostData, data, checkVars>>

-----------------------------------------------------------------------------
(* validate_gemm.                                                          *)

\* The matrix each of its checks looks at: the first rung of the ladder that fits.
Looks(check) ==
    CASE job.ops \in {"sgemm", "dgemm"} -> "dc"
      [] check = "self" /\ job.ops \notin {"sgemm", "dgemm"}
             /\ job.data \in {"fp8_r", "fp16_r", "bf16_r"} -> "dd"
      [] OTHER -> "none"

Output == IF InPlace THEN "dc" ELSE "dd"

\* What that matrix holds: the input C, or the output of the last GEMM.
Value(check) ==
    IF Looks(check) # Output THEN <<"C", 0, FALSE>> ELSE <<"output", acc, corrupt>>

\* The checks that are made: a type without one ends the function.
Made ==
    LET asked == (IF job.self THEN {"self"} ELSE {}) \cup (IF job.accu THEN {"accu"} ELSE {})
        refused == {check \in asked : Looks(check) = "none"}
    IN IF "self" \in refused THEN {} ELSE asked \ refused

Unsupported == (job.self /\ Looks("self") = "none") \/ (job.accu /\ Looks("accu") = "none")

\* Part of what is compared is overwritten, as often as error_freq says.
Injects == errorFreq # 0 /\ checkCount % errorFreq = 0

\* The comparisons walk over the matrix with the leading dimension of rocBLAS,
\* which is not set in an object of hipBLASLt: what they find there is anything.
Finds(difference) == IF job.source = "hipblaslt" THEN BOOLEAN ELSE {difference}

\* What a check reports, what it leaves in hpo for the next one and whether it
\* came to compare.  A call that fails ends it without an error.
Nothing == [error |-> FALSE, previous |-> previous, compares |-> FALSE]

\* What hpo holds before anything has been copied into it.
Zeros == <<"zeros", 0, FALSE>>

\* check_result_consistency.  The first time there is nothing to compare with;
\* when the copy fails then, the next time compares with the zeros of hpo.  When
\* the last copy fails, the next time compares with an older output.
Consistency ==
    {Nothing} \cup
    IF previous = <<>>
    THEN {[error |-> FALSE, previous |-> p, compares |-> FALSE] :
             p \in {Value("self"), Zeros}}
    ELSE {[error |-> e, previous |-> p, compares |-> TRUE] :
             e \in Finds(Injects \/ previous # Value("self")), p \in {previous, Value("self")}}

\* check_result_accuracy: the host multiplies once, from the C that was copied.
Accurate ==
    Looks("accu") = Output /\ ~corrupt /\ (InPlace /\ job.beta => acc = 1)

Accuracy ==
    {Nothing} \cup
    {[Nothing EXCEPT !.error = e, !.compares = TRUE] : e \in Finds(Injects \/ ~Accurate)}

\* Seeded fault: an unsupported check is told before an error of the other.
VerdictLate(self, accu) ==
    IF Unsupported THEN "unsupported"
    ELSE IF self.error \/ accu.error THEN "error" ELSE "ok"

\* What the worker makes of the errors and of the value of validate_gemm.
Verdict(self, accu) ==
    LET error == self.error \/ accu.error
    IN IF Unsupported /\ (job.worker = "pulse" \/ ~error) THEN "unsupported"
       ELSE IF error THEN "error" ELSE "ok"

Validates ==
    \E self \in IF "self" \in Made THEN Consistency ELSE {Nothing},
       accu \in IF "accu" \in Made THEN Accuracy ELSE {Nothing} :
        /\ compared' = {Value(c)[1] : c \in {x \in {"self", "accu"} :
                            (x = "self" /\ self.compares) \/ (x = "accu" /\ accu.compares)}}
        /\ verdict' = Verdict(self, accu)
        /\ previous' = self.previous
        /\ checkCount' = IF errorFreq # 0 /\ ~Unsupported THEN checkCount + 1 ELSE checkCount
        /\ held' = held \cup (IF self.previous # <<>> THEN {"hco", "hpo"} ELSE {})
                        \cup (IF accu.compares THEN {"hout", "hdout"} ELSE {})

\* gst validates each turn, pulse once, at its end.
Check ==
    /\ pc = "check"
    /\ IF job.self \/ job.accu THEN Validates
       ELSE UNCHANGED <<held, compared, verdict, previous, checkCount>>
    /\ pc' = IF job.worker = "pulse" THEN "done" ELSE "loop"
    /\ UNCHANGED <<job, turns, isError, handleInit, dataVars, gemm, errorFreq>>

-----------------------------------------------------------------------------
(* The end.                                                                *)

\* The worker leaves its loop: time, a stop, a target that is met.
Leave ==
    /\ pc = "loop"
    /\ pc' = IF job.worker = "pulse" THEN "check" ELSE "done"
    /\ UNCHANGED <<job, turns, objVars, dataVars, gemm, checkVars>>

\* An array of the host that has been allocated twice is known by its second
\* address.
HostFreed ==
    {"ha", "hb", "hc", "hsa", "hsb"} \cup Pinned
    \cup {x \in {"lost a"} : "ha" \notin held} \cup {x \in {"lost b"} : "hb" \notin held}
    \cup {x \in {"lost c"} : "hc" \notin held}

GpuFreed ==
    ToSet(GpuArrays)
    \cup (IF handleInit THEN ToSet(Handles) \cup {"hip_stream", "generator"} ELSE {})

\* ~rvs_blas
Destroy ==
    /\ pc = "done"
    /\ held' = held \ (HostFreed \cup GpuFreed)
    /\ pc' = "gone"
    /\ UNCHANGED <<job, turns, isError, handleInit, dataVars, gemm, checkVars>>

BlasStutters == pc = "gone" /\ UNCHANGED blasVars

\* error_freq and error_count are left unset by the constructor.
BlasStart ==
    /\ pc = "new" /\ turns = 0
    /\ held = {} /\ isError = FALSE /\ handleInit = FALSE
    /\ hostData = {} /\ data = {} /\ acc = 0 /\ corrupt = FALSE
    /\ gemm = "none"
    /\ errorFreq \in IF job.inject # 0 THEN {job.inject} ELSE 0..MaxFreq
    /\ checkCount = 1 /\ previous = <<>> /\ compared = {} /\ verdict = "none"

BlasInit == job \in Jobs /\ BlasStart

BlasNext ==
    \/ Construct \/ Generate \/ SetUpCopy
    \/ TurnCopy \/ Gemm \/ Check
    \/ Leave \/ Destroy \/ BlasStutters

BlasSpec == BlasInit /\ [][BlasNext]_blasVars

-----------------------------------------------------------------------------
(* Properties.                                                             *)

BlasTypeOK ==
    /\ job \in Jobs
    /\ pc \in {"new", "built", "generated", "loop", "gemm", "check", "done", "gone"}
    /\ turns \in 0..MaxTurns
    /\ held \subseteq ToSet(Acquired) \cup Pinned
    /\ {isError, handleInit, corrupt} \subseteq BOOLEAN
    /\ hostData \subseteq Operands /\ data \subseteq Operands
    /\ acc \in 0..job.hot * (IF job.worker = "gst" /\ job.copyMatrix /\ ~job.hiprand THEN 1 ELSE MaxTurns)
    /\ gemm \in {"none", "failed", "enqueued", "reported"}
    /\ errorFreq \in Nat /\ checkCount \in 1..(MaxTurns + 2)
    /\ previous # <<>> => previous[1] \in {"C", "output", "zeros"}
    /\ compared \subseteq {"C", "output"}
    /\ verdict \in {"none", "ok", "unsupported", "error"}

\* An object that has been built gives back all it acquired, in its constructor and
\* in the validations, except host arrays it has allocated twice; one whose
\* constructor failed keeps its stream, its handles and its generator, never memory
\* for matrices.
NothingKept ==
    pc = "gone" =>
        held \subseteq {"lost a", "lost b", "lost c"}
            \cup (IF handleInit THEN {}
                  ELSE {"hip_stream", "generator"} \cup ToSet(Handles))

\* A GEMM of a worker that asks for errors runs on an object that is built, and a
\* GEMM on an object that is built finds generated data in what it reads, whatever
\* of the copies failed before.  Known to be otherwise: perf that is to copy before
\* each GEMM never copies, hipRAND fills two types and one block, C of the
\* micro-scaling types is never generated.
GemmsHaveData ==
    gemm = "enqueued" =>
        /\ job.worker \in Asks => handleInit
        /\ handleInit /\ ~job.hiprand /\ ~(job.worker = "perf" /\ job.copyMatrix)
             => {"a", "b"} \cup (IF job.beta /\ job.data # "mx" THEN {"c"} ELSE {})
                    \subseteq data

Checked == pc = "check" /\ pc' # pc /\ (job.self \/ job.accu)

\* A validation that compared the output with a right one tells a wrong result, and
\* an unsupported second check does not hide it.
WrongResultReported ==
    [][Checked /\ job.source = "rocblas" /\ "output" \in compared' /\ corrupt
       /\ (previous # <<>> => previous[1] = "output" /\ ~previous[3])
       => verdict' = "error"]_blasVars

\* With rocBLAS, no injection and a C that is not accumulated, a validation tells an
\* error only after a wrong result or a copy that failed.
QuietWhenHealthy ==
    [][Checked /\ job.source = "rocblas" /\ errorFreq = 0 /\ ~(InPlace /\ job.beta)
       /\ verdict' = "error"
       => corrupt \/ (previous # <<>> /\ (previous[3] \/ previous[1] = "zeros"))]_blasVars

\* With any call of a library failing, at the set-up or at a later GEMM, the object
\* runs on what it has, tells of the results what it saw, and gives back what it got.
BlasSound == [](NothingKept /\ GemmsHaveData) /\ WrongResultReported /\ QuietWhenHealthy
=============================================================================
