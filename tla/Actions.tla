------------------------------- MODULE Actions -------------------------------
(***************************************************************************)
(* An action from its configuration to its verdict: the keys it reads      *)
(* through rvs::actionbase, with what each function does to a value that   *)
(* is absent, empty or malformed; the GPUs it selects; and the status it   *)
(* reports.  The actions of a batch run one after the other in a process.  *)
(*                                                                         *)
(* A configuration has at most one key out of order, or breaks at most one *)
(* rule between keys.  The modules of Handed select their GPUs in the      *)
(* threads they create; here they end when their keys are accepted.        *)
(***************************************************************************)
EXTENDS Integers, Sequences, FiniteSets, SequencesExt

CONSTANTS Machines,  \* sequences of GPUs in the order of HIP
          Batches    \* sequences of configurations

GpuType == [id: Nat, index: Nat, device: Nat, loc: Nat, known: BOOLEAN, secondary: BOOLEAN]

Stressing == {"gst", "iet", "tst", "perf", "pulse", "mem", "babel"}
Handed    == {"pbqt", "pebb", "gm", "pesm"}
Queries   == {"peqt", "smqt", "gpup"}
ActionModules == Stressing \cup Handed \cup Queries

ListType == [kind: {"absent", "all", "invalid", "list"}, list: Seq(Nat)]

\* bad is the key out of order, how what is wrong with it; broken is the rule
\* that the values violate together.
ConfigType == [module: ActionModules, device: ListType, index: ListType, deviceid: Nat,
               bad: STRING, how: {"absent", "empty", "invalid"}, broken: STRING]

ASSUME ActionConstants ==
    /\ \A b \in Batches : b \in Seq(ConfigType) /\ b # <<>>
    /\ \A m \in Machines :
        /\ m \in Seq(GpuType)
        /\ \A i \in 1..Len(m), j \in 1..Len(m) : i # j => m[i].id # m[j].id /\ m[i].index # m[j].index

VARIABLES
    gpus,       \* the machine
    batch,      \* the configurations to come, the current one first
    apc,        \* "common", "own", "rules", "select", "run", "end"
    failed,     \* a key or a rule was refused
    unset,      \* variables that hold whatever was in the memory
    filter,     \* device, index, deviceAll, indexAll, deviceid
    tested,     \* the GPUs that got a worker: [gpu, mcm]
    status,     \* of the callback, "none" before and without one
    result,     \* what run() returns
    keysts      \* of smqt: a global, TRUE when the process starts

keyVars    == <<failed, unset, filter>>
endVars    == <<tested, status, result>>
actionVars == <<gpus, batch, apc, keyVars, endVars, keysts>>

Conf   == batch[1]
Module == Conf.module

-----------------------------------------------------------------------------
(* The keys.  A strict key fails on any error code, a lenient one on a     *)
(* syntax error only; a required one also when it is absent; an optional   *)
(* one has no default beside the one of the constructor; nobody looks at   *)
(* the error of an ignored one.                                            *)

Key(names, type, style) == {[name |-> n, type |-> type, style |-> style] : n \in names}

BaseKeys ==
    Key({"name"}, "string", "required")
    \cup Key({"deviceid", "count", "wait"}, "int", "strict")
    \cup Key({"parallel"}, "bool", "strict")

DurationKeys == Key({"duration", "log_interval"}, "int", "strict")

Sizes       == {"matrix_size_a", "matrix_size_b", "matrix_size_c", "transa", "transb"}
Leading     == {"lda", "ldb", "ldc", "ldd"}
Strides     == {"batch_size", "stride_a", "stride_b", "stride_c", "stride_d"}
Multipliers == Key({"alpha", "beta"}, "float", "lenient")

GstKeys1 ==
    Key({"target_stress"}, "float", "required")
    \cup Key({"ramp_interval", "log_interval", "max_violations"}, "int", "strict")
    \cup Key({"copy_matrix"}, "bool", "strict") \cup Key({"tolerance"}, "float", "strict")
    \cup Key({"ops_type", "data_type"}, "string", "strict")
    \cup Key({"hot_calls", "warm_calls"} \cup Sizes, "int", "lenient")
    \cup Key({"matrix_init"}, "string", "lenient") \cup Multipliers
GstKeys2 ==
    Key(Leading \cup {"error_freq", "error_count"} \cup Strides, "int", "lenient")
    \cup Key({"self_check", "accuracy_check", "error_inject"}, "bool", "strict")
    \cup Key({"gemm_mode", "blas_source", "compute_type", "scale_a", "scale_b"}, "string", "lenient")
    \cup Key({"out_data_type"}, "string", "strict")
GstKeys3 == Key({"rotating"}, "int", "lenient") \cup Key({"duration"}, "int", "strict")

IetKeys1 ==
    Key({"target_power"}, "float", "required")
    \cup Key({"ramp_interval", "log_interval", "sample_interval", "max_violations", "matrix_size"},
             "int", "strict")
    \cup Key({"tolerance"}, "float", "strict") \cup Key({"ops_type", "data_type"}, "string", "strict")
    \cup Key(Sizes \cup {"lda"}, "int", "lenient") \cup Multipliers
IetKeys2 ==
    Key({"ldb", "ldc", "ldd", "hot_calls"} \cup Strides, "int", "lenient")
    \cup Key({"targetpower_met", "bw_workload", "cp_workload", "nt_loads"}, "bool", "lenient")
    \cup Key({"matrix_init", "gemm_mode", "blas_source", "compute_type"}, "string", "lenient")
    \cup Key({"wg_count"}, "int", "strict") \cup Key({"out_data_type"}, "string", "strict")

TstKeys1 ==
    Key({"target_temp", "throttle_temp"}, "float", "required")
    \cup Key({"ramp_interval", "log_interval", "sample_interval", "max_violations", "matrix_size"},
             "int", "strict")
    \cup Key({"tolerance"}, "float", "strict") \cup Key({"ops_type"}, "string", "strict")
    \cup Key(Sizes, "int", "lenient") \cup Multipliers
TstKeys2 == Key(Leading, "int", "lenient") \cup Key({"targettemp_met"}, "bool", "lenient")

PerfKeys1 ==
    Key({"target_stress"}, "float", "required")
    \cup Key({"ramp_interval", "log_interval", "max_violations"}, "int", "strict")
    \cup Key({"copy_matrix"}, "bool", "strict") \cup Key({"tolerance"}, "float", "strict")
    \cup Key({"ops_type"}, "string", "strict")
    \cup Key({"hot_calls"} \cup Sizes, "int", "lenient") \cup Multipliers
PerfKeys2 == Key(Leading, "int", "lenient")

PulseKeys1 ==
    Key({"pulse_rate", "matrix_size", "workload_iterations", "gpu_sync_wait"}, "int", "strict")
    \cup Key({"high_phase_ratio", "tolerance"}, "float", "strict")
    \cup Key({"ops_type", "data_type", "out_data_type"}, "string", "strict")
    \cup Key({"transa", "transb"} \cup Leading, "int", "lenient") \cup Multipliers
    \cup Key({"halt_on_error"}, "bool", "lenient")
PulseKeys2 ==
    Key({"verify_mode", "matrix_init", "blas_source", "compute_type"}, "string", "strict")
    \cup Key({"sample_interval", "hot_calls"}, "int", "strict")
    \cup Key({"max_temp_c"}, "float", "strict")

MemKeys ==
    Key({"mem_blocks", "num_passes", "thrds_per_blk", "num_iter"}, "int", "strict")
    \cup Key({"stress", "mapped_memory"}, "bool", "strict")
    \cup Key({"exclude"}, "list", "ignored")

BabelKeys ==
    Key({"array_size", "test_type", "num_iter", "duration", "dwords_per_lane",
         "chunks_per_block", "tb_size"}, "int", "strict")
    \cup Key({"read", "write", "copy", "add", "mul", "dot", "triad", "mibibytes", "o/p_csv"},
             "bool", "strict")

\* peers, test_bandwidth and bidirectional are read by functions of pbqt.
PbqtFlags == Key({"peers", "test_bandwidth", "bidirectional"}, "flag", "required")
PbqtKeys1 ==
    Key({"peer_deviceid"}, "int", "strict") \cup Key({"b2b"}, "bool", "strict")
    \cup Key({"block_size"}, "list", "lenient")
    \cup Key({"b2b_block_size", "link_type"}, "int", "optional")
PbqtKeys2 ==
    Key({"hot_calls", "warm_calls", "subexecutor", "a2a_mode", "a2a_direct", "a2a_local",
         "a2a_num_gpus", "use_remote_read", "gfx_unroll"}, "int", "lenient")
    \cup Key({"transfer_method", "transferbench_test", "executor"}, "string", "lenient")

PebbKeys ==
    Key({"host_to_device", "device_to_host", "b2b"}, "bool", "strict")
    \cup Key({"block_size"}, "list", "lenient")
    \cup Key({"b2b_block_size", "link_type"}, "int", "optional")
    \cup Key({"hot_calls", "warm_calls", "subexecutor", "gfx_unroll"}, "int", "lenient")
    \cup Key({"transfer_method", "executor", "source_memory", "destination_memory"},
             "string", "lenient")

GmKeys ==
    Key({"metrics.temp", "metrics.clock", "metrics.mem_clock", "metrics.fan", "metrics.power"},
        "flag", "optional")
    \cup Key({"force", "terminate"}, "bool", "strict") \cup Key({"sample_interval"}, "int", "strict")

PesmKeys == Key({"monitor"}, "bool", "strict") \cup Key({"debugwait"}, "int", "strict")

SmqtKeys ==
    Key({"bar1_req_size", "bar2_req_size", "bar4_req_size", "bar5_req_size",
         "bar1_base_addr_min", "bar2_base_addr_min", "bar4_base_addr_min",
         "bar1_base_addr_max", "bar2_base_addr_max", "bar4_base_addr_max"}, "int", "required")

OwnKeys(m) ==
    CASE m = "gst"   -> GstKeys1 \cup GstKeys2 \cup GstKeys3
      [] m = "iet"   -> IetKeys1 \cup IetKeys2
      [] m = "tst"   -> TstKeys1 \cup TstKeys2
      [] m = "perf"  -> PerfKeys1 \cup PerfKeys2
      [] m = "pulse" -> PulseKeys1 \cup PulseKeys2
      [] m = "mem"   -> MemKeys
      [] m = "babel" -> BabelKeys
      [] m = "pbqt"  -> PbqtFlags \cup PbqtKeys1 \cup PbqtKeys2
      [] m = "pebb"  -> PebbKeys
      [] m = "gm"    -> GmKeys
      [] m = "pesm"  -> PesmKeys
      [] m = "smqt"  -> SmqtKeys
      [] OTHER       -> {}

HasBase(m)     == m \notin Queries \cup {"pesm"}
HasDuration(m) == m \in {"gst", "iet", "tst", "pebb", "pbqt", "gm", "pulse"}

\* The modules that are not of HasBase read the name and deviceid themselves.
CommonKeys(m) ==
    IF HasBase(m) THEN BaseKeys \cup (IF HasDuration(m) THEN DurationKeys ELSE {})
    ELSE Key({"name"}, "string", "required") \cup Key({"deviceid"}, "int", "strict")

-----------------------------------------------------------------------------
(* The error code of a value: 0 accepted, 1 malformed, 2 absent or empty.  *)

Code(key, how) ==
    IF key.type = "string" THEN IF how = "absent" /\ key.style = "required" THEN 2 ELSE 0
    ELSE IF how = "absent" THEN IF key.style \in {"required", "optional"} THEN 2 ELSE 0
    ELSE IF how = "invalid" THEN 1
    ELSE CASE key.type = "int"  -> 2
           [] key.type = "bool" -> 0  \* 2, for which the default is taken
           [] key.type = "list" -> 0
           [] OTHER             -> 1

KeyFails(key, how) ==
    CASE key.style \in {"strict", "required"}  -> Code(key, how) # 0
      [] key.style \in {"lenient", "optional"} -> Code(key, how) = 1
      [] OTHER                                 -> FALSE

\* rvs_util_parse assigns nothing when it fails, and with the key in the
\* configuration the default is not assigned either.
LeavesUnset(key, how) ==
    key.type = "int" /\ how # "absent" /\ Code(key, how) # 0 /\ key.style # "optional"

BadOf(keys, c)  == {k \in keys : k.name = c.bad}
FailedOf(keys, c) == \E k \in BadOf(keys, c) : KeyFails(k, c.how)
UnsetOf(keys, c)  == {k.name : k \in {k \in BadOf(keys, c) : LeavesUnset(k, c.how)}}

-----------------------------------------------------------------------------
(* The lists of GPUs.  Numbers are stored in 16 bits.                      *)

Narrow16(n) == n % 65536

\* property_get_uint_list: what becomes of the list and of its "all" flag.
ListOf(l)      == IF l.kind = "list" THEN [i \in 1..Len(l.list) |-> Narrow16(l.list[i])] ELSE <<>>
DeviceFlag(l)  == l.kind \in {"absent", "all"}
IndexFlag(l)   == l.kind # "list"    \* set on every error
Resets(m)      == HasBase(m) \/ m \in {"peqt", "gpup"}

\* The four variables that select GPUs, after the common keys.
Filter(c) ==
    LET device == ListOf(c.device)
        index  == ListOf(c.index)
        narrow == Resets(c.module) /\ (device # <<>> \/ index # <<>>)
    IN [device |-> ToSet(device), index |-> ToSet(index),
        deviceAll |-> ~narrow /\ DeviceFlag(c.device),
        indexAll  |-> ~narrow /\ IndexFlag(c.index),
        deviceid  |-> Narrow16(c.deviceid)]

DeviceMatches(f, g) == f.deviceid = 0 \/ f.deviceid = g.device

\* fetch_gpu_list: either list selects.
Fetched(f, g) ==
    \/ f.deviceAll \/ f.indexAll
    \/ g.id \in f.device \/ g.index \in f.index

\* peqt and gpup: a list that is not empty has to select.
Agreed(f, g) ==
    /\ f.deviceAll \/ f.device = {} \/ g.id \in f.device
    /\ f.indexAll \/ f.index = {} \/ g.index \in f.index

\* smqt looks at the first list only.
OnDeviceList(f, g) == f.deviceAll \/ g.id \in f.device

\* What a loop over s puts aside: the elements at the places of a set, in their order.
Filtered(s, places) ==
    LET Rank(k) == Cardinality({j \in places : j <= k})
    IN [i \in 1..Cardinality(places) |-> s[CHOOSE k \in places : Rank(k) = i]]

KnownGpus == Filtered(gpus, {i \in 1..Len(gpus) : gpus[i].known})

\* location2gpu knows no domain: the first GPU with the location is the answer.
AtLocation(g) == KnownGpus[CHOOSE i \in 1..Len(KnownGpus) :
                             /\ KnownGpus[i].loc = g.loc
                             /\ \A j \in 1..(i - 1) : KnownGpus[j].loc # g.loc]

\* The candidates of each module, in the order of its loop; gpup reads the list
\* of GPUs itself.
Candidates(m, f) ==
    LET Matching(s) == Filtered(s, {i \in 1..Len(s) : DeviceMatches(f, s[i])})
        Located(s)  == [i \in 1..Len(s) |-> AtLocation(s[i])]
    IN CASE m = "smqt" -> Matching(Located(KnownGpus))
         [] m = "peqt" -> Located(Matching(KnownGpus))  \* the device ID is the one of the PCI device
         [] OTHER      -> Matching(KnownGpus)

Selects(m, f, g) ==
    CASE m \in Stressing -> Fetched(f, g)
      [] m = "smqt"      -> OnDeviceList(f, g)
      [] OTHER           -> Agreed(f, g)

\* mcm_type gets an entry for each candidate, selected or not.
McmTypes(candidates) ==
    [i \in 1..Len(candidates) |-> IF candidates[i].secondary THEN "SECONDARY" ELSE "PRIMARY"]

-----------------------------------------------------------------------------
NoFilter == [device |-> {}, index |-> {}, deviceAll |-> TRUE, indexAll |-> TRUE, deviceid |-> 0]

ActionsStart ==
    /\ apc = "common" /\ failed = FALSE /\ unset = {} /\ filter = NoFilter
    /\ tested = <<>> /\ status = "none" /\ result = 0 /\ keysts = TRUE

ActionsInit == batch \in Batches /\ gpus \in Machines /\ ActionsStart

Silent == {"gst", "iet", "tst", "pulse", "pesm"}  \* no callback for refused keys

\* The action ends, with or without a callback.
End(st, res) ==
    /\ apc' = "end" /\ status' = st /\ result' = res

Refuse == /\ End(IF Module \in Silent THEN "none" ELSE "FAILED", IF Module = "pesm" THEN 1 ELSE -1)
          /\ UNCHANGED tested

ListsFail == Conf.device.kind \in {"absent", "invalid"}

CommonFails == ListsFail \/ FailedOf(CommonKeys(Module), Conf)

\* get_all_common_config_keys.  A missing name ends it before the other keys.
\* smqt accumulates in a global that nobody sets again.
ReadsCommon ==
    /\ apc = "common"
    /\ failed' = CommonFails
    /\ unset' = UnsetOf(CommonKeys(Module), Conf)
                \cup (IF Module \in {"perf", "mem", "babel"} THEN {"property_duration"} ELSE {})
    /\ filter' = IF Conf.bad = "name" /\ Conf.how = "absent" THEN NoFilter ELSE Filter(Conf)
    /\ keysts' = IF Module = "smqt" THEN keysts /\ ~CommonFails ELSE keysts
    /\ IF CommonFails \/ (Module = "smqt" /\ ~keysts) THEN Refuse
       ELSE apc' = "own" /\ UNCHANGED endVars
    /\ UNCHANGED <<gpus, batch>>

\* bidirectional counts only when test_bandwidth is true, which is when it is
\* not the key that is out of order.
ReadsOwn ==
    /\ apc = "own"
    /\ failed' = FailedOf(OwnKeys(Module), Conf)
    /\ unset' = unset \cup UnsetOf(OwnKeys(Module), Conf)
    /\ IF failed' THEN Refuse ELSE apc' = "rules" /\ UNCHANGED endVars
    /\ UNCHANGED <<gpus, batch, filter, keysts>>

\* The rules between the values of several keys.
Rules(m) ==
    CASE m = "gst"   -> {"duration below ramp", "fp8 with rocblas"}
      [] m = "iet"   -> {"duration below ramp", "fp8 with rocblas"}
      [] m = "tst"   -> {"duration below ramp"}
      [] m = "perf"  -> {"duration below ramp"}
      [] m = "pulse" -> {"max_temp_c out of range", "unknown blas_source", "hipblaslt without type",
                         "high_phase_ratio out of range", "pulse_rate 0"}
      [] m = "babel" -> {"unknown data_init", "unknown nontemporal", "num_iter below 2"}
      [] m \in {"pbqt", "pebb"} -> {"log_interval above duration"}
                                   \cup (IF m = "pebb" THEN {"no memories"} ELSE {})
      [] m = "gm"    -> {"log_interval below sample_interval"}
      [] OTHER       -> {}

\* A fault: no module reads the duration it compares.
BreaksRuleUnset == BOOLEAN

\* perf has no duration of its own: what it compares is whatever is there.
BreaksRule ==
    IF Module = "perf" /\ "property_duration" \in unset THEN BOOLEAN
    ELSE {Conf.broken \in Rules(Module)}

ChecksRules ==
    /\ apc = "rules"
    /\ \E broken \in BreaksRule :
        /\ failed' = broken
        /\ CASE broken -> Refuse
             [] ~broken /\ Module \in Handed -> End("handed", 0) /\ UNCHANGED tested
             [] OTHER -> apc' = "select" /\ UNCHANGED endVars
    /\ UNCHANGED <<gpus, batch, unset, filter, keysts>>

\* What becomes of an action without GPUs: HIP sees none, or none is selected.
NoGpus ==
    IF Module = "tst" \/ (Module = "perf" /\ gpus = <<>>) THEN End("SUCCESS", 0)
    ELSE End("FAILED", -1)

\* smqt counts the GPUs it finds before it looks at the list.
SelectsGpus ==
    /\ apc = "select"
    /\ LET candidates == Candidates(Module, filter)
           mcm == McmTypes(candidates)
           chosen == Filtered(candidates,
                              {i \in 1..Len(candidates) : Selects(Module, filter, candidates[i])})
           found == IF Module = "smqt" THEN candidates # <<>> ELSE chosen # <<>>
       IN IF found
          THEN /\ tested' = [i \in 1..Len(chosen) |-> [gpu |-> chosen[i].id, mcm |-> mcm[i]]]
               /\ apc' = "run" /\ UNCHANGED <<status, result>>
          ELSE NoGpus /\ UNCHANGED tested
    /\ UNCHANGED <<gpus, batch, keyVars, keysts>>

\* The workers' verdict: any, but it takes a worker to fail.  peqt reports
\* success whatever its checks say; perf returns 1.
Runs ==
    /\ apc = "run"
    /\ \E ok \in BOOLEAN :
        /\ ~ok => tested # <<>>
        /\ End(IF ok \/ Module = "peqt" THEN "SUCCESS" ELSE "FAILED",
               IF Module = "perf" THEN 1 ELSE IF ok \/ Module = "peqt" THEN 0 ELSE -1)
    /\ UNCHANGED <<gpus, batch, keyVars, tested, keysts>>

\* rvs::exec goes on to the next action: a new object, in the same process.
NextAction ==
    /\ apc = "end" /\ Len(batch) > 1
    /\ batch' = Tail(batch)
    /\ apc' = "common" /\ failed' = FALSE /\ unset' = {} /\ filter' = NoFilter
    /\ tested' = <<>> /\ status' = "none" /\ result' = 0
    /\ UNCHANGED <<gpus, keysts>>

ActionsNext == ReadsCommon \/ ReadsOwn \/ ChecksRules \/ SelectsGpus \/ Runs \/ NextAction

ActionsSpec == ActionsInit /\ [][ActionsNext]_actionVars

-----------------------------------------------------------------------------
(* Properties.                                                             *)

\* What 16 bits hold.
Words16 == {n \in Nat : n < 65536}

ActionsTypeOK ==
    /\ batch \in Seq(ConfigType) /\ batch # <<>>
    /\ apc \in {"common", "own", "rules", "select", "run", "end"}
    /\ failed \in BOOLEAN /\ keysts \in BOOLEAN
    /\ filter.device \subseteq Words16 /\ filter.index \subseteq Words16
    /\ filter.deviceid \in Words16 /\ filter.deviceAll \in BOOLEAN /\ filter.indexAll \in BOOLEAN
    /\ \A i \in 1..Len(tested) : tested[i].mcm \in {"PRIMARY", "SECONDARY"}
    /\ status \in {"none", "FAILED", "SUCCESS", "handed"}
    /\ result \in -1..1

Accepted == apc \in {"select", "run"} \/ status = "handed"
AllKeys  == CommonKeys(Module) \cup OwnKeys(Module)

\* What the documentation of the keys asks of the GPUs tested: one of the lists
\* names them, or no list is given; the device ID is the one given.
Given(l) == l.kind = "list"
Names(g) == <<g.id \in ToSet(Conf.device.list), g.index \in ToSet(Conf.index.list)>>
Asked(g, any) ==
    /\ Conf.deviceid \in {0, g.device}
    /\ LET byDevice == Given(Conf.device) /\ Names(g)[1]
           byIndex  == Given(Conf.index) /\ Names(g)[2]
       IN \/ ~Given(Conf.device) /\ ~Given(Conf.index)
          \/ IF any THEN byDevice \/ byIndex
             ELSE (Given(Conf.device) => byDevice) /\ (Given(Conf.index) => byIndex)

\* Numbers that 16 bits hold, lists that are not empty, no two GPUs at the same
\* place of different domains: outside of these the code tests other GPUs.
Fits ==
    /\ Conf.deviceid < 65536
    /\ \A l \in {Conf.device, Conf.index} :
        /\ l.kind = "list" => l.list # <<>>
        /\ \A i \in 1..Len(l.list) : l.list[i] < 65536
DistinctPlaces == \A i, j \in 1..Len(gpus) : i # j => gpus[i].loc # gpus[j].loc

\* No action tests a GPU with a number nobody has set, but for the lenient
\* numbers given without a value and the duration of perf, mem and babel, which
\* those three modules never read: rvsactionbase.h property_get_int.
UnsetNeverUsed ==
    Accepted => \A u \in unset :
        \/ u = "property_duration" /\ Module \in {"perf", "mem", "babel"}
        \/ \E k \in AllKeys : k.name = u /\ k.style = "lenient" /\ Conf.how = "empty"

\* A malformed value, or a missing one of the keys that have no default, keeps
\* the action from any GPU: only the patterns mem is to leave out may be
\* malformed, and the index of the devices, which then selects all of them.
RefusesInvalid ==
    Accepted =>
        /\ Conf.how = "invalid" => \A k \in AllKeys : k.name = Conf.bad => k.type = "string" \/ k.name = "exclude"
        /\ Conf.bad \in {"name", "target_stress", "target_power", "target_temp", "throttle_temp", "peers"}
             => Conf.how # "absent" \/ Conf.bad \notin {k.name : k \in AllKeys}
        /\ Conf.device.kind \in {"all", "list"}

\* The GPUs that get a worker are among the ones that one of the lists names, all
\* those that both name are there, and nobody else: the lists are alternatives
\* for the stressing modules and restrictions for peqt and gpup, smqt knows
\* only the first.
RunsWhatIsAsked ==
    /\ apc = "run" /\ Fits /\ (Module \in {"peqt", "smqt"} => DistinctPlaces)
    => LET hit == {tested[i].gpu : i \in 1..Len(tested)}
           known == {KnownGpus[i] : i \in 1..Len(KnownGpus)}
       IN /\ {g.id : g \in {g \in known : Asked(g, FALSE)}} \subseteq hit
          /\ Module # "smqt" => hit \subseteq {g.id : g \in {g \in known : Asked(g, TRUE)}}
          /\ Cardinality(hit) = Len(tested)

\* An action reports success only when it tested a GPU, but for tst and perf on
\* a machine without GPUs, tst when no GPU is selected, and smqt, which takes a
\* GPU that its list leaves out for one it tested.
SuccessMeansTested ==
    apc = "end" /\ status = "SUCCESS" =>
        \/ tested # <<>>
        \/ Module = "tst" \/ Module = "smqt"
        \/ Module = "perf" /\ gpus = <<>>

\* What run() returns agrees with the callback, except perf, which returns 1.
ReturnAgrees ==
    apc = "end" => CASE status \in {"SUCCESS", "handed"} -> result = 0 \/ Module = "perf"
                     [] OTHER -> result # 0

\* An action that is refused breaks a rule of its own configuration: nothing of
\* the actions before it is left, but in the global of smqt; and perf compares a
\* duration nobody has set.
HasReason ==
    \/ ListsFail \/ Conf.bad # "" \/ Conf.broken # ""
    \/ Module = "perf"
    \/ Module = "smqt" /\ ~keysts
RefusedForAReason ==
    [][(apc # "end" /\ apc' = "end" /\ failed' /\ ~failed) \/ (apc = "common" /\ apc' = "end") => HasReason]_actionVars

\* From the keys of a configuration to the result of run(): no action refuses without
\* a reason, and none goes on with a value that is missing or malformed, tests a GPU
\* nobody asked for, or claims a success it did not have.
ActionsSound ==
    /\ [](UnsetNeverUsed /\ RefusesInvalid /\ RunsWhatIsAsked /\ SuccessMeansTested /\ ReturnAgrees)
    /\ RefusedForAReason
=============================================================================
