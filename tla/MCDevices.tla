----------------------------- MODULE MCDevices -----------------------------
(***************************************************************************)
(* Instances for TLC of what runs on a device: the BLAS object with the    *)
(* workers that drive it, the memory test, the stream kernels, and the     *)
(* transfers of the HSA wrapper.                                           *)
(***************************************************************************)
EXTENDS Devices

-----------------------------------------------------------------------------
(* Every worker and both libraries: self-checks and checks of accuracy in  *)
(* every mode, injected errors, random numbers in blocks, types without a  *)
(* check.                                                                  *)

GstJob ==
    [worker |-> "gst", source |-> "rocblas", ops |-> "sgemm", data |-> "", hiprand |-> FALSE,
     beta |-> FALSE, copyMatrix |-> FALSE, hot |-> 1, self |-> FALSE, accu |-> FALSE,
     inject |-> 0, blocks |-> 1]
LtJob == [GstJob EXCEPT !.source = "hipblaslt", !.ops = ""]

JobsV ==
    {[GstJob EXCEPT !.self = TRUE, !.accu = a, !.beta = b, !.copyMatrix = c, !.hot = 2] :
        a \in BOOLEAN, b \in BOOLEAN, c \in BOOLEAN}
    \cup {[GstJob EXCEPT !.ops = "", !.data = d, !.self = TRUE, !.accu = TRUE] : d \in {"bf16_r", "i8_r"}}
    \cup {[GstJob EXCEPT !.self = TRUE, !.inject = 2]}
    \cup {[GstJob EXCEPT !.accu = TRUE, !.beta = TRUE, !.hiprand = TRUE, !.copyMatrix = c] : c \in BOOLEAN}
    \cup {[LtJob EXCEPT !.data = d, !.copyMatrix = TRUE, !.beta = TRUE, !.self = (d = "fp8_r")] :
            d \in {"fp8_r", "mx"}}
    \cup {[LtJob EXCEPT !.data = "fp32_r", !.hiprand = TRUE, !.blocks = b] : b \in 1..2}
    \cup {[GstJob EXCEPT !.worker = w, !.ops = "dgemm"] : w \in {"iet", "tst"}}
    \cup {[GstJob EXCEPT !.worker = "perf", !.copyMatrix = c] : c \in BOOLEAN}
    \cup {[LtJob EXCEPT !.worker = "pulse", !.data = "fp32_r", !.self = TRUE, !.ops = o, !.accu = (o # "")] :
            o \in {"", "sgemm"}}
    \cup {[GstJob EXCEPT !.worker = "pulse", !.self = TRUE, !.accu = TRUE]}

-----------------------------------------------------------------------------
(* Two workers at once and one after the other; one with every number of   *)
(* blocks around a multiple of the grid, with bad ones first, inside and   *)
(* last, with less free memory than wanted, and with more than wraps.      *)

TwoGpus ==
    [gpus |-> {1, 2}, parallel |-> TRUE, count |-> 1, max |-> 2, threads |-> 2, passes |-> 1,
     iterations |-> 1, total |-> 7, free |-> 6, bad |-> {}]
OneGpu == [TwoGpus EXCEPT !.gpus = {1}]
\* One GPU whose first block is bad.
Faulty == [OneGpu EXCEPT !.bad = {0}]

MemConfsV ==
    {[TwoGpus EXCEPT !.bad = b, !.parallel = p] : b \in {{}, {1}}, p \in BOOLEAN}
    \cup {[OneGpu EXCEPT !.max = m, !.threads = t, !.bad = b, !.free = f, !.iterations = i] :
            m \in 0..4, t \in {1, 2}, b \in {{}, {0}, {1}, {2, 3}}, f \in {7, 4}, i \in {0, 2}}
    \cup {Faulty}
    \cup {[OneGpu EXCEPT !.total = 11, !.free = f, !.max = m, !.count = c, !.passes = 2, !.bad = {0}] :
            f \in {11, 2, 1, 0}, m \in {0, 3, 8}, c \in {0, 2}}
FaultyV == {Faulty}

-----------------------------------------------------------------------------
(* Arrays of two blocks of lanes and more, in every shape that is compiled *)
(* and some that are not.                                                  *)

TwoStreams ==
    [gpus |-> {1, 2}, parallel |-> TRUE, count |-> 1, type |-> 1, tests |-> Kernels, num_iter |-> 2,
     timed |-> FALSE, array_size |-> 16, dwords |-> 4, chunks |-> 2, tb |-> 2, init |-> "default",
     devices |-> 2, memory |-> 96]

BabelConfsV ==
    {[TwoStreams EXCEPT !.parallel = p, !.type = t] : p \in BOOLEAN, t \in {1, 5}}
    \cup {[TwoStreams EXCEPT !.gpus = {1}, !.type = t, !.dwords = d, !.chunks = c, !.timed = q,
                             !.array_size = 32, !.memory = 192] :
            t \in 1..4, d \in {1, 2, 3, 4, 8}, c \in {1, 2, 4}, q \in BOOLEAN}
    \cup {[TwoStreams EXCEPT !.tests = {}]}
    \cup {[TwoStreams EXCEPT !.tests = {"copy", "dot"}, !.init = i, !.devices = v, !.memory = m, !.count = k] :
            i \in {"zero_init", "gpu_norm_dist"}, v \in {1, 2}, m \in {95, 96}, k \in {0, 2}}

-----------------------------------------------------------------------------
(* A CPU, a GPU with a private pool and a small one, and a GPU whose only  *)
(* pool is too small; two GPUs for pbqt; and every access of two agents.   *)

Pool(max, reach) == [global |-> TRUE, alloc |-> TRUE, max |-> max, reach |-> reach]
Private == [global |-> FALSE, alloc |-> TRUE, max |-> 4, reach |-> {}]
Agent(node, type, pools) == [node |-> node, type |-> type, pools |-> pools]
Reached == Pool(4, {1, 2})

BothWays ==
    [kind |-> "send", src |-> 0, dst |-> 3, size |-> 2, dirs |-> <<"fwd", "rev">>, b2b |-> FALSE,
     agents |-> <<Agent(0, "CPU", <<Reached>>), Agent(3, "GPU", <<Private, Pool(1, {2}), Reached>>),
                  Agent(5, "GPU", <<Pool(1, {1})>>)>>,
     warm |-> 1, hot |-> 1, hops |-> <<>>]
TwoGpusOf(type, p, q, u) == <<Agent(0, type, <<Pool(4, p), Pool(4, q)>>), Agent(3, "GPU", <<Pool(4, u)>>)>>

HsaJobsV ==
    {[BothWays EXCEPT !.dirs = d, !.b2b = b] : d \in {<<"fwd">>, <<"fwd", "rev">>}, b \in BOOLEAN}
    \cup {[BothWays EXCEPT !.hot = 2, !.dirs = <<"fwd">>, !.b2b = b] : b \in BOOLEAN}
    \cup {[BothWays EXCEPT !.dst = n] : n \in {5, 7}} \cup {[BothWays EXCEPT !.size = 5]}
    \cup {[BothWays EXCEPT !.kind = "pebb", !.dirs = d] : d \in {<<"rev">>, <<"fwd">>, <<"fwd", "rev">>}}
    \cup {[BothWays EXCEPT !.kind = "pbqt", !.agents = TwoGpusOf("GPU", {1, 2}, {1, 2}, {1, 2})]}
    \cup {[BothWays EXCEPT !.kind = "peer", !.agents = TwoGpusOf(t, p, q, u)] :
            t \in Types, p \in SUBSET {1, 2}, q \in SUBSET {1, 2}, u \in SUBSET {1, 2}}
    \cup {[BothWays EXCEPT !.kind = "link", !.hops = h, !.dst = n] :
            h \in {<<>>, <<3>>, <<1, 2>>}, n \in {3, 7}}

-----------------------------------------------------------------------------
(* One part at a time.                                                     *)

StandingV ==
    [job |-> [GstJob EXCEPT !.self = TRUE, !.inject = 2], mem |-> Faulty, babel |-> TwoStreams,
     hsa |-> BothWays]
=============================================================================
