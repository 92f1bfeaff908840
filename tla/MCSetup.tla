------------------------------ MODULE MCSetup ------------------------------
(***************************************************************************)
(* Instances of Setup for TLC.                                             *)
(***************************************************************************)
EXTENDS Setup

-----------------------------------------------------------------------------
(* The launcher.                                                           *)

Libs == [gst |-> "good", mem |-> "good", pesm |-> "good", bad |-> "refuses", odd |-> "lacks functions"]

Listed(name, module) ==
    [name |-> name, module |-> module, throws |-> FALSE, keys |-> [device |-> "all"],
     indexBehind |-> FALSE]

Indexed(name, behind) ==
    [Listed(name, "gst") EXCEPT !.keys = [device |-> "all", device_index |-> "all"], !.indexBehind = behind]

\* The second action is called as the index of the first.
ActionList ==
    <<Indexed("one", FALSE),
      [Listed("0", "mem") EXCEPT !.keys = [duration |-> "9", parallel |-> "false"]],
      Indexed("three", TRUE)>>

\* The values of -s, split at blanks.
Selections ==
    [v \in {"0", "1", "0 one", "one 1", "2 one", "9"} |->
        CASE v = "0 one" -> {"0", "one"} [] v = "one 1" -> {"one", "1"}
          [] v = "2 one" -> {"2", "one"} [] v = "9" -> {"nine"} [] OTHER -> {v}]

Ordinary ==
    [via |-> "command", argv |-> <<>>, request |-> [kind |-> "conf", file |-> TRUE],
     files |-> {"default", "level", "gst", "conf"}, platform |-> TRUE, modulesFile |-> "good",
     log |-> TRUE, libraries |-> Libs, actions |-> ActionList, selections |-> Selections,
     indexes |-> {"0", "1"}, yaml |-> "good"]

LineWords == {"-a", "-c", "-p", "--config", "-ver", "--version", "x", "", "true"}
Lines ==
    {<<u, v, w>> : u \in LineWords, v \in LineWords, w \in LineWords} \cup
    {<<"-s", "0">>, <<"-s", "1", "-n", "2">>, <<"-s", "0 one">>, <<"-s", "one 1", "-p">>,
     <<"-s", "2 one">>, <<"-s", "9">>, <<"-n", "0">>, <<"-n", "-1">>, <<"-n", "x">>,
     <<"-p", "false", "-t", "5">>, <<"-t", "0">>, <<"-t", "2">>, <<"-p", "x">>, <<"-i", "0">>,
     <<"-i", "x", "-p">>, <<"-d", "6">>, <<"-d", "x">>, <<"-d", "5", "-v">>, <<"-r", "1">>,
     <<"-r", "6">>, <<"-r", "x">>, <<"-m", "gst">>, <<"-m", "mem">>, <<"-m", "x", "-r", "1">>,
     <<"-r", "1", "-m", "gst">>, <<"-h", "-d", "6">>, <<"--listTests">>, <<"-g", "-q">>, <<"-j">>,
     <<"-j", "x", "-l", "x">>, <<"-c", "conf", "-c", "x">>, <<"-c", "x", "-c", "conf">>}

StartsV ==
    {[Ordinary EXCEPT !.argv = l] : l \in Lines}
    \cup {[Ordinary EXCEPT !.argv = <<"-m", "gst">>, !.platform = FALSE],
          [Ordinary EXCEPT !.argv = <<"-r", "1">>, !.files = {"default"}],
          [Ordinary EXCEPT !.argv = <<"-g">>, !.libraries = [gst |-> "good"]],
          [Ordinary EXCEPT !.log = FALSE], [Ordinary EXCEPT !.actions = <<>>]}
    \cup {[Ordinary EXCEPT !.modulesFile = f] : f \in {"missing", "version"}}
    \cup {[Ordinary EXCEPT !.via = "library", !.actions = <<Listed("one", "gst"), second>>, !.yaml = y] :
            second \in {Listed("two", m) : m \in {"mem", "bad", "odd", "none"}}
                       \cup {[Listed("two", "mem") EXCEPT !.throws = TRUE]},
            y \in {"good", "throws", "empty"}}
    \cup {[Ordinary EXCEPT !.via = "library", !.request = [kind |-> "x", file |-> f]] : f \in BOOLEAN}

-----------------------------------------------------------------------------
(* Actions: a GPU of two dies among three, with and without a location     *)
(* that is not known.                                                      *)

Gpu(id, deviceid, location, known, secondary) ==
    [id |-> id, index |-> id - 1, device |-> deviceid, loc |-> location, known |-> known,
     secondary |-> secondary]

MachinesV ==
    {<<>>,
     <<Gpu(1, 10, 1, TRUE, FALSE), Gpu(2, 10, 2, TRUE, TRUE), Gpu(3, 20, 1, TRUE, FALSE)>>,
     <<Gpu(1, 10, 1, FALSE, FALSE), Gpu(2, 10, 2, TRUE, TRUE), Gpu(3, 20, 3, TRUE, FALSE)>>}

KeyValue(kind, list) == [kind |-> kind, list |-> list]
AllOfThem == KeyValue("all", <<>>)
Absent == KeyValue("absent", <<>>)
Invalid == KeyValue("invalid", <<>>)
Lists == {Absent, AllOfThem, Invalid, KeyValue("list", <<>>), KeyValue("list", <<2>>), KeyValue("list", <<1, 2>>)}

ConfOf(module) ==
    [module |-> module, device |-> AllOfThem, index |-> Absent, deviceid |-> 0, bad |-> "",
     how |-> "absent", broken |-> ""]

\* Every selection, with values of more than 16 bits among them; every key that is
\* absent, empty or invalid; every rule that is broken; smqt twice.
BatchesV ==
    {<<[ConfOf(m) EXCEPT !.device = d, !.index = i, !.deviceid = n]>> :
        m \in ActionModules \ Handed, d \in Lists \cup {KeyValue("list", <<65538>>)}, i \in Lists,
        n \in {0, 10, 20, 65546}}
    \cup UNION {{<<[ConfOf(m) EXCEPT !.bad = k.name, !.how = h]>> :
                    h \in {"absent", "empty", "invalid"}, k \in CommonKeys(m) \cup OwnKeys(m)} :
                m \in ActionModules}
    \cup UNION {{<<[ConfOf(m) EXCEPT !.broken = r]>> : r \in Rules(m)} : m \in ActionModules}
    \cup {<<[ConfOf("smqt") EXCEPT !.device = d], ConfOf("smqt")>> : d \in {AllOfThem, Invalid}}

-----------------------------------------------------------------------------
(* The lists: up to three GPUs, hidden ones among them, two places on a    *)
(* bus, two kinds of device and every order of the indices of AMD SMI.     *)

Cpu == [id |-> 0, place |-> <<0, 0>>, device |-> 0, smi |-> -1, readable |-> TRUE]
NodeOf(i, where, type, smi, readable) ==
    [id |-> 10 * i, place |-> where, device |-> type, smi |-> smi, readable |-> readable]

TopologiesV ==
    {<<Cpu>>, <<Cpu, NodeOf(1, <<0, 3>>, 2, 0, TRUE)>>, <<Cpu, Cpu, NodeOf(1, <<0, 3>>, 3, 0, TRUE)>>}
    \cup {<<Cpu, NodeOf(1, <<0, 3>>, d, s[1], r[1]), NodeOf(2, q, e, s[2], r[2]),
            NodeOf(3, <<0, 1>>, 1, s[3], r[3])>> :
            d \in {1, 2}, e \in 1..3, q \in {<<0, 2>>, <<1, 3>>},
            s \in {<<0, 1, 2>>, <<2, 0, 1>>, <<0, -1, 1>>, <<-1, -1, -1>>}, r \in [1..3 -> BOOLEAN]}

-----------------------------------------------------------------------------
(* Queries.                                                                *)

Property(section, name, condition, kind, value) ==
    [section |-> section, name |-> name, condition |-> condition,
     pattern |-> [kind |-> kind, value |-> value]]
Capable(name, kind, value) == Property("capability", name, 0, kind, value)
Budgeted(c, kind, value) ==
    Property("capability", IF c = 1 THEN "D0_Idle_Thermal" ELSE "D1_Idle_Thermal", c, kind, value)
NameOf(section, name) == Property(section, name, 0, "empty", NotSupported)

Device ==
    [express |-> 2, memoryBar |-> TRUE, capSpeed |-> 4, curSpeed |-> 3, slot |-> <<75, 0>>,
     number |-> 16, atomics |-> {"atomic_op_32_completer"}, more |-> TRUE, budget |-> <<>>,
     names |-> {"cpu_cores_count", "simd_count"}, linkNames |-> {"type", "weight"}, links |-> 2,
     base |-> <<4, 4, 0, 4, 0>>, size |-> <<8, 2, 0, 1, 1>>]

PciDevices ==
    {Device, [Device EXCEPT !.express = 0], [Device EXCEPT !.express = 1, !.capSpeed = 6],
     [Device EXCEPT !.memoryBar = FALSE, !.slot = <<241, 0>>],
     [Device EXCEPT !.atomics = {}, !.slot = <<250, 1>>],
     [Device EXCEPT !.more = FALSE, !.slot = <<239, 3>>]}

BudgetOf(c, w, s) == [condition |-> c, power |-> w, selects |-> s]
Budgets ==
    {<<>>, <<BudgetOf(1, 7, TRUE), BudgetOf(2, 9, TRUE)>>, <<BudgetOf(0, 0, FALSE), BudgetOf(1, 7, TRUE)>>,
     <<BudgetOf(1, 7, FALSE), BudgetOf(2, 9, TRUE), BudgetOf(0, 0, TRUE), BudgetOf(1, 8, TRUE)>>}

Inspection(module, devices, props) ==
    [module |-> module, devices |-> devices, props |-> props,
     bounds |-> [lowest |-> <<2, 2, 0, 2, 0>>, highest |-> <<4, 4, 0, 4, 0>>, size |-> <<8, 2, 0, 1, 1>>]]

InspectionsV ==
    {Inspection("peqt", <<d, e>>, <<Capable(n, k, v), Capable("link_stat_neg_width", "all", v)>>) :
        d \in PciDevices, e \in {Device, [Device EXCEPT !.express = 0]},
        n \in ToSet(PcieCapNames) \cup {"no_such_name"}, k \in {"one", "malformed"},
        v \in {NotSupported, <<"GT/s", 160>>, <<"flag", 1>>, <<"mW", 270000>>}}
    \cup {Inspection("peqt", <<[Device EXCEPT !.budget = b], [Device EXCEPT !.budget = c]>>,
            <<Budgeted(n, k, <<"mW", 7>>), Property("", "D2_Idle_Thermal", 3, "one", <<"mW", 9>>)>>) :
            b \in Budgets, c \in Budgets, n \in 1..2, k \in {"empty", "all", "one", "malformed"}}
    \cup {Inspection("gpup", <<Device, [Device EXCEPT !.names = {"simd_count"}],
                               [Device EXCEPT !.links = 0]>>, p \o q) :
            p \in {<<>>, <<NameOf("properties", "all")>>, <<NameOf("properties", "mem_banks")>>,
                   <<NameOf("properties", "simd_count"), NameOf("properties", "cpu_cores_count")>>},
            q \in {<<>>, <<NameOf("io_links-properties", "type")>>}}
    \cup {Inspection("smqt", <<[Device EXCEPT !.size[i] = s, !.base[j] = b],
                               [Device EXCEPT !.size[k] = t]>>, <<>>) :
            i \in {1, 2, 4, 5}, k \in {1, 2, 4, 5}, j \in {1, 2, 4}, s \in 0..3, b \in {1, 2, 5},
            t \in {1, 8}}

-----------------------------------------------------------------------------
(* Packages.                                                               *)

InState(state, version) == [state |-> state, version |-> version]
Dependency(name, relation, version, other, chunk) ==
    [name |-> name, relation |-> relation, version |-> version, other |-> other, chunk |-> chunk]
HostOf(manager, listed, deps, world, z) ==
    [manager |-> manager, metas |-> <<"meta">>, listed |-> listed, deps |-> [n \in {"meta"} |-> deps],
     world |-> world, size |-> [n \in {"meta", "a", "b"} |-> IF n = "meta" THEN z ELSE 1]]
PackageStates == {"present", "removed", "available", "unknown"}

HostsV ==
    {HostOf(m, <<>>, <<Dependency("a", r, v, "b", 1)>>,
            [a |-> InState(s, u), b |-> InState(t, <<6, 3>>)], 1) :
        m \in {"deb", "rpm", "zyp"}, r \in {"=", ">=", "<", "or", ""}, v \in {<<6, 3>>, <<6, 10>>},
        s \in PackageStates, t \in {"present", "unknown"}, u \in {<<6, 2>>, <<6, 3>>, <<6, 4>>}}
    \cup {HostOf(m, <<"a", "b">>,
            <<Dependency("a", "=", <<6, 3>>, "a", 1), Dependency("b", ">=", <<6, 3>>, "b", c),
              Dependency("a", "=", <<6, 4>>, "a", 1)>>,
            [a |-> InState(s, <<6, 3>>), b |-> InState(t, <<6, 3>>)], c) :
            m \in {"deb", "none"}, s \in PackageStates, t \in PackageStates, c \in 1..3}
    \cup {HostOf("deb", <<>>, <<>>, [a |-> InState("unknown", <<6, 3>>)], PipeCap + 1)}

-----------------------------------------------------------------------------
(* The parts that do not run.  The host has an output that does not fit in *)
(* the pipe, so that nothing is asked of it.                               *)

StandingV ==
    [start |-> [Ordinary EXCEPT !.argv = <<"-j">>],
     gpus |-> <<>>, batch |-> <<ConfOf("gst")>>, nodes |-> <<Cpu>>,
     inspection |-> Inspection("gpup", <<Device, [Device EXCEPT !.names = {"simd_count"}],
                                         [Device EXCEPT !.links = 0]>>, <<>>),
     host |-> HostOf("deb", <<>>, <<>>, [a |-> InState("unknown", <<6, 3>>)], PipeCap + 1)]
=============================================================================
