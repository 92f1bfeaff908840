-------------------------------- MODULE GpuList --------------------------------
(***************************************************************************)
(* rvs::gpulist: Initialize reads the KFD nodes once for each of its lists *)
(* and every lookup finds a position in one list and reads another at that *)
(* position.  The lists belong to librvslib, each module that is loaded    *)
(* calls Initialize again, and nothing empties them in between.            *)
(*                                                                         *)
(* A node that the device cgroup of a container hides can be opened but    *)
(* not read: gpu_id then keeps the value of the node before.  CPUs are not *)
(* hidden, and the first node is one.  A place is the pair of the PCI      *)
(* domain and the location; 0:0 is the host's own.                         *)
(***************************************************************************)
EXTENDS Integers, Sequences, FiniteSets, SequencesExt

CONSTANTS Topologies,  \* sequences of KFD nodes
          MaxRounds    \* calls of Initialize

\* id is 0 for a CPU; smi is the index AMD-SMI gives the GPU, -1 if it has none.
NodeType == [id: Nat, place: Nat \X Nat, device: Nat, smi: Int, readable: BOOLEAN]

ASSUME TopologiesAreTopologies ==
    /\ MaxRounds \in Nat \ {0}
    /\ \A t \in Topologies :
        /\ t \in Seq(NodeType)
        /\ t # <<>> /\ t[1].id = 0 /\ t[1].readable
        /\ \A i, j \in 1..Len(t) :
            /\ t[i].id = 0 => t[i].readable
            /\ t[i].id # 0 => t[i].place # <<0, 0>>
            /\ i # j /\ t[i].id # 0 /\ t[j].id # 0
                 => t[i].id # t[j].id /\ t[i].place # t[j].place
                    /\ (t[i].smi # -1 => t[i].smi # t[j].smi)

VARIABLES
    nodes,
    rounds,     \* calls of Initialize that have returned
    pass, at,   \* the list being filled and the node to read
    gpuId,      \* the local variable of the pass
    place,      \* domain_val and loc_val of the pass
    lists,      \* the vectors
    domLoc      \* domain_loc_map, as a set of [place, id]

listVars == <<nodes, rounds, pass, at, gpuId, place, lists, domLoc>>

Passes == <<"location", "gpu", "idx", "device", "node", "domain", "bdf">>
GpusOf(t) == {i \in 1..Len(t) : t[i].id # 0}

-----------------------------------------------------------------------------
(* Initialize.                                                             *)

Started == /\ at' = 1 /\ gpuId' = 0 /\ place' = <<0, 0>>

Initialize ==
    /\ pass = 0 /\ rounds < MaxRounds
    /\ pass' = 1 /\ Started
    /\ UNCHANGED <<nodes, rounds, lists, domLoc>>

\* The KFD identifiers AMD-SMI knows.
SmiMap == {[id |-> nodes[i].id, index |-> nodes[i].smi] : i \in {i \in GpusOf(nodes) : nodes[i].smi # -1}}

\* A fault: the node is taken from AMD-SMI as well.
PushesNodeOfSmi(name, n, id, where) ==
    CASE name = "gpu" -> <<id>>
      [] name = "bdf" -> <<where>>
      [] name = "node" -> IF \E s \in SmiMap : s.id = id THEN <<n>> ELSE <<>>
      [] name = "idx" -> SetToSeq({s.index : s \in {s \in SmiMap : s.id = id}})
      [] OTHER -> IF ~nodes[n].readable THEN <<>>
                  ELSE <<CASE name = "location" -> nodes[n].place[2]
                           [] name = "device" -> nodes[n].device
                           [] OTHER -> nodes[n].place[1]>>

\* What the pass of a list pushes for a node: nothing if its properties cannot be
\* read, or if AMD-SMI does not know the GPU.
Pushes(name, n, id, where) ==
    CASE name = "gpu"  -> <<id>>
      [] name = "node" -> <<n>>
      [] name = "bdf"  -> <<where>>
      [] name = "idx"  -> SetToSeq({s.index : s \in {s \in SmiMap : s.id = id}})
      [] OTHER -> IF ~nodes[n].readable THEN <<>>
                  ELSE <<CASE name = "location" -> nodes[n].place[2]
                           [] name = "device" -> nodes[n].device
                           [] OTHER -> nodes[n].place[1]>>

Entry(where, id) == [place |-> where, id |-> id]

\* One turn of the loop of a pass.
ReadNode ==
    /\ pass # 0 /\ at <= Len(nodes)
    /\ LET name  == Passes[pass]
           id    == IF nodes[at].readable THEN nodes[at].id ELSE gpuId
           where == IF nodes[at].readable THEN nodes[at].place ELSE place
       IN /\ gpuId' = id /\ place' = where
          /\ lists' = IF id = 0 THEN lists
                      ELSE [lists EXCEPT ![name] = @ \o Pushes(name, at, id, where)]
          /\ domLoc' = IF id = 0 \/ name # "domain" THEN domLoc
                       ELSE {e \in domLoc : e.place # where} \cup {Entry(where, id)}
    /\ at' = at + 1
    /\ UNCHANGED <<nodes, rounds, pass>>

EndPass ==
    /\ pass # 0 /\ at > Len(nodes)
    /\ Started
    /\ IF pass = Len(Passes) THEN pass' = 0 /\ rounds' = rounds + 1
       ELSE pass' = pass + 1 /\ UNCHANGED rounds
    /\ UNCHANGED <<nodes, lists, domLoc>>

GpuListStart ==
    /\ rounds = 0 /\ pass = 0 /\ at = 1 /\ gpuId = 0 /\ place = <<0, 0>>
    /\ lists = [name \in ToSet(Passes) |-> <<>>] /\ domLoc = {}

GpuListInit == nodes \in Topologies /\ GpuListStart

GpuListNext == Initialize \/ ReadNode \/ EndPass

GpuListSpec == GpuListInit /\ [][GpuListNext]_listVars

-----------------------------------------------------------------------------
(* The lookups.  They return nothing, or a value that is past the end of    *)
(* the second list, or a value.                                            *)

None == -1
Past == -2

\* std::find in one vector, operator[] of the other.
Lookup(keys, key, values) ==
    LET where == {i \in 1..Len(keys) : keys[i] = key}
        i == CHOOSE i \in where : \A j \in where : i <= j
    IN IF where = {} THEN None ELSE IF i > Len(values) THEN Past ELSE values[i]

gpu2location(id)   == Lookup(lists["gpu"], id, lists["location"])
gpu2device(id)     == Lookup(lists["gpu"], id, lists["device"])
gpu2gpuindex(id)   == Lookup(lists["gpu"], id, lists["idx"])
gpu2node(id)       == Lookup(lists["gpu"], id, lists["node"])
gpu2domain(id)     == Lookup(lists["gpu"], id, lists["domain"])
node2gpu(n)        == Lookup(lists["node"], n, lists["gpu"])
node2bdf(n)        == Lookup(lists["node"], n, lists["bdf"])
location2gpu(l)    == Lookup(lists["location"], l, lists["gpu"])
location2device(l) == Lookup(lists["location"], l, lists["device"])
location2node(l)   == Lookup(lists["location"], l, lists["node"])
domlocation2gpu(p) ==
    IF \E e \in domLoc : e.place = p THEN (CHOOSE e \in domLoc : e.place = p).id ELSE None
domlocation2node(p) == IF domlocation2gpu(p) = None THEN None ELSE gpu2node(domlocation2gpu(p))

\* gpu_hip_to_node reads the nodes itself; a node that cannot be read is at 0:0.
gpu_hip_to_node(p) ==
    LET where == {i \in GpusOf(nodes) : (IF nodes[i].readable THEN nodes[i].place ELSE <<0, 0>>) = p}
    IN IF where = {} THEN None ELSE CHOOSE i \in where : \A j \in where : i <= j

\* The handles of AMD-SMI by place, in the order of a map.
Before(p, q) == p[1] < q[1] \/ (p[1] = q[1] /\ p[2] < q[2])
HandleAt(p) == (CHOOSE i \in GpusOf(nodes) : nodes[i].place = p) + 100
SmiPlaces   == {nodes[i].place : i \in {i \in GpusOf(nodes) : nodes[i].smi # -1}}
FirstPlace  == CHOOSE p \in SmiPlaces : \A q \in SmiPlaces \ {p} : Before(p, q)

gpu_hip_to_smi_hdl(p) == IF p \in SmiPlaces THEN HandleAt(p) ELSE None

\* The loop returns after the first entry; the handle is 0 unless that was it.
smi_dev_ind_get(p) ==
    IF SmiPlaces = {} THEN None ELSE IF FirstPlace = p THEN HandleAt(p) ELSE 0

\* Watts of the power cap at which a name is told from another; 0 is no answer.
Sku(watts) ==
    IF watts \in 550..650 THEN "MI350P-600W" ELSE "MI350P-450W"

Named == 1        \* a device ID of gpu_dev_map
Shared == 2       \* the one of both MI350P

gpu_get_platform_name(watts) ==
    IF Cardinality(ToSet(lists["device"])) # 1 THEN ""
    ELSE CASE lists["device"][1] = Shared -> Sku(watts)
           [] lists["device"][1] = Named -> "named"
           [] OTHER -> ""

-----------------------------------------------------------------------------
(* Properties.                                                             *)

GpuListTypeOK ==
    /\ nodes \in Topologies /\ rounds \in 0..MaxRounds
    /\ pass \in 0..Len(Passes) /\ at \in 1..(Len(nodes) + 1)
    /\ \A name \in ToSet(Passes) :
        Len(lists[name]) <= Cardinality(GpusOf(nodes)) * (rounds + (IF pass = 0 THEN 0 ELSE 1))
    /\ \A e \in domLoc : \E i \in GpusOf(nodes) : nodes[i].id = e.id /\ nodes[i].place = e.place

Readable == {i \in GpusOf(nodes) : nodes[i].readable}

\* From the first Initialize on, each GPU that can be read is found by its place
\* and by its node, hidden nodes and GPUs that AMD-SMI leaves out notwithstanding.
PlacesFound ==
    rounds > 0 => \A i \in Readable :
        LET gpu == nodes[i] IN
        /\ domlocation2gpu(gpu.place) = gpu.id
        /\ domlocation2node(gpu.place) = i /\ gpu_hip_to_node(gpu.place) = i
        /\ node2gpu(i) = gpu.id /\ node2bdf(i) = gpu.place

\* The properties of a GPU are its own as long as no node before it is hidden, and
\* its index as long as AMD-SMI knows it and the GPUs before it.  Past those, the
\* lists are of different lengths and the answer is another GPU's or past the end.
Upto(i) == {j \in GpusOf(nodes) : j <= i}
ListsAgree ==
    rounds > 0 => \A i \in GpusOf(nodes) :
        LET gpu == nodes[i] IN
        Upto(i) \subseteq Readable =>
            /\ gpu2location(gpu.id) = gpu.place[2] /\ gpu2domain(gpu.id) = gpu.place[1]
            /\ gpu2device(gpu.id) = gpu.device
            /\ (\A j \in Upto(i) : nodes[j].smi # -1) => gpu2gpuindex(gpu.id) = gpu.smi
            /\ (\A j \in Upto(i) \ {i} : nodes[j].place[2] # gpu.place[2])
                 => /\ location2gpu(gpu.place[2]) = gpu.id /\ location2node(gpu.place[2]) = i
                    /\ location2device(gpu.place[2]) = gpu.device

\* No GPU gets the AMD-SMI handle of another: the search by BDF is answered with
\* the own handle, with none, or, by smi_dev_ind_get, with a null one.
HandlesOwn ==
    \A i \in GpusOf(nodes) :
        LET p == nodes[i].place IN
        /\ gpu_hip_to_smi_hdl(p) \in {HandleAt(p), None}
        /\ smi_dev_ind_get(p) \in {HandleAt(p), 0, None}

\* A platform is named only if all GPUs that can be read are of it, and one that
\* shares its device ID is always told apart, by default as the smaller one.
PlatformOfAll ==
    pass = 0 /\ rounds > 0 => \A watts \in {0, 450, 525, 600} :
        LET name == gpu_get_platform_name(watts)
            devices == {nodes[i].device : i \in Readable}
        IN /\ name # "" => Cardinality(devices) = 1
           /\ devices = {Shared} => name = (IF watts = 600 THEN "MI350P-600W" ELSE "MI350P-450W")

\* What the lists and the map of AMD SMI say of a GPU is true of that GPU, whichever of
\* the passes could not read the files of one: rvs::gpulist and smi_dev_ind_get.
GpuListSound == PlacesFound /\ ListsAgree /\ HandlesOwn /\ PlatformOfAll
=============================================================================
