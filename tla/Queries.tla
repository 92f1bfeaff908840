-------------------------------- MODULE Queries --------------------------------
(***************************************************************************)
(* What the querying modules make of the devices they have selected: peqt  *)
(* matches PCI capabilities against patterns, gpup reports the properties  *)
(* of the KFD nodes and of their links, smqt compares the BARs.            *)
(*                                                                         *)
(* A value is a pair of its unit and its number.  A pattern matches all    *)
(* values or one, is empty, or is not a regular expression.                *)
(***************************************************************************)
EXTENDS Integers, Sequences, FiniteSets, SequencesExt

CONSTANTS Inspections  \* [module, devices, props, bounds]

VARIABLES
    inspection,
    device, item,  \* the device and the property to look at next
    passes,        \* what is known of the current device
    allPass,       \* pci_infra_qual_result, global_pass
    answers,       \* what has been reported: [device, name, value]
    missing,       \* property_name_validate
    notFound,      \* the names told as not found, by device
    outcome

queryVars == <<inspection, device, item, passes, allPass, answers, missing, notFound, outcome>>

Props   == inspection.props
Devices == inspection.devices
Dev     == Devices[device]

-----------------------------------------------------------------------------
(* pci_caps.cpp: the value of a capability.  express is the version of the *)
(* PCI Express capability, 0 for a device without one.                     *)

NotSupported == <<"NOT SUPPORTED", 0>>

Speed(code) == IF code \in 1..5 THEN <<25, 50, 80, 160, 320>>[code] ELSE 0

\* In thousandths of a watt; codes above 0xF2 are reserved.
SlotPower(value, scale) ==
    CASE value <= 239 -> value * (10 ^ (3 - scale))
      [] value \in 240..242 -> <<250000, 270000, 300000>>[value - 239]
      [] OTHER -> -1000

LinkAndSlot == {"link_cap_max_speed", "link_cap_max_width", "link_stat_cur_speed",
                "link_stat_neg_width", "slot_pwr_limit_value", "slot_physical_num"}

Express(name, d) ==
    CASE name = "link_cap_max_speed"   -> <<"GT/s", Speed(d.capSpeed)>>
      [] name = "link_stat_cur_speed"  -> <<"GT/s", Speed(d.curSpeed)>>
      [] name = "slot_pwr_limit_value" -> <<"mW", SlotPower(d.slot[1], d.slot[2])>>
      [] OTHER                         -> <<name, d.number>>

Completers == {"atomic_op_32_completer", "atomic_op_64_completer", "atomic_op_128_CAS_completer"}

AtomicOp(name, d) ==
    IF d.express < 2 \/ (name \in Completers /\ ~d.memoryBar) THEN NotSupported
    ELSE <<"flag", IF name \in d.atomics THEN 1 ELSE 0>>

\* A fault: the zero that ends the list is skipped.
PwrBudgetingPast(condition, d) ==
    LET hits == {i \in 1..Len(d.budget) : d.budget[i].selects /\ d.budget[i].condition = condition}
    IN IF hits = {} THEN NotSupported
       ELSE <<"mW", d.budget[CHOOSE i \in hits : \A j \in hits : i <= j].power>>

\* The entries are selected one after the other up to a zero; one that cannot be
\* selected is left out.  A device without the capability has none.
PwrBudgeting(condition, d) ==
    LET ends == {i \in 1..Len(d.budget) : d.budget[i].selects /\ d.budget[i].condition = 0}
        hits == {i \in 1..Len(d.budget) : /\ d.budget[i].selects /\ d.budget[i].condition = condition
                                          /\ \A j \in ends : i < j}
    IN IF hits = {} THEN NotSupported
       ELSE <<"mW", d.budget[CHOOSE i \in hits : \A j \in hits : i <= j].power>>

Capability(name, d) ==
    CASE name \in LinkAndSlot -> IF d.express = 0 THEN NotSupported ELSE Express(name, d)
      [] name \in {"bus_id", "device_id", "vendor_id"} -> <<name, d.number>>
      [] name \in {"kernel_driver", "dev_serial_num"} -> IF d.more THEN <<name, d.number>> ELSE NotSupported
      [] OTHER -> AtomicOp(name, d)

-----------------------------------------------------------------------------
(* peqt.                                                                   *)

PcieCapNames ==
    <<"link_cap_max_speed", "link_cap_max_width", "link_stat_cur_speed", "link_stat_neg_width",
      "slot_pwr_limit_value", "slot_physical_num", "bus_id", "device_id", "vendor_id",
      "kernel_driver", "dev_serial_num", "atomic_op_routing", "atomic_op_32_completer",
      "atomic_op_64_completer", "atomic_op_128_CAS_completer">>

\* PCI_DEV_NUM_CAPABILITIES is 14.
KnownCapabilities == ToSet(SubSeq(PcieCapNames, 1, 14))

\* The name of a power budgeting property spells its condition; the other names, and
\* those of gpup and smqt, have none.
PropertyType ==
    [section: STRING, name: STRING, condition: Nat,
     pattern: [kind: {"empty", "all", "one", "malformed"}, value: STRING \X Int]]

ASSUME InspectionsAreInspections ==
    \A s \in Inspections :
        /\ s.module \in {"peqt", "gpup", "smqt"}
        /\ s.props \in Seq(PropertyType)
        /\ Len(s.devices) \in Nat
        /\ \A i \in 1..Len(s.devices) : Len(s.devices[i].budget) \in Nat
        /\ \A k \in 1..Len(s.props) :
            /\ s.module # "peqt" \/ s.props[k].name \in ToSet(PcieCapNames) => s.props[k].condition = 0
            /\ \A j \in 1..Len(s.props) :
                s.props[j].name = s.props[k].name => s.props[j].condition = s.props[k].condition

Matches(pattern, value) ==
    \/ pattern.kind \in {"empty", "all"}
    \/ pattern.kind = "one" /\ pattern.value = value

\* The device fails on a value that does not match.  A malformed pattern fails a
\* power budgeting condition; a named capability is not checked then.
FailsNamed(p, value)  == p.pattern.kind # "malformed" /\ ~Matches(p.pattern, value)
FailsBudget(p, value) == ~Matches(p.pattern, value)

\* A name that is neither is passed over.
LookAtCapability ==
    /\ inspection.module = "peqt" /\ outcome = "none"
    /\ device <= Len(Devices) /\ item <= Len(Props)
    /\ LET p == Props[item]
           named  == p.name \in KnownCapabilities
           budget == ~named /\ p.section = "capability" /\ p.condition # 0
           value  == IF named THEN Capability(p.name, Dev) ELSE PwrBudgeting(p.condition, Dev)
       IN /\ answers' = IF named \/ budget
                        THEN answers \cup {[device |-> device, name |-> p.name, value |-> value]} ELSE answers
          /\ passes' = (passes /\ ~(named /\ FailsNamed(p, value)) /\ ~(budget /\ FailsBudget(p, value)))
    /\ item' = item + 1
    /\ UNCHANGED <<inspection, device, allPass, missing, notFound, outcome>>

-----------------------------------------------------------------------------
(* gpup: the properties and then the links of a node.                      *)

\* property_split: "all" forgets the names before it and ends the search.
Split(section) ==
    LET names == {p.name : p \in {p \in ToSet(Props) : p.section = section}}
    IN IF "all" \in names THEN {} ELSE names

PropertyNames == Split("properties")
LinkNames     == Split("io_links-properties")

\* property_name_validate = property_name, then what is found is taken out.
ToFind(names) == PropertyNames \ names

\* property_get_value.  Whether there is a filter is read off the names for links.
GetValues ==
    /\ inspection.module = "gpup" /\ outcome = "none"
    /\ device <= Len(Devices) /\ item = 1
    /\ LET shown == IF LinkNames # {} THEN Dev.names \cap PropertyNames ELSE Dev.names
       IN answers' = answers \cup {[device |-> device, name |-> n, value |-> <<"property", 0>>] : n \in shown}
    /\ missing' = ToFind(Dev.names)
    /\ notFound' = notFound \cup {<<device, n>> : n \in missing'}
    /\ item' = 2
    /\ UNCHANGED <<inspection, device, passes, allPass, outcome>>

\* property_io_links_get_value, whose status replaces the one before.
GetLinks ==
    /\ inspection.module = "gpup" /\ outcome = "none"
    /\ device <= Len(Devices) /\ item = 2
    /\ answers' = answers \cup
         {[device |-> device, name |-> n, value |-> <<"link", l>>] :
            n \in {n \in Dev.linkNames : LinkNames = {} \/ n \in LinkNames}, l \in 1..Dev.links}
    /\ item' = 3
    /\ UNCHANGED <<inspection, device, passes, allPass, missing, notFound, outcome>>

-----------------------------------------------------------------------------
(* smqt.                                                                   *)

\* The ROM is the fifth BAR.  BAR 1 has to be at least as large as asked, the
\* others at most.
BarsFit(d, b) ==
    /\ \A i \in {1, 2, 4} : d.base[i] \in b.lowest[i]..b.highest[i]
    /\ d.size[1] >= b.size[1]
    /\ \A i \in {2, 4, 5} : d.size[i] <= b.size[i]

CompareBars ==
    /\ inspection.module = "smqt" /\ outcome = "none"
    /\ device <= Len(Devices) /\ item = 1
    /\ passes' = BarsFit(Dev, inspection.bounds)
    /\ answers' = answers \cup {[device |-> device, name |-> "pass", value |-> <<"flag", IF passes' THEN 1 ELSE 0>>]}
    /\ item' = 2
    /\ UNCHANGED <<inspection, device, allPass, missing, notFound, outcome>>

-----------------------------------------------------------------------------
LastItem == CASE inspection.module = "peqt" -> Len(Props) + 1
              [] inspection.module = "gpup" -> 3
              [] OTHER -> 2

\* A device that fails makes the whole fail.
WithDevice == allPass /\ passes

NextDevice ==
    /\ outcome = "none" /\ device <= Len(Devices) /\ item = LastItem
    /\ allPass' = WithDevice
    /\ device' = device + 1 /\ item' = 1 /\ passes' = TRUE
    /\ UNCHANGED <<inspection, answers, missing, notFound, outcome>>

\* peqt prints its result and succeeds all the same; gpup forgets what it missed.
EndOfQuery ==
    /\ outcome = "none" /\ device > Len(Devices)
    /\ outcome' = IF inspection.module = "smqt" /\ ~allPass THEN "FAILED" ELSE "SUCCESS"
    /\ UNCHANGED <<inspection, device, item, passes, allPass, answers, missing, notFound>>

QueriesStart ==
    /\ device = 1 /\ item = 1 /\ passes = TRUE /\ allPass = TRUE
    /\ answers = {} /\ missing = {} /\ notFound = {} /\ outcome = "none"

QueriesInit == inspection \in Inspections /\ QueriesStart

QueriesNext ==
    LookAtCapability \/ GetValues \/ GetLinks \/ CompareBars \/ NextDevice \/ EndOfQuery

QueriesSpec == QueriesInit /\ [][QueriesNext]_queryVars

-----------------------------------------------------------------------------
(* Properties.                                                             *)

QueriesTypeOK ==
    /\ device \in 1..(Len(Devices) + 1) /\ item \in 1..LastItem
    /\ {passes, allPass} \subseteq BOOLEAN
    /\ \A a \in answers : a.device \in 1..Len(Devices)
    /\ missing \subseteq PropertyNames /\ notFound \subseteq (1..Len(Devices)) \X PropertyNames
    /\ outcome \in {"none", "SUCCESS", "FAILED"}

\* What peqt prints and what smqt reports is the verdict on all devices: a device
\* that breaks an expectation is not covered by one that meets it.  Known to be
\* left out: names without a function, 128 bit CAS among them, and the malformed
\* patterns of named capabilities.
Violates(d, p) ==
    IF p.name \in ToSet(PcieCapNames) \ {"atomic_op_128_CAS_completer"}
    THEN p.pattern.kind = "one" /\ p.pattern.value # Capability(p.name, d)
    ELSE /\ p.condition # 0 /\ p.section = "capability"
         /\ ~Matches(p.pattern, PwrBudgeting(p.condition, d))
VerdictOnAll ==
    outcome # "none" =>
        /\ inspection.module = "peqt" =>
             (allPass <=> \A i \in 1..Len(Devices), k \in 1..Len(Props) : ~Violates(Devices[i], Props[k]))
        /\ inspection.module = "smqt" =>
             (outcome = "SUCCESS" <=> \A i \in 1..Len(Devices) : BarsFit(Devices[i], inspection.bounds))

\* Every property gpup is asked for is reported, or named as not found, for each
\* GPU; never both.
AskedAnswered ==
    inspection.module = "gpup" =>
        \A i \in 1..(IF item > 1 THEN device ELSE device - 1) : \A n \in PropertyNames :
            <<i, n>> \in notFound <=> [device |-> i, name |-> n, value |-> <<"property", 0>>] \notin answers

\* A power that peqt reports for a condition is one of an entry the device has
\* before the end of its list, never one it finds behind the end.
BudgetOfDevice ==
    \A a \in answers : \A k \in 1..Len(Props) :
        Props[k].name = a.name /\ Props[k].condition # 0 /\ a.value # NotSupported =>
            LET budget == Devices[a.device].budget IN
            \E i \in 1..Len(budget) :
                /\ budget[i].condition = Props[k].condition /\ a.value = <<"mW", budget[i].power>>
                /\ \A j \in 1..(i - 1) : budget[j].selects => budget[j].condition # 0

\* The verdict and the values of peqt, gpup and smqt are about every device and every
\* property that was asked for.
QueriesSound == VerdictOnAll /\ AskedAnswered /\ BudgetOfDevice
=============================================================================
