-------------------------------- MODULE Packages --------------------------------
(***************************************************************************)
(* rcqt: the packages that a meta package depends on, and those of a list, *)
(* are looked up with the package manager of the system, in a child        *)
(* process whose output the parent reads from a pipe, after the child has  *)
(* ended.                                                                  *)
(*                                                                         *)
(* Output is counted in chunks of the 8192 bytes that the parent reads. A  *)
(* version is a pair; a dependency says in which chunk of the output of    *)
(* its meta package it stands.                                             *)
(***************************************************************************)
EXTENDS Naturals, Sequences, FiniteSets, SequencesExt

CONSTANTS Hosts,    \* systems and what rcqt is asked about them
          PipeCap   \* chunks that fit in the pipe

NoVersion == <<0, 0>>    \* no version

DependencyType ==
    [name: STRING, relation: {"=", ">=", "<", "or", ""}, version: Nat \X Nat, other: STRING, chunk: Nat]

PackageType ==
    [state: {"present", "removed", "available", "unknown"}, version: (Nat \X Nat) \ {NoVersion}]

ASSUME HostsAreHosts ==
    \A h \in Hosts :
        /\ h.manager \in {"deb", "rpm", "zyp", "none"}
        /\ h.metas \in Seq(STRING) /\ h.listed \in Seq(STRING)
        /\ \A n \in DOMAIN h.world : h.world[n] \in PackageType
        /\ \A i \in 1..Len(h.metas) :
            /\ h.deps[h.metas[i]] \in Seq(DependencyType)
            /\ \A d \in ToSet(h.deps[h.metas[i]]) : {d.name, d.other} \subseteq DOMAIN h.world

ASSUME PipeHolds == PipeCap \in Nat

VARIABLES
    host,
    agenda,     \* what is left to do, the current item first
    parent,     \* "ready", "waits" for the child, "reads", "done"
    child,      \* "none", "writes", "ended"
    written,    \* chunks in the pipe
    counts,     \* of the current meta package or list
    checked,    \* the dependencies that have been counted: [dep, asked, as]
    verdicts,   \* what was told through the callback: [what, pass, state, status]
    ret

packageVars == <<host, agenda, parent, child, written, counts, checked, verdicts, ret>>

Item == Head(agenda)

\* A version is compared as a decimal number when a dependency is at least one:
\* 6.10 is less than 6.9.
AsNumber(v) == v[1] * 100 + (IF v[2] < 10 THEN v[2] * 10 ELSE v[2])

-----------------------------------------------------------------------------
(* What a package manager answers, and what is made of it.                 *)

\* dpkg tells the version of a package of which only the configuration is left,
\* zypper that of one it could install.
DebKnows(p) == p.state \in {"present", "removed"}
RpmKnows(p) == p.state = "present"
ZypKnows(p) == p.state \in {"present", "available"}

Answered(name) ==
    LET p == host.world[name]
        known == CASE host.manager = "deb" -> DebKnows(p)
                   [] host.manager = "rpm" -> RpmKnows(p)
                   [] OTHER                -> ZypKnows(p)
    IN IF known THEN p.version ELSE NoVersion

\* readMetaPackageInfo: what goes into the manifest.  dpkg knows alternatives, rpm
\* takes every relation for "=", rpm and zypper leave out what has no version; the
\* relations that findPattern does not know stay in the name.
FirstRead(dep)     == dep.chunk = 1   \* only what the first read got
DebManifest(dep)   == FirstRead(dep)
RpmManifest(dep)   == FirstRead(dep) /\ dep.relation \in {"=", ">="}
ZypManifest(dep)   == FirstRead(dep) /\ dep.relation \in {"=", ">="}
InManifest(dep) ==
    CASE host.manager = "deb" -> DebManifest(dep)
      [] host.manager = "rpm" -> RpmManifest(dep)
      [] OTHER                -> ZypManifest(dep)

Expected(dep) ==
    CASE dep.relation = "="  -> [version |-> dep.version, least |-> FALSE]
      [] dep.relation = ">=" -> [version |-> dep.version, least |-> host.manager # "rpm"]
      [] OTHER               -> [version |-> NoVersion, least |-> TRUE]

\* getInstalledVersion.  With the first of two alternatives installed it goes on to
\* ask for both names at once, which no manager knows.
InstalledVersion(dep) ==
    CASE dep.relation = "or" -> IF Answered(dep.name) = NoVersion THEN Answered(dep.other) ELSE NoVersion
      [] dep.relation = "<"  -> NoVersion
      [] OTHER               -> Answered(dep.name)

NotBelow(expected, installed) ==   \* a fault: a newer version is as good as the one asked
    AsNumber(installed) < AsNumber(expected.version)

IsVersionMismatch(expected, installed) ==
    IF expected.least THEN AsNumber(installed) < AsNumber(expected.version)
    ELSE expected.version # installed

-----------------------------------------------------------------------------
(* getPackageInfo.                                                         *)

\* Output of the command for an item.
SizeOf(item) == host.size[item.name]

\* The pipe and the child are made; fork may fail, and nothing is asked then.
Fork ==
    /\ parent = "ready" /\ agenda # <<>> /\ Item.kind \in {"meta", "dep", "listed"}
    /\ \/ parent' = "waits" /\ child' = "writes"
       \/ parent' = "failed" /\ UNCHANGED child
    /\ written' = 0
    /\ UNCHANGED <<host, agenda, counts, checked, verdicts, ret>>

ChildWritesLess ==   \* a fault: the pipe holds one chunk less
    /\ child = "writes" /\ written < SizeOf(Item) /\ written + 1 < PipeCap
    /\ written' = written + 1
    /\ UNCHANGED <<host, agenda, parent, child, counts, checked, verdicts, ret>>

\* The child writes as long as there is room.
ChildWrites ==
    /\ child = "writes" /\ written < SizeOf(Item) /\ written < PipeCap
    /\ written' = written + 1
    /\ UNCHANGED <<host, agenda, parent, child, counts, checked, verdicts, ret>>

ChildEnds ==
    /\ child = "writes" /\ written = SizeOf(Item)
    /\ child' = "ended"
    /\ UNCHANGED <<host, agenda, parent, written, counts, checked, verdicts, ret>>

\* waitpid comes before the first read.
Wait ==
    /\ parent = "waits" /\ child = "ended"
    /\ parent' = "reads"
    /\ UNCHANGED <<host, agenda, child, written, counts, checked, verdicts, ret>>

-----------------------------------------------------------------------------
(* The items: the dependencies of a meta package, a dependency, a package  *)
(* of the list, and the end of either.                                     *)

Answer == parent \in {"reads", "failed"} /\ parent' = "ready" /\ child' = "none" /\ written' = 0

ZeroCounts == [total |-> 0, installed |-> 0, missing |-> 0, bad |-> 0]

\* The names of a manifest are the keys of a map, the first entry of a name is kept.
Manifest(deps) ==
    SetToSeq({i \in 1..Len(deps) :
                /\ InManifest(deps[i])
                /\ \A j \in 1..(i - 1) : InManifest(deps[j]) => deps[j].name # deps[i].name})

\* The constructor of the handler writes the manifest, parseManifest reads it; an
\* empty one ends the validation of the meta package without a word to the caller.
ReadDependencies ==
    /\ agenda # <<>> /\ Item.kind = "meta" /\ Answer
    /\ LET deps == host.deps[Item.name]
           keys == Manifest(deps)
           items == [i \in 1..Len(keys) |-> [kind |-> "dep", name |-> deps[keys[i]].name, dep |-> deps[keys[i]]]]
       IN agenda' = IF parent = "failed" \/ items = <<>> THEN Tail(agenda)
                    ELSE items \o <<[kind |-> "end", name |-> Item.name]>> \o Tail(agenda)
    /\ counts' = ZeroCounts /\ checked' = {}
    /\ UNCHANGED <<host, verdicts, ret>>

CountAs(as) == [counts EXCEPT !.total = @ + 1, ![as] = @ + 1]

\* One turn of validatePackages.
ValidatePackage ==
    /\ agenda # <<>> /\ Item.kind = "dep" /\ Answer
    /\ LET installed == IF parent = "failed" THEN NoVersion ELSE InstalledVersion(Item.dep)
           as == IF installed = NoVersion THEN "missing"
                 ELSE IF IsVersionMismatch(Expected(Item.dep), installed) THEN "bad"
                 ELSE "installed"
       IN counts' = CountAs(as) /\ checked' = checked \cup {[dep |-> Item.dep, asked |-> parent # "failed", as |-> as]}
    /\ agenda' = Tail(agenda)
    /\ UNCHANGED <<host, verdicts, ret>>

\* One turn of listPackageVersion.
ListPackage ==
    /\ agenda # <<>> /\ Item.kind = "listed" /\ Answer
    /\ counts' = IF parent # "failed" /\ Answered(Item.name) # NoVersion THEN CountAs("installed")
                 ELSE CountAs("missing")
    /\ agenda' = Tail(agenda)
    /\ UNCHANGED <<host, checked, verdicts, ret>>

\* The summary: the callback gets a success, whatever was found.
TellResult(what, pass) == Append(verdicts, [what |-> what, pass |-> pass, state |-> "COMPLETED", status |-> "SUCCESS"])

Summary ==
    /\ parent = "ready" /\ agenda # <<>> /\ Item.kind = "end"
    /\ verdicts' = TellResult(Item.name, counts.total = counts.installed)
    /\ agenda' = Tail(agenda) /\ counts' = ZeroCounts /\ checked' = {}
    /\ UNCHANGED <<host, parent, child, written, ret>>

\* A system without a known package manager: there is no handler.
NoHandler ==
    /\ parent = "ready" /\ agenda # <<>> /\ host.manager = "none"
    /\ ret' = 1 /\ agenda' = <<>>
    /\ UNCHANGED <<host, parent, child, written, counts, checked, verdicts>>

\* The action's own callback.
EndOfAction ==
    /\ parent = "ready" /\ agenda = <<>>
    /\ parent' = "done"
    /\ verdicts' = Append(verdicts, [what |-> "action", pass |-> ret = 0, state |-> "COMPLETED",
                                     status |-> IF ret = 0 THEN "SUCCESS" ELSE "FAILED"])
    /\ UNCHANGED <<host, agenda, child, written, counts, checked, ret>>

\* pkgchk_run, then pkglist_run.
PackagesStart ==
    /\ agenda = [i \in 1..Len(host.metas) |-> [kind |-> "meta", name |-> host.metas[i]]]
                \o [i \in 1..Len(host.listed) |-> [kind |-> "listed", name |-> host.listed[i]]]
                \o (IF host.listed = <<>> THEN <<>> ELSE <<[kind |-> "end", name |-> "list"]>>)
    /\ parent = "ready" /\ child = "none" /\ written = 0
    /\ counts = ZeroCounts /\ checked = {} /\ verdicts = <<>> /\ ret = 0

PackagesInit == host \in Hosts /\ PackagesStart

PackagesNext ==
    IF host.manager = "none" THEN NoHandler \/ EndOfAction
    ELSE \/ Fork \/ ChildWrites \/ ChildEnds \/ Wait
         \/ ReadDependencies \/ ValidatePackage \/ ListPackage \/ Summary \/ EndOfAction

\* The child and the parent get on when they can.
PackagesSpec == PackagesInit /\ [][PackagesNext]_packageVars /\ WF_packageVars(PackagesNext)

-----------------------------------------------------------------------------
(* Properties.                                                             *)

PackagesTypeOK ==
    /\ parent \in {"ready", "waits", "reads", "failed", "done"}
    /\ child \in {"none", "writes", "ended"} /\ written \in 0..PipeCap
    /\ \A c \in checked : c.as \in {"installed", "missing", "bad"} /\ c.asked \in BOOLEAN
    /\ \A v \in ToSet(verdicts) : v.pass \in BOOLEAN /\ v.status \in {"SUCCESS", "FAILED"}
    /\ ret \in 0..1

\* Every dependency is counted once and as one of three, so that a meta package that
\* passes, with as many installed as there are, lacks none of those it looked at.
CountsAgree ==
    checked # {} =>
        /\ counts.total = Cardinality(checked)
        /\ \A as \in {"installed", "missing", "bad"} :
            counts[as] = Cardinality({c \in checked : c.as = as})

\* True order of versions.
Below(v, w) == v[1] < w[1] \/ (v[1] = w[1] /\ v[2] < w[2])

SatisfiedBy(name, dep) ==
    /\ host.world[name].state = "present"
    /\ LET v == host.world[name].version IN
       CASE dep.relation = "="  -> v = dep.version
         [] dep.relation = ">=" -> ~Below(v, dep.version)
         [] OTHER -> TRUE
Satisfied(dep) == SatisfiedBy(dep.name, dep) \/ (dep.relation = "or" /\ SatisfiedBy(dep.other, dep))

\* A dependency that is told as installed is installed as asked.  Known to be
\* otherwise: remains of removed packages with dpkg, packages that zypper only
\* offers, and versions whose second number has two digits.
OneDigit(dep) == dep.version[2] < 10 /\ \A n \in {dep.name, dep.other} : host.world[n].version[2] < 10
InstalledIsThere ==
    \A c \in checked : c.as = "installed" =>
        \/ Satisfied(c.dep)
        \/ ~OneDigit(c.dep)
        \/ \E n \in {c.dep.name, c.dep.other} : host.world[n].state \in {"removed", "available"}

\* A dependency that is met is told as installed, when the manager could be asked.
\* Known to be otherwise: the first of two alternatives, a relation "<", and with
\* rpm a newer version than asked.
MetIsTold ==
    \A c \in checked : c.asked /\ Satisfied(c.dep) =>
        CASE c.dep.relation = "<"  -> c.as = "missing"
          [] c.dep.relation = "or" -> (c.as = "installed") <=> Answered(c.dep.name) = NoVersion
          [] c.dep.relation = ">=" /\ host.manager = "rpm" -> c.as # "missing"
          [] OTHER -> c.as = "installed" \/ ~OneDigit(c.dep)

\* The action ends, with its callback, if the output of every command fits in the
\* pipe: a longer one has the child wait for a reader and the parent for the child.
FitsInPipe == \A n \in DOMAIN host.size : host.size[n] <= PipeCap
QueryEnds == FitsInPipe ~> parent = "done"

\* What rcqt counts and tells of a package is what the package manager answered for
\* that package: PackageHandler::validatePackages.
PackagesSound == CountsAgree /\ InstalledIsThere /\ MetIsTold
=============================================================================
