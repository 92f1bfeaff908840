--------------------------------- MODULE Launch ---------------------------------
(***************************************************************************)
(* The launcher: the command line is read with a stack of what may come    *)
(* next, the options decide what is done, modules are loaded when an       *)
(* action first names them, and the selected actions of the configuration  *)
(* are created, given their properties, run and destroyed, one by one.     *)
(*                                                                         *)
(* The library comes in without a command line, with one request instead   *)
(* of it.  A value is a string; Number tells those that std::stoi takes.   *)
(***************************************************************************)
EXTENDS Integers, Sequences, FiniteSets, SequencesExt, Functions

CONSTANTS Starts    \* how the program is started, and what it finds

ASSUME StartsAreStarts ==
    \A s \in Starts :
        /\ s.via \in {"command", "library"}
        /\ s.argv \in Seq(STRING) /\ s.actions \in Seq(ToSet(s.actions))
        /\ \A m \in DOMAIN s.libraries : s.libraries[m] \in {"good", "refuses", "lacks functions"}

VARIABLES
    start,
    lpc,        \* "parse", "check", "list", "gpus", "next", "create", "run", "end", "over", "refused"
    argAt,         \* the next token of the command line
    context,    \* what may come next, the top first
    current,    \* an option that has not been stored yet
    opt,        \* options: name -> value
    round, idx, \* which turn over the actions, which of them
    modules,    \* modules in the map
    alive,      \* actions that exist in a module
    given,      \* the properties of the current action
    ran,        \* what was run: [action, given, ok]
    stopped,    \* logger::Stopping
    told,       \* what rvs::exec::callback was given
    code

launchVars == <<start, lpc, argAt, context, current, opt, round, idx, modules, alive, given, ran,
                stopped, told, code>>

Flags == {"-a", "-g", "-q", "--listTests", "-v", "-ver", "-h"}
WithValue == {"-c", "-d", "-i", "-s", "-l", "-n", "-m", "-r", "-t"}
WithOptional == {"-j", "-p"}
Options == Flags \cup WithValue \cup WithOptional

Number == [v \in {"-1", "0", "1", "2", "5", "6"} |->
             CASE v = "-1" -> -1 [] v = "0" -> 0 [] v = "1" -> 1
               [] v = "2" -> 2 [] v = "5" -> 5 [] v = "6" -> 6]
IsNumber(v) == v \in DOMAIN Number

Has(o) == o \in DOMAIN opt
Set(f, key, value) == [k \in DOMAIN f \cup {key} |-> IF k = key THEN value ELSE f[k]]

-----------------------------------------------------------------------------
(* rvs::cli::parse.  The end of the command line reads as an empty token.  *)

\* The long names stand for the same options; --version alone has no short one.
OptionOf(token) ==
    CASE token = "--config" -> "-c" [] token = "--version" -> "-ver"
      [] token \in Options \ {"-ver"} -> token [] OTHER -> ""

Token == IF argAt <= Len(start.argv) THEN start.argv[argAt] ELSE ""

Emitted == IF current = "" THEN opt ELSE Set(opt, current, "")

ContextAfter(o) ==
    CASE o \in Flags -> <<"command", "eof">>
      [] o \in WithValue -> <<"value", "command", "eof">>
      [] OTHER -> <<"optionalvalue", "command", "eof">>

TryCommand ==
    /\ lpc = "parse" /\ Head(context) = "command"
    /\ IF OptionOf(Token) # ""
       THEN /\ opt' = Emitted
            /\ current' = OptionOf(Token)
            /\ context' = ContextAfter(OptionOf(Token))
            /\ argAt' = argAt + 1
       ELSE context' = Tail(context) /\ UNCHANGED <<opt, current, argAt>>
    /\ UNCHANGED <<start, lpc, round, idx, modules, alive, given, ran, stopped, told, code>>

TryValue ==
    /\ lpc = "parse" /\ Head(context) \in {"value", "optionalvalue"}
    /\ IF Token = "" \/ OptionOf(Token) # ""
       THEN /\ IF Head(context) = "value"
               THEN lpc' = "refused" /\ code' = -1
               ELSE UNCHANGED <<lpc, code>>
            /\ argAt' = IF Head(context) = "optionalvalue" /\ Token = "" THEN argAt + 1 ELSE argAt
            /\ UNCHANGED <<opt, current>>
       ELSE /\ opt' = Set(opt, current, Token)
            /\ current' = ""
            /\ argAt' = argAt + 1
            /\ UNCHANGED <<lpc, code>>
    /\ context' = Tail(context)
    /\ UNCHANGED <<start, round, idx, modules, alive, given, ran, stopped, told>>

TryEnd ==
    /\ lpc = "parse" /\ Head(context) = "eof"
    /\ IF Token = ""
       THEN opt' = Emitted /\ current' = "" /\ lpc' = "check" /\ code' = code
       ELSE lpc' = "refused" /\ code' = -1 /\ UNCHANGED <<opt, current>>
    /\ context' = Tail(context)
    /\ UNCHANGED <<start, argAt, round, idx, modules, alive, given, ran, stopped, told>>

-----------------------------------------------------------------------------
(* rvs::exec::run, for the command line and for the library.               *)

\* The files are looked for in two places, which have the same answer here.
\* -m comes after -r and wins; -c counts only without both.
Config ==
    IF start.via = "library" THEN start.request.kind
    ELSE IF Has("-m") THEN opt["-m"] ELSE IF Has("-r") THEN "level"
    ELSE IF Has("-c") THEN opt["-c"] ELSE "default"

ModuleConfs == {"gst", "iet", "mem", "pebb", "pbqt", "babel", "gpup", "peqt", "rcqt", "tst"}

BadOption ==
    \/ Has("-d") /\ (IsNumber(opt["-d"]) => Number[opt["-d"]] \notin 0..5)
    \/ Has("-r") /\ (\/ ~IsNumber(opt["-r"]) \/ Number[opt["-r"]] \notin 1..5
                     \/ ~start.platform \/ "level" \notin start.files)
    \/ Has("-m") /\ (opt["-m"] \notin ModuleConfs \/ ~start.platform)
    \/ Config \notin start.files
    \/ Has("-n") /\ ~IsNumber(opt["-n"])
    \/ Has("-t") /\ (IsNumber(opt["-t"]) => Number[opt["-t"]] <= 0)

\* module::initialize wants the version first.
NoModules == start.modulesFile # "good"

Decision ==
    IF start.via = "library"
    THEN IF start.request.file /\ Config \notin start.files THEN <<"over", -1>>
         ELSE IF NoModules THEN <<"over", 1>> ELSE <<"next", 0>>
    ELSE IF Has("-h") \/ Has("-ver") THEN <<"over", 0>>
         ELSE IF BadOption            THEN <<"over", -1>>
         ELSE IF NoModules            THEN <<"over", 1>>
         ELSE IF Has("--listTests")   THEN <<"list", 0>>
         ELSE IF ~start.log           THEN <<"over", -1>>
         ELSE IF Has("-g")            THEN <<"gpus", 0>>
         ELSE <<"next", 0>>

Check ==
    /\ lpc = "check"
    /\ lpc' = Decision[1] /\ code' = Decision[2]
    /\ UNCHANGED <<start, argAt, context, current, opt, round, idx, modules, alive, given, ran, stopped, told>>

\* init_interfaces: every function of both interfaces is found in the library.
HasInterfaces(m) == start.libraries[m] # "lacks functions"

LoadsUnchecked(m) == m \in DOMAIN start.libraries    \* a fault: what init returns is not looked at

\* find_create_module: the library is there, has its functions and both interfaces,
\* and rvs_module_init agrees; only then does the module enter the map.  What was
\* refused once is tried again the next time.
Loads(m) == m \in DOMAIN start.libraries /\ HasInterfaces(m) /\ start.libraries[m] # "refuses"

\* do_list_modules leaves the modules it loaded as they are.
ListTests ==
    /\ lpc = "list"
    /\ modules' = modules \cup {m \in DOMAIN start.libraries : Loads(m)}
    /\ lpc' = "over"
    /\ UNCHANGED <<start, argAt, context, current, opt, round, idx, alive, given, ran, stopped, told, code>>

ListGpus ==
    /\ lpc = "gpus"
    /\ \E ok \in BOOLEAN :
         /\ code' = IF Loads("pesm") /\ ok THEN 0 ELSE 1
         /\ modules' = IF Loads("pesm") THEN modules \cup {"pesm"} ELSE modules
    /\ lpc' = "end"
    /\ UNCHANGED <<start, argAt, context, current, opt, round, idx, alive, given, ran, stopped, told>>

-----------------------------------------------------------------------------
(* rvs::exec::do_yaml.                                                     *)

Rounds == IF Has("-n") THEN Number[opt["-n"]] ELSE 1
Action == start.actions[idx + 1]

\* -s: indices if every token is a number, names otherwise.
Tokens == IF Has("-s") THEN start.selections[opt["-s"]] ELSE {}
SelectedNameOrIndex(a, i) ==    \* a fault: a number among names still counts as an index
    \/ Tokens = {}
    \/ a.name \in Tokens
    \/ \E t \in Tokens : IsNumber(t) /\ Number[t] = i

Selected(a, i) ==
    LET numeric == \A t \in Tokens : IsNumber(t) /\ Number[t] >= 0
    IN \/ Tokens = {}
       \/ ~numeric /\ a.name \in Tokens
       \/ numeric /\ i \in {Number[t] : t \in Tokens}

Turn == IF idx + 1 = Len(start.actions) THEN round' = round + 1 /\ idx' = 0
                                        ELSE round' = round /\ idx' = idx + 1
TellClient(what) == told' = Append(told, what)

NothingToDo == start.actions = <<>> \/ round >= Rounds

NextLaunched ==
    /\ lpc = "next" /\ start.yaml = "good" /\ ~NothingToDo
    /\ \/ /\ ~Selected(Action, idx)
          /\ Turn
          /\ UNCHANGED <<lpc, told, code>>
       \/ /\ Selected(Action, idx)
          /\ IF stopped
             THEN lpc' = "end" /\ code' = -1 /\ TellClient("failed")
             ELSE lpc' = "create" /\ UNCHANGED <<told, code>>
          /\ UNCHANGED <<round, idx>>
    /\ UNCHANGED <<start, argAt, context, current, opt, modules, alive, given, ran, stopped>>

\* Without an end of the JSON and without a word to the application.
BadYaml ==
    /\ lpc = "next" /\ start.yaml # "good"
    /\ lpc' = "end"
    /\ code' = IF start.yaml = "throws" THEN -999 ELSE -1
    /\ UNCHANGED <<start, argAt, context, current, opt, round, idx, modules, alive, given, ran, stopped, told>>

AllDone ==
    /\ lpc = "next" /\ start.yaml = "good" /\ NothingToDo
    /\ lpc' = "end" /\ TellClient("success")
    /\ UNCHANGED <<start, argAt, context, current, opt, round, idx, modules, alive, given, ran, stopped, code>>

\* do_yaml_properties: the keys of the action, then the options that override them.
\* -i matters only to an action that has the key device, and a key device_index behind
\* that one in the file wins over it; -p takes true, false or nothing.
IndexOverrides(a) ==
    /\ Has("-i") /\ "device" \in DOMAIN a.keys /\ opt["-i"] \in start.indexes
    /\ ~("device_index" \in DOMAIN a.keys /\ a.indexBehind)
KeysGiven(a) ==
    LET keys == [k \in DOMAIN a.keys |->
                   IF k = "device" /\ Has("-i") /\ opt["-i"] \notin start.indexes
                   THEN opt["-i"] ELSE a.keys[k]]
        p == IF Has("-p") THEN Set(keys, "parallel", IF opt["-p"] = "" THEN "true" ELSE opt["-p"]) ELSE keys
        t == IF Has("-t") THEN Set(p, "duration", opt["-t"]) ELSE p
    IN IF IndexOverrides(a) THEN Set(t, "device_index", opt["-i"]) ELSE t

PropertiesFail == Has("-p") /\ opt["-p"] \notin {"", "true", "false"}

\* action_create, do_yaml_properties.  A value that is no scalar throws, past the
\* action that was just created.
Create ==
    /\ lpc = "create"
    /\ modules' = IF Loads(Action.module) THEN modules \cup {Action.module} ELSE modules
    /\ IF Action.module \notin modules /\ ~Loads(Action.module)
       THEN lpc' = "end" /\ code' = -1 /\ TellClient("failed") /\ UNCHANGED <<alive, given>>
       ELSE IF Action.throws
       THEN lpc' = "end" /\ code' = -999 /\ alive' = alive + 1 /\ UNCHANGED <<told, given>>
       ELSE IF PropertiesFail
       THEN lpc' = "end" /\ code' = 1 /\ UNCHANGED <<alive, told, given>>
       ELSE lpc' = "run" /\ alive' = alive + 1 /\ given' = KeysGiven(Action) /\ UNCHANGED <<told, code>>
    /\ UNCHANGED <<start, argAt, context, current, opt, round, idx, ran, stopped>>

\* module::action_destroy.
DestroyAction == alive' = alive - 1

\* Its result is told and printed; it changes neither what follows nor the exit code.
RunLaunched ==
    /\ lpc = "run"
    /\ \E ok \in BOOLEAN :
         /\ ran' = Append(ran, [round |-> round, index |-> idx, given |-> given, ok |-> ok])
         /\ IF ok THEN told' = told ELSE TellClient("failed")
    /\ DestroyAction
    /\ lpc' = "next" /\ Turn
    /\ UNCHANGED <<start, argAt, context, current, opt, modules, given, stopped, code>>

\* An action or a signal asks for a stop.
StopAsked ==
    /\ lpc = "run" /\ ~stopped /\ stopped' = TRUE
    /\ UNCHANGED <<start, lpc, argAt, context, current, opt, round, idx, modules, alive, given, ran, told, code>>

Terminate ==
    /\ lpc = "end"
    /\ modules' = {}
    /\ code' = IF code = 0 /\ stopped THEN -1 ELSE code
    /\ lpc' = "over"
    /\ UNCHANGED <<start, argAt, context, current, opt, round, idx, alive, given, ran, stopped, told>>

LaunchStart ==
    /\ lpc = (IF start.via = "library" THEN "check" ELSE "parse")
    /\ argAt = 1 /\ context = <<"command", "eof">> /\ current = "" /\ opt = <<>>
    /\ round = 0 /\ idx = 0 /\ modules = {} /\ alive = 0 /\ given = <<>>
    /\ ran = <<>> /\ stopped = FALSE /\ told = <<>> /\ code = 0

LaunchInit == start \in Starts /\ LaunchStart

LaunchNext ==
    \/ TryCommand \/ TryValue \/ TryEnd \/ Check \/ ListTests \/ ListGpus
    \/ NextLaunched \/ BadYaml \/ AllDone \/ Create \/ RunLaunched \/ StopAsked \/ Terminate

LaunchSpec == LaunchInit /\ [][LaunchNext]_launchVars

-----------------------------------------------------------------------------
(* What is checked.                                                        *)

\* The state of the launcher stays within its domains; only modules that could be
\* initialized are in the map.
LaunchTypeOK ==
    /\ lpc \in {"parse", "check", "list", "gpus", "next", "create", "run", "end", "over", "refused"}
    /\ DOMAIN opt \subseteq Options
    /\ modules \subseteq {m \in DOMAIN start.libraries : start.libraries[m] = "good"}
    /\ alive \in Nat
    /\ code \in {-999, -1, 0, 1}

\* A command line is accepted when, up to the first empty word (one
\* that is no value), each word is an option
\* or the value of the option before it, and a value is there where it must be; the last
\* word on an option counts (rvs::cli::parse).
Words == LET empty == {i \in 1..Len(start.argv) :
                         /\ start.argv[i] = ""
                         /\ i > 1 => OptionOf(start.argv[i - 1]) \notin WithOptional}
         IN IF empty = {} THEN start.argv
            ELSE SubSeq(start.argv, 1, (CHOOSE i \in empty : \A j \in empty : i <= j) - 1)
IsOption(i) == OptionOf(Words[i]) # ""
WellFormed ==
    \A i \in 1..Len(Words) :
        /\ ~IsOption(i) => i > 1 /\ OptionOf(Words[i - 1]) \in WithValue \cup WithOptional
        /\ OptionOf(Words[i]) \in WithValue => i < Len(Words) /\ ~IsOption(i + 1)
Meant(o) ==
    LET places == {i \in 1..Len(Words) : OptionOf(Words[i]) = o}
        last == CHOOSE i \in places : \A j \in places : j <= i
    IN IF last < Len(Words) /\ ~IsOption(last + 1) THEN Words[last + 1] ELSE ""
ReadAsWritten ==
    /\ lpc = "refused" => ~WellFormed
    /\ lpc = "check" /\ start.via = "command" =>
         /\ WellFormed
         /\ opt = [o \in {OptionOf(w) : w \in Range(Words)} \ {""} |-> Meant(o)]

\* What has been run is, in order, what was selected: every turn the same actions,
\* known by the indices or by the names of -s, each with the options' values where
\* they override the file; success is told only when all of it has been run.
Wanted == {p \in (0..(Rounds - 1)) \X (0..(Len(start.actions) - 1)) :
             Tokens = {} \/ IF Tokens \subseteq DOMAIN Number \ {"-1"}
                            THEN \E t \in Tokens : Number[t] = p[2]
                            ELSE start.actions[p[2] + 1].name \in Tokens}
RanAsSelected ==
    /\ \A i \in 1..Len(ran) : \A j \in 1..Len(ran) :
         i < j => \/ ran[i].round < ran[j].round
                  \/ ran[i].round = ran[j].round /\ ran[i].index < ran[j].index
    /\ (lpc \in {"next", "create", "run"}) => {<<r.round, r.index>> : r \in Range(ran)} \subseteq Wanted
    /\ told # <<>> /\ Last(told) = "success" => {<<r.round, r.index>> : r \in Range(ran)} = Wanted

\* What -p, -t and -i say reaches every action that is run, whatever the file says;
\* without them the file is obeyed.  Known to be otherwise: device_index in the file
\* behind device, although -i is said to override both, "including the 'all' value"
\* (docs/cli.md:28).
OverridesWin ==
    \A i \in 1..Len(ran) :
        LET g == ran[i].given
            keys == start.actions[ran[i].index + 1].keys
        IN /\ Has("-p") => "parallel" \in DOMAIN g /\ g["parallel"] = (IF opt["-p"] = "false" THEN "false" ELSE "true")
           /\ Has("-t") => "duration" \in DOMAIN g /\ g["duration"] = opt["-t"]
           /\ Has("-i") /\ "device" \in DOMAIN keys =>
                \/ \E k \in {"device", "device_index"} \cap DOMAIN g : g[k] = opt["-i"]
                \/ "device_index" \in DOMAIN keys /\ start.actions[ran[i].index + 1].indexBehind
           /\ \A k \in DOMAIN keys :
                \/ k = "parallel" /\ Has("-p")
                \/ k = "duration" /\ Has("-t")
                \/ k \in {"device", "device_index"} /\ Has("-i")
                \/ k \in DOMAIN g /\ g[k] = keys[k]

\* At most one action exists at a time; when run returns after do_yaml, no module is
\* left in the map, and no action in a module unless an exception passed it by.
NothingLeft ==
    /\ alive <= 1 /\ (lpc = "next" => alive = 0)
    /\ lpc = "over" /\ ~Has("--listTests") => modules = {} /\ (alive = 0 \/ code = -999)

\* From the words to the end of rvs::exec::run: what is written is what is read, what
\* is selected is what runs, with the values that the options give, and every way out,
\* a module that cannot be loaded, a property that is refused, an action that fails or
\* throws and a stop among them, leaves no module and no action behind.
LaunchSound == ReadAsWritten /\ RanAsSelected /\ OverridesWin /\ NothingLeft
=================================================================================
