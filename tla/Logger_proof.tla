----------------------------- MODULE Logger_proof -----------------------------
(***************************************************************************)
(* Proofs about Logger, for any runs: any list of actions, any workers and *)
(* any number of records.                                                  *)
(***************************************************************************)
EXTENDS Logger, TLAPS

\* Where main is at one of the actions.
AtAction == pc \in {"document", "reset", "list", "act", "join", "joinMonitor", "close"}

\* The types, and that main is never beyond the actions while it is at one.
TypeInv == TypeOK /\ (AtAction => pos <= Len(Actions))

\* In an orderly run only workers have records to flush, while main waits for them.
Quiet ==
    /\ \A m \in Monitors : watching[m] = "off"
    /\ ~bStop
    /\ \A t \in Threads : todo[t] > 0 \/ lock = t => t \in Workers /\ pc = "join"
    /\ pc \notin {"joinMonitor", "joinLast", "exited"}

\* What the parser has made of the file, for each place of main; between the two steps
\* of a flush there is a record, whatever isfirstrecord says.
Shaped ==
    /\ pc \in {"next", "document"} =>
          IF pos = 1 THEN initModule /\ isfirstaction /\ shape = "empty"
                     ELSE ~initModule /\ ~isfirstaction /\ shape = "lists"
    /\ pc \in {"reset", "list"} =>
          ~initModule /\ shape = IF isfirstaction THEN "object" ELSE "lists"
    /\ pc \in {"list", "act"} => isfirstrecord
    /\ pc \in {"act", "join", "close"} => ~initModule /\ ~isfirstaction
    /\ pc = "act" => shape = "array"
    /\ pc \in {"join", "close"} => IF lock = NoThread /\ isfirstrecord THEN shape = "array"
                                                                      ELSE shape = "records"
    /\ pc = "end" => shape = "lists"
    /\ pc \in {"terminate", "done"} => shape = "closed"

OrderlyInv == Orderly => Quiet /\ Shaped

LoggerInv == TypeInv /\ RecordsKept /\ OrderlyInv

-----------------------------------------------------------------------------

LEMMA RunActions ==
  ASSUME TypeOK
  PROVE  /\ Actions \in Seq(Action) /\ Len(Actions) \in Nat
         /\ \A i \in 1..Len(Actions) : Actions[i] \in Action
BY RunsAssumption DEF TypeOK, Run, Actions

\* The rules one by one: what may be next decides what is after it.
LEMMA Rules ==
  ASSUME NEW g \in Grammar
  PROVE  \/ g[1] = "empty" /\ g[2] = FALSE /\ g[3] = "document" /\ g[4] = "object"
         \/ g[1] = "object" /\ g[2] = FALSE /\ g[3] = "list" /\ g[4] = "array"
         \/ g[1] = "lists" /\ g[2] = TRUE /\ g[3] = "list" /\ g[4] = "array"
         \/ g[1] = "array" /\ g[2] = FALSE /\ g[3] = "record" /\ g[4] = "records"
         \/ g[1] = "records" /\ g[2] = TRUE /\ g[3] = "record" /\ g[4] = "records"
         \/ g[1] = "array" /\ g[2] = FALSE /\ g[3] = "listEnd" /\ g[4] = "lists"
         \/ g[1] = "records" /\ g[2] = FALSE /\ g[3] = "listEnd" /\ g[4] = "lists"
         \/ g[1] = "object" /\ g[2] = FALSE /\ g[3] = "end" /\ g[4] = "closed"
         \/ g[1] = "lists" /\ g[2] = FALSE /\ g[3] = "end" /\ g[4] = "closed"
<1>1. CASE g = <<"empty", FALSE, "document", "object">>
  BY <1>1
<1>2. CASE g = <<"object", FALSE, "list", "array">>
  BY <1>2
<1>3. CASE g = <<"lists", TRUE, "list", "array">>
  BY <1>3
<1>4. CASE g = <<"array", FALSE, "record", "records">>
  BY <1>4
<1>5. CASE g = <<"records", TRUE, "record", "records">>
  BY <1>5
<1>6. CASE g = <<"array", FALSE, "listEnd", "lists">>
  BY <1>6
<1>7. CASE g = <<"records", FALSE, "listEnd", "lists">>
  BY <1>7
<1>8. CASE g = <<"object", FALSE, "end", "closed">>
  BY <1>8
<1>9. CASE g = <<"lists", FALSE, "end", "closed">>
  BY <1>9
<1>. QED  BY <1>1, <1>2, <1>3, <1>4, <1>5, <1>6, <1>7, <1>8, <1>9 DEF Grammar

\* The grammar is deterministic.
LEMMA ParsedIs ==
  ASSUME NEW comma, NEW row, NEW after, <<shape, comma, row, after>> \in Grammar
  PROVE  Parsed(comma, row) = after
<1>. DEFINE rule == {g \in Grammar : g[1] = shape /\ g[2] = comma /\ g[3] = row}
<1>1. <<shape, comma, row, after>> \in rule
  OBVIOUS
<1>2. /\ \A g \in rule : g[1] = shape /\ g[3] = row /\ g \in Grammar
      /\ \A h \in Grammar : h[1] = shape /\ h[3] = row => h[4] = after
  <2>1. ASSUME NEW g \in Grammar, NEW h \in Grammar, g[1] = h[1], g[3] = h[3] PROVE g[4] = h[4]
    BY <2>1, Rules
  <2>. QED  BY <2>1
<1>3. (CHOOSE g \in rule : TRUE) \in rule
  BY <1>1
<1>. QED  BY <1>1, <1>2, <1>3 DEF Parsed

Shapes == {g[1] : g \in Grammar} \union {"closed", "malformed"}

LEMMA ParsedShape ==
  ASSUME NEW comma, NEW row
  PROVE  Parsed(comma, row) \in Shapes
<1>. DEFINE rule == {g \in Grammar : g[1] = shape /\ g[2] = comma /\ g[3] = row}
<1>1. \A g \in Grammar : g[4] \in Shapes
  <2>1. /\ <<"empty", FALSE, "document", "object">> \in Grammar
        /\ <<"object", FALSE, "list", "array">> \in Grammar
        /\ <<"lists", TRUE, "list", "array">> \in Grammar
        /\ <<"array", FALSE, "record", "records">> \in Grammar
        /\ <<"records", TRUE, "record", "records">> \in Grammar
    BY DEF Grammar
  <2>2. \A x \in {"object", "lists", "array", "records"} : \E g \in Grammar : g[1] = x
    BY <2>1
  <2>3. {"object", "lists", "array", "records", "closed"} \subseteq Shapes
    BY <2>2 DEF Shapes
  <2>4. \A g \in Grammar : g[4] \in {"object", "lists", "array", "records", "closed"}
    BY Rules
  <2>. QED  BY <2>3, <2>4
<1>2. CASE rule = {}
  BY <1>2 DEF Parsed, Shapes
<1>3. CASE rule # {}
  <2>1. (CHOOSE g \in rule : TRUE) \in rule
    BY <1>3
  <2>. QED  BY <1>1, <1>3, <2>1 DEF Parsed
<1>. QED  BY <1>2, <1>3

-----------------------------------------------------------------------------
(* The steps and the types.                                                *)

LEMMA FileType ==
  ASSUME TypeOK, NEW comma, NEW row, ToFile(comma, row)
  PROVE  shape' \in Shapes /\ written' \in Nat
<1>1. CASE UNCHANGED <<shape, written>>
  BY <1>1 DEF TypeOK, Shapes
<1>2. CASE /\ shape' = Parsed(comma, row)
           /\ written' = IF row = "record" THEN written + 1 ELSE written
  BY <1>2, ParsedShape DEF TypeOK
<1>. QED  BY <1>1, <1>2 DEF ToFile

\* What main's steps have in common.
LEMMA MainTypes ==
  ASSUME TypeInv, NEW comma, NEW row, NEW to,
         MainWrites(comma, row, to) \/ MainGoes(to)
  PROVE  /\ pc' = to /\ UNCHANGED <<run, lock, todo, watching, bStop, stop_flags, flushed>>
         /\ shape' \in Shapes /\ written' \in Nat
<1>1. CASE MainWrites(comma, row, to)
  BY <1>1, FileType DEF TypeInv, MainWrites, stopVars
<1>2. CASE MainGoes(to)
  BY <1>2 DEF TypeInv, TypeOK, MainGoes, stopVars, fileVars, Shapes
<1>. QED  BY <1>1, <1>2

LEMMA TypeInit == Init => TypeInv
<1>. SUFFICES ASSUME Init PROVE TypeInv
  OBVIOUS
<1>1. Len(Actions) \in Nat
  BY RunsAssumption DEF Init, Run, Actions
<1>2. "empty" \in {g[1] : g \in Grammar}
  <2>1. <<"empty", FALSE, "document", "object">> \in Grammar
    BY DEF Grammar
  <2>. QED  BY <2>1
<1>3. 1 \in 1..(Len(Actions) + 1)
  BY <1>1
<1>4. todo \in [Threads -> Nat] /\ watching \in [Monitors -> {"off", "on", "forcing", "stopped"}]
  BY DEF Init
<1>5. TypeOK
  BY <1>2, <1>3, <1>4 DEF Init, TypeOK
<1>. QED  BY <1>5 DEF Init, TypeInv, AtAction

LEMMA MainTypeKeeps == TypeInv /\ Main => TypeInv'
<1>. SUFFICES ASSUME TypeInv, Main PROVE TypeInv'
  OBVIOUS
<1>0. /\ TypeOK /\ Len(Actions) \in Nat /\ (AtAction => pos <= Len(Actions))
      /\ main \in Threads /\ gm \in Threads /\ pesm \in Threads
  BY RunActions DEF TypeInv, Threads, Monitors
<1>. DEFINE Same == Actions' = Actions /\ run' = run
<1>1. CASE NextAction
  <2>1. /\ pc' \in {"end", "terminate", "document", "act"}
        /\ UNCHANGED <<run, lock, todo, watching, bStop, stop_flags, flushed, pos, initModule,
                       isfirstaction, isfirstrecord, shape, written>>
        /\ pc' \in {"document", "act"} => pos <= Len(Actions)
    BY <1>1 DEF NextAction, MainGoes, flagVars, stopVars, fileVars
  <2>. QED  BY <1>0, <2>1 DEF TypeInv, TypeOK, AtAction, Actions
<1>2. CASE OpenDocument \/ ResetFirst \/ OpenList
  <2>1. AtAction /\ pc' \in {"reset", "list", "act"} /\ UNCHANGED pos
    BY <1>2 DEF OpenDocument, ResetFirst, OpenList, MainWrites, MainGoes, AtAction
  <2>2. /\ UNCHANGED <<run, lock, todo, watching, bStop, stop_flags, flushed>>
        /\ shape' \in Shapes /\ written' \in Nat
    BY <1>2, MainTypes DEF OpenDocument, ResetFirst, OpenList
  <2>3. initModule' \in BOOLEAN /\ isfirstaction' \in BOOLEAN /\ isfirstrecord' \in BOOLEAN
    BY <1>0, <1>2 DEF OpenDocument, ResetFirst, OpenList, TypeOK
  <2>. QED  BY <1>0, <2>1, <2>2, <2>3 DEF TypeInv, TypeOK, AtAction, Actions, Shapes
<1>3. CASE StartWorkers
  <2>1. todo' \in [Threads -> Nat]
    BY <1>0, <1>3, BoundAssumption DEF StartWorkers, TypeOK
  <2>. QED  BY <1>0, <1>3, <2>1 DEF StartWorkers, TypeInv, TypeOK, AtAction, Actions, flagVars,
                                    stopVars, fileVars
<1>4. CASE JoinWorkers
  BY <1>0, <1>4 DEF JoinWorkers, MainGoes, TypeInv, TypeOK, AtAction, Actions, flagVars, stopVars,
                    fileVars
<1>5. CASE FailAction
  BY <1>0, <1>5 DEF FailAction, MainGoes, TypeInv, TypeOK, AtAction, Actions, flagVars, stopVars,
                    fileVars
<1>6. ASSUME NEW m \in Monitors, Signal(m)
      PROVE  /\ todo' \in [Threads -> Nat]
             /\ watching' \in [Monitors -> {"off", "on", "forcing", "stopped"}]
  BY <1>0, <1>6, BoundAssumption DEF Signal, TypeOK
<1>7. CASE Monitor
  <2>1. /\ todo' \in [Threads -> Nat]
        /\ watching' \in [Monitors -> {"off", "on", "forcing", "stopped"}]
    <3>1. PICK m \in Monitors :
             \/ Signal(m)
             \/ UNCHANGED <<todo, watching>>
             \/ /\ watching' = [watching EXCEPT ![m] = "on"]
                /\ todo' = [todo EXCEPT ![m] = IF m = gm THEN MaxRecords ELSE 1]
      BY <1>7 DEF Monitor
    <3>. QED  BY <1>0, <1>6, <3>1, BoundAssumption DEF TypeOK
  <2>2. /\ pc = "act" /\ pc' \in {"joinMonitor", "close"}
        /\ UNCHANGED <<run, pos, lock, flagVars, stopVars, fileVars>>
    BY <1>7 DEF Monitor
  <2>. QED  BY <1>0, <2>1, <2>2 DEF TypeInv, TypeOK, AtAction, Actions, flagVars, stopVars, fileVars
<1>8. CASE JoinMonitor
  <2>1. watching' \in [Monitors -> {"off", "on", "forcing", "stopped"}]
    BY <1>0, <1>8 DEF JoinMonitor, TypeOK
  <2>2. /\ pc \in {"joinMonitor", "joinLast"} /\ pc' = IF pc = "joinLast" THEN "terminate" ELSE "act"
        /\ UNCHANGED <<run, pos, lock, todo, flagVars, stopVars, fileVars>>
    BY <1>8 DEF JoinMonitor
  <2>. QED  BY <1>0, <2>1, <2>2 DEF TypeInv, TypeOK, AtAction, Actions, flagVars, stopVars, fileVars
<1>9. CASE CloseList
  <2>1. pc = "close" /\ pc' = "next" /\ pos' = pos + 1 /\ UNCHANGED flagVars
    BY <1>9 DEF CloseList, MainWrites, MainGoes
  <2>2. /\ UNCHANGED <<run, lock, todo, watching, bStop, stop_flags, flushed>>
        /\ shape' \in Shapes /\ written' \in Nat
    BY <1>9, MainTypes DEF CloseList
  <2>. QED  BY <1>0, <2>1, <2>2 DEF TypeInv, TypeOK, AtAction, Actions, Shapes, flagVars
<1>10. CASE CloseDocument
  <2>1. pc' = "terminate" /\ UNCHANGED <<pos, flagVars>>
    BY <1>10 DEF CloseDocument, MainWrites
  <2>2. /\ UNCHANGED <<run, lock, todo, watching, bStop, stop_flags, flushed>>
        /\ shape' \in Shapes /\ written' \in Nat
    BY <1>10, MainTypes DEF CloseDocument
  <2>. QED  BY <1>0, <2>1, <2>2 DEF TypeInv, TypeOK, AtAction, Actions, Shapes, flagVars
<1>11. CASE TerminateModules
  <2>1. /\ todo' \in [Threads -> Nat]
        /\ watching' \in [Monitors -> {"off", "on", "forcing", "stopped"}]
    BY <1>0, <1>6, <1>11 DEF TerminateModules, TypeOK
  <2>2. pc' \in {"joinLast", "done"} /\ UNCHANGED <<run, pos, lock, flagVars, stopVars, fileVars>>
    BY <1>11 DEF TerminateModules
  <2>. QED  BY <1>0, <2>1, <2>2 DEF TypeInv, TypeOK, AtAction, Actions, flagVars, stopVars, fileVars
<1>. QED  BY <1>1, <1>2, <1>3, <1>4, <1>5, <1>7, <1>8, <1>9, <1>10, <1>11 DEF Main

LEMMA OtherTypeKeeps ==
  ASSUME TypeInv, StopProcessing \/ ForceStop \/ Exit \/ \E t \in Threads : Record(t)
  PROVE  TypeInv'
<1>0. TypeOK /\ (AtAction => pos <= Len(Actions))
  BY DEF TypeInv
<1>1. CASE StopProcessing \/ ForceStop \/ Exit
  <2>1. watching' \in [Monitors -> {"off", "on", "forcing", "stopped"}]
    BY <1>0, <1>1 DEF StopProcessing, ForceStop, Exit, TypeOK
  <2>2. bStop' \in BOOLEAN /\ stop_flags' \in {0, 1} /\ pc' \in {pc, "exited"}
    BY <1>0, <1>1 DEF StopProcessing, ForceStop, Exit, TypeOK, stopVars
  <2>3. UNCHANGED <<run, pos, lock, todo, flagVars, fileVars>>
    BY <1>1 DEF StopProcessing, ForceStop, Exit
  <2>. QED  BY <1>0, <2>1, <2>2, <2>3 DEF TypeInv, TypeOK, AtAction, Actions, flagVars, fileVars
<1>2. ASSUME NEW t \in Threads, Record(t) PROVE TypeInv'
  <2>1. UNCHANGED <<run, pc, pos, watching, initModule, isfirstaction, stopVars>>
    BY <1>2 DEF Record, Flush, FlushEnds, FlushIgnored, Row, flagVars
  <2>2. todo' \in [Threads -> Nat] /\ lock' \in Threads \union {NoThread}
    BY <1>0, <1>2 DEF Record, Flush, FlushEnds, FlushIgnored, Row, TypeOK
  <2>3. isfirstrecord' \in BOOLEAN
    BY <1>0, <1>2 DEF Record, Flush, FlushEnds, FlushIgnored, Row, TypeOK, flagVars
  <2>4. shape' \in Shapes /\ written' \in Nat /\ flushed' \in Nat
    <3>1. CASE Flush(t)
      BY <1>0, <3>1, FileType DEF Flush, Row, TypeOK
    <3>2. CASE FlushEnds(t) \/ FlushIgnored(t)
      BY <1>0, <3>2 DEF FlushEnds, FlushIgnored, TypeOK, Shapes, fileVars
    <3>. QED  BY <1>2, <3>1, <3>2 DEF Record
  <2>. QED  BY <1>0, <2>1, <2>2, <2>3, <2>4 DEF TypeInv, TypeOK, AtAction, Actions, Shapes, stopVars
<1>. QED  BY <1>1, <1>2

-----------------------------------------------------------------------------
(* No record is lost.                                                      *)

LEMMA FileKeeps ==
  ASSUME NEW comma, NEW row, ToFile(comma, row), RecordsKept, stop_flags = 0
  PROVE  written' = IF row = "record" THEN flushed + 1 ELSE flushed
BY DEF ToFile, RecordsKept

LEMMA RecordsKeeps ==
  ASSUME TypeInv, RecordsKept, Next
  PROVE  RecordsKept'
<1>. SUFFICES ASSUME stop_flags' = 0 PROVE written' = flushed'
  BY DEF RecordsKept
<1>0. stop_flags = 0
  BY DEF Next, Main, NextAction, OpenDocument, ResetFirst, OpenList, StartWorkers, JoinWorkers,
     FailAction, Monitor, JoinMonitor, CloseList, CloseDocument, TerminateModules, MainWrites,
     MainGoes, StopProcessing, ForceStop, Exit, Record, Flush, FlushEnds, FlushIgnored, Row,
     stopVars, vars
<1>1. CASE Main
  <2>1. CASE UNCHANGED fileVars
    BY <1>0, <2>1 DEF fileVars, RecordsKept
  <2>2. ASSUME NEW comma, NEW row, NEW to, row # "record", MainWrites(comma, row, to)
        PROVE  written' = flushed'
    BY <1>0, <2>2, FileKeeps DEF MainWrites
  <2>. QED  BY <1>1, <2>1, <2>2 DEF Main, NextAction, OpenDocument, ResetFirst, OpenList,
               StartWorkers, JoinWorkers, FailAction, Monitor, JoinMonitor, CloseList,
               CloseDocument, TerminateModules, MainGoes
<1>2. ASSUME NEW t \in Threads, Record(t) PROVE written' = flushed'
  <2>1. CASE Flush(t)
    BY <1>0, <2>1, FileKeeps DEF Flush, Row
  <2>2. CASE FlushEnds(t) \/ FlushIgnored(t)
    BY <1>0, <2>2 DEF FlushEnds, FlushIgnored, fileVars, RecordsKept
  <2>. QED  BY <1>2, <2>1, <2>2 DEF Record
<1>3. CASE StopProcessing \/ ForceStop \/ Exit \/ UNCHANGED vars
  BY <1>0, <1>3 DEF StopProcessing, ForceStop, Exit, vars, fileVars, RecordsKept
<1>. QED  BY <1>1, <1>2, <1>3 DEF Next

-----------------------------------------------------------------------------
(* The file of an orderly run.                                             *)

\* In an orderly run nothing is written but by main at its rows, or by a worker.
LEMMA Written ==
  ASSUME NEW comma, NEW row, NEW after, ~bStop, ToFile(comma, row),
         <<shape, comma, row, after>> \in Grammar
  PROVE  shape' = after
BY ParsedIs DEF ToFile

LEMMA OrderlyMain ==
  ASSUME TypeInv, Orderly, Quiet, Shaped, Main
  PROVE  Quiet' /\ Shaped'
<1>0. /\ TypeOK /\ Len(Actions) \in Nat /\ Len(Actions) > 0 /\ (AtAction => pos <= Len(Actions))
      /\ pos \in 1..(Len(Actions) + 1) /\ ~bStop /\ NoThread \notin Workers
  BY RunActions, ThreadsAssumption DEF TypeInv, TypeOK, Orderly, Quiet, Threads
<1>1. AtAction \/ pos <= Len(Actions) => Current.list /\ Current.does = "work"
  BY <1>0 DEF Orderly, Current
<1>2. \A t \in Threads : pc # "join" => todo[t] = 0 /\ lock # t
  BY <1>0 DEF Quiet, TypeOK
<1>3. pc # "join" => lock = NoThread
  BY <1>0, <1>2 DEF TypeOK
<1>4. ASSUME UNCHANGED <<lock, todo, watching, bStop>>, pc # "join",
             pc' \notin {"joinMonitor", "joinLast", "exited"}
      PROVE  Quiet'
  BY <1>2, <1>4 DEF Quiet
<1>5. CASE NextAction
  <2>1. /\ UNCHANGED <<lock, todo, watching, bStop, pos, initModule, isfirstaction, shape>>
        /\ pc = "next" /\ pc' = IF pos > Len(Actions) THEN "end" ELSE "document"
    BY <1>0, <1>1, <1>5 DEF NextAction, MainGoes, stopVars, flagVars, fileVars
  <2>. QED  BY <1>0, <1>4, <2>1 DEF Shaped
<1>6. CASE OpenDocument
  <2>1. /\ UNCHANGED <<lock, todo, watching, bStop, isfirstaction>>
        /\ pc = "document" /\ pc' = "reset" /\ ~initModule'
    BY <1>6 DEF OpenDocument, MainWrites, MainGoes, stopVars
  <2>2. shape' = IF isfirstaction THEN "object" ELSE "lists"
    <3>1. CASE initModule
      <4>1. shape = "empty" /\ isfirstaction
        BY <2>1, <3>1 DEF Shaped
      <4>2. ToFile(FALSE, "document") /\ <<shape, FALSE, "document", "object">> \in Grammar
        BY <1>6, <3>1, <4>1 DEF OpenDocument, MainWrites, Grammar
      <4>. QED  BY <1>0, <4>1, <4>2, Written
    <3>2. CASE ~initModule
      BY <1>6, <2>1, <3>2 DEF OpenDocument, MainGoes, Shaped, fileVars
    <3>. QED  BY <3>1, <3>2
  <2>. QED  BY <1>4, <2>1, <2>2 DEF Shaped
<1>7. CASE ResetFirst
  <2>1. /\ UNCHANGED <<lock, todo, watching, bStop, initModule, isfirstaction, shape>>
        /\ pc = "reset" /\ pc' = "list" /\ isfirstrecord'
    BY <1>7 DEF ResetFirst, MainGoes, stopVars, fileVars
  <2>. QED  BY <1>4, <2>1 DEF Shaped
<1>8. CASE OpenList
  <2>1. /\ UNCHANGED <<lock, todo, watching, bStop, initModule, isfirstrecord>>
        /\ pc = "list" /\ pc' = "act" /\ ~isfirstaction'
    BY <1>8 DEF OpenList, MainWrites, stopVars
  <2>2. <<shape, ~isfirstaction, "list", "array">> \in Grammar
    <3>1. CASE isfirstaction
      BY <2>1, <3>1 DEF Shaped, Grammar
    <3>2. CASE ~isfirstaction
      BY <2>1, <3>2 DEF Shaped, Grammar
    <3>. QED  BY <3>1, <3>2
  <2>3. shape' = "array"
    BY <1>0, <1>8, <2>2, Written DEF OpenList, MainWrites
  <2>. QED  BY <1>4, <2>1, <2>3 DEF Shaped
<1>9. CASE StartWorkers
  <2>1. /\ UNCHANGED <<lock, watching, bStop, initModule, isfirstaction, isfirstrecord, shape>>
        /\ pc = "act" /\ pc' = "join"
        /\ \A t \in Threads : todo'[t] > 0 => t \in Workers
    BY <1>2, <1>9 DEF StartWorkers, stopVars, flagVars, fileVars
  <2>2. Quiet'
    BY <1>2, <2>1 DEF Quiet
  <2>. QED  BY <1>3, <2>1, <2>2 DEF Shaped
<1>10. CASE JoinWorkers
  <2>1. /\ UNCHANGED <<lock, todo, watching, bStop, initModule, isfirstaction, isfirstrecord, shape>>
        /\ pc = "join" /\ pc' = "close"
    BY <1>10 DEF JoinWorkers, MainGoes, stopVars, flagVars, fileVars
  <2>2. \A t \in Threads : todo[t] = 0 /\ lock # t
    BY <1>0, <1>10 DEF JoinWorkers, Flushed, Quiet, TypeOK
  <2>3. lock = NoThread
    BY <1>0, <2>2 DEF TypeOK
  <2>4. Quiet'
    BY <2>1, <2>2 DEF Quiet
  <2>. QED  BY <2>1, <2>3, <2>4 DEF Shaped
<1>11. CASE CloseList
  <2>1. /\ UNCHANGED <<lock, todo, watching, bStop, initModule, isfirstaction>>
        /\ pc = "close" /\ pc' = "next" /\ pos' = pos + 1 /\ AtAction
    BY <1>11 DEF CloseList, MainWrites, MainGoes, stopVars, flagVars, AtAction
  <2>2. <<shape, FALSE, "listEnd", "lists">> \in Grammar
    BY <2>1 DEF Shaped, Grammar
  <2>3. shape' = "lists"
    BY <1>0, <1>1, <1>11, <2>1, <2>2, Written DEF CloseList, MainWrites
  <2>. QED  BY <1>0, <1>4, <2>1, <2>3 DEF Shaped
<1>12. CASE CloseDocument
  <2>1. /\ UNCHANGED <<lock, todo, watching, bStop>>
        /\ pc = "end" /\ pc' = "terminate"
    BY <1>12 DEF CloseDocument, MainWrites, stopVars
  <2>2. <<shape, FALSE, "end", "closed">> \in Grammar
    BY <2>1 DEF Shaped, Grammar
  <2>3. shape' = "closed"
    BY <1>0, <1>12, <2>2, Written DEF CloseDocument, MainWrites
  <2>. QED  BY <1>4, <2>1, <2>3 DEF Shaped
<1>13. CASE TerminateModules
  <2>1. /\ UNCHANGED <<lock, todo, watching, bStop, shape>>
        /\ pc = "terminate" /\ pc' = "done"
    BY <1>13 DEF TerminateModules, Quiet, stopVars, fileVars
  <2>. QED  BY <1>4, <2>1 DEF Shaped
<1>14. ~FailAction /\ ~Monitor /\ ~JoinMonitor
  <2>1. pc = "act" => Current.does = "work"
    BY <1>1 DEF AtAction
  <2>. QED  BY <2>1 DEF FailAction, Monitor, JoinMonitor, Quiet
<1>. QED  BY <1>5, <1>6, <1>7, <1>8, <1>9, <1>10, <1>11, <1>12, <1>13, <1>14 DEF Main

LEMMA OrderlyRecord ==
  ASSUME TypeInv, Orderly, Quiet, Shaped, NEW t \in Threads, Record(t)
  PROVE  Quiet' /\ Shaped'
<1>0. /\ TypeOK /\ ~bStop /\ NoThread \notin Threads /\ ~run.append
  BY ThreadsAssumption DEF TypeInv, Orderly, Quiet
<1>1. /\ UNCHANGED <<run, pc, pos, watching, initModule, isfirstaction, bStop>>
      /\ todo[t] > 0 \/ lock = t
  BY DEF Record, Flush, FlushEnds, FlushIgnored, Row, flagVars, stopVars
<1>2. t \in Workers /\ pc = "join"
  BY <1>1 DEF Quiet
<1>3. /\ \A s \in Threads : todo'[s] > 0 => todo[s] > 0
      /\ lock' \in {lock, t, NoThread}
  BY <1>0 DEF Record, Flush, FlushEnds, FlushIgnored, Row, TypeOK
<1>4. Quiet'
  BY <1>0, <1>1, <1>2, <1>3 DEF Quiet
<1>5. CASE Flush(t)
  <2>1. <<shape, ~isfirstrecord, "record", "records">> \in Grammar
    <3>1. CASE isfirstrecord
      BY <1>2, <1>5, <3>1 DEF Shaped, Flush, Grammar
    <3>2. CASE ~isfirstrecord
      BY <1>2, <1>5, <3>2 DEF Shaped, Flush, Grammar
    <3>. QED  BY <3>1, <3>2
  <2>2. ToFile(~isfirstrecord, "record") /\ lock' = t /\ isfirstrecord' = isfirstrecord
    BY <1>0, <1>5 DEF Flush, Row, flagVars
  <2>3. shape' = "records"
    BY <1>0, <2>1, <2>2, Written
  <2>. QED  BY <1>0, <1>1, <1>2, <1>4, <2>2, <2>3 DEF Shaped
<1>6. CASE FlushEnds(t)
  BY <1>0, <1>1, <1>2, <1>4, <1>6 DEF Shaped, FlushEnds, fileVars
<1>7. CASE FlushIgnored(t)
  BY <1>0, <1>1, <1>2, <1>4, <1>7 DEF Shaped, FlushIgnored, flagVars, fileVars
<1>. QED  BY <1>5, <1>6, <1>7 DEF Record

-----------------------------------------------------------------------------
(* The theorems.                                                           *)

LEMMA LoggerInit == Init => LoggerInv
<1>. SUFFICES ASSUME Init PROVE LoggerInv
  OBVIOUS
<1>1. TypeInv
  BY TypeInit
<1>2. RecordsKept
  BY DEF Init, RecordsKept
<1>3. NoThread \notin Threads
  BY ThreadsAssumption
<1>4. Quiet /\ Shaped
  BY <1>3 DEF Init, Quiet, Shaped
<1>. QED  BY <1>1, <1>2, <1>4 DEF LoggerInv, OrderlyInv

LEMMA LoggerKeeps == LoggerInv /\ [Next]_vars => LoggerInv'
<1>. SUFFICES ASSUME LoggerInv, [Next]_vars PROVE LoggerInv'
  OBVIOUS
<1>0. TypeInv /\ RecordsKept /\ OrderlyInv
  BY DEF LoggerInv
<1>1. CASE UNCHANGED vars
  BY <1>0, <1>1 DEF LoggerInv, TypeInv, TypeOK, AtAction, RecordsKept, OrderlyInv, Orderly, Quiet,
     Shaped, Actions, vars, flagVars, stopVars, fileVars
<1>2. CASE ~Ended /\ Next
  <2>1. TypeInv'
    BY <1>0, <1>2, MainTypeKeeps, OtherTypeKeeps DEF Next
  <2>2. RecordsKept'
    BY <1>0, <1>2, RecordsKeeps
  <2>3. run' = run
    BY <1>2 DEF Next, Main, NextAction, OpenDocument, ResetFirst, OpenList, StartWorkers,
       JoinWorkers, FailAction, Monitor, JoinMonitor, CloseList, CloseDocument, TerminateModules,
       MainWrites, MainGoes, StopProcessing, ForceStop, Exit, Record, Flush, FlushEnds,
       FlushIgnored, Row, vars
  <2>4. ASSUME Orderly PROVE Quiet' /\ Shaped'
    <3>1. Quiet /\ Shaped
      BY <1>0, <2>4 DEF OrderlyInv
    <3>2. ~StopProcessing /\ ~ForceStop /\ ~Exit
      BY <3>1 DEF Quiet, Monitors, StopProcessing, ForceStop, Exit
    <3>. QED  BY <1>0, <1>2, <2>4, <3>1, <3>2, OrderlyMain, OrderlyRecord DEF Next
  <2>5. OrderlyInv'
    BY <2>3, <2>4 DEF OrderlyInv, Orderly, Actions
  <2>. QED  BY <2>1, <2>2, <2>5 DEF LoggerInv
<1>. QED  BY <1>1, <1>2 DEF Next

\* The invariant from which the theorems below follow.
THEOREM LoggerCorrect == Spec => []LoggerInv
<1>. QED  BY LoggerInit, LoggerKeeps, PTL DEF Spec

\* Every variable keeps its type, for any runs.
THEOREM LoggerTypeCorrect == Spec => []TypeOK
<1>1. LoggerInv => TypeOK
  BY DEF LoggerInv, TypeInv
<1>. QED  BY <1>1, LoggerCorrect, PTL

\* Unless a stop was forced no record is lost (ToFile against bStop and stop_flags).
THEOREM RecordsAreKept == Spec => []RecordsKept
<1>1. LoggerInv => RecordsKept
  BY DEF LoggerInv
<1>. QED  BY <1>1, LoggerCorrect, PTL

\* The file of an orderly run parses at any moment and is complete at the end
\* (isfirstrecord_m and isfirstaction_m against json_log_mutex).
THEOREM FileWellFormed == Spec => []WellFormed
<1>1. LoggerInv => WellFormed
  <2>. SUFFICES ASSUME LoggerInv, Orderly
                PROVE  shape # "malformed" /\ (pc = "done" => shape = "closed")
    BY DEF WellFormed
  <2>1. TypeOK /\ Quiet /\ Shaped
    BY DEF LoggerInv, TypeInv, OrderlyInv
  <2>. QED  BY <2>1 DEF TypeOK, Quiet, Shaped
<1>. QED  BY <1>1, LoggerCorrect, PTL
=============================================================================
