------------------------------- MODULE Setup_proof -------------------------------
(***************************************************************************)
(* Proofs about what happens before and beside the tests on a GPU: what is *)
(* written on the command line is what is read, and what is selected is    *)
(* what runs (Launch), an action refuses with a reason and tests what it   *)
(* is asked to (Actions), the lists of the GPUs hold the same GPUs in the  *)
(* same order and map a GPU to what the driver says of it (GpuList), a     *)
(* pattern is judged by every device that is asked (Queries), and a        *)
(* package is counted and told as what the manager of packages knows of it *)
(* (Packages).  Each part keeps within its domains, and what holds of a    *)
(* part alone holds of it in the whole (Setup).                            *)
(***************************************************************************)
EXTENDS Setup, FiniteSetTheorems, WellFoundedInduction, TLAPS

LEMMA LeastNumber ==
  ASSUME NEW S \in SUBSET Nat, S # {}
  PROVE  \E m \in S : \A n \in S : m <= n
<1>. DEFINE R == StrictSubsetOrdering(Nat)
            T == {0..m : m \in S}
<1>1. T \subseteq FiniteSubsetsOf(Nat) /\ T # {}
  <2>1. \A m \in S : 0..m \in SUBSET Nat /\ IsFiniteSet(0..m)
    BY FS_Interval
  <2>. QED  BY <2>1 DEF FiniteSubsetsOf
<1>2. PICK x \in T : \A y \in T : ~(<<y, x>> \in R)
  <2>. HIDE DEF T, R
  <2>1. IsWellFoundedOn(R, FiniteSubsetsOf(Nat))
    BY FS_StrictSubsetOrderingWellFounded DEF R
  <2>. QED  BY <1>1, <2>1, WFMin
<1>3. PICK m \in S : x = 0..m
  OBVIOUS
<1>4. ASSUME NEW n \in S, n < m PROVE FALSE
  <2>1. 0..n \in SUBSET Nat /\ 0..m \in SUBSET Nat /\ 0..n \subseteq 0..m /\ 0..n # 0..m
    <3>1. n \in Nat /\ m \in Nat /\ m \in 0..m /\ m \notin 0..n
      BY <1>4
    <3>. QED  BY <1>4, <3>1
  <2>2. <<0..n, 0..m>> \in R
    BY <2>1 DEF StrictSubsetOrdering
  <2>. QED  BY <1>2, <1>3, <2>2
<1>. QED  BY <1>4

-----------------------------------------------------------------------------
(* The launcher: the command line.                                         *)

Blank == ""   \* the empty word

Lpcs == {"parse", "check", "list", "gpus", "next", "create", "run", "end", "over", "refused"}

\* The words of the command line that have been consumed, and the one that ends it.
Line  == start.argv
Final == Len(start.argv)
Read  == IF argAt <= Final THEN argAt - 1 ELSE Final
Stops(i) == Line[i] = Blank /\ (i > 1 => OptionOf(Line[i - 1]) \notin WithOptional)

\* The last place of an option among the first m words, and the value it has there.
LastOf(o, i, m)  == OptionOf(Line[i]) = o /\ \A j \in (i + 1)..m : OptionOf(Line[j]) # o
ValueAt(i, m)    == IF i < m /\ OptionOf(Line[i + 1]) = Blank THEN Line[i + 1] ELSE Blank

\* The words consumed are well formed, but for a value that is still to come.
Consumed ==
    /\ argAt \in 1..(Final + 2)
    /\ \A i \in 1..Read : ~Stops(i)
    /\ \A i \in 1..Read : OptionOf(Line[i]) = Blank => i > 1 /\ OptionOf(Line[i - 1]) \in WithValue \cup WithOptional
    /\ \A i \in 1..Read : OptionOf(Line[i]) \in WithValue =>
         (i < Read /\ OptionOf(Line[i + 1]) = Blank) \/ (i = Read /\ context[1] = "value")

\* The options, with the one that waits for its value, are those of the words consumed.
Stored ==
    /\ opt = [o \in DOMAIN opt |-> opt[o]] /\ current \in Options \cup {Blank}
    /\ \A o : o \in DOMAIN Emitted <=> o # Blank /\ \E i \in 1..Read : OptionOf(Line[i]) = o
    /\ \A o \in DOMAIN Emitted : \A i \in 1..Read : LastOf(o, i, Read) => Emitted[o] = ValueAt(i, Read)

\* What may come next.
Expecting ==
    \/ /\ context \in {<<"command", "eof">>, <<"eof">>}
       /\ Read >= 1 /\ OptionOf(Line[Read]) \in WithOptional => OptionOf(Token) # Blank \/ argAt > Final + 1
       /\ context = <<"eof">> => OptionOf(Token) = Blank
    \/ /\ context = <<"value", "command", "eof">>
       /\ Read >= 1 /\ argAt = Read + 1 /\ current = OptionOf(Line[Read]) /\ current \in WithValue
    \/ /\ context = <<"optionalvalue", "command", "eof">>
       /\ Read >= 1 /\ argAt = Read + 1 /\ current = OptionOf(Line[Read]) /\ current \in WithOptional

LineInv ==
    /\ start \in Starts /\ lpc \in Lpcs
    /\ start.via = "library" => lpc \notin {"parse", "refused"} /\ opt = <<>>
    /\ lpc = "parse" => Consumed /\ Stored /\ Expecting
    /\ ReadAsWritten

LEMMA Opts ==
  /\ \A t : OptionOf(t) \in Options \cup {Blank}
  /\ OptionOf(Blank) = Blank /\ Blank \notin Options
  /\ WithValue \subseteq Options /\ WithOptional \subseteq Options /\ Flags \subseteq Options
  /\ \A o \in Options : o \in Flags \/ o \in WithValue \/ o \in WithOptional
  /\ \A o \in WithOptional : o \notin Flags /\ o \notin WithValue
  /\ \A o \in WithValue : o \notin Flags
<1>1. OptionOf(Blank) = Blank /\ Blank \notin Options
  BY DEF Blank, OptionOf, Options, Flags, WithValue, WithOptional
<1>2. ASSUME NEW t PROVE OptionOf(t) \in Options \cup {Blank}
  <2>1. CASE t = "--config"
    BY <2>1 DEF Blank, OptionOf, Options, Flags, WithValue, WithOptional
  <2>2. CASE t = "--version"
    BY <2>2 DEF Blank, OptionOf, Options, Flags, WithValue, WithOptional
  <2>3. CASE t \in Options \ {"-ver"}
    <3>1. t # "--config" /\ t # "--version"
      BY <2>3 DEF Options, Flags, WithValue, WithOptional
    <3>. QED  BY <2>3, <3>1 DEF OptionOf
  <2>4. CASE t # "--config" /\ t # "--version" /\ t \notin Options \ {"-ver"}
    BY <2>4 DEF OptionOf, Blank
  <2>. QED  BY <2>1, <2>2, <2>3, <2>4
<1>3. /\ WithValue \subseteq Options /\ WithOptional \subseteq Options /\ Flags \subseteq Options
      /\ \A o \in Options : o \in Flags \/ o \in WithValue \/ o \in WithOptional
  BY DEF Options
<1>4. /\ \A o \in WithOptional : o \notin Flags /\ o \notin WithValue
      /\ \A o \in WithValue : o \notin Flags
  BY DEF Flags, WithValue, WithOptional
<1>. QED  BY <1>1, <1>2, <1>3, <1>4

LEMMA OfStart ==
  ASSUME start \in Starts
  PROVE  /\ Line \in Seq(STRING) /\ Final \in Nat /\ Len(Line) = Final
         /\ start.via \in {"command", "library"}
         /\ start.actions \in Seq(ToSet(start.actions)) /\ Len(start.actions) \in Nat
<1>1. /\ start.via \in {"command", "library"}
      /\ start.argv \in Seq(STRING) /\ start.actions \in Seq(ToSet(start.actions))
  BY StartsAreStarts
<1>2. \A S : \A s \in Seq(S) : Len(s) \in Nat
  OBVIOUS
<1>. QED  BY <1>1, <1>2 DEF Line, Final

\* The words go up to the first that stops the line.
LEMMA WordsOf ==
  ASSUME start \in Starts
  PROVE  /\ Len(Words) \in 0..Final /\ DOMAIN Words = 1..Len(Words)
         /\ \A i \in 1..Len(Words) : Words[i] = Line[i] /\ ~Stops(i)
         /\ Len(Words) < Final => Stops(Len(Words) + 1)
<1>. DEFINE empty == {i \in 1..Final : Stops(i)}
            first == CHOOSE i \in empty : \A j \in empty : i <= j
<1>1. Line \in Seq(STRING) /\ Final \in Nat /\ Len(Line) = Final /\ DOMAIN Line = 1..Final
  BY OfStart
<1>2. Words = IF empty = {} THEN Line ELSE SubSeq(Line, 1, first - 1)
  BY DEF Words, Stops, Line, Final, Blank
<1>3. empty \in SUBSET Nat
  BY <1>1
<1>4. CASE empty = {}
  <2>1. Words = Line
    BY <1>2, <1>4
  <2>. QED  BY <1>1, <1>4, <2>1
<1>5. CASE empty # {}
  <2>1. first \in empty /\ \A j \in empty : first <= j
    <3>1. \E i \in empty : \A j \in empty : i <= j
      BY <1>3, <1>5, LeastNumber
    <3>. HIDE DEF empty
    <3>. QED  BY <3>1
  <2>. HIDE DEF first
  <2>2. first \in 1..Final /\ Stops(first) /\ \A i \in 1..(first - 1) : ~Stops(i)
    BY <1>1, <2>1
  <2>3. Words = SubSeq(Line, 1, first - 1)
    BY <1>2, <1>5
  <2>4. Words = [i \in 1..(first - 1) |-> Line[i]] /\ Len(Words) = first - 1
    BY <1>1, <2>2, <2>3
  <2>5. Len(Words) + 1 = first
    BY <1>1, <2>2, <2>4
  <2>6. DOMAIN Words = 1..Len(Words) /\ \A i \in 1..Len(Words) : Words[i] = Line[i] /\ ~Stops(i)
    BY <2>2, <2>4
  <2>7. Len(Words) \in 0..Final
    BY <1>1, <2>2, <2>4
  <2>. QED  BY <2>2, <2>5, <2>6, <2>7
<1>. QED  BY <1>4, <1>5

LEMMA EmittedIs ==
  ASSUME opt = [o \in DOMAIN opt |-> opt[o]]
  PROVE  /\ Emitted = [o \in DOMAIN Emitted |-> Emitted[o]]
         /\ current = Blank => Emitted = opt
         /\ current # Blank => /\ Emitted = Set(opt, current, Blank) /\ DOMAIN Emitted = DOMAIN opt \cup {current}
                            /\ Emitted[current] = Blank /\ \A o \in DOMAIN opt : o # current => Emitted[o] = opt[o]
<1>1. CASE current = Blank
  BY <1>1 DEF Emitted, Blank
<1>2. CASE current # Blank
  <2>. DEFINE g == Set(opt, current, Blank)
  <2>1. Emitted = g
    BY <1>2 DEF Emitted, Blank
  <2>2. /\ DOMAIN g = DOMAIN opt \cup {current} /\ g = [k \in DOMAIN g |-> g[k]]
        /\ g[current] = Blank /\ \A k \in DOMAIN opt : k # current => g[k] = opt[k]
    BY DEF Set
  <2>. HIDE DEF g
  <2>3. Emitted = Set(opt, current, Blank)
    BY <2>1 DEF g
  <2>. QED  BY <1>2, <2>1, <2>2, <2>3
<1>. QED  BY <1>1, <1>2

\* A token that is there is the next word.
LEMMA TokenIs ==
  ASSUME start \in Starts, argAt \in 1..(Final + 2)
  PROVE  /\ Read \in 0..Final /\ Read <= argAt - 1
         /\ argAt <= Final => Read = argAt - 1 /\ Token = Line[argAt]
         /\ argAt > Final => Read = Final /\ Token = Blank
<1>1. Final \in Nat /\ argAt \in Nat /\ argAt >= 1
  <2>1. Final \in Nat
    BY OfStart
  <2>. QED  BY <2>1
<1>2. CASE argAt <= Final
  <2>1. Read = argAt - 1
    BY <1>2 DEF Read
  <2>2. Token = Line[argAt]
    BY <1>2 DEF Token, Line, Final
  <2>. QED  BY <1>1, <1>2, <2>1, <2>2
<1>3. CASE ~(argAt <= Final)
  <2>1. Read = Final
    BY <1>3 DEF Read
  <2>2. Token = Blank
    BY <1>3 DEF Token, Final, Blank
  <2>. QED  BY <1>1, <1>3, <2>1, <2>2
<1>. QED  BY <1>2, <1>3

\* A word more, that is no option and has not been left out, changes no value but its own.
LEMMA OneWordMore ==
  ASSUME NEW m \in Nat, NEW o, NEW i \in 1..m, LastOf(o, i, m + 1)
  PROVE  LastOf(o, i, m) /\ (i < m => ValueAt(i, m + 1) = ValueAt(i, m))
<1>1. \A j \in (i + 1)..m : j \in (i + 1)..(m + 1)
  OBVIOUS
<1>2. LastOf(o, i, m)
  BY <1>1 DEF LastOf
<1>3. i < m => i < m + 1
  OBVIOUS
<1>4. i < m => ValueAt(i, m + 1) = ValueAt(i, m)
  BY <1>3 DEF ValueAt
<1>. QED  BY <1>2, <1>4

LEMMA CommandStored ==
  ASSUME start \in Starts, Consumed, Stored, OptionOf(Token) # Blank, argAt <= Final,
         start' = start, opt' = Emitted, current' = OptionOf(Token), argAt' = argAt + 1
  PROVE  Stored'
<1>. DEFINE m == Read
            o == OptionOf(Token)
<1>1. /\ m \in Nat /\ argAt \in Nat /\ m = argAt - 1 /\ Line[m + 1] = Token /\ Read' = m + 1 /\ Line' = Line /\ Final' = Final
  <2>1. Read \in 0..Final /\ Read = argAt - 1 /\ Token = Line[argAt] /\ Final \in Nat
    BY TokenIs, OfStart DEF Consumed
  <2>2. argAt \in Nat /\ Read \in Nat
    BY <2>1 DEF Consumed
  <2>3. Line' = Line /\ Final' = Final
    BY DEF Line, Final
  <2>4. Read' = IF argAt + 1 <= Final THEN (argAt + 1) - 1 ELSE Final
    BY <2>3 DEF Read
  <2>5. Read' = argAt
    BY <2>1, <2>2, <2>4
  <2>6. Read + 1 = argAt
    BY <2>1, <2>2
  <2>. HIDE DEF m
  <2>7. m = Read
    BY DEF m
  <2>. QED  BY <2>1, <2>2, <2>3, <2>5, <2>6, <2>7
<1>. HIDE DEF m
<1>2. o \in Options /\ o # Blank
  BY Opts
<1>3. opt' = [p \in DOMAIN opt' |-> opt'[p]] /\ Emitted = [p \in DOMAIN Emitted |-> Emitted[p]]
  BY EmittedIs DEF Stored
<1>4. Emitted' = Set(Emitted, o, Blank)
  BY <1>2 DEF Emitted, Blank
<1>. HIDE DEF o
<1>5. /\ DOMAIN Emitted' = DOMAIN Emitted \cup {o} /\ Emitted'[o] = Blank
      /\ \A p \in DOMAIN Emitted : p # o => Emitted'[p] = Emitted[p]
  <2>. DEFINE g == Set(Emitted, o, Blank)
  <2>1. DOMAIN g = DOMAIN Emitted \cup {o} /\ g[o] = Blank /\ \A p \in DOMAIN Emitted : p # o => g[p] = Emitted[p]
    BY DEF Set
  <2>. HIDE DEF g
  <2>2. Emitted' = g
    BY <1>4 DEF g
  <2>. QED  BY <2>1, <2>2
<1>6. \A p : OptionOf(p)' = OptionOf(p)
  BY DEF OptionOf
<1>7. ASSUME NEW p PROVE p \in DOMAIN Emitted' <=> p # Blank /\ \E i \in 1..(m + 1) : OptionOf(Line[i]) = p
  <2>1. p \in DOMAIN Emitted <=> p # Blank /\ \E i \in 1..m : OptionOf(Line[i]) = p
    BY DEF Stored, m
  <2>2. \A i \in 1..(m + 1) : i \in 1..m \/ i = m + 1
    BY <1>1
  <2>3. m + 1 \in 1..(m + 1) /\ \A i \in 1..m : i \in 1..(m + 1)
    BY <1>1
  <2>4. OptionOf(Line[m + 1]) = o
    BY <1>1 DEF o
  <2>. QED  BY <1>2, <1>5, <2>1, <2>2, <2>3, <2>4
<1>8. ASSUME NEW p \in DOMAIN Emitted', NEW i \in 1..(m + 1), LastOf(p, i, m + 1)
      PROVE  Emitted'[p] = ValueAt(i, m + 1)
  <2>1. OptionOf(Line[m + 1]) = o /\ m + 1 \in Nat
    BY <1>1 DEF o
  <2>2. CASE i = m + 1
    <3>1. p = o
      BY <1>8, <2>1, <2>2 DEF LastOf
    <3>2. ValueAt(i, m + 1) = Blank
      BY <1>1, <2>2 DEF ValueAt
    <3>. QED  BY <1>5, <3>1, <3>2
  <2>3. CASE i # m + 1
    <3>1. i \in 1..m /\ m + 1 \in (i + 1)..(m + 1)
      BY <1>1, <2>3
    <3>2. p # o
      BY <1>8, <2>1, <3>1 DEF LastOf
    <3>3. LastOf(p, i, m) /\ (i < m => ValueAt(i, m + 1) = ValueAt(i, m))
      BY <1>1, <1>8, <3>1, OneWordMore
    <3>4. p \in DOMAIN Emitted /\ Emitted'[p] = Emitted[p]
      BY <1>5, <3>2
    <3>5. Emitted[p] = ValueAt(i, m)
      BY <3>1, <3>3, <3>4 DEF Stored, m
    <3>6. i = m => ValueAt(i, m + 1) = Blank /\ ValueAt(i, m) = Blank
      BY <1>1, <1>2, <2>1 DEF ValueAt
    <3>7. i < m \/ i = m
      BY <1>1, <3>1
    <3>. QED  BY <3>3, <3>4, <3>5, <3>6, <3>7
  <2>. QED  BY <2>2, <2>3
<1>9. \A p, i : LastOf(p, i, Read)' <=> LastOf(p, i, m + 1)
  BY <1>1, <1>6 DEF LastOf
<1>10. \A i : ValueAt(i, Read)' = ValueAt(i, m + 1)
  BY <1>1, <1>6 DEF ValueAt
<1>11. current' \in Options \cup {Blank}
  BY <1>2 DEF o
<1>12. m = Read
  BY DEF m
<1>. QED  BY <1>1, <1>3, <1>6, <1>7, <1>8, <1>9, <1>10, <1>11, <1>12 DEF Stored

LEMMA SameLine ==
  ASSUME start' = start
  PROVE  /\ Line' = Line /\ Final' = Final /\ Words' = Words
         /\ \A i : Stops(i)' <=> Stops(i)
         /\ WellFormed' <=> WellFormed
<1>1. Line' = Line /\ Final' = Final
  BY DEF Line, Final
<1>2. Words' = Words
  BY DEF Words, OptionOf
<1>3. \A i : Stops(i)' <=> Stops(i)
  BY <1>1 DEF Stops, OptionOf
<1>4. WellFormed' <=> WellFormed
  BY <1>2 DEF WellFormed, IsOption, OptionOf
<1>. QED  BY <1>1, <1>2, <1>3, <1>4

LEMMA ContextIs ==
  ASSUME Expecting
  PROVE  /\ Head(context) = context[1]
         /\ context[1] \in {"command", "eof"} =>
              /\ Tail(context) = (IF context[1] = "command" THEN <<"eof">> ELSE <<>>)
              /\ Read >= 1 /\ OptionOf(Line[Read]) \in WithOptional => OptionOf(Token) # Blank \/ argAt > Final + 1
              /\ context[1] = "eof" => OptionOf(Token) = Blank
         /\ context[1] \in {"value", "optionalvalue"} =>
              /\ Tail(context) = <<"command", "eof">>
              /\ Read >= 1 /\ argAt = Read + 1 /\ current = OptionOf(Line[Read])
              /\ context[1] = "value" => current \in WithValue
              /\ context[1] = "optionalvalue" => current \in WithOptional
<1>1. CASE context = <<"command", "eof">>
  <2>1. context[1] = "command" /\ Tail(context) = <<"eof">> /\ Head(context) = context[1]
    BY <1>1
  <2>2. context # <<"value", "command", "eof">> /\ context # <<"optionalvalue", "command", "eof">>
    BY <2>1
  <2>. QED  BY <2>1, <2>2 DEF Expecting
<1>2. CASE context = <<"eof">>
  <2>1. context[1] = "eof" /\ Tail(context) = <<>> /\ Head(context) = context[1]
    BY <1>2
  <2>2. context # <<"value", "command", "eof">> /\ context # <<"optionalvalue", "command", "eof">>
    BY <2>1
  <2>. QED  BY <1>2, <2>1, <2>2 DEF Expecting
<1>3. CASE context = <<"value", "command", "eof">>
  <2>1. context[1] = "value" /\ Tail(context) = <<"command", "eof">> /\ Head(context) = context[1]
    BY <1>3
  <2>2. context # <<"command", "eof">> /\ context # <<"eof">> /\ context # <<"optionalvalue", "command", "eof">>
    BY <2>1
  <2>. QED  BY <2>1, <2>2 DEF Expecting
<1>4. CASE context = <<"optionalvalue", "command", "eof">>
  <2>1. context[1] = "optionalvalue" /\ Tail(context) = <<"command", "eof">> /\ Head(context) = context[1]
    BY <1>4
  <2>2. context # <<"command", "eof">> /\ context # <<"eof">> /\ context # <<"value", "command", "eof">>
    BY <2>1
  <2>. QED  BY <2>1, <2>2 DEF Expecting
<1>. QED  BY <1>1, <1>2, <1>3, <1>4 DEF Expecting

\* A word of the line more has been consumed.
LEMMA ConsumedMore ==
  ASSUME start \in Starts, start' = start, Consumed, argAt <= Final, argAt' = argAt + 1, ~Stops(argAt),
         OptionOf(Token) = Blank => argAt > 1 /\ OptionOf(Line[argAt - 1]) \in WithValue \cup WithOptional,
         OptionOf(Token) \in WithValue => context'[1] = "value",
         context[1] = "value" => OptionOf(Token) = Blank
  PROVE  Consumed' /\ Read' = Read + 1 /\ Read' = argAt /\ Line'[Read'] = Token
<1>. DEFINE m == Read
            n == argAt
<1>1. /\ m \in Nat /\ n = m + 1 /\ Line[m + 1] = Token /\ Line' = Line /\ Final' = Final /\ Final \in Nat /\ n <= Final
      /\ Read' = n
  <2>1. Read \in 0..Final /\ Read = argAt - 1 /\ Token = Line[argAt] /\ Final \in Nat
    BY TokenIs, OfStart DEF Consumed
  <2>2. argAt \in Nat /\ Read \in Nat
    BY <2>1 DEF Consumed
  <2>3. Line' = Line /\ Final' = Final
    BY SameLine
  <2>4. Read' = IF argAt + 1 <= Final THEN (argAt + 1) - 1 ELSE Final
    BY <2>3 DEF Read
  <2>5. Read' = argAt
    BY <2>1, <2>2, <2>4
  <2>6. Read + 1 = argAt
    BY <2>1, <2>2
  <2>. HIDE DEF m, n
  <2>7. m = Read /\ n = argAt
    BY DEF m, n
  <2>. QED  BY <2>1, <2>2, <2>3, <2>5, <2>6, <2>7
<1>. HIDE DEF m, n
<1>2. m = Read /\ n = argAt
  BY DEF m, n
<1>3. /\ \A i \in 1..m : ~Stops(i)
      /\ \A i \in 1..m : OptionOf(Line[i]) = Blank => i > 1 /\ OptionOf(Line[i - 1]) \in WithValue \cup WithOptional
      /\ \A i \in 1..m : OptionOf(Line[i]) \in WithValue =>
           (i < m /\ OptionOf(Line[i + 1]) = Blank) \/ (i = m /\ context[1] = "value")
  BY <1>2 DEF Consumed
<1>4. \A i \in 1..n : i \in 1..m \/ i = n
  BY <1>1
<1>5. \A i \in 1..n : ~Stops(i)
  BY <1>2, <1>3, <1>4
<1>6. \A i \in 1..n : OptionOf(Line[i]) = Blank => i > 1 /\ OptionOf(Line[i - 1]) \in WithValue \cup WithOptional
  BY <1>1, <1>2, <1>3, <1>4
<1>7. ASSUME NEW i \in 1..n, OptionOf(Line[i]) \in WithValue
      PROVE  (i < n /\ OptionOf(Line[i + 1]) = Blank) \/ (i = n /\ context'[1] = "value")
  <2>1. CASE i = n
    BY <1>1, <1>7, <2>1
  <2>2. CASE i \in 1..m
    <3>1. CASE i < m /\ OptionOf(Line[i + 1]) = Blank
      BY <1>1, <2>2, <3>1
    <3>2. CASE i = m /\ context[1] = "value"
      <4>1. OptionOf(Line[i + 1]) = Blank
        BY <1>1, <3>2
      <4>2. i < n
        BY <1>1, <3>2
      <4>. QED  BY <4>1, <4>2
    <3>. QED  BY <1>3, <1>7, <2>2, <3>1, <3>2
  <2>. QED  BY <1>4, <2>1, <2>2
<1>8. argAt' \in 1..(Final' + 2)
  BY <1>1, <1>2
<1>9. \A i : Stops(i)' <=> Stops(i)
  BY SameLine
<1>10. \A t : OptionOf(t)' = OptionOf(t)
  BY DEF OptionOf
<1>11. Consumed'
  BY <1>1, <1>5, <1>6, <1>7, <1>8, <1>9, <1>10 DEF Consumed
<1>. QED  BY <1>1, <1>2, <1>11

\* A word that stops the line is none of the words, and one before it is.
LEMMA WordsReach ==
  ASSUME start \in Starts, NEW n \in 0..Final
  PROVE  /\ (\A i \in 1..n : ~Stops(i)) => n <= Len(Words)
         /\ n < Final /\ Stops(n + 1) => Len(Words) <= n
<1>1. /\ Len(Words) \in 0..Final /\ \A i \in 1..Len(Words) : ~Stops(i)
      /\ Len(Words) < Final => Stops(Len(Words) + 1)
  BY WordsOf
<1>2. Final \in Nat
  BY OfStart
<1>3. ASSUME \A i \in 1..n : ~Stops(i) PROVE n <= Len(Words)
  <2>1. CASE Len(Words) < n
    <3>1. Len(Words) + 1 \in 1..n /\ Len(Words) < Final
      BY <1>1, <1>2, <2>1
    <3>. QED  BY <1>1, <1>3, <3>1
  <2>. QED  BY <1>1, <1>2, <2>1
<1>4. ASSUME n < Final, Stops(n + 1) PROVE Len(Words) <= n
  <2>1. CASE Len(Words) > n
    <3>1. n + 1 \in 1..Len(Words)
      BY <1>1, <1>2, <2>1
    <3>. QED  BY <1>1, <1>4, <3>1
  <2>. QED  BY <1>1, <1>2, <2>1
<1>. QED  BY <1>3, <1>4

LEMMA CommandRead ==
  ASSUME LineInv, TryCommand
  PROVE  Consumed' /\ Stored' /\ Expecting'
<1>. DEFINE o == OptionOf(Token)
<1>1. start \in Starts /\ Consumed /\ Stored /\ Expecting /\ start' = start /\ lpc' = "parse"
  BY DEF LineInv, TryCommand
<1>2. Head(context) = context[1] /\ context[1] = "command" /\ Tail(context) = <<"eof">>
  BY <1>1, ContextIs DEF TryCommand
<1>3. \A t : OptionOf(t)' = OptionOf(t)
  BY DEF OptionOf
<1>4. Line' = Line /\ Final' = Final /\ \A i : Stops(i)' <=> Stops(i)
  BY <1>1, SameLine
<1>5. Final \in Nat /\ argAt \in 1..(Final + 2) /\ argAt \in Nat
  <2>1. Final \in Nat /\ argAt \in 1..(Final + 2)
    BY <1>1, OfStart DEF Consumed
  <2>. QED  BY <2>1
<1>6. CASE o # Blank
  <2>1. opt' = Emitted /\ current' = o /\ context' = ContextAfter(o) /\ argAt' = argAt + 1
    BY <1>6 DEF TryCommand, Blank
  <2>2. argAt <= Final /\ Token = Line[argAt] /\ Token # Blank
    BY <1>1, <1>5, <1>6, TokenIs, Opts
  <2>3. ~Stops(argAt)
    BY <2>2 DEF Stops
  <2>4. o \in Options
    BY <1>6, Opts
  <2>. HIDE DEF o
  <2>5. o \in WithValue => context' = <<"value", "command", "eof">> /\ context'[1] = "value"
    BY <2>1, Opts DEF ContextAfter
  <2>6. Consumed' /\ Read' = Read + 1 /\ Read' = argAt /\ Line'[Read'] = Token
    <3>1. o = OptionOf(Token)
      BY DEF o
    <3>. QED  BY <1>1, <1>2, <1>6, <2>1, <2>2, <2>3, <2>5, <3>1, ConsumedMore
  <2>7. Stored'
    BY <1>1, <1>6, <2>1, <2>2, CommandStored DEF o
  <2>8. Read' >= 1 /\ argAt' = Read' + 1 /\ current' = OptionOf(Line'[Read']) /\ OptionOf(Line'[Read']) = o
    <3>1. current' = o /\ o = OptionOf(Token)
      BY <2>1 DEF o
    <3>. QED  BY <1>5, <2>1, <2>6, <3>1
  <2>9. CASE o \in Flags
    <3>1. context' = <<"command", "eof">>
      BY <2>1, <2>9, Opts DEF ContextAfter
    <3>2. o \notin WithOptional /\ context' # <<"eof">>
      <4>1. context'[1] = "command"
        BY <3>1
      <4>. QED  BY <2>9, <4>1, Opts
    <3>. QED  BY <1>3, <2>6, <2>7, <2>8, <3>1, <3>2 DEF Expecting
  <2>10. CASE o \in WithValue
    BY <1>3, <2>5, <2>6, <2>7, <2>8, <2>10 DEF Expecting
  <2>11. CASE o \in WithOptional
    <3>1. context' = <<"optionalvalue", "command", "eof">>
      BY <2>1, <2>11, Opts DEF ContextAfter
    <3>. QED  BY <1>3, <2>6, <2>7, <2>8, <2>11, <3>1 DEF Expecting
  <2>. QED  BY <2>4, <2>9, <2>10, <2>11, Opts
<1>7. CASE o = Blank
  <2>1. context' = <<"eof">> /\ opt' = opt /\ current' = current /\ argAt' = argAt
    BY <1>2, <1>7 DEF TryCommand, Blank
  <2>2. Read' = Read /\ Token' = Token /\ Emitted' = Emitted
    <3>1. Read' = Read
      BY <1>4, <2>1 DEF Read
    <3>2. Token' = Token
      BY <1>1, <2>1 DEF Token
    <3>3. Emitted' = Emitted
      BY <2>1 DEF Emitted, Set
    <3>. QED  BY <3>1, <3>2, <3>3
  <2>3. Consumed'
    <3>1. context[1] # "value"
      BY <1>2
    <3>. QED  BY <1>1, <1>3, <1>4, <2>1, <2>2, <3>1 DEF Consumed
  <2>4. Stored'
    BY <1>1, <2>1, <2>2, <1>4, <1>3 DEF Stored, LastOf, ValueAt
  <2>5. Expecting'
    <3>1. Read >= 1 /\ OptionOf(Line[Read]) \in WithOptional => OptionOf(Token) # Blank \/ argAt > Final + 1
      BY <1>1, <1>2, ContextIs
    <3>. QED  BY <1>3, <1>4, <1>7, <2>1, <2>2, <3>1 DEF Expecting
  <2>. QED  BY <2>3, <2>4, <2>5
<1>. QED  BY <1>6, <1>7

\* Where a value is left out, or the value of an option is missing.
LEMMA ValueRefused ==
  ASSUME LineInv, TryValue, Token = Blank \/ OptionOf(Token) # Blank, context[1] = "value"
  PROVE  ~WellFormed
<1>1. start \in Starts /\ Consumed /\ Stored /\ Expecting /\ lpc = "parse"
  BY DEF LineInv, TryValue
<1>2. Read >= 1 /\ argAt = Read + 1 /\ current = OptionOf(Line[Read]) /\ current \in WithValue
  BY <1>1, ContextIs
<1>3. Final \in Nat /\ Read \in 0..Final /\ Read \in Nat
  <2>1. Final \in Nat /\ Read \in 0..Final
    BY <1>1, OfStart, TokenIs DEF Consumed
  <2>. QED  BY <2>1
<1>4. Read <= Len(Words) /\ Len(Words) \in 0..Final /\ \A i \in 1..Len(Words) : Words[i] = Line[i]
  BY <1>1, <1>3, WordsReach, WordsOf DEF Consumed
<1>5. OptionOf(Words[Read]) \in WithValue /\ Read \in 1..Len(Words)
  BY <1>2, <1>3, <1>4
<1>6. ASSUME WellFormed PROVE FALSE
  <2>1. Read < Len(Words) /\ ~IsOption(Read + 1)
    BY <1>5, <1>6 DEF WellFormed
  <2>2. argAt \in 1..Len(Words) /\ Words[Read + 1] = Line[argAt] /\ argAt <= Final /\ argAt > 1
    BY <1>2, <1>3, <1>4, <2>1
  <2>3. Token = Line[argAt]
    BY <1>1, <2>2, TokenIs DEF Consumed
  <2>4. OptionOf(Token) = Blank
    BY <2>1, <2>2, <2>3 DEF IsOption, Blank
  <2>5. ~Stops(argAt)
    BY <1>1, <2>2, WordsOf
  <2>6. Line[argAt] = Blank
    BY <2>3, <2>4
  <2>7. Line[argAt - 1] = Line[Read]
    BY <1>2, <1>3
  <2>8. current \in WithOptional
    BY <1>2, <2>2, <2>5, <2>6, <2>7 DEF Stops
  <2>. QED  BY <1>2, <2>8, Opts
<1>. QED  BY <1>6

LEMMA OptionalLeftOut ==
  ASSUME LineInv, TryValue, Token = Blank \/ OptionOf(Token) # Blank, context[1] = "optionalvalue"
  PROVE  Consumed' /\ Stored' /\ Expecting' /\ lpc' = lpc
<1>1. start \in Starts /\ Consumed /\ Stored /\ Expecting /\ lpc = "parse" /\ start' = start
  BY DEF LineInv, TryValue
<1>2. /\ Read >= 1 /\ argAt = Read + 1 /\ current = OptionOf(Line[Read]) /\ current \in WithOptional
      /\ Head(context) = context[1] /\ Tail(context) = <<"command", "eof">>
  BY <1>1, ContextIs
<1>3. Final \in Nat /\ Read \in 0..Final /\ Read \in Nat
  <2>1. Final \in Nat /\ Read \in 0..Final
    BY <1>1, OfStart, TokenIs DEF Consumed
  <2>. QED  BY <2>1
<1>4. /\ lpc' = lpc /\ opt' = opt /\ current' = current /\ context' = <<"command", "eof">>
      /\ argAt' = IF Token = Blank THEN argAt + 1 ELSE argAt
  BY <1>2 DEF TryValue, Blank
<1>5. /\ Line' = Line /\ Final' = Final /\ \A i : Stops(i)' <=> Stops(i)
      /\ \A t : OptionOf(t)' = OptionOf(t)
  BY <1>1, SameLine DEF OptionOf
<1>6. Emitted' = Emitted
  BY <1>4 DEF Emitted, Set
<1>7. context'[1] = "command" /\ context' # <<"eof">>
  <2>1. context'[1] = "command"
    BY <1>4
  <2>. QED  BY <2>1
<1>8. CASE Token # Blank
  <2>1. argAt' = argAt
    BY <1>4, <1>8
  <2>2. Read' = Read /\ Token' = Token
    <3>1. Read' = Read
      BY <1>5, <2>1 DEF Read
    <3>2. Token' = Token
      BY <1>1, <2>1 DEF Token
    <3>. QED  BY <3>1, <3>2
  <2>3. Consumed'
    BY <1>1, <1>5, <1>7, <2>1, <2>2 DEF Consumed
  <2>4. Stored'
    BY <1>1, <1>4, <1>5, <1>6, <2>2 DEF Stored, LastOf, ValueAt
  <2>5. Expecting'
    BY <1>4, <1>5, <1>7, <1>8, <2>2 DEF Expecting
  <2>. QED  BY <1>4, <2>3, <2>4, <2>5
<1>9. CASE Token = Blank /\ argAt > Final
  <2>1. argAt = Final + 1 /\ Read = Final /\ argAt' = Final + 2
    BY <1>2, <1>3, <1>4, <1>9
  <2>2. Read' = Read
    <3>1. Read' = IF argAt' <= Final THEN argAt' - 1 ELSE Final
      BY <1>5 DEF Read
    <3>. QED  BY <1>3, <2>1, <3>1
  <2>3. Consumed'
    <3>1. argAt' \in 1..(Final' + 2)
      BY <1>3, <1>5, <2>1
    <3>. QED  BY <1>1, <1>2, <1>5, <1>7, <2>2, <3>1 DEF Consumed
  <2>4. Stored'
    BY <1>1, <1>4, <1>5, <1>6, <2>2 DEF Stored, LastOf, ValueAt
  <2>5. argAt' > Final' + 1
    BY <1>3, <1>5, <2>1
  <2>6. Expecting'
    BY <1>4, <1>7, <2>5 DEF Expecting
  <2>. QED  BY <1>4, <2>3, <2>4, <2>6
<1>10. CASE Token = Blank /\ argAt <= Final
  <2>1. argAt' = argAt + 1 /\ Token = Line[argAt] /\ OptionOf(Token) = Blank /\ argAt > 1 /\ argAt \in Nat
    BY <1>1, <1>2, <1>3, <1>4, <1>10, TokenIs, Opts DEF Consumed
  <2>2. OptionOf(Line[argAt - 1]) \in WithOptional
    BY <1>2, <1>3
  <2>3. ~Stops(argAt)
    BY <2>1, <2>2 DEF Stops
  <2>4. Blank \notin WithValue /\ Blank \notin WithOptional
    BY Opts
  <2>5. Consumed' /\ Read' = Read + 1 /\ Read' = argAt /\ Line'[Read'] = Token
    BY <1>1, <1>10, <2>1, <2>2, <2>3, <2>4, ConsumedMore
  <2>6. OptionOf(Line[Read + 1]) = Blank /\ Line[Read + 1] = Blank
    BY <1>2, <1>10, <2>1
  <2>. DEFINE m == Read
  <2>7. m \in Nat /\ Read = m /\ Read' = m + 1
    BY <1>3, <2>5
  <2>. HIDE DEF m
  <2>8. ASSUME NEW p PROVE p \in DOMAIN Emitted <=> p # Blank /\ \E i \in 1..(m + 1) : OptionOf(Line[i]) = p
    <3>1. p \in DOMAIN Emitted <=> p # Blank /\ \E i \in 1..m : OptionOf(Line[i]) = p
      BY <1>1, <2>7 DEF Stored
    <3>2. \A i \in 1..(m + 1) : i \in 1..m \/ i = m + 1
      BY <2>7
    <3>3. \A i \in 1..m : i \in 1..(m + 1)
      BY <2>7
    <3>. QED  BY <2>6, <2>7, <3>1, <3>2, <3>3
  <2>9. ASSUME NEW p \in DOMAIN Emitted, NEW i \in 1..(m + 1), LastOf(p, i, m + 1)
        PROVE  Emitted[p] = ValueAt(i, m + 1)
    <3>1. i \in 1..m
      <4>1. OptionOf(Line[i]) # Blank
        BY <2>8, <2>9 DEF LastOf
      <4>2. i # m + 1
        BY <2>6, <2>7, <4>1
      <4>. QED  BY <2>7, <4>2
    <3>2. LastOf(p, i, m) /\ (i < m => ValueAt(i, m + 1) = ValueAt(i, m))
      BY <2>7, <2>9, <3>1, OneWordMore
    <3>3. Emitted[p] = ValueAt(i, m)
      BY <1>1, <2>7, <3>1, <3>2 DEF Stored
    <3>4. i = m => ValueAt(i, m + 1) = Blank /\ ValueAt(i, m) = Blank
      BY <2>6, <2>7, <3>1 DEF ValueAt
    <3>5. i < m \/ i = m
      BY <2>7, <3>1
    <3>. QED  BY <3>2, <3>3, <3>4, <3>5
  <2>10. \A p, i : LastOf(p, i, Read)' <=> LastOf(p, i, m + 1)
    BY <1>5, <2>7 DEF LastOf
  <2>11. \A i : ValueAt(i, Read)' = ValueAt(i, m + 1)
    BY <1>5, <2>7 DEF ValueAt
  <2>12. Stored'
    BY <1>1, <1>4, <1>5, <1>6, <2>7, <2>8, <2>9, <2>10, <2>11 DEF Stored
  <2>13. Expecting'
    <3>1. OptionOf(Line'[Read']) \notin WithOptional
      BY <1>10, <2>1, <2>4, <2>5
    <3>. QED  BY <1>4, <1>5, <1>7, <3>1 DEF Expecting
  <2>. QED  BY <1>4, <2>5, <2>12, <2>13
<1>11. argAt > Final \/ argAt <= Final
  BY <1>2, <1>3
<1>. QED  BY <1>8, <1>9, <1>10, <1>11

LEMMA ValueTaken ==
  ASSUME LineInv, TryValue, Token # Blank, OptionOf(Token) = Blank
  PROVE  Consumed' /\ Stored' /\ Expecting' /\ lpc' = lpc
<1>. DEFINE c == current
            t == Token
<1>1. start \in Starts /\ Consumed /\ Stored /\ Expecting /\ lpc = "parse" /\ start' = start
  BY DEF LineInv, TryValue
<1>2. /\ Read >= 1 /\ argAt = Read + 1 /\ c = OptionOf(Line[Read]) /\ c \in WithValue \cup WithOptional
      /\ Tail(context) = <<"command", "eof">>
  <2>1. context[1] \in {"value", "optionalvalue"}
    BY <1>1, ContextIs DEF TryValue
  <2>. QED  BY <1>1, <2>1, ContextIs
<1>3. Final \in Nat /\ Read \in 0..Final /\ Read \in Nat
  <2>1. Final \in Nat /\ Read \in 0..Final
    BY <1>1, OfStart, TokenIs DEF Consumed
  <2>. QED  BY <2>1
<1>4. /\ lpc' = lpc /\ opt' = Set(opt, c, t) /\ current' = Blank /\ context' = <<"command", "eof">>
      /\ argAt' = argAt + 1
  BY <1>2 DEF TryValue, Blank
<1>5. /\ Line' = Line /\ Final' = Final /\ \A i : Stops(i)' <=> Stops(i)
      /\ \A w : OptionOf(w)' = OptionOf(w)
  BY <1>1, SameLine DEF OptionOf
<1>6. c # Blank /\ c \in Options /\ Blank \notin WithValue /\ Blank \notin WithOptional
  BY <1>2, Opts
<1>7. /\ opt = [o \in DOMAIN opt |-> opt[o]] /\ Emitted = Set(opt, c, Blank)
      /\ DOMAIN Emitted = DOMAIN opt \cup {c} /\ \A o \in DOMAIN opt : o # c => Emitted[o] = opt[o]
  BY <1>1, <1>6, EmittedIs DEF Stored
<1>8. Emitted' = opt'
  BY <1>4 DEF Emitted, Blank
<1>9. argAt <= Final /\ t = Line[argAt] /\ argAt > 1 /\ argAt \in Nat
  <2>1. argAt <= Final
    BY <1>1, <1>2, <1>3, TokenIs DEF Consumed
  <2>. QED  BY <1>1, <1>2, <1>3, <2>1, TokenIs DEF Consumed
<1>10. OptionOf(Line[argAt - 1]) \in WithValue \cup WithOptional /\ ~Stops(argAt)
  <2>1. argAt - 1 = Read
    BY <1>2, <1>3
  <2>. QED  BY <1>2, <1>9, <2>1 DEF Stops
<1>11. Consumed' /\ Read' = Read + 1 /\ Read' = argAt /\ Line'[Read'] = t
  BY <1>1, <1>4, <1>6, <1>9, <1>10, ConsumedMore
<1>12. OptionOf(Line[Read + 1]) = Blank /\ Line[Read + 1] = t
  BY <1>2, <1>9
<1>. DEFINE m == Read
<1>13. m \in Nat /\ m >= 1 /\ Read = m /\ Read' = m + 1
  BY <1>2, <1>3, <1>11
<1>. HIDE DEF m, c, t
<1>14. /\ opt' = [p \in DOMAIN opt' |-> opt'[p]] /\ DOMAIN opt' = DOMAIN opt \cup {c} /\ opt'[c] = t
       /\ \A o \in DOMAIN opt : o # c => opt'[o] = opt[o]
  BY <1>4 DEF Set
<1>15. ASSUME NEW p PROVE p \in DOMAIN opt' <=> p # Blank /\ \E i \in 1..(m + 1) : OptionOf(Line[i]) = p
  <2>1. p \in DOMAIN Emitted <=> p # Blank /\ \E i \in 1..m : OptionOf(Line[i]) = p
    BY <1>1, <1>13 DEF Stored
  <2>2. \A i \in 1..(m + 1) : i \in 1..m \/ i = m + 1
    BY <1>13
  <2>3. \A i \in 1..m : i \in 1..(m + 1)
    BY <1>13
  <2>. QED  BY <1>7, <1>12, <1>13, <1>14, <2>1, <2>2, <2>3
<1>16. ASSUME NEW p \in DOMAIN opt', NEW i \in 1..(m + 1), LastOf(p, i, m + 1)
       PROVE  opt'[p] = ValueAt(i, m + 1)
  <2>1. i \in 1..m /\ OptionOf(Line[i]) = p
    <3>1. OptionOf(Line[i]) = p /\ p # Blank
      BY <1>15, <1>16 DEF LastOf
    <3>2. i # m + 1
      BY <1>12, <1>13, <3>1
    <3>. QED  BY <1>13, <3>1, <3>2
  <2>2. CASE p = c
    <3>1. i = m
      <4>1. CASE i < m
        <5>1. m \in (i + 1)..(m + 1)
          BY <1>13, <2>1, <4>1
        <5>2. OptionOf(Line[m]) # p
          BY <1>16, <5>1 DEF LastOf
        <5>. QED  BY <1>2, <1>13, <2>2, <5>2
      <4>. QED  BY <1>13, <2>1, <4>1
    <3>2. ValueAt(i, m + 1) = t
      BY <1>12, <1>13, <3>1 DEF ValueAt
    <3>. QED  BY <1>14, <2>2, <3>2
  <2>3. CASE p # c
    <3>1. i < m
      <4>1. i # m
        BY <1>2, <1>13, <2>1, <2>3
      <4>. QED  BY <1>13, <2>1, <4>1
    <3>2. LastOf(p, i, m) /\ ValueAt(i, m + 1) = ValueAt(i, m)
      BY <1>13, <1>16, <2>1, <3>1, OneWordMore
    <3>3. p \in DOMAIN Emitted /\ Emitted[p] = opt'[p]
      BY <1>7, <1>14, <2>3
    <3>. QED  BY <1>1, <1>13, <2>1, <3>2, <3>3 DEF Stored
  <2>. QED  BY <2>2, <2>3
<1>17. \A p, i : LastOf(p, i, Read)' <=> LastOf(p, i, m + 1)
  BY <1>5, <1>13 DEF LastOf
<1>18. \A i : ValueAt(i, Read)' = ValueAt(i, m + 1)
  BY <1>5, <1>13 DEF ValueAt
<1>19. Stored'
  BY <1>4, <1>5, <1>8, <1>13, <1>14, <1>15, <1>16, <1>17, <1>18 DEF Stored
<1>20. Expecting'
  <2>1. OptionOf(Line'[Read']) \notin WithOptional
    BY <1>6, <1>11, <1>12, <1>13, <1>5
  <2>2. context'[1] = "command"
    BY <1>4
  <2>3. context' # <<"eof">>
    BY <2>2
  <2>. QED  BY <1>4, <1>5, <2>1, <2>3 DEF Expecting
<1>. QED  BY <1>4, <1>11, <1>19, <1>20

\* An unfinished command line ends in a word that nothing takes.
LEMMA EndRefused ==
  ASSUME LineInv, TryEnd, Token # Blank
  PROVE  ~WellFormed
<1>1. start \in Starts /\ Consumed /\ Stored /\ Expecting /\ lpc = "parse"
  BY DEF LineInv, TryEnd
<1>2. /\ context[1] = "eof" /\ OptionOf(Token) = Blank
      /\ Read >= 1 /\ OptionOf(Line[Read]) \in WithOptional => argAt > Final + 1
  BY <1>1, ContextIs DEF TryEnd
<1>3. Final \in Nat /\ argAt \in 1..(Final + 2) /\ argAt \in Nat
  <2>1. Final \in Nat /\ argAt \in 1..(Final + 2)
    BY <1>1, OfStart DEF Consumed
  <2>. QED  BY <2>1
<1>4. argAt <= Final /\ Token = Line[argAt] /\ Read = argAt - 1 /\ Read \in Nat
  <2>1. argAt <= Final
    BY <1>1, <1>3, TokenIs
  <2>2. Token = Line[argAt] /\ Read = argAt - 1
    BY <1>1, <1>3, <2>1, TokenIs
  <2>. QED  BY <1>3, <2>1, <2>2
<1>5. \A i \in 1..argAt : ~Stops(i)
  <2>1. ~Stops(argAt)
    BY <1>4 DEF Stops
  <2>2. \A i \in 1..argAt : i = argAt \/ i \in 1..Read
    BY <1>3, <1>4
  <2>. QED  BY <1>1, <2>1, <2>2 DEF Consumed
<1>6. argAt <= Len(Words) /\ Len(Words) \in Nat /\ \A i \in 1..Len(Words) : Words[i] = Line[i]
  <2>1. argAt \in 0..Final
    BY <1>3, <1>4
  <2>. QED  BY <1>1, <1>3, <1>5, <2>1, WordsReach, WordsOf
<1>7. argAt \in 1..Len(Words) /\ Words[argAt] = Token
  BY <1>3, <1>4, <1>6
<1>8. ASSUME WellFormed PROVE FALSE
  <2>1. argAt > 1 /\ OptionOf(Words[argAt - 1]) \in WithValue \cup WithOptional
    BY <1>2, <1>7, <1>8 DEF WellFormed, IsOption, Blank
  <2>2. Read \in 1..Len(Words) /\ argAt - 1 = Read /\ Read >= 1
    BY <1>3, <1>4, <1>6, <2>1
  <2>3. OptionOf(Line[Read]) \in WithValue \cup WithOptional
    BY <1>6, <2>1, <2>2
  <2>4. OptionOf(Line[Read]) \notin WithOptional
    BY <1>2, <1>3, <1>4, <2>2
  <2>5. OptionOf(Line[Read]) \in WithValue /\ Read \in 1..Read
    BY <2>2, <2>3, <2>4, <1>4
  <2>6. context[1] = "value"
    BY <1>1, <1>4, <2>5 DEF Consumed
  <2>. QED  BY <1>2, <2>6
<1>. QED  BY <1>8

LEMMA GreatestNumber ==
  ASSUME NEW n \in Nat, NEW S \in SUBSET (1..n), S # {}
  PROVE  \E m \in S : \A k \in S : k <= m
<1>. DEFINE T == {n - k : k \in S}
<1>1. T \in SUBSET Nat /\ T # {}
  <2>1. \A k \in S : n - k \in Nat
    OBVIOUS
  <2>. QED  BY <2>1
<1>2. PICK t \in T : \A u \in T : t <= u
  <2>. HIDE DEF T
  <2>. QED  BY <1>1, LeastNumber
<1>3. PICK m \in S : t = n - m
  OBVIOUS
<1>4. ASSUME NEW k \in S PROVE k <= m
  <2>1. n - k \in T
    OBVIOUS
  <2>2. n - m <= n - k
    BY <1>2, <1>3, <2>1
  <2>. QED  BY <2>2
<1>. QED  BY <1>4

\* At the end of the line, its words are those consumed.
LEMMA EndReached ==
  ASSUME LineInv, TryEnd, Token = Blank
  PROVE  /\ Len(Words) = Read /\ Read \in Nat /\ context[1] = "eof"
         /\ \A i \in 1..Read : Words[i] = Line[i]
<1>1. start \in Starts /\ Consumed /\ Stored /\ Expecting /\ lpc = "parse"
  BY DEF LineInv, TryEnd
<1>2. /\ context[1] = "eof" /\ OptionOf(Token) = Blank
      /\ Read >= 1 /\ OptionOf(Line[Read]) \in WithOptional => argAt > Final + 1
  BY <1>1, ContextIs DEF TryEnd
<1>3. Final \in Nat /\ Read \in 0..Final /\ argAt \in Nat /\ Read \in Nat
  <2>1. Final \in Nat /\ argAt \in 1..(Final + 2) /\ Read \in 0..Final
    BY <1>1, OfStart, TokenIs DEF Consumed
  <2>. QED  BY <2>1
<1>4. Len(Words) \in 0..Final /\ \A i \in 1..Len(Words) : Words[i] = Line[i]
  BY <1>1, WordsOf
<1>5. Read <= Len(Words)
  BY <1>1, <1>3, WordsReach DEF Consumed
<1>6. Len(Words) <= Read
  <2>1. CASE argAt > Final
    BY <1>1, <1>3, <1>4, <2>1, TokenIs DEF Consumed
  <2>2. CASE argAt <= Final
    <3>1. Read = argAt - 1 /\ Line[argAt] = Blank
      BY <1>1, <2>2, TokenIs DEF Consumed
    <3>2. argAt = Read + 1 /\ Read < Final
      BY <1>3, <2>2, <3>1
    <3>3. Read + 1 > 1 => Read >= 1 /\ (Read + 1) - 1 = Read
      BY <1>3
    <3>4. ~(argAt > Final + 1)
      BY <1>3, <2>2
    <3>5. Stops(Read + 1)
      BY <1>2, <3>1, <3>2, <3>3, <3>4 DEF Stops
    <3>. QED  BY <1>1, <1>3, <3>2, <3>5, WordsReach
  <2>. QED  BY <1>3, <2>1, <2>2
<1>7. Len(Words) = Read
  BY <1>3, <1>4, <1>5, <1>6
<1>. QED  BY <1>2, <1>3, <1>4, <1>7

\* What is stored then is what is meant.
LEMMA EndAccepted ==
  ASSUME LineInv, TryEnd, Token = Blank
  PROVE  /\ WellFormed
         /\ Emitted = [o \in {OptionOf(w) : w \in Range(Words)} \ {Blank} |-> Meant(o)]
<1>. DEFINE m == Read
<1>1. start \in Starts /\ Consumed /\ Stored /\ Expecting /\ lpc = "parse"
  BY DEF LineInv, TryEnd
<1>2. /\ Len(Words) = m /\ m \in Nat /\ context[1] # "value" /\ m = Read
      /\ \A i \in 1..m : Words[i] = Line[i]
  BY EndReached
<1>3. DOMAIN Words = 1..m
  BY <1>1, <1>2, WordsOf
<1>. HIDE DEF m
<1>4. WellFormed
  <2>1. ASSUME NEW i \in 1..m, ~IsOption(i) PROVE i > 1 /\ OptionOf(Words[i - 1]) \in WithValue \cup WithOptional
    <3>1. i > 1 /\ OptionOf(Line[i - 1]) \in WithValue \cup WithOptional
      BY <1>1, <1>2, <2>1 DEF Consumed, IsOption, Blank
    <3>2. i - 1 \in 1..m
      BY <1>2, <3>1
    <3>. QED  BY <1>2, <3>1, <3>2
  <2>2. ASSUME NEW i \in 1..m, OptionOf(Words[i]) \in WithValue PROVE i < m /\ ~IsOption(i + 1)
    <3>1. i < m /\ OptionOf(Line[i + 1]) = Blank
      BY <1>1, <1>2, <2>2 DEF Consumed
    <3>2. i + 1 \in 1..m
      BY <1>2, <3>1
    <3>. QED  BY <1>2, <3>1, <3>2 DEF IsOption, Blank
  <2>. QED  BY <1>2, <2>1, <2>2 DEF WellFormed
<1>. DEFINE D == {OptionOf(w) : w \in Range(Words)} \ {Blank}
<1>5. D = DOMAIN Emitted
  <2>1. Range(Words) = {Words[i] : i \in 1..m}
    BY <1>3 DEF Range
  <2>2. ASSUME NEW p PROVE p \in D <=> p # Blank /\ \E i \in 1..m : OptionOf(Line[i]) = p
    BY <1>2, <2>1
  <2>3. ASSUME NEW p PROVE p \in DOMAIN Emitted <=> p # Blank /\ \E i \in 1..m : OptionOf(Line[i]) = p
    BY <1>1, <1>2 DEF Stored
  <2>. HIDE DEF D
  <2>. QED  BY <2>2, <2>3
<1>6. ASSUME NEW p \in DOMAIN Emitted PROVE Emitted[p] = Meant(p)
  <2>. DEFINE places == {i \in 1..Len(Words) : OptionOf(Words[i]) = p}
              last   == CHOOSE i \in places : \A j \in places : j <= i
  <2>1. \E i \in 1..m : OptionOf(Line[i]) = p
    BY <1>1, <1>2 DEF Stored
  <2>2. places # {} /\ places \in SUBSET (1..m) /\ \A i \in 1..m : i \in places <=> OptionOf(Line[i]) = p
    BY <1>2, <2>1
  <2>3. Meant(p) = IF last < Len(Words) /\ ~IsOption(last + 1) THEN Words[last + 1] ELSE Blank
    BY DEF Meant, Blank
  <2>4. last \in places /\ \A j \in places : j <= last
    <3>. HIDE DEF places
    <3>1. \E i \in places : \A j \in places : j <= i
      BY <1>2, <2>2, GreatestNumber
    <3>. QED  BY <3>1
  <2>. HIDE DEF places, last
  <2>5. last \in 1..m /\ OptionOf(Line[last]) = p
    BY <2>2, <2>4
  <2>6. LastOf(p, last, m)
    <3>1. ASSUME NEW j \in (last + 1)..m PROVE OptionOf(Line[j]) # p
      <4>1. j \in 1..m /\ ~(j <= last)
        BY <1>2, <2>5
      <4>. QED  BY <2>2, <2>4, <4>1
    <3>. QED  BY <2>5, <3>1 DEF LastOf
  <2>7. Emitted[p] = ValueAt(last, m)
    BY <1>1, <1>2, <2>5, <2>6 DEF Stored
  <2>8. CASE last < m
    <3>1. last + 1 \in 1..m /\ Words[last + 1] = Line[last + 1]
      BY <1>2, <2>5, <2>8
    <3>. QED  BY <1>2, <2>3, <2>7, <2>8, <3>1 DEF ValueAt, IsOption, Blank
  <2>9. CASE ~(last < m)
    BY <1>2, <2>3, <2>7, <2>9 DEF ValueAt
  <2>. QED  BY <2>8, <2>9
<1>7. Emitted = [o \in DOMAIN Emitted |-> Emitted[o]]
  BY <1>1, EmittedIs DEF Stored
<1>8. Emitted = [o \in DOMAIN Emitted |-> Meant(o)]
  BY <1>6, <1>7
<1>. QED  BY <1>4, <1>5, <1>8

\* No action after the command line changes what was read of it.
LEMMA LineKept ==
  ASSUME LineInv, start' = start, opt' = opt, lpc' \in Lpcs, lpc # "parse", lpc' \notin {"parse", "refused", "check"}
  PROVE  LineInv'
<1>1. start \in Starts /\ (start.via = "library" => lpc \notin {"parse", "refused"} /\ opt = <<>>)
  BY DEF LineInv
<1>. QED  BY <1>1 DEF LineInv, ReadAsWritten, Lpcs

LEMMA DecisionIs ==
  /\ Decision[1] \in {"over", "next", "list", "gpus"} /\ Decision[2] \in {-1, 0, 1}
  /\ Decision[1] = "list" => Has("--listTests")
  /\ Decision[1] = "next" => start.via = "library" \/ ~BadOption
<1>1. CASE start.via = "library"
  <2>1. Decision = IF start.request.file /\ Config \notin start.files THEN <<"over", -1>>
                   ELSE IF NoModules THEN <<"over", 1>> ELSE <<"next", 0>>
    BY <1>1 DEF Decision
  <2>2. Decision = <<"over", -1>> \/ Decision = <<"over", 1>> \/ Decision = <<"next", 0>>
    BY <2>1
  <2>. QED  BY <1>1, <2>2
<1>2. CASE start.via # "library"
  <2>1. Decision = IF Has("-h") \/ Has("-ver") THEN <<"over", 0>>
                   ELSE IF BadOption            THEN <<"over", -1>>
                   ELSE IF NoModules            THEN <<"over", 1>>
                   ELSE IF Has("--listTests")   THEN <<"list", 0>>
                   ELSE IF ~start.log           THEN <<"over", -1>>
                   ELSE IF Has("-g")            THEN <<"gpus", 0>>
                   ELSE <<"next", 0>>
    BY <1>2 DEF Decision
  <2>2. \/ Decision = <<"over", 0>> \/ Decision = <<"over", -1>> \/ Decision = <<"over", 1>>
        \/ (Decision = <<"list", 0>> /\ Has("--listTests"))
        \/ Decision = <<"gpus", 0>> \/ (Decision = <<"next", 0>> /\ ~BadOption)
    BY <2>1
  <2>. QED  BY <2>2
<1>. QED  BY <1>1, <1>2

LEMMA LineStep ==
  ASSUME LineInv, LaunchNext
  PROVE  LineInv'
<1>1. CASE TryCommand
  <2>1. Consumed' /\ Stored' /\ Expecting'
    BY <1>1, CommandRead
  <2>2. start' = start /\ lpc' = "parse" /\ lpc = "parse"
    BY <1>1 DEF TryCommand
  <2>. QED  BY <2>1, <2>2 DEF LineInv, ReadAsWritten, Lpcs
<1>2. CASE TryValue
  <2>1. start' = start /\ lpc = "parse" /\ start \in Starts /\ start.via # "library"
    BY <1>2 DEF TryValue, LineInv
  <2>2. Head(context) = context[1] /\ context[1] \in {"value", "optionalvalue"}
    BY <1>2, <2>1, ContextIs DEF TryValue, LineInv
  <2>3. CASE (Token = Blank \/ OptionOf(Token) # Blank) /\ context[1] = "value"
    <3>1. lpc' = "refused"
      BY <1>2, <2>2, <2>3 DEF TryValue, Blank
    <3>2. ~WellFormed'
      BY <1>2, <2>1, <2>3, SameLine, ValueRefused
    <3>. QED  BY <2>1, <3>1, <3>2 DEF LineInv, ReadAsWritten, Lpcs
  <2>4. CASE (Token = Blank \/ OptionOf(Token) # Blank) /\ context[1] = "optionalvalue"
    <3>1. Consumed' /\ Stored' /\ Expecting' /\ lpc' = lpc
      BY <1>2, <2>4, OptionalLeftOut
    <3>. QED  BY <2>1, <3>1 DEF LineInv, ReadAsWritten, Lpcs
  <2>5. CASE Token # Blank /\ OptionOf(Token) = Blank
    <3>1. Consumed' /\ Stored' /\ Expecting' /\ lpc' = lpc
      BY <1>2, <2>5, ValueTaken
    <3>. QED  BY <2>1, <3>1 DEF LineInv, ReadAsWritten, Lpcs
  <2>. QED  BY <2>2, <2>3, <2>4, <2>5
<1>3. CASE TryEnd
  <2>1. start' = start /\ lpc = "parse" /\ start \in Starts /\ start.via # "library"
    BY <1>3 DEF TryEnd, LineInv
  <2>2. CASE Token = Blank
    <3>1. lpc' = "check" /\ opt' = Emitted
      BY <1>3, <2>2 DEF TryEnd, Blank
    <3>2. WellFormed /\ Emitted = [o \in {OptionOf(w) : w \in Range(Words)} \ {Blank} |-> Meant(o)]
      BY <1>3, <2>2, EndAccepted
    <3>3. Words' = Words /\ (WellFormed' <=> WellFormed) /\ \A t : OptionOf(t)' = OptionOf(t)
      BY <2>1, SameLine DEF OptionOf
    <3>4. \A o : Meant(o)' = Meant(o)
      BY <3>3 DEF Meant, IsOption
    <3>5. [o \in {OptionOf(w) : w \in Range(Words)} \ {Blank} |-> Meant(o)]'
            = [o \in {OptionOf(w) : w \in Range(Words)} \ {Blank} |-> Meant(o)]
      BY <3>3, <3>4 DEF Range, Blank
    <3>6. opt' = [o \in {OptionOf(w) : w \in Range(Words)} \ {Blank} |-> Meant(o)]'
      BY <3>1, <3>2, <3>5
    <3>7. ReadAsWritten'
      BY <3>1, <3>2, <3>3, <3>6 DEF ReadAsWritten, Blank
    <3>. QED  BY <2>1, <3>1, <3>7 DEF LineInv, Lpcs
  <2>3. CASE Token # Blank
    <3>1. lpc' = "refused"
      BY <1>3, <2>3 DEF TryEnd, Blank
    <3>2. ~WellFormed'
      BY <1>3, <2>1, <2>3, SameLine, EndRefused
    <3>. QED  BY <2>1, <3>1, <3>2 DEF LineInv, ReadAsWritten, Lpcs
  <2>. QED  BY <2>2, <2>3
<1>4. CASE Check
  BY <1>4, DecisionIs, LineKept DEF Check, Lpcs
<1>5. CASE ListTests
  BY <1>5, LineKept DEF ListTests, Lpcs
<1>6. CASE ListGpus
  BY <1>6, LineKept DEF ListGpus, Lpcs
<1>7. CASE NextLaunched
  <2>1. lpc = "next" /\ start' = start /\ opt' = opt /\ lpc' \in {"next", "end", "create"}
    BY <1>7 DEF NextLaunched
  <2>. QED  BY <2>1, LineKept DEF Lpcs
<1>8. CASE BadYaml
  BY <1>8, LineKept DEF BadYaml, Lpcs
<1>9. CASE AllDone
  BY <1>9, LineKept DEF AllDone, Lpcs
<1>10. CASE Create
  <2>1. lpc = "create" /\ start' = start /\ opt' = opt /\ lpc' \in {"end", "run"}
    BY <1>10 DEF Create
  <2>. QED  BY <2>1, LineKept DEF Lpcs
<1>11. CASE RunLaunched
  BY <1>11, LineKept DEF RunLaunched, Lpcs
<1>12. CASE StopAsked
  BY <1>12, LineKept DEF StopAsked, Lpcs
<1>13. CASE Terminate
  BY <1>13, LineKept DEF Terminate, Lpcs
<1>. QED  BY <1>1, <1>2, <1>3, <1>4, <1>5, <1>6, <1>7, <1>8, <1>9, <1>10, <1>11, <1>12, <1>13 DEF LaunchNext

LEMMA LineStays ==
  ASSUME LineInv, UNCHANGED launchVars
  PROVE  LineInv'
<1>1. start' = start /\ lpc' = lpc /\ opt' = opt /\ argAt' = argAt /\ context' = context /\ current' = current
  BY DEF launchVars
<1>2. Line' = Line /\ Final' = Final /\ Words' = Words /\ (WellFormed' <=> WellFormed)
      /\ (\A i : Stops(i)' <=> Stops(i)) /\ \A t : OptionOf(t)' = OptionOf(t)
  BY <1>1, SameLine DEF OptionOf
<1>3. Read' = Read /\ Token' = Token /\ Emitted' = Emitted
  <2>1. Read' = Read
    BY <1>1, <1>2 DEF Read
  <2>2. Token' = Token
    BY <1>1 DEF Token
  <2>3. Emitted' = Emitted
    BY <1>1 DEF Emitted, Set
  <2>. QED  BY <2>1, <2>2, <2>3
<1>4. Consumed' <=> Consumed
  BY <1>1, <1>2, <1>3 DEF Consumed
<1>5. Stored' <=> Stored
  BY <1>1, <1>2, <1>3 DEF Stored, LastOf, ValueAt
<1>6. Expecting' <=> Expecting
  BY <1>1, <1>2, <1>3 DEF Expecting
<1>7. ReadAsWritten' <=> ReadAsWritten
  <2>1. \A o : Meant(o)' = Meant(o)
    BY <1>2 DEF Meant, IsOption
  <2>2. {OptionOf(w) : w \in Range(Words)}' = {OptionOf(w) : w \in Range(Words)}
    BY <1>2 DEF Range
  <2>. DEFINE f == [o \in {OptionOf(w) : w \in Range(Words)} \ {""} |-> Meant(o)]
  <2>3. f' = f
    BY <2>1, <2>2
  <2>4. ReadAsWritten <=> /\ lpc = "refused" => ~WellFormed
                          /\ lpc = "check" /\ start.via = "command" => WellFormed /\ opt = f
    BY DEF ReadAsWritten
  <2>5. ReadAsWritten' <=> /\ lpc' = "refused" => ~WellFormed'
                           /\ lpc' = "check" /\ start'.via = "command" => WellFormed' /\ opt' = f'
    BY DEF ReadAsWritten
  <2>. HIDE DEF f
  <2>. QED  BY <1>1, <1>2, <2>3, <2>4, <2>5
<1>. QED  BY <1>1, <1>4, <1>5, <1>6, <1>7 DEF LineInv

LEMMA LineInit ==
  ASSUME LaunchInit
  PROVE  LineInv
<1>1. /\ start \in Starts /\ lpc = (IF start.via = "library" THEN "check" ELSE "parse")
      /\ argAt = 1 /\ context = <<"command", "eof">> /\ current = Blank /\ opt = <<>>
  BY DEF LaunchInit, LaunchStart, Blank
<1>2. Final \in Nat /\ start.via \in {"command", "library"}
  BY <1>1, OfStart
<1>3. Read = 0
  BY <1>1, <1>2 DEF Read
<1>4. Consumed
  <2>1. argAt \in 1..(Final + 2)
    BY <1>1, <1>2
  <2>2. \A i \in 1..Read : FALSE
    BY <1>3
  <2>. QED  BY <2>1, <2>2 DEF Consumed
<1>5. Stored
  <2>1. \A i \in 1..Read : FALSE
    BY <1>3
  <2>2. opt = [o \in DOMAIN opt |-> opt[o]] /\ Emitted = opt /\ DOMAIN opt = {}
    <3>1. Emitted = opt
      BY <1>1 DEF Emitted, Blank
    <3>2. \A s : s = <<>> => s = [o \in DOMAIN s |-> s[o]] /\ DOMAIN s = {}
      OBVIOUS
    <3>. QED  BY <1>1, <3>1, <3>2
  <2>. QED  BY <1>1, <2>1, <2>2 DEF Stored
<1>6. Expecting
  <2>1. context # <<"eof">>
    <3>1. context[1] = "command"
      BY <1>1
    <3>. QED  BY <3>1
  <2>2. ~(Read >= 1)
    BY <1>3
  <2>. QED  BY <1>1, <2>1, <2>2 DEF Expecting
<1>7. CASE start.via = "library"
  BY <1>1, <1>7 DEF LineInv, ReadAsWritten, Lpcs
<1>8. CASE start.via = "command"
  BY <1>1, <1>4, <1>5, <1>6, <1>8 DEF LineInv, ReadAsWritten, Lpcs
<1>. QED  BY <1>2, <1>7, <1>8

-----------------------------------------------------------------------------
(* The launcher: the actions that are run.                                 *)

Starting == {"parse", "refused", "check", "list", "gpus"}
Going    == {"next", "create", "run"}
Leaving  == {"end", "over"}

\* What was run, and what of the wanted should have been by now.
RunPairs == {<<r.round, r.index>> : r \in Range(ran)}
Passed   == {p \in Wanted : p[1] < round \/ (p[1] = round /\ p[2] < idx)}

\* Where the turns over the actions are, and what has been told of them.
Turning ==
    /\ Rounds \in Int /\ round \in Nat /\ idx \in Nat
    /\ start.actions # <<>> => idx < Len(start.actions)
    /\ RunPairs = Passed
    /\ \A k \in 1..Len(told) : told[k] # "success"

Ordered ==
    \A i \in 1..Len(ran) : \A j \in 1..Len(ran) :
       i < j => \/ ran[i].round < ran[j].round
                \/ ran[i].round = ran[j].round /\ ran[i].index < ran[j].index
Success == told # <<>> /\ Last(told) = "success" => RunPairs = Wanted

Exists ==
    /\ lpc \in Starting => modules = {} /\ alive = 0 /\ ran = <<>> /\ told = <<>> /\ round = 0 /\ idx = 0
    /\ lpc = "list" => Has("--listTests")
    /\ lpc \in {"next", "create"} => alive = 0
    /\ lpc = "run" => alive = 1
    /\ lpc \in Leaving => alive = 0 \/ (alive = 1 /\ code = -999)
    /\ lpc = "over" => modules = {} \/ Has("--listTests")

RunInv ==
    /\ Exists
    /\ ran \in Seq(Range(ran)) /\ told \in Seq({"failed", "success"})
    /\ lpc \in Going => Turning
    /\ lpc \in {"create", "run"} => <<round, idx>> \in Wanted
    /\ lpc = "run" => given = KeysGiven(Action) /\ ~PropertiesFail
    /\ lpc \in Leaving => Success
    /\ Ordered /\ OverridesWin

LEMMA NumberIs ==
  /\ DOMAIN Number = {"-1", "0", "1", "2", "5", "6"}
  /\ \A t \in DOMAIN Number : Number[t] \in Int /\ (Number[t] >= 0 <=> t # "-1")
<1>1. DOMAIN Number = {"-1", "0", "1", "2", "5", "6"}
  BY DEF Number
<1>2. /\ Number["-1"] = -1 /\ Number["0"] = 0 /\ Number["1"] = 1 /\ Number["2"] = 2 /\ Number["5"] = 5
      /\ Number["6"] = 6
  BY DEF Number
<1>3. \A t \in DOMAIN Number : t = "-1" \/ (t # "-1" /\ t \in {"0", "1", "2", "5", "6"})
  BY <1>1
<1>4. \A t \in DOMAIN Number : Number[t] \in Int
  BY <1>1, <1>2
<1>5. \A t \in DOMAIN Number : t # "-1" => Number[t] \in Nat
  BY <1>2, <1>3
<1>. QED  BY <1>1, <1>2, <1>4, <1>5

\* The condition for an action to be run is the one for it to be wanted.
LEMMA SelectedIsWanted ==
  ASSUME Rounds \in Int, round \in Nat, idx \in Nat, round < Rounds, idx < Len(start.actions),
         Len(start.actions) \in Nat
  PROVE  <<round, idx>> \in Wanted <=> Selected(Action, idx)
<1>1. <<round, idx>> \in (0..(Rounds - 1)) \X (0..(Len(start.actions) - 1))
  BY SMT
<1>. DEFINE numeric == \A t \in Tokens : IsNumber(t) /\ Number[t] >= 0
<1>2. numeric <=> Tokens \subseteq DOMAIN Number \ {"-1"}
  BY NumberIs DEF IsNumber
<1>3. <<round, idx>> \in Wanted <=>
        Tokens = {} \/ IF numeric THEN \E t \in Tokens : Number[t] = idx ELSE Action.name \in Tokens
  BY <1>1, <1>2 DEF Wanted, Action
<1>4. ASSUME NEW a, NEW i
      PROVE  Selected(a, i) <=> \/ Tokens = {}
                                \/ ~numeric /\ a.name \in Tokens
                                \/ numeric /\ i \in {Number[t] : t \in Tokens}
  BY DEF Selected
<1>5. \A i : i \in {Number[t] : t \in Tokens} <=> \E t \in Tokens : Number[t] = i
  OBVIOUS
<1>. HIDE DEF numeric
<1>6. CASE numeric
  <2>1. <<round, idx>> \in Wanted <=> Tokens = {} \/ \E t \in Tokens : Number[t] = idx
    BY <1>3, <1>6
  <2>2. Selected(Action, idx) <=> Tokens = {} \/ idx \in {Number[t] : t \in Tokens}
    BY <1>4, <1>6
  <2>. QED  BY <1>5, <2>1, <2>2
<1>7. CASE ~numeric
  <2>1. <<round, idx>> \in Wanted <=> Tokens = {} \/ Action.name \in Tokens
    BY <1>3, <1>7
  <2>2. Selected(Action, idx) <=> Tokens = {} \/ Action.name \in Tokens
    BY <1>4, <1>7
  <2>. QED  BY <2>1, <2>2
<1>. QED  BY <1>6, <1>7

LEMMA WantedIs ==
  \A p \in Wanted : /\ p[1] \in 0..(Rounds - 1) /\ p[2] \in 0..(Len(start.actions) - 1) /\ p = <<p[1], p[2]>>
  BY DEF Wanted

\* A turn leaves behind the action it leaves.
LEMMA TurnPasses ==
  ASSUME Turn, start' = start, opt' = opt, Rounds \in Int, round \in Nat, idx \in Nat,
         idx < Len(start.actions), Len(start.actions) \in Nat
  PROVE  /\ round' \in Nat /\ idx' \in Nat /\ idx' < Len(start'.actions) /\ Rounds' = Rounds /\ Wanted' = Wanted
         /\ \A p : p \in Passed' <=> p \in Passed \/ (p \in Wanted /\ p = <<round, idx>>)
<1>1. Rounds' = Rounds /\ Wanted' = Wanted
  BY DEF Wanted, Tokens, Rounds, Has
<1>2. \/ idx + 1 = Len(start.actions) /\ round' = round + 1 /\ idx' = 0
      \/ idx + 1 # Len(start.actions) /\ round' = round /\ idx' = idx + 1
  BY DEF Turn
<1>3. round' \in Nat /\ idx' \in Nat /\ idx' < Len(start'.actions)
  BY <1>2
<1>4. ASSUME NEW p \in Wanted
      PROVE  p[1] < round' \/ (p[1] = round' /\ p[2] < idx')
               <=> (p[1] < round \/ (p[1] = round /\ p[2] < idx)) \/ p = <<round, idx>>
  <2>. DEFINE a == p[1]
              b == p[2]
  <2>1. p[1] \in 0..(Rounds - 1) /\ p[2] \in 0..(Len(start.actions) - 1) /\ p = <<p[1], p[2]>>
    BY WantedIs
  <2>2. a \in Int /\ b \in Int /\ a >= 0 /\ b >= 0 /\ b < Len(start.actions)
    BY <2>1
  <2>3. p = <<round, idx>> <=> a = round /\ b = idx
    BY <2>1
  <2>. HIDE DEF a, b
  <2>4. a < round' \/ (a = round' /\ b < idx') <=> (a < round \/ (a = round /\ b < idx)) \/ (a = round /\ b = idx)
    BY <1>2, <2>2
  <2>5. a = p[1] /\ b = p[2]
    BY DEF a, b
  <2>. QED  BY <2>3, <2>4, <2>5
<1>5. Passed' = {p \in Wanted : p[1] < round' \/ (p[1] = round' /\ p[2] < idx')}
  BY <1>1 DEF Passed
<1>. QED  BY <1>1, <1>3, <1>4, <1>5 DEF Passed

\* What the options say of the keys of an action.
Obeyed(g, a) ==
    /\ Has("-p") => "parallel" \in DOMAIN g /\ g["parallel"] = (IF opt["-p"] = "false" THEN "false" ELSE "true")
    /\ Has("-t") => "duration" \in DOMAIN g /\ g["duration"] = opt["-t"]
    /\ Has("-i") /\ "device" \in DOMAIN a.keys =>
         \/ \E k \in {"device", "device_index"} \cap DOMAIN g : g[k] = opt["-i"]
         \/ "device_index" \in DOMAIN a.keys /\ a.indexBehind
    /\ \A k \in DOMAIN a.keys :
         \/ k = "parallel" /\ Has("-p")
         \/ k = "duration" /\ Has("-t")
         \/ k \in {"device", "device_index"} /\ Has("-i")
         \/ k \in DOMAIN g /\ g[k] = a.keys[k]

LEMMA SetIs ==
  ASSUME NEW f, NEW key, NEW value
  PROVE  /\ \A k : k \in DOMAIN Set(f, key, value) <=> k = key \/ k \in DOMAIN f
         /\ Set(f, key, value)[key] = value
         /\ \A k \in DOMAIN f : k # key => Set(f, key, value)[k] = f[k]
  BY DEF Set

LEMMA KeysObey ==
  ASSUME NEW a, ~PropertiesFail
  PROVE  Obeyed(KeysGiven(a), a)
<1>. DEFINE keys == [k \in DOMAIN a.keys |->
                       IF k = "device" /\ Has("-i") /\ opt["-i"] \notin start.indexes
                       THEN opt["-i"] ELSE a.keys[k]]
            value == IF opt["-p"] = "" THEN "true" ELSE opt["-p"]
            p == IF Has("-p") THEN Set(keys, "parallel", value) ELSE keys
            t == IF Has("-t") THEN Set(p, "duration", opt["-t"]) ELSE p
            g == IF IndexOverrides(a) THEN Set(t, "device_index", opt["-i"]) ELSE t
<1>1. KeysGiven(a) = g
  BY DEF KeysGiven
<1>2. DOMAIN keys = DOMAIN a.keys
      /\ \A k \in DOMAIN a.keys : keys[k] = IF k = "device" /\ Has("-i") /\ opt["-i"] \notin start.indexes
                                            THEN opt["-i"] ELSE a.keys[k]
  OBVIOUS
<1>3. Has("-p") => value = IF opt["-p"] = "false" THEN "false" ELSE "true"
  BY DEF PropertiesFail
<1>. HIDE DEF keys, value
<1>4. /\ Has("-p") => /\ \A k : k \in DOMAIN p <=> k = "parallel" \/ k \in DOMAIN keys
                      /\ p["parallel"] = value
                      /\ \A k \in DOMAIN keys : k # "parallel" => p[k] = keys[k]
      /\ ~Has("-p") => p = keys
  BY SetIs
<1>. HIDE DEF p
<1>5. /\ Has("-t") => /\ \A k : k \in DOMAIN t <=> k = "duration" \/ k \in DOMAIN p
                      /\ t["duration"] = opt["-t"]
                      /\ \A k \in DOMAIN p : k # "duration" => t[k] = p[k]
      /\ ~Has("-t") => t = p
  BY SetIs
<1>. HIDE DEF t
<1>6. /\ IndexOverrides(a) => /\ \A k : k \in DOMAIN g <=> k = "device_index" \/ k \in DOMAIN t
                              /\ g["device_index"] = opt["-i"]
                              /\ \A k \in DOMAIN t : k # "device_index" => g[k] = t[k]
      /\ ~IndexOverrides(a) => g = t
  BY SetIs
<1>. HIDE DEF g
<1>7. ASSUME Has("-p") PROVE "parallel" \in DOMAIN g /\ g["parallel"] = value
  BY <1>4, <1>5, <1>6, <1>7
<1>8. ASSUME Has("-t") PROVE "duration" \in DOMAIN g /\ g["duration"] = opt["-t"]
  BY <1>5, <1>6, <1>8
<1>9. ASSUME Has("-i"), "device" \in DOMAIN a.keys
      PROVE  \/ \E k \in {"device", "device_index"} \cap DOMAIN g : g[k] = opt["-i"]
             \/ "device_index" \in DOMAIN a.keys /\ a.indexBehind
  <2>1. CASE IndexOverrides(a)
    BY <1>6, <2>1
  <2>2. CASE opt["-i"] \notin start.indexes
    <3>1. "device" \in DOMAIN keys /\ keys["device"] = opt["-i"]
      BY <1>2, <1>9, <2>2
    <3>2. "device" \in DOMAIN g /\ g["device"] = opt["-i"]
      BY <1>4, <1>5, <1>6, <3>1
    <3>. QED  BY <3>2
  <2>. QED  BY <1>9, <2>1, <2>2 DEF IndexOverrides
<1>10. ASSUME NEW k \in DOMAIN a.keys, ~(k = "parallel" /\ Has("-p")), ~(k = "duration" /\ Has("-t")),
              ~(k \in {"device", "device_index"} /\ Has("-i"))
       PROVE  k \in DOMAIN g /\ g[k] = a.keys[k]
  <2>1. k \in DOMAIN keys /\ keys[k] = a.keys[k]
    BY <1>2, <1>10
  <2>2. k \in DOMAIN p /\ p[k] = keys[k]
    BY <1>4, <1>10, <2>1
  <2>3. k \in DOMAIN t /\ t[k] = p[k]
    BY <1>5, <1>10, <2>2
  <2>4. IndexOverrides(a) => k # "device_index"
    BY <1>10 DEF IndexOverrides
  <2>. QED  BY <1>6, <2>1, <2>2, <2>3, <2>4
<1>. QED  BY <1>1, <1>3, <1>7, <1>8, <1>9, <1>10 DEF Obeyed

LEMMA Appended ==
  ASSUME NEW s, s \in Seq(Range(s)), NEW r
  PROVE  /\ Len(s) \in Nat /\ Len(Append(s, r)) = Len(s) + 1
         /\ \A i \in 1..Len(s) : Append(s, r)[i] = s[i]
         /\ Append(s, r)[Len(s) + 1] = r
         /\ Range(Append(s, r)) = Range(s) \cup {r}
         /\ Append(s, r) \in Seq(Range(Append(s, r)))
<1>. DEFINE S == Range(s) \cup {r}
            t == Append(s, r)
<1>1. s \in Seq(S) /\ r \in S
  OBVIOUS
<1>. HIDE DEF S
<1>2. t \in Seq(S) /\ Len(s) \in Nat /\ Len(t) = Len(s) + 1 /\ t[Len(s) + 1] = r
      /\ (\A i \in 1..Len(s) : t[i] = s[i]) /\ DOMAIN t = 1..(Len(s) + 1) /\ DOMAIN s = 1..Len(s)
  BY <1>1
<1>. HIDE DEF t
<1>3. \A i \in 1..(Len(s) + 1) : i \in 1..Len(s) \/ i = Len(s) + 1
  BY <1>2
<1>4. \A i \in 1..Len(s) : i \in 1..(Len(s) + 1)
  BY <1>2
<1>5. ASSUME NEW x PROVE x \in Range(t) <=> x \in Range(s) \/ x = r
  <2>1. x \in Range(t) <=> \E i \in 1..(Len(s) + 1) : t[i] = x
    BY <1>2 DEF Range
  <2>2. x \in Range(s) <=> \E i \in 1..Len(s) : s[i] = x
    BY <1>2 DEF Range
  <2>3. Len(s) + 1 \in 1..(Len(s) + 1)
    BY <1>2
  <2>. QED  BY <1>2, <1>3, <1>4, <2>1, <2>2, <2>3
<1>6. Range(t) = S
  BY <1>5 DEF S
<1>. QED  BY <1>2, <1>6 DEF S, t

LEMMA LastIs ==
  ASSUME NEW S, NEW s \in Seq(S)
  PROVE  /\ Len(s) \in Nat /\ (s # <<>> => Last(s) = s[Len(s)] /\ Len(s) \in 1..Len(s))
         /\ \A w \in S : Append(s, w) \in Seq(S) /\ Last(Append(s, w)) = w
         /\ \A w \in S : \A k \in 1..Len(Append(s, w)) : Append(s, w)[k] = w \/ (k \in 1..Len(s) /\ Append(s, w)[k] = s[k])
<1>1. Len(s) \in Nat /\ (s # <<>> => Len(s) >= 1)
  OBVIOUS
<1>2. ASSUME NEW w \in S
      PROVE  /\ Append(s, w) \in Seq(S) /\ Len(Append(s, w)) = Len(s) + 1 /\ Append(s, w)[Len(s) + 1] = w
             /\ \A k \in 1..Len(s) : Append(s, w)[k] = s[k]
  OBVIOUS
<1>3. \A k \in 1..(Len(s) + 1) : k \in 1..Len(s) \/ k = Len(s) + 1
  BY <1>1
<1>. QED  BY <1>1, <1>2, <1>3 DEF Last

\* Nothing that follows from how the program is started and from its options changes.
LEMMA OptionsKept ==
  ASSUME start' = start, opt' = opt
  PROVE  /\ Rounds' = Rounds /\ Wanted' = Wanted /\ (PropertiesFail' <=> PropertiesFail)
         /\ \A o : Has(o)' <=> Has(o)
         /\ \A a : KeysGiven(a)' = KeysGiven(a)
<1>1. \A o : Has(o)' <=> Has(o)
  BY DEF Has
<1>2. Rounds' = Rounds /\ Wanted' = Wanted
  BY <1>1 DEF Rounds, Wanted, Tokens
<1>3. \A a : IndexOverrides(a)' <=> IndexOverrides(a)
  BY <1>1 DEF IndexOverrides
<1>4. ASSUME NEW a PROVE KeysGiven(a)' = KeysGiven(a)
  BY <1>3 DEF KeysGiven, Has
<1>5. PropertiesFail' <=> PropertiesFail
  BY <1>1 DEF PropertiesFail
<1>. QED  BY <1>1, <1>2, <1>4, <1>5

LEMMA OverridesAre ==
  OverridesWin <=> \A i \in 1..Len(ran) : Obeyed(ran[i].given, start.actions[ran[i].index + 1])
<1>1. ASSUME OverridesWin, NEW i \in 1..Len(ran)
      PROVE  Obeyed(ran[i].given, start.actions[ran[i].index + 1])
  BY <1>1 DEF OverridesWin, Obeyed
<1>2. ASSUME \A i \in 1..Len(ran) : Obeyed(ran[i].given, start.actions[ran[i].index + 1])
      PROVE  OverridesWin
  BY <1>2 DEF OverridesWin, Obeyed
<1>. QED  BY <1>1, <1>2

LEMMA RanKept ==
  ASSUME start' = start, opt' = opt, ran' = ran
  PROVE  /\ RunPairs' = RunPairs /\ (Ordered' <=> Ordered) /\ (OverridesWin' <=> OverridesWin)
         /\ (ran \in Seq(Range(ran)))' <=> ran \in Seq(Range(ran))
<1>1. \A o : Has(o)' <=> Has(o)
  BY DEF Has
<1>2. Range(ran)' = Range(ran)
  BY DEF Range
<1>3. RunPairs' = RunPairs /\ (Ordered' <=> Ordered)
  BY <1>2 DEF RunPairs, Ordered
<1>4. OverridesWin' <=> OverridesWin
  BY <1>1 DEF OverridesWin
<1>. QED  BY <1>2, <1>3, <1>4

LEMMA NothingRan ==
  ASSUME ran = <<>>, told = <<>>
  PROVE  /\ RunPairs = {} /\ Ordered /\ OverridesWin /\ Success /\ Len(told) = 0
         /\ ran \in Seq(Range(ran)) /\ told \in Seq({"failed", "success"})
<1>1. Len(ran) = 0 /\ Len(told) = 0 /\ \A i \in 1..Len(ran) : FALSE
  OBVIOUS
<1>2. \A s : s = <<>> => DOMAIN s = {} /\ s \in Seq(Range(s)) /\ s \in Seq({"failed", "success"})
  OBVIOUS
<1>3. Range(ran) = {}
  BY <1>2 DEF Range
<1>. QED  BY <1>1, <1>2, <1>3 DEF RunPairs, Ordered, OverridesWin, Success

LEMMA RoundsAreInt ==
  ASSUME opt = <<>> \/ ~BadOption
  PROVE  Rounds \in Int
<1>1. CASE opt = <<>>
  <2>1. \A s : s = <<>> => DOMAIN s = {}
    OBVIOUS
  <2>2. ~Has("-n")
    BY <1>1, <2>1 DEF Has
  <2>. QED  BY <2>2 DEF Rounds
<1>2. CASE ~BadOption
  <2>1. Has("-n") => opt["-n"] \in DOMAIN Number
    BY <1>2 DEF BadOption, IsNumber
  <2>. QED  BY <2>1, NumberIs DEF Rounds
<1>. QED  BY <1>1, <1>2

LEMMA OverridesAreThen ==
  OverridesWin' <=> (\A i \in 1..Len(ran) : Obeyed(ran[i].given, start.actions[ran[i].index + 1]))'
  BY OverridesAre, PTL

LEMMA StartStep ==
  ASSUME LineInv, RunInv, TryCommand \/ TryValue \/ TryEnd \/ Check
  PROVE  RunInv'
<1>1. lpc \in Starting /\ modules = {} /\ alive = 0 /\ ran = <<>> /\ told = <<>> /\ round = 0 /\ idx = 0
  <2>1. lpc \in Starting
    BY DEF TryCommand, TryValue, TryEnd, Check, Starting
  <2>. QED  BY <2>1 DEF RunInv, Exists
<1>2. /\ start' = start /\ modules' = {} /\ alive' = 0 /\ ran' = <<>> /\ told' = <<>> /\ round' = 0 /\ idx' = 0
  BY <1>1 DEF TryCommand, TryValue, TryEnd, Check
<1>3. /\ RunPairs' = {} /\ Ordered' /\ OverridesWin' /\ Success' /\ Len(told') = 0
      /\ (ran \in Seq(Range(ran)))' /\ told' \in Seq({"failed", "success"})
  <2>1. Range(ran)' = {} /\ Len(ran') = 0 /\ Len(told') = 0 /\ told' \in Seq({"failed", "success"})
        /\ ran' \in Seq(Range(ran))'
    <3>1. \A s : s = <<>> => Len(s) = 0 /\ DOMAIN s = {} /\ s \in Seq({"failed", "success"}) /\ \A S : s \in Seq(S)
      OBVIOUS
    <3>2. DOMAIN ran' = {} /\ Len(ran') = 0 /\ Len(told') = 0 /\ told' \in Seq({"failed", "success"})
      BY <1>2, <3>1
    <3>3. \A S : ran' \in Seq(S)
      BY <1>2, <3>1
    <3>. QED  BY <3>2, <3>3 DEF Range
  <2>2. \A i \in 1..Len(ran') : FALSE
    BY <2>1
  <2>. QED  BY <1>2, <2>1, <2>2 DEF RunPairs, Ordered, OverridesWin, Success
<1>4. CASE TryCommand \/ TryValue \/ TryEnd
  <2>1. lpc' \in {"parse", "refused", "check"}
    BY <1>4 DEF TryCommand, TryValue, TryEnd
  <2>. QED  BY <1>2, <1>3, <2>1 DEF RunInv, Exists, Starting, Going, Leaving
<1>5. CASE Check
  <2>1. lpc' = Decision[1] /\ opt' = opt /\ (\A o : Has(o)' <=> Has(o)) /\ Rounds' = Rounds /\ Wanted' = Wanted
    BY <1>2, <1>5, OptionsKept DEF Check
  <2>2. CASE Decision[1] = "next"
    <3>1. Rounds \in Int
      <4>1. opt = <<>> \/ ~BadOption
        BY <2>2, DecisionIs DEF LineInv
      <4>. QED  BY <4>1, RoundsAreInt
    <3>2. Passed' = {}
      <4>1. \A p \in Wanted : ~(p[1] < 0) /\ ~(p[2] < 0)
        BY <3>1, WantedIs
      <4>. QED  BY <1>2, <2>1, <4>1 DEF Passed
    <3>3. start.actions # <<>> => 0 < Len(start.actions)
      BY OfStart DEF LineInv
    <3>4. Turning'
      BY <1>2, <1>3, <2>1, <3>1, <3>2, <3>3 DEF Turning
    <3>. QED  BY <1>2, <1>3, <2>1, <2>2, <3>4 DEF RunInv, Exists, Starting, Going, Leaving
  <2>3. CASE Decision[1] # "next"
    <3>1. lpc' \in {"over", "list", "gpus"} /\ (lpc' = "list" => Has("--listTests")')
      BY <2>1, <2>3, DecisionIs
    <3>. QED  BY <1>2, <1>3, <3>1 DEF RunInv, Exists, Starting, Going, Leaving
  <2>. QED  BY <2>2, <2>3
<1>. QED  BY <1>4, <1>5

\* Without a word of success, everything that was told is about failures.
LEMMA NoSuccess ==
  ASSUME told \in Seq({"failed", "success"}), \A k \in 1..Len(told) : told[k] # "success"
  PROVE  Success
  BY LastIs DEF Success

\* A step that neither runs anything nor leaves the actions, or leaves them.
LEMMA LeaveStep ==
  ASSUME LineInv, RunInv, start' = start, opt' = opt, ran' = ran, lpc' \in Leaving,
         alive' = 0 \/ (alive' = 1 /\ code' = -999), lpc' = "over" => modules' = {} \/ Has("--listTests"),
         told' \in Seq({"failed", "success"}), Success'
  PROVE  RunInv'
<1>1. (\A o : Has(o)' <=> Has(o)) /\ (Ordered' <=> Ordered) /\ (OverridesWin' <=> OverridesWin)
      /\ ((ran \in Seq(Range(ran)))' <=> ran \in Seq(Range(ran)))
  BY OptionsKept, RanKept
<1>. QED  BY <1>1 DEF RunInv, Exists, Starting, Going, Leaving

LEMMA SuccessKept ==
  ASSUME RunInv, start' = start, opt' = opt, ran' = ran, told' = told, lpc \in Lpcs
  PROVE  Success' /\ told' \in Seq({"failed", "success"})
<1>1. Success
  <2>1. lpc \in Starting => told = <<>>
    BY DEF RunInv, Exists
  <2>2. lpc \in Going => Success
    BY NoSuccess DEF RunInv, Turning
  <2>. QED  BY <2>1, <2>2 DEF RunInv, Success, Lpcs, Starting, Going, Leaving
<1>2. Wanted' = Wanted /\ RunPairs' = RunPairs
  BY OptionsKept, RanKept
<1>. QED  BY <1>1, <1>2 DEF RunInv, Success

LEMMA FailureTold ==
  ASSUME RunInv, TellClient("failed")
  PROVE  Success' /\ told' \in Seq({"failed", "success"})
<1>1. told \in Seq({"failed", "success"}) /\ told' = Append(told, "failed")
  BY DEF RunInv, TellClient
<1>2. told' \in Seq({"failed", "success"}) /\ Last(told') = "failed"
  BY <1>1, LastIs
<1>3. Last(told)' # "success"
  BY <1>2 DEF Last
<1>. QED  BY <1>2, <1>3 DEF Success

LEMMA WayOut ==
  ASSUME LineInv, RunInv, ListTests \/ ListGpus \/ BadYaml \/ AllDone \/ Terminate
  PROVE  RunInv'
<1>. DEFINE quiet == start' = start /\ opt' = opt /\ ran' = ran
<1>1. lpc \in Lpcs /\ start \in Starts
  BY DEF LineInv
<1>2. CASE ListTests
  <2>1. quiet /\ lpc' = "over" /\ alive' = alive /\ told' = told /\ Has("--listTests") /\ alive = 0
    BY <1>2 DEF ListTests, RunInv, Exists, Starting
  <2>. QED  BY <1>1, <2>1, SuccessKept, LeaveStep DEF Leaving
<1>3. CASE ListGpus
  <2>1. quiet /\ lpc' = "end" /\ alive' = alive /\ told' = told /\ alive = 0
    BY <1>3 DEF ListGpus, RunInv, Exists, Starting
  <2>. QED  BY <1>1, <2>1, SuccessKept, LeaveStep DEF Leaving
<1>4. CASE BadYaml
  <2>1. quiet /\ lpc' = "end" /\ alive' = alive /\ told' = told /\ alive = 0
    BY <1>4 DEF BadYaml, RunInv, Exists
  <2>. QED  BY <1>1, <2>1, SuccessKept, LeaveStep DEF Leaving
<1>5. CASE Terminate
  <2>1. quiet /\ lpc = "end" /\ lpc' = "over" /\ alive' = alive /\ told' = told /\ modules' = {}
        /\ code' = IF code = 0 /\ stopped THEN -1 ELSE code
    BY <1>5 DEF Terminate
  <2>2. alive = 0 \/ (alive = 1 /\ code = -999)
    BY <2>1 DEF RunInv, Exists, Leaving
  <2>. QED  BY <1>1, <2>1, <2>2, SuccessKept, LeaveStep DEF Leaving
<1>6. CASE AllDone
  <2>1. /\ quiet /\ lpc = "next" /\ lpc' = "end" /\ alive' = alive /\ alive = 0 /\ NothingToDo
        /\ told' = Append(told, "success") /\ Turning /\ told \in Seq({"failed", "success"})
    BY <1>6 DEF AllDone, RunInv, Exists, TellClient, Going
  <2>2. told' \in Seq({"failed", "success"})
    BY <2>1, LastIs
  <2>3. Passed = Wanted
    <3>1. ASSUME NEW p \in Wanted PROVE p[1] < round
      <4>1. p[1] \in 0..(Rounds - 1) /\ p[2] \in 0..(Len(start.actions) - 1)
        BY WantedIs
      <4>2. CASE start.actions = <<>>
        <5>1. \A s : s = <<>> => Len(s) = 0
          OBVIOUS
        <5>2. Len(start.actions) = 0
          BY <4>2, <5>1
        <5>. QED  BY <4>1, <5>2
      <4>3. CASE round >= Rounds
        BY <2>1, <4>1, <4>3 DEF Turning
      <4>. QED  BY <2>1, <4>2, <4>3 DEF NothingToDo
    <3>. QED  BY <3>1 DEF Passed
  <2>4. Success'
    <3>1. RunPairs' = RunPairs /\ Wanted' = Wanted
      BY <2>1, OptionsKept, RanKept
    <3>. QED  BY <2>1, <2>3, <3>1 DEF Success, Turning
  <2>. QED  BY <1>1, <2>1, <2>2, <2>4, LeaveStep DEF Leaving
<1>. QED  BY <1>2, <1>3, <1>4, <1>5, <1>6

\* A step that runs nothing and goes on with the same turn.
LEMMA GoOnStep ==
  ASSUME LineInv, RunInv, lpc \in Going, lpc' \in Going, start' = start, opt' = opt, ran' = ran, told' = told,
         round' = round, idx' = idx, alive' = (IF lpc' = "run" THEN 1 ELSE 0),
         lpc' \in {"create", "run"} => <<round, idx>> \in Wanted,
         lpc' = "run" => given' = KeysGiven(Action) /\ ~PropertiesFail
  PROVE  RunInv'
<1>1. /\ (\A o : Has(o)' <=> Has(o)) /\ (Ordered' <=> Ordered) /\ (OverridesWin' <=> OverridesWin)
      /\ ((ran \in Seq(Range(ran)))' <=> ran \in Seq(Range(ran)))
      /\ Rounds' = Rounds /\ Wanted' = Wanted /\ RunPairs' = RunPairs /\ (PropertiesFail' <=> PropertiesFail)
      /\ \A a : KeysGiven(a)' = KeysGiven(a)
  BY OptionsKept, RanKept
<1>2. Passed' = Passed /\ Action' = Action
  BY <1>1 DEF Passed, Action
<1>3. Turning'
  BY <1>1, <1>2 DEF Turning, RunInv
<1>4. KeysGiven(Action)' = KeysGiven(Action)
  <2>1. IndexOverrides(Action)' <=> IndexOverrides(Action)
    BY <1>2 DEF IndexOverrides, Has
  <2>. QED  BY <1>2, <2>1 DEF KeysGiven, Has
<1>. QED  BY <1>1, <1>3, <1>4 DEF RunInv, Exists, Starting, Going, Leaving

LEMMA NextStep ==
  ASSUME LineInv, RunInv, NextLaunched
  PROVE  RunInv'
<1>1. /\ lpc = "next" /\ ~NothingToDo /\ start' = start /\ opt' = opt /\ ran' = ran /\ alive' = alive /\ alive = 0
      /\ Turning /\ lpc \in Lpcs /\ start \in Starts
  BY DEF NextLaunched, RunInv, Exists, Going, LineInv
<1>2. /\ Rounds \in Int /\ round \in Nat /\ idx \in Nat /\ round < Rounds /\ idx < Len(start.actions)
      /\ Len(start.actions) \in Nat /\ start.actions # <<>>
  BY <1>1, OfStart DEF Turning, NothingToDo
<1>3. CASE ~Selected(Action, idx)
  <2>1. Turn /\ lpc' = "next" /\ told' = told
    BY <1>1, <1>3 DEF NextLaunched
  <2>2. /\ round' \in Nat /\ idx' \in Nat /\ idx' < Len(start'.actions) /\ Rounds' = Rounds
        /\ \A p : p \in Passed' <=> p \in Passed \/ (p \in Wanted /\ p = <<round, idx>>)
    BY <1>1, <1>2, <2>1, TurnPasses
  <2>3. <<round, idx>> \notin Wanted
    BY <1>2, <1>3, SelectedIsWanted
  <2>4. Passed' = Passed
    BY <2>2, <2>3 DEF Passed
  <2>5. /\ (\A o : Has(o)' <=> Has(o)) /\ (Ordered' <=> Ordered) /\ (OverridesWin' <=> OverridesWin)
        /\ ((ran \in Seq(Range(ran)))' <=> ran \in Seq(Range(ran))) /\ RunPairs' = RunPairs
    BY <1>1, OptionsKept, RanKept
  <2>6. Turning'
    BY <1>1, <2>1, <2>2, <2>4, <2>5 DEF Turning
  <2>. QED  BY <1>1, <2>1, <2>5, <2>6 DEF RunInv, Exists, Starting, Going, Leaving
<1>4. CASE Selected(Action, idx) /\ stopped
  <2>1. lpc' = "end" /\ TellClient("failed")
    BY <1>4 DEF NextLaunched
  <2>. QED  BY <1>1, <2>1, FailureTold, LeaveStep DEF Leaving
<1>5. CASE Selected(Action, idx) /\ ~stopped
  <2>1. lpc' = "create" /\ told' = told /\ round' = round /\ idx' = idx
    BY <1>5 DEF NextLaunched
  <2>2. <<round, idx>> \in Wanted
    BY <1>2, <1>5, SelectedIsWanted
  <2>. QED  BY <1>1, <2>1, <2>2, GoOnStep DEF Going
<1>. QED  BY <1>3, <1>4, <1>5

LEMMA CreateStep ==
  ASSUME LineInv, RunInv, Create
  PROVE  RunInv'
<1>1. /\ lpc = "create" /\ start' = start /\ opt' = opt /\ ran' = ran /\ round' = round /\ idx' = idx /\ alive = 0
      /\ <<round, idx>> \in Wanted /\ lpc \in Lpcs
  BY DEF Create, RunInv, Exists, LineInv
<1>2. CASE Action.module \notin modules /\ ~Loads(Action.module)
  <2>1. lpc' = "end" /\ TellClient("failed") /\ alive' = alive
    BY <1>2 DEF Create
  <2>. QED  BY <1>1, <2>1, FailureTold, LeaveStep DEF Leaving
<1>3. CASE ~(Action.module \notin modules /\ ~Loads(Action.module)) /\ Action.throws
  <2>1. lpc' = "end" /\ code' = -999 /\ alive' = alive + 1 /\ told' = told
    BY <1>3 DEF Create
  <2>. QED  BY <1>1, <2>1, SuccessKept, LeaveStep DEF Leaving
<1>4. CASE ~(Action.module \notin modules /\ ~Loads(Action.module)) /\ ~Action.throws /\ PropertiesFail
  <2>1. lpc' = "end" /\ alive' = alive /\ told' = told
    BY <1>4 DEF Create
  <2>. QED  BY <1>1, <2>1, SuccessKept, LeaveStep DEF Leaving
<1>5. CASE ~(Action.module \notin modules /\ ~Loads(Action.module)) /\ ~Action.throws /\ ~PropertiesFail
  <2>1. lpc' = "run" /\ alive' = 1 /\ told' = told /\ given' = KeysGiven(Action)
    BY <1>1, <1>5 DEF Create
  <2>. QED  BY <1>1, <1>5, <2>1, GoOnStep DEF Going
<1>. QED  BY <1>2, <1>3, <1>4, <1>5

LEMMA RunStep ==
  ASSUME LineInv, RunInv, RunLaunched
  PROVE  RunInv'
<1>. DEFINE r(ok) == [round |-> round, index |-> idx, given |-> given, ok |-> ok]
<1>1. /\ lpc = "run" /\ lpc' = "next" /\ start' = start /\ opt' = opt /\ alive' = 0 /\ Turn
      /\ Turning /\ <<round, idx>> \in Wanted /\ given = KeysGiven(Action) /\ ~PropertiesFail
      /\ start \in Starts /\ ran \in Seq(Range(ran)) /\ told \in Seq({"failed", "success"})
  BY DEF RunLaunched, RunInv, Exists, Going, LineInv, DestroyAction
<1>2. PICK ok \in BOOLEAN : /\ ran' = Append(ran, r(ok))
                            /\ IF ok THEN told' = told ELSE TellClient("failed")
  BY DEF RunLaunched
<1>. DEFINE e == r(ok)
<1>3. e.round = round /\ e.index = idx /\ e.given = given
  OBVIOUS
<1>4. ran' = Append(ran, e)
  BY <1>2
<1>. HIDE DEF e, r
<1>5. /\ Len(ran) \in Nat /\ Len(ran') = Len(ran) + 1 /\ Range(ran') = Range(ran) \cup {e}
      /\ (\A i \in 1..Len(ran) : ran'[i] = ran[i]) /\ ran'[Len(ran) + 1] = e /\ ran' \in Seq(Range(ran'))
  BY <1>1, <1>4, Appended
<1>6. \A i \in 1..Len(ran') : i \in 1..Len(ran) \/ i = Len(ran) + 1
  BY <1>5
<1>7. /\ Rounds \in Int /\ round \in Nat /\ idx \in Nat /\ idx < Len(start.actions) /\ Len(start.actions) \in Nat
  <2>1. Len(start.actions) \in Nat
    BY <1>1, OfStart
  <2>2. idx \in 0..(Len(start.actions) - 1) /\ Rounds \in Int
    BY <1>1, WantedIs DEF Turning, Wanted
  <2>. QED  BY <1>1, <2>1, <2>2 DEF Turning
<1>8. /\ round' \in Nat /\ idx' \in Nat /\ idx' < Len(start'.actions) /\ Rounds' = Rounds /\ Wanted' = Wanted
      /\ \A p : p \in Passed' <=> p \in Passed \/ (p \in Wanted /\ p = <<round, idx>>)
  BY <1>1, <1>7, TurnPasses
<1>9. told' \in Seq({"failed", "success"}) /\ \A k \in 1..Len(told') : told'[k] # "success"
  <2>1. CASE told' = told
    BY <1>1, <2>1 DEF Turning
  <2>2. CASE told' = Append(told, "failed")
    <3>1. \A k \in 1..Len(told) : told[k] # "success"
      BY <1>1 DEF Turning
    <3>. QED  BY <1>1, <2>2, <3>1, LastIs
  <2>. QED  BY <1>2, <2>1, <2>2 DEF TellClient
<1>10. RunPairs' = Passed'
  <2>1. \A p : p \in RunPairs' <=> p \in RunPairs \/ p = <<round, idx>>
    <3>1. RunPairs' = {<<q.round, q.index>> : q \in Range(ran')}
      BY DEF RunPairs, Range
    <3>. QED  BY <1>3, <1>5, <3>1 DEF RunPairs
  <2>2. RunPairs = Passed
    BY <1>1 DEF Turning
  <2>3. \A p : p \in RunPairs' <=> p \in Passed'
    BY <1>1, <1>8, <2>1, <2>2
  <2>4. Passed' = {p \in Wanted : p \in Passed'}
    BY <1>8 DEF Passed
  <2>5. RunPairs' = {p \in Wanted : p \in Passed'}
    BY <2>3, <2>4
  <2>. QED  BY <2>4, <2>5
<1>11. Turning'
  BY <1>7, <1>8, <1>9, <1>10 DEF Turning
<1>12. Ordered'
  <2>1. ASSUME NEW i \in 1..Len(ran) PROVE ran[i].round < round \/ (ran[i].round = round /\ ran[i].index < idx)
    <3>1. ran[i] \in Range(ran)
      <4>1. \A S : \A s \in Seq(S) : DOMAIN s = 1..Len(s)
        OBVIOUS
      <4>2. i \in DOMAIN ran
        BY <1>1, <4>1
      <4>. QED  BY <4>2 DEF Range
    <3>2. <<ran[i].round, ran[i].index>> \in Passed
      BY <1>1, <3>1 DEF RunPairs, Turning
    <3>. QED  BY <3>2 DEF Passed
  <2>2. ASSUME NEW i \in 1..Len(ran'), NEW j \in 1..Len(ran'), i < j
        PROVE  \/ ran'[i].round < ran'[j].round
               \/ ran'[i].round = ran'[j].round /\ ran'[i].index < ran'[j].index
    <3>1. i \in 1..Len(ran) /\ ran'[i] = ran[i]
      BY <1>5, <1>6, <2>2
    <3>2. CASE j = Len(ran) + 1
      BY <1>3, <1>5, <2>1, <3>1, <3>2
    <3>3. CASE j \in 1..Len(ran)
      BY <1>1, <1>5, <2>2, <3>1, <3>3 DEF RunInv, Ordered
    <3>. QED  BY <1>6, <3>2, <3>3
  <2>. QED  BY <2>2 DEF Ordered
<1>13. OverridesWin'
  <2>1. \A g, a : Obeyed(g, a)' <=> Obeyed(g, a)
    BY <1>1 DEF Obeyed, Has
  <2>2. ASSUME NEW i \in 1..Len(ran')
        PROVE  Obeyed(ran'[i].given, start.actions[ran'[i].index + 1])
    <3>1. CASE i \in 1..Len(ran)
      <4>1. Obeyed(ran[i].given, start.actions[ran[i].index + 1])
        BY <3>1, OverridesAre DEF RunInv
      <4>. QED  BY <1>5, <3>1, <4>1
    <3>2. CASE i = Len(ran) + 1
      <4>1. Obeyed(given, Action)
        BY <1>1, KeysObey
      <4>. QED  BY <1>3, <1>5, <3>2, <4>1 DEF Action
    <3>. QED  BY <1>6, <3>1, <3>2
  <2>3. (\A i \in 1..Len(ran) : Obeyed(ran[i].given, start.actions[ran[i].index + 1]))'
    <3>1. \A i \in 1..Len(ran') : Obeyed(ran'[i].given, start'.actions[ran'[i].index + 1])
      BY <1>1, <2>2
    <3>. QED  BY <1>1, <3>1 DEF Obeyed, Has
  <2>. QED  BY <2>3, OverridesAreThen
<1>14. (ran \in Seq(Range(ran)))'
  BY <1>5 DEF Range
<1>15. alive' = 0 /\ told' \in Seq({"failed", "success"})
  BY <1>1, <1>9
<1>. QED  BY <1>1, <1>11, <1>12, <1>13, <1>14, <1>15 DEF RunInv, Exists, Starting, Going, Leaving

LEMMA LaunchStep ==
  ASSUME LineInv, RunInv, LaunchNext
  PROVE  RunInv'
<1>1. CASE TryCommand \/ TryValue \/ TryEnd \/ Check
  BY <1>1, StartStep
<1>2. CASE ListTests \/ ListGpus \/ BadYaml \/ AllDone \/ Terminate
  BY <1>2, WayOut
<1>3. CASE NextLaunched
  BY <1>3, NextStep
<1>4. CASE Create
  BY <1>4, CreateStep
<1>5. CASE RunLaunched
  BY <1>5, RunStep
<1>6. CASE StopAsked
  <2>1. /\ lpc = "run" /\ lpc' = lpc /\ start' = start /\ opt' = opt /\ ran' = ran /\ told' = told
        /\ round' = round /\ idx' = idx /\ alive' = 1 /\ given' = given /\ given = KeysGiven(Action)
        /\ ~PropertiesFail /\ <<round, idx>> \in Wanted
    BY <1>6 DEF StopAsked, RunInv, Exists
  <2>. QED  BY <2>1, GoOnStep DEF Going
<1>. QED  BY <1>1, <1>2, <1>3, <1>4, <1>5, <1>6 DEF LaunchNext

LEMMA LaunchStays ==
  ASSUME LineInv, RunInv, UNCHANGED launchVars
  PROVE  RunInv'
<1>1. /\ start' = start /\ opt' = opt /\ ran' = ran /\ told' = told /\ lpc' = lpc /\ round' = round /\ idx' = idx
      /\ alive' = alive /\ given' = given /\ modules' = modules /\ code' = code /\ lpc \in Lpcs
  BY DEF launchVars, LineInv
<1>2. CASE lpc \in Starting
  <2>1. /\ (\A o : Has(o)' <=> Has(o)) /\ (Ordered' <=> Ordered) /\ (OverridesWin' <=> OverridesWin)
        /\ ((ran \in Seq(Range(ran)))' <=> ran \in Seq(Range(ran)))
    BY <1>1, OptionsKept, RanKept
  <2>. QED  BY <1>1, <1>2, <2>1 DEF RunInv, Exists, Starting, Going, Leaving
<1>3. CASE lpc \in Leaving
  <2>1. alive = 0 \/ (alive = 1 /\ code = -999)
    BY <1>3 DEF RunInv, Exists
  <2>2. lpc = "over" => modules = {} \/ Has("--listTests")
    BY DEF RunInv, Exists
  <2>. QED  BY <1>1, <1>3, <2>1, <2>2, SuccessKept, LeaveStep
<1>4. CASE lpc \in Going
  <2>1. /\ alive = (IF lpc = "run" THEN 1 ELSE 0) /\ (lpc \in {"create", "run"} => <<round, idx>> \in Wanted)
        /\ (lpc = "run" => given = KeysGiven(Action) /\ ~PropertiesFail)
    BY <1>4 DEF RunInv, Exists, Going
  <2>. QED  BY <1>1, <1>4, <2>1, GoOnStep
<1>. QED  BY <1>1, <1>2, <1>3, <1>4 DEF Lpcs, Starting, Going, Leaving

LEMMA RunInit ==
  ASSUME LaunchInit
  PROVE  RunInv
<1>1. /\ lpc \in Starting /\ lpc # "list" /\ modules = {} /\ alive = 0 /\ ran = <<>> /\ told = <<>> /\ round = 0 /\ idx = 0
  BY DEF LaunchInit, LaunchStart, Starting
<1>. QED  BY <1>1, NothingRan DEF RunInv, Exists, Starting, Going, Leaving

LEMMA LaunchSoundness ==
  ASSUME LineInv, RunInv
  PROVE  LaunchSound
<1>1. lpc \in Lpcs
  BY DEF LineInv
<1>2. RanAsSelected
  <2>1. lpc \in Going => RunPairs \subseteq Wanted
    BY DEF RunInv, Turning, Passed
  <2>2. Success
    <3>1. lpc \in Starting => told = <<>>
      BY DEF RunInv, Exists
    <3>2. lpc \in Going => Success
      BY NoSuccess DEF RunInv, Turning
    <3>. QED  BY <1>1, <3>1, <3>2 DEF RunInv, Success, Lpcs, Starting, Going, Leaving
  <2>. QED  BY <2>1, <2>2 DEF RunInv, RanAsSelected, Ordered, Success, RunPairs, Going
<1>3. NothingLeft
  <2>1. alive = 0 \/ alive = 1
    BY <1>1 DEF RunInv, Exists, Lpcs, Starting, Going, Leaving
  <2>. QED  BY <2>1 DEF NothingLeft, RunInv, Exists, Leaving
<1>. QED  BY <1>2, <1>3 DEF LaunchSound, LineInv, RunInv

\* From the words to the end of rvs::exec::run: a command line is taken exactly when it
\* is well formed and read as it is meant; what is selected is what runs, in order, with
\* the values the options give; success is told only when all of it ran; no way out
\* leaves a module or an action behind but an exception (rvs::cli::parse, rvs::exec).
THEOREM LaunchIsSound == LaunchSpec => []LaunchSound
<1>1. LaunchInit => LineInv /\ RunInv
  BY LineInit, RunInit
<1>2. LineInv /\ RunInv /\ [LaunchNext]_launchVars => (LineInv /\ RunInv)'
  BY LineStep, LineStays, LaunchStep, LaunchStays
<1>3. LineInv /\ RunInv => LaunchSound
  BY LaunchSoundness
<1>. QED  BY <1>1, <1>2, <1>3, PTL DEF LaunchSpec

-----------------------------------------------------------------------------
(* The launcher: the domains of the rest of the state.                     *)

Good == {m \in DOMAIN start.libraries : start.libraries[m] = "good"}

LaunchDomains ==
    /\ DOMAIN opt \subseteq Options /\ current \in Options \cup {Blank}
    /\ modules \subseteq Good
    /\ code \in {-999, -1, 0, 1}

LEMMA LoadsGood == ASSUME start \in Starts PROVE \A m : Loads(m) => m \in Good
BY StartsAreStarts DEF Loads, HasInterfaces, Good

LEMMA EmittedWithin ==
  ASSUME LaunchDomains
  PROVE  DOMAIN Emitted \subseteq Options
<1>1. CASE current = ""
  BY <1>1 DEF Emitted, LaunchDomains
<1>2. CASE current # ""
  <2>1. current \in Options
    BY <1>2 DEF LaunchDomains, Blank
  <2>2. Emitted = Set(opt, current, "")
    BY <1>2 DEF Emitted
  <2>3. \A k : k \in DOMAIN Emitted => k = current \/ k \in DOMAIN opt
    BY <2>2, SetIs
  <2>. QED  BY <2>1, <2>3 DEF LaunchDomains
<1>. QED  BY <1>1, <1>2

LEMMA LaunchDomainsStart == ASSUME LaunchInit PROVE LaunchDomains
<1>1. opt = <<>> /\ current = "" /\ modules = {} /\ code = 0
  BY DEF LaunchInit, LaunchStart
<1>2. DOMAIN opt = {}
  <2>1. \A s : s = <<>> => DOMAIN s = {}
    OBVIOUS
  <2>. QED  BY <1>1, <2>1
<1>. QED  BY <1>1, <1>2 DEF LaunchDomains, Blank

LEMMA LaunchDomainsKept ==
  ASSUME LineInv, RunInv, LaunchDomains, [LaunchNext]_launchVars
  PROVE  LaunchDomains'
<1>0. /\ start \in Starts /\ start' = start /\ Good' = Good
      /\ DOMAIN opt \subseteq Options /\ current \in Options \cup {Blank}
      /\ modules \subseteq Good /\ code \in {-999, -1, 0, 1}
  <2>1. start' = start
    BY DEF LaunchNext, launchVars, TryCommand, TryValue, TryEnd, Check, ListTests, ListGpus,
           NextLaunched, BadYaml, AllDone, Create, RunLaunched, StopAsked, Terminate
  <2>. QED  BY <2>1 DEF Good, LaunchDomains, LineInv
<1>1. CASE TryCommand
  <2>1. modules' = modules /\ code' = code
    BY <1>1 DEF TryCommand
  <2>2. CASE OptionOf(Token) # ""
    <3>1. opt' = Emitted /\ current' = OptionOf(Token)
      BY <1>1, <2>2 DEF TryCommand
    <3>2. OptionOf(Token) \in Options \cup {Blank}
      BY Opts
    <3>. QED  BY <1>0, <2>1, <3>1, <3>2, EmittedWithin DEF LaunchDomains
  <2>3. CASE OptionOf(Token) = ""
    <3>1. opt' = opt /\ current' = current
      BY <1>1, <2>3 DEF TryCommand
    <3>. QED  BY <1>0, <2>1, <3>1 DEF LaunchDomains
  <2>. QED  BY <2>2, <2>3
<1>2. CASE TryValue
  <2>1. modules' = modules /\ code' \in {-1, code}
    BY <1>2 DEF TryValue
  <2>2. CASE Token = "" \/ OptionOf(Token) # ""
    <3>1. opt' = opt /\ current' = current
      BY <1>2, <2>2 DEF TryValue
    <3>. QED  BY <1>0, <2>1, <3>1 DEF LaunchDomains
  <2>3. CASE ~(Token = "" \/ OptionOf(Token) # "")
    <3>1. opt' = Set(opt, current, Token) /\ current' = ""
      BY <1>2, <2>3 DEF TryValue
    <3>2. current \in Options
      <4>1. Expecting /\ Head(context) \in {"value", "optionalvalue"}
        BY <1>2 DEF TryValue, LineInv
      <4>2. context \notin {<<"command", "eof">>, <<"eof">>}
        BY <4>1
      <4>. QED  BY <4>1, <4>2, Opts DEF Expecting
    <3>3. \A k : k \in DOMAIN opt' => k = current \/ k \in DOMAIN opt
      BY <3>1, SetIs
    <3>4. DOMAIN opt' \subseteq Options
      BY <1>0, <3>2, <3>3
    <3>5. current' \in Options \cup {Blank}
      BY <3>1 DEF Blank
    <3>. QED  BY <1>0, <2>1, <3>4, <3>5 DEF LaunchDomains
  <2>. QED  BY <2>2, <2>3
<1>3. CASE TryEnd
  <2>1. modules' = modules /\ code' \in {-1, code}
    BY <1>3 DEF TryEnd
  <2>2. \/ opt' = Emitted /\ current' = ""
        \/ opt' = opt /\ current' = current
    BY <1>3 DEF TryEnd
  <2>3. DOMAIN opt' \subseteq Options /\ current' \in Options \cup {Blank}
    BY <1>0, <2>2, EmittedWithin DEF Blank
  <2>. QED  BY <1>0, <2>1, <2>3 DEF LaunchDomains
<1>4. CASE Check
  <2>1. opt' = opt /\ current' = current /\ modules' = modules /\ code' = Decision[2]
    BY <1>4 DEF Check
  <2>. QED  BY <1>0, <2>1, DecisionIs DEF LaunchDomains
<1>5. CASE ListTests
  <2>1. /\ opt' = opt /\ current' = current /\ code' = code
        /\ modules' = modules \cup {m \in DOMAIN start.libraries : Loads(m)}
    BY <1>5 DEF ListTests
  <2>. QED  BY <1>0, <2>1, LoadsGood DEF LaunchDomains
<1>6. CASE ListGpus
  <2>1. /\ opt' = opt /\ current' = current /\ code' \in {0, 1}
        /\ modules' = IF Loads("pesm") THEN modules \cup {"pesm"} ELSE modules
    BY <1>6 DEF ListGpus
  <2>. QED  BY <1>0, <2>1, LoadsGood DEF LaunchDomains
<1>7. CASE NextLaunched \/ BadYaml \/ AllDone \/ RunLaunched \/ StopAsked
  <2>1. opt' = opt /\ current' = current /\ modules' = modules /\ code' \in {code, -1, -999}
    BY <1>7 DEF NextLaunched, BadYaml, AllDone, RunLaunched, StopAsked
  <2>. QED  BY <1>0, <2>1 DEF LaunchDomains
<1>8. CASE Create
  <2>1. /\ opt' = opt /\ current' = current /\ code' \in {code, -1, -999, 1}
        /\ modules' = IF Loads(Action.module) THEN modules \cup {Action.module} ELSE modules
    BY <1>8 DEF Create
  <2>. QED  BY <1>0, <2>1, LoadsGood DEF LaunchDomains
<1>9. CASE Terminate
  <2>1. opt' = opt /\ current' = current /\ modules' = {} /\ code' \in {code, -1}
    BY <1>9 DEF Terminate
  <2>. QED  BY <1>0, <2>1 DEF LaunchDomains
<1>10. CASE UNCHANGED launchVars
  BY <1>0, <1>10 DEF LaunchDomains, launchVars
<1>. QED  BY <1>1, <1>2, <1>3, <1>4, <1>5, <1>6, <1>7, <1>8, <1>9, <1>10 DEF LaunchNext

LEMMA LaunchIsTyped == ASSUME LineInv, RunInv, LaunchDomains PROVE LaunchTypeOK
<1>1. alive \in Nat
  BY DEF LineInv, Lpcs, RunInv, Exists, Starting, Leaving
<1>. QED  BY <1>1 DEF LineInv, Lpcs, LaunchDomains, Good, LaunchTypeOK

-----------------------------------------------------------------------------
(* Actions: the keys.                                                      *)

\* The keys without which an action cannot be.
Needed == {"name", "target_stress", "target_power", "target_temp", "throttle_temp", "peers"}

Regular(k) ==
    /\ k.style \in {"required", "strict", "lenient", "optional", "ignored"}
    /\ k.type \in {"int", "string", "bool", "float", "list", "flag"}
    /\ k.name # ""
    /\ k.style = "ignored" => k.name = "exclude" /\ k.type = "list"
    /\ k.name \in Needed => k.style = "required"

LEMMA KeyIs ==
  ASSUME NEW names, NEW type, NEW style, NEW k \in Key(names, type, style)
  PROVE  k.name \in names /\ k.type = type /\ k.style = style
BY DEF Key

Usual(names, type, style) ==
    /\ type \in {"int", "string", "bool", "float", "list", "flag"}
    /\ style \in {"required", "strict", "lenient", "optional"}
    /\ "" \notin names
    /\ style = "required" \/ \A n \in names : n \notin Needed

LEMMA KeyRegular ==
  ASSUME NEW names, NEW type, NEW style, Usual(names, type, style)
  PROVE  \A k \in Key(names, type, style) : Regular(k)
<1>. SUFFICES ASSUME NEW k \in Key(names, type, style) PROVE Regular(k)
  OBVIOUS
<1>1. k.name \in names /\ k.type = type /\ k.style = style
  BY KeyIs
<1>2. k.name # ""
  BY <1>1, Zenon DEF Usual
<1>3. k.style # "ignored" /\ k.style \in {"required", "strict", "lenient", "optional", "ignored"}
  BY <1>1 DEF Usual
<1>4. k.type \in {"int", "string", "bool", "float", "list", "flag"}
  BY <1>1 DEF Usual
<1>5. k.name \in Needed => k.style = "required"
  BY <1>1 DEF Usual
<1>. QED  BY <1>2, <1>3, <1>4, <1>5 DEF Regular

LEMMA CommonRegular == \A m, k : k \in CommonKeys(m) => Regular(k)
BY KeyRegular DEF CommonKeys, BaseKeys, DurationKeys, Usual, Needed

LEMMA GstRegular == \A k \in GstKeys1 \cup GstKeys2 \cup GstKeys3 : Regular(k)
<1>1. \A k \in GstKeys1 : Regular(k)
  BY KeyRegular DEF GstKeys1, Sizes, Multipliers, Usual, Needed
<1>2. \A k \in GstKeys2 : Regular(k)
  BY KeyRegular DEF GstKeys2, Leading, Strides, Usual, Needed
<1>3. \A k \in GstKeys3 : Regular(k)
  BY KeyRegular DEF GstKeys3, Usual, Needed
<1>. QED  BY <1>1, <1>2, <1>3

LEMMA IetRegular == \A k \in IetKeys1 \cup IetKeys2 : Regular(k)
<1>1. \A k \in IetKeys1 : Regular(k)
  BY KeyRegular DEF IetKeys1, Sizes, Multipliers, Usual, Needed
<1>2. \A k \in IetKeys2 : Regular(k)
  BY KeyRegular DEF IetKeys2, Strides, Usual, Needed
<1>. QED  BY <1>1, <1>2

LEMMA TstRegular == \A k \in TstKeys1 \cup TstKeys2 : Regular(k)
<1>1. \A k \in TstKeys1 : Regular(k)
  BY KeyRegular DEF TstKeys1, Sizes, Multipliers, Usual, Needed
<1>2. \A k \in TstKeys2 : Regular(k)
  BY KeyRegular DEF TstKeys2, Leading, Usual, Needed
<1>. QED  BY <1>1, <1>2

LEMMA PerfRegular == \A k \in PerfKeys1 \cup PerfKeys2 : Regular(k)
<1>1. \A k \in PerfKeys1 : Regular(k)
  BY KeyRegular DEF PerfKeys1, Sizes, Multipliers, Usual, Needed
<1>2. \A k \in PerfKeys2 : Regular(k)
  BY KeyRegular DEF PerfKeys2, Leading, Usual, Needed
<1>. QED  BY <1>1, <1>2

LEMMA PulseRegular == \A k \in PulseKeys1 \cup PulseKeys2 : Regular(k)
<1>1. \A k \in PulseKeys1 : Regular(k)
  BY KeyRegular DEF PulseKeys1, Leading, Multipliers, Usual, Needed
<1>2. \A k \in PulseKeys2 : Regular(k)
  BY KeyRegular DEF PulseKeys2, Usual, Needed
<1>. QED  BY <1>1, <1>2

LEMMA PbqtRegular == \A k \in PbqtFlags \cup PbqtKeys1 \cup PbqtKeys2 : Regular(k)
<1>1. \A k \in PbqtFlags \cup PbqtKeys1 : Regular(k)
  BY KeyRegular DEF PbqtFlags, PbqtKeys1, Usual, Needed
<1>2. \A k \in PbqtKeys2 : Regular(k)
  BY KeyRegular DEF PbqtKeys2, Usual, Needed
<1>. QED  BY <1>1, <1>2

LEMMA OtherRegular ==
  /\ \A k \in MemKeys \cup BabelKeys : Regular(k)
  /\ \A k \in PebbKeys : Regular(k)
  /\ \A k \in GmKeys \cup PesmKeys : Regular(k)
  /\ \A k \in SmqtKeys : Regular(k)
<1>0. ASSUME NEW k \in Key({"exclude"}, "list", "ignored") PROVE Regular(k)
  <2>1. k.name = "exclude" /\ k.type = "list" /\ k.style = "ignored"
    BY <1>0, KeyIs
  <2>. QED  BY <2>1 DEF Regular, Needed
<1>1. \A k \in MemKeys \cup BabelKeys : Regular(k)
  <2>1. \A k \in MemKeys : Regular(k)
    BY <1>0, KeyRegular DEF MemKeys, Usual, Needed
  <2>2. \A k \in BabelKeys : Regular(k)
    BY KeyRegular DEF BabelKeys, Usual, Needed
  <2>. QED  BY <2>1, <2>2
<1>2. \A k \in PebbKeys : Regular(k)
  BY KeyRegular DEF PebbKeys, Usual, Needed
<1>3. \A k \in GmKeys \cup PesmKeys : Regular(k)
  BY KeyRegular DEF GmKeys, PesmKeys, Usual, Needed
<1>4. \A k \in SmqtKeys : Regular(k)
  BY KeyRegular DEF SmqtKeys, Usual, Needed
<1>. QED  BY <1>1, <1>2, <1>3, <1>4

LEMMA KeysRegular == \A k \in AllKeys : Regular(k)
<1>1. \A k \in OwnKeys(Module) : Regular(k)
  BY GstRegular, IetRegular, TstRegular, PerfRegular, PulseRegular, PbqtRegular, OtherRegular
     DEF OwnKeys
<1>. QED  BY <1>1, CommonRegular DEF AllKeys

\* The name is read by all.
LEMMA NameIsKey == \A m : [name |-> "name", type |-> "string", style |-> "required"] \in CommonKeys(m)
BY DEF CommonKeys, BaseKeys, Key

LEMMA RulesNamed == \A m : "" \notin Rules(m)
BY DEF Rules

\* A value that is accepted although it is out of order.
LEMMA AcceptedKey ==
  ASSUME NEW k, Regular(k), NEW how \in {"absent", "empty", "invalid"}, ~KeyFails(k, how)
  PROVE  /\ how = "invalid" => k.type = "string" \/ k.name = "exclude"
         /\ k.name \in Needed => how # "absent"
         /\ LeavesUnset(k, how) => k.style = "lenient" /\ how = "empty"
<1>1. CASE k.style = "ignored"
  <2>1. k.name = "exclude" /\ k.name \notin Needed /\ k.type = "list"
    BY <1>1 DEF Regular, Needed
  <2>. QED  BY <2>1 DEF LeavesUnset
<1>2. CASE k.style \in {"required", "strict"}
  <2>1. Code(k, how) = 0
    BY <1>2 DEF KeyFails
  <2>2. ~LeavesUnset(k, how)
    BY <2>1 DEF LeavesUnset
  <2>3. k.style = "required" => how # "absent"
    BY <2>1 DEF Code
  <2>4. how = "invalid" => k.type = "string"
    BY <2>1 DEF Code
  <2>. QED  BY <2>2, <2>3, <2>4 DEF Regular
<1>3. CASE k.style \in {"lenient", "optional"}
  <2>1. Code(k, how) # 1 /\ k.style # "required" /\ k.style # "strict"
    BY <1>3 DEF KeyFails
  <2>2. k.name \notin Needed
    BY <2>1 DEF Regular
  <2>3. how = "invalid" => k.type = "string"
    BY <2>1 DEF Code
  <2>. QED  BY <1>3, <2>1, <2>2, <2>3 DEF Code, LeavesUnset
<1>. QED  BY <1>1, <1>2, <1>3 DEF Regular

-----------------------------------------------------------------------------
(* Actions: what a loop puts aside.                                        *)

LEMMA PlacesHaveRanks ==
  ASSUME NEW n \in Nat, NEW places \in SUBSET (1..n)
  PROVE  /\ Cardinality(places) \in Nat /\ IsFiniteSet(places)
         /\ \A k \in places : Cardinality({j \in places : j <= k}) \in 1..Cardinality(places)
         /\ \A k, l \in places : Cardinality({j \in places : j <= k}) = Cardinality({j \in places : j <= l})
               => k = l
         /\ \A i \in 1..Cardinality(places) : \E k \in places : Cardinality({j \in places : j <= k}) = i
<1>. DEFINE AtOrBelow(k) == {j \in places : j <= k}
            rank == [k \in places |-> Cardinality(AtOrBelow(k))]
<1>1. IsFiniteSet(places) /\ Cardinality(places) \in Nat
  <2>1. IsFiniteSet(1..n)
    BY FS_Interval
  <2>2. IsFiniteSet(places)
    BY <2>1, FS_Subset
  <2>. QED  BY <2>2, FS_CardinalityType
<1>2. \A k \in places : AtOrBelow(k) \in SUBSET places /\ k \in AtOrBelow(k)
  OBVIOUS
<1>3. \A k \in places : IsFiniteSet(AtOrBelow(k)) /\ Cardinality(AtOrBelow(k)) \in 1..Cardinality(places)
  <2>1. \A k \in places : IsFiniteSet(AtOrBelow(k)) /\ Cardinality(AtOrBelow(k)) <= Cardinality(places)
    BY <1>1, <1>2, FS_Subset
  <2>2. \A k \in places : Cardinality(AtOrBelow(k)) \in Nat /\ Cardinality(AtOrBelow(k)) # 0
    BY <1>2, <2>1, FS_CardinalityType, FS_EmptySet
  <2>. QED  BY <1>1, <2>1, <2>2
<1>4. ASSUME NEW k \in places, NEW l \in places, k < l PROVE Cardinality(AtOrBelow(k)) # Cardinality(AtOrBelow(l))
  <2>1. \A j \in places : j \in Int
    OBVIOUS
  <2>2. \A j \in places : j <= k => j <= l
    BY <1>4, <2>1
  <2>3. AtOrBelow(k) \subseteq AtOrBelow(l)
    BY ONLY <2>2
  <2>5. l \in AtOrBelow(l) /\ l \notin AtOrBelow(k)
    BY ONLY <2>1, k < l, k \in places, l \in places
  <2>4. IsFiniteSet(AtOrBelow(l)) /\ AtOrBelow(k) # AtOrBelow(l)
    BY <1>3, <2>3, <2>5
  <2>. HIDE DEF AtOrBelow
  <2>. QED  BY <2>3, <2>4, FS_Subset
<1>5. \A k, l \in places : Cardinality(AtOrBelow(k)) = Cardinality(AtOrBelow(l)) => k = l
  <2>1. \A k, l \in places : k < l \/ l < k \/ k = l
    OBVIOUS
  <2>. QED  BY <1>4, <2>1
<1>6. rank \in Injection(places, 1..Cardinality(places))
  BY <1>3, <1>5 DEF Injection, IsInjective
<1>7. rank \in Surjection(places, 1..Cardinality(places))
  <2>1. IsFiniteSet(1..Cardinality(places)) /\ Cardinality(1..Cardinality(places)) = Cardinality(places)
    BY <1>1, FS_Interval
  <2>. HIDE DEF rank
  <2>. QED  BY <1>6, <2>1, FS_Injection
<1>8. \A i \in 1..Cardinality(places) : \E k \in places : rank[k] = i
  BY <1>7 DEF Surjection
<1>. QED  BY <1>1, <1>3, <1>5, <1>8

\* The elements at the places, each once.
TakenFrom(t, s, places) ==
    /\ \A k \in places : \E i \in 1..Len(t) : t[i] = s[k]
    /\ \E src \in [1..Len(t) -> places] :
          /\ \A i \in 1..Len(t) : t[i] = s[src[i]]
          /\ \A i, j \in 1..Len(t) : i # j => src[i] # src[j]

LEMMA FilteredIs ==
  ASSUME NEW S, NEW s \in Seq(S), NEW places \in SUBSET (1..Len(s))
  PROVE  /\ Filtered(s, places) \in Seq(S) /\ Len(Filtered(s, places)) = Cardinality(places)
         /\ TakenFrom(Filtered(s, places), s, places)
<1>. DEFINE Rank(k) == Cardinality({j \in places : j <= k})
            n == Cardinality(places)
            src == [i \in 1..n |-> CHOOSE k \in places : Rank(k) = i]
            t == Filtered(s, places)
<1>1. /\ n \in Nat
      /\ \A k \in places : Rank(k) \in 1..n
      /\ \A k, l \in places : Rank(k) = Rank(l) => k = l
      /\ \A i \in 1..n : \E k \in places : Rank(k) = i
  <2>1. Len(s) \in Nat
    OBVIOUS
  <2>. QED  BY ONLY <2>1, places \in SUBSET (1..Len(s)), PlacesHaveRanks
<1>. HIDE DEF Rank, n
<1>2. \A i \in 1..n : src[i] \in places /\ Rank(src[i]) = i
  BY <1>1
<1>3. t = [i \in 1..n |-> s[src[i]]]
  BY DEF Filtered, Rank, n
<1>. HIDE DEF src, t
<1>4. t \in Seq(S) /\ Len(t) = n
  <2>0. \A k \in places : k \in 1..Len(s) /\ s[k] \in S
    OBVIOUS
  <2>1. \A i \in 1..n : s[src[i]] \in S
    BY <1>2, <2>0
  <2>. QED  BY <1>1, <1>3, <2>1
<1>5. \A k \in places : src[Rank(k)] = k
  BY <1>1, <1>2
<1>6. \A k \in places : \E i \in 1..Len(t) : t[i] = s[k]
  <2>1. \A k \in places : Rank(k) \in 1..Len(t) /\ t[Rank(k)] = s[k]
    BY <1>1, <1>3, <1>4, <1>5
  <2>. QED  BY <2>1
<1>7. src \in [1..Len(t) -> places]
  BY <1>1, <1>2, <1>4 DEF src
<1>8. \A i, j \in 1..Len(t) : i # j => src[i] # src[j]
  BY <1>2, <1>4
<1>9. \A i \in 1..Len(t) : t[i] = s[src[i]]
  BY <1>3, <1>4
<1>10. TakenFrom(t, s, places)
  BY <1>6, <1>7, <1>8, <1>9 DEF TakenFrom
<1>. QED  BY <1>4, <1>10 DEF t, n

-----------------------------------------------------------------------------
(* Actions: the GPUs that are selected.                                    *)

OwnIds(s)    == \A i, j \in 1..Len(s) : i # j => s[i].id # s[j].id
OwnPlaces(s) == \A i, j \in 1..Len(s) : i # j => s[i].loc # s[j].loc
Members(s)   == {s[i] : i \in 1..Len(s)}

LEMMA FilteredGpus ==
  ASSUME NEW s \in Seq(GpuType), OwnIds(s), NEW places \in SUBSET (1..Len(s))
  PROVE  LET t == Filtered(s, places)
         IN  /\ t \in Seq(GpuType) /\ OwnIds(t)
             /\ OwnPlaces(s) => OwnPlaces(t)
             /\ Members(t) = {s[i] : i \in places}
<1>. DEFINE t == Filtered(s, places)
<1>0. s \in Seq(GpuType) /\ places \in SUBSET (1..Len(s))
  OBVIOUS
<1>1. t \in Seq(GpuType) /\ TakenFrom(t, s, places)
  BY ONLY <1>0, FilteredIs
<1>. HIDE DEF t
<1>2. PICK src \in [1..Len(t) -> places] :
          /\ \A i \in 1..Len(t) : t[i] = s[src[i]]
          /\ \A i, j \in 1..Len(t) : i # j => src[i] # src[j]
  BY <1>1 DEF TakenFrom
<1>3. \A i \in 1..Len(t) : src[i] \in places /\ src[i] \in 1..Len(s)
  BY <1>2
<1>4. OwnIds(t)
  BY <1>2, <1>3 DEF OwnIds
<1>5. OwnPlaces(s) => OwnPlaces(t)
  BY <1>2, <1>3 DEF OwnPlaces
<1>6. Members(t) = {s[i] : i \in places}
  <2>1. \A i \in 1..Len(t) : t[i] \in {s[k] : k \in places}
    BY <1>2, <1>3
  <2>2. \A k \in places : s[k] \in Members(t)
    BY <1>1 DEF Members, TakenFrom
  <2>. QED  BY <2>1, <2>2 DEF Members
<1>. QED  BY <1>1, <1>4, <1>5, <1>6 DEF t

\* The machine, and those of its GPUs that are known.
MachineIs ==
    /\ gpus \in Seq(GpuType)
    /\ \A i, j \in 1..Len(gpus) : i # j => gpus[i].id # gpus[j].id

LEMMA KnownAre ==
  ASSUME MachineIs
  PROVE  /\ KnownGpus \in Seq(GpuType) /\ OwnIds(KnownGpus)
         /\ DistinctPlaces => OwnPlaces(KnownGpus)
<1>1. OwnIds(gpus) /\ gpus \in Seq(GpuType) /\ (DistinctPlaces => OwnPlaces(gpus))
  BY DEF MachineIs, OwnIds, OwnPlaces, DistinctPlaces
<1>2. {i \in 1..Len(gpus) : gpus[i].known} \in SUBSET (1..Len(gpus))
  OBVIOUS
<1>. QED  BY <1>1, <1>2, FilteredGpus DEF KnownGpus

\* Where no two places are the same, location2gpu finds the GPU itself.
LEMMA AtLocationIs ==
  ASSUME MachineIs, DistinctPlaces
  PROVE  \A i \in 1..Len(KnownGpus) : AtLocation(KnownGpus[i]) = KnownGpus[i]
<1>. SUFFICES ASSUME NEW i \in 1..Len(KnownGpus) PROVE AtLocation(KnownGpus[i]) = KnownGpus[i]
  OBVIOUS
<1>. DEFINE k == KnownGpus
            First(n) == k[n].loc = k[i].loc /\ \A j \in 1..(n - 1) : k[j].loc # k[i].loc
<1>1. k \in Seq(GpuType) /\ OwnPlaces(k)
  BY KnownAre
<1>. HIDE DEF k
<1>2. i \in 1..Len(k) /\ Len(k) \in Nat
  BY <1>1 DEF k
<1>3. First(i)
  BY <1>1, <1>2 DEF OwnPlaces
<1>4. \A n \in 1..Len(k) : First(n) => n = i
  BY <1>1, <1>2 DEF OwnPlaces
<1>5. (CHOOSE n \in 1..Len(k) : First(n)) = i
  BY <1>2, <1>3, <1>4
<1>. QED  BY <1>5 DEF AtLocation, k

LEMMA CandidatesAre ==
  ASSUME MachineIs, NEW m \in ActionModules, NEW f, m \in {"peqt", "smqt"} => DistinctPlaces
  PROVE  /\ Candidates(m, f) \in Seq(GpuType) /\ OwnIds(Candidates(m, f))
         /\ Members(Candidates(m, f)) = {g \in Members(KnownGpus) : DeviceMatches(f, g)}
<1>. DEFINE Matching(s) == Filtered(s, {i \in 1..Len(s) : DeviceMatches(f, s[i])})
            Located(s)  == [i \in 1..Len(s) |-> AtLocation(s[i])]
            k == KnownGpus
<1>1. k \in Seq(GpuType) /\ OwnIds(k)
  BY KnownAre
<1>2. DistinctPlaces => \A i \in 1..Len(k) : AtLocation(k[i]) = k[i]
  BY AtLocationIs
<1>3. /\ Matching(k) \in Seq(GpuType) /\ OwnIds(Matching(k))
      /\ Members(Matching(k)) = {g \in Members(k) : DeviceMatches(f, g)}
  <2>1. {i \in 1..Len(k) : DeviceMatches(f, k[i])} \in SUBSET (1..Len(k))
    OBVIOUS
  <2>2. /\ Matching(k) \in Seq(GpuType) /\ OwnIds(Matching(k))
        /\ Members(Matching(k)) = {k[i] : i \in {i \in 1..Len(k) : DeviceMatches(f, k[i])}}
    BY <1>1, <2>1, FilteredGpus
  <2>3. {k[i] : i \in {i \in 1..Len(k) : DeviceMatches(f, k[i])}} = {g \in Members(k) : DeviceMatches(f, g)}
    BY DEF Members
  <2>. QED  BY <2>2, <2>3
<1>4. CASE m = "smqt"
  <2>1. Located(k) = k
    BY <1>1, <1>2, <1>4
  <2>2. Candidates(m, f) = Matching(Located(k))
    BY <1>4 DEF Candidates
  <2>. QED  BY <1>3, <2>1, <2>2
<1>5. CASE m = "peqt"
  <2>1. \A i \in 1..Len(Matching(k)) : AtLocation(Matching(k)[i]) = Matching(k)[i]
    <3>1. \A i \in 1..Len(Matching(k)) : Matching(k)[i] \in Members(k)
      BY <1>3 DEF Members
    <3>. HIDE DEF Matching
    <3>. QED  BY <1>2, <1>5, <3>1 DEF Members
  <2>2. Located(Matching(k)) = Matching(k)
    <3>. HIDE DEF Matching
    <3>. QED  BY <1>3, <2>1
  <2>3. Candidates(m, f) = Located(Matching(k))
    BY <1>5 DEF Candidates
  <2>. QED  BY <1>3, <2>2, <2>3
<1>6. CASE m \notin {"smqt", "peqt"}
  <2>1. Candidates(m, f) = Matching(k)
    BY <1>6 DEF Candidates
  <2>. QED  BY <1>3, <2>1
<1>. QED  BY <1>4, <1>5, <1>6

\* The GPUs that get a worker.
Chosen(m, f) ==
    LET candidates == Candidates(m, f)
    IN Filtered(candidates, {i \in 1..Len(candidates) : Selects(m, f, candidates[i])})

LEMMA ChosenAre ==
  ASSUME MachineIs, NEW m \in ActionModules, NEW f, m \in {"peqt", "smqt"} => DistinctPlaces
  PROVE  /\ Chosen(m, f) \in Seq(GpuType) /\ OwnIds(Chosen(m, f))
         /\ Members(Chosen(m, f)) = {g \in Members(KnownGpus) : DeviceMatches(f, g) /\ Selects(m, f, g)}
<1>. DEFINE c == Candidates(m, f)
            places == {i \in 1..Len(c) : Selects(m, f, c[i])}
<1>1. /\ c \in Seq(GpuType) /\ OwnIds(c)
      /\ Members(c) = {g \in Members(KnownGpus) : DeviceMatches(f, g)}
  BY CandidatesAre
<1>2. Chosen(m, f) = Filtered(c, places)
  BY DEF Chosen
<1>. HIDE DEF c
<1>3. places \in SUBSET (1..Len(c))
  OBVIOUS
<1>4. /\ Filtered(c, places) \in Seq(GpuType) /\ OwnIds(Filtered(c, places))
      /\ Members(Filtered(c, places)) = {c[i] : i \in places}
  BY <1>1, <1>3, FilteredGpus
<1>5. {c[i] : i \in places} = {g \in Members(c) : Selects(m, f, g)}
  BY DEF Members
<1>. QED  BY <1>1, <1>2, <1>4, <1>5

-----------------------------------------------------------------------------
(* Actions: what a configuration asks for, and what its filter selects.    *)

LEMMA NarrowKeeps == \A n \in Nat : n < 65536 => Narrow16(n) = n
BY DEF Narrow16

\* A list that is there is taken as it is, when its numbers fit.
LEMMA ListTaken ==
  ASSUME NEW l \in ListType, l.kind = "list" => l.list # <<>>, \A i \in 1..Len(l.list) : l.list[i] < 65536
  PROVE  /\ ~Given(l) => ListOf(l) = <<>> /\ ToSet(ListOf(l)) = {}
         /\ Given(l) => ListOf(l) # <<>> /\ ToSet(ListOf(l)) = ToSet(l.list) /\ ToSet(l.list) # {}
<1>1. CASE ~Given(l)
  BY <1>1 DEF Given, ListOf, ToSet
<1>2. CASE Given(l)
  <2>. DEFINE s == l.list
  <2>1. s \in Seq(Nat) /\ s # <<>> /\ \A i \in 1..Len(s) : s[i] < 65536
    BY <1>2 DEF ListType, Given
  <2>2. ListOf(l) = [i \in 1..Len(s) |-> Narrow16(s[i])]
    BY <1>2 DEF Given, ListOf
  <2>. HIDE DEF s
  <2>3. \A i \in 1..Len(s) : Narrow16(s[i]) = s[i]
    BY <2>1, NarrowKeeps
  <2>4. ListOf(l) = s
    BY <2>1, <2>2, <2>3
  <2>5. ToSet(s) # {}
    <3>1. 1 \in 1..Len(s) /\ DOMAIN s = 1..Len(s)
      BY <2>1
    <3>2. s[1] \in ToSet(s)
      <4>1. ToSet(s) = {s[i] : i \in DOMAIN s}
        BY DEF ToSet
      <4>. QED  BY <3>1, <4>1
    <3>. QED  BY <3>2
  <2>. QED  BY <1>2, <2>1, <2>4, <2>5 DEF s
<1>. QED  BY <1>1, <1>2

LEMMA FilterAsks ==
  ASSUME NEW c \in ConfigType, c = Conf, Fits, c.device.kind \in {"all", "list"}
  PROVE  LET f == Filter(c)
         IN  /\ f.deviceid = c.deviceid
             /\ f.device = IF Given(c.device) THEN ToSet(c.device.list) ELSE {}
             /\ f.index = IF Given(c.index) THEN ToSet(c.index.list) ELSE {}
             /\ Given(c.device) => f.device # {}
             /\ Given(c.index) => f.index # {}
             /\ Resets(c.module) =>
                  f.deviceAll = f.indexAll /\ f.deviceAll = (~Given(c.device) /\ ~Given(c.index))
             /\ ~Resets(c.module) => f.deviceAll = ~Given(c.device)
<1>. DEFINE f == Filter(c)
            narrow == Resets(c.module) /\ (ListOf(c.device) # <<>> \/ ListOf(c.index) # <<>>)
<1>1. c.device \in ListType /\ c.index \in ListType /\ c.deviceid \in Nat
  BY DEF ConfigType
<1>2. /\ ~Given(c.device) => ListOf(c.device) = <<>> /\ ToSet(ListOf(c.device)) = {}
      /\ Given(c.device) => /\ ListOf(c.device) # <<>> /\ ToSet(ListOf(c.device)) = ToSet(c.device.list)
                            /\ ToSet(c.device.list) # {}
      /\ ~Given(c.index) => ListOf(c.index) = <<>> /\ ToSet(ListOf(c.index)) = {}
      /\ Given(c.index) => /\ ListOf(c.index) # <<>> /\ ToSet(ListOf(c.index)) = ToSet(c.index.list)
                           /\ ToSet(c.index.list) # {}
  BY <1>1, ListTaken DEF Fits
<1>3. Narrow16(c.deviceid) = c.deviceid
  BY <1>1 DEF Narrow16, Fits
<1>4. /\ f.device = ToSet(ListOf(c.device)) /\ f.index = ToSet(ListOf(c.index))
      /\ f.deviceid = Narrow16(c.deviceid)
      /\ f.deviceAll = (~narrow /\ DeviceFlag(c.device))
      /\ f.indexAll = (~narrow /\ IndexFlag(c.index))
  BY DEF Filter
<1>. HIDE DEF f
<1>5. DeviceFlag(c.device) = ~Given(c.device) /\ IndexFlag(c.index) = ~Given(c.index)
  BY DEF DeviceFlag, IndexFlag, Given
<1>6. narrow = (Resets(c.module) /\ (Given(c.device) \/ Given(c.index)))
  BY <1>2
<1>. HIDE DEF narrow
<1>. QED  BY <1>2, <1>3, <1>4, <1>5, <1>6 DEF f

LEMMA SelectsAsked ==
  ASSUME NEW c \in ConfigType, c = Conf, Fits, c.device.kind \in {"all", "list"},
         c.module \notin Handed, NEW g \in GpuType
  PROVE  LET f == Filter(c)
         IN  /\ Asked(g, FALSE) => DeviceMatches(f, g) /\ Selects(c.module, f, g)
             /\ DeviceMatches(f, g) /\ Selects(c.module, f, g) /\ c.module # "smqt" => Asked(g, TRUE)
<1>. DEFINE f == Filter(c)
            D == Given(c.device)
            X == Given(c.index)
            inD == g.id \in ToSet(c.device.list)
            inX == g.index \in ToSet(c.index.list)
<1>1. /\ f.deviceid = c.deviceid
      /\ f.device = IF Given(c.device) THEN ToSet(c.device.list) ELSE {}
      /\ f.index = IF Given(c.index) THEN ToSet(c.index.list) ELSE {}
      /\ Given(c.device) => f.device # {}
      /\ Given(c.index) => f.index # {}
      /\ Resets(c.module) => f.deviceAll = f.indexAll /\ f.deviceAll = (~Given(c.device) /\ ~Given(c.index))
      /\ ~Resets(c.module) => f.deviceAll = ~Given(c.device)
  BY FilterAsks
<1>. HIDE DEF f
<1>2. /\ g.id \in f.device <=> D /\ inD
      /\ g.index \in f.index <=> X /\ inX
      /\ f.device = {} <=> ~D
      /\ f.index = {} <=> ~X
  BY <1>1
<1>3. DeviceMatches(f, g) <=> c.deviceid \in {0, g.device}
  BY <1>1 DEF DeviceMatches
<1>4. \A any \in BOOLEAN : Asked(g, any) <=>
        /\ c.deviceid \in {0, g.device}
        /\ \/ ~D /\ ~X
           \/ IF any THEN (D /\ inD) \/ (X /\ inX) ELSE (D => inD) /\ (X => inX)
  <2>1. Names(g)[1] = inD /\ Names(g)[2] = inX
    BY DEF Names
  <2>2. \A any \in BOOLEAN : Asked(g, any) <=>
          /\ c.deviceid \in {0, g.device}
          /\ LET byDevice == D /\ Names(g)[1]
                 byIndex  == X /\ Names(g)[2]
             IN \/ ~D /\ ~X
                \/ IF any THEN byDevice \/ byIndex ELSE (D => byDevice) /\ (X => byIndex)
    BY DEF Asked
  <2>. HIDE DEF D, X, inD, inX
  <2>. QED  BY <2>1, <2>2
<1>5. CASE c.module \in Stressing
  <2>1. Resets(c.module) /\ c.module # "smqt"
    BY <1>5 DEF Resets, HasBase, Stressing, Queries
  <2>2. Selects(c.module, f, g) <=> Fetched(f, g)
    BY <1>5, <2>1 DEF Selects
  <2>3. Fetched(f, g) <=> (~D /\ ~X) \/ (D /\ inD) \/ (X /\ inX)
    BY <1>1, <1>2, <2>1 DEF Fetched
  <2>. HIDE DEF D, X, inD, inX
  <2>. QED  BY <1>3, <1>4, <2>1, <2>2, <2>3 DEF f
<1>6. CASE c.module \in {"peqt", "gpup"}
  <2>1. Resets(c.module) /\ c.module \notin Stressing /\ c.module # "smqt"
    BY <1>6 DEF Resets, Stressing
  <2>2. Selects(c.module, f, g) <=> Agreed(f, g)
    BY <2>1 DEF Selects
  <2>3. Agreed(f, g) <=> (~D /\ ~X) \/ ((D => inD) /\ (X => inX))
    BY <1>1, <1>2, <2>1 DEF Agreed
  <2>. HIDE DEF D, X, inD, inX
  <2>. QED  BY <1>3, <1>4, <2>1, <2>2, <2>3 DEF f
<1>7. CASE c.module = "smqt"
  <2>1. ~Resets(c.module) /\ c.module \notin Stressing
    BY <1>7 DEF Resets, HasBase, Stressing, Queries
  <2>2. Selects(c.module, f, g) <=> OnDeviceList(f, g)
    BY <1>7, <2>1 DEF Selects
  <2>3. OnDeviceList(f, g) <=> (~D \/ inD)
    BY <1>1, <1>2, <2>1 DEF OnDeviceList
  <2>. HIDE DEF D, X, inD, inX
  <2>. QED  BY <1>3, <1>4, <1>7, <2>2, <2>3 DEF f
<1>8. c.module \in Stressing \cup Queries
  BY DEF ConfigType, ActionModules
<1>. QED  BY <1>5, <1>6, <1>7, <1>8 DEF Queries

-----------------------------------------------------------------------------
(* Actions: the invariant.                                                 *)

NoDuration == IF Module \in {"perf", "mem", "babel"} THEN {"property_duration"} ELSE {}

\* What has been read is in order, and what it left unset it left in order.
KeysInOrder ==
    /\ apc \in {"own", "rules"} \/ Accepted => ~CommonFails /\ filter = Filter(Conf)
    /\ apc = "rules" \/ Accepted => ~FailedOf(OwnKeys(Module), Conf)
    /\ apc = "own" => unset \subseteq UnsetOf(CommonKeys(Module), Conf) \cup NoDuration
    /\ apc = "rules" \/ Accepted =>
          unset \subseteq UnsetOf(CommonKeys(Module), Conf) \cup UnsetOf(OwnKeys(Module), Conf) \cup NoDuration

\* Whom the action works on, and what it has said.
SelectionDone ==
    /\ apc \in {"select", "run"} => Module \notin Handed
    /\ apc \notin {"run", "end"} => tested = <<>>
    /\ apc = "run" =>
        /\ Len(tested) = Len(Chosen(Module, filter))
        /\ \A i \in 1..Len(tested) : tested[i].gpu = Chosen(Module, filter)[i].id
        /\ Module # "smqt" => tested # <<>>

VerdictTold ==
    /\ apc # "end" => status = "none"
    /\ SuccessMeansTested /\ ReturnAgrees

ActInv ==
    /\ batch \in Seq(ConfigType) /\ batch # <<>> /\ MachineIs
    /\ apc \in {"common", "own", "rules", "select", "run", "end"}
    /\ KeysInOrder /\ SelectionDone /\ VerdictTold

LEMMA ConfIs == ASSUME batch \in Seq(ConfigType), batch # <<>> PROVE Conf \in ConfigType
BY DEF Conf

LEMMA ActInitOk == ActionsInit => ActInv
<1>. SUFFICES ASSUME ActionsInit PROVE ActInv
  OBVIOUS
<1>1. /\ batch \in Batches /\ gpus \in Machines /\ apc = "common" /\ tested = <<>>
      /\ status = "none"
  BY DEF ActionsInit, ActionsStart
<1>2. batch \in Seq(ConfigType) /\ batch # <<>> /\ MachineIs
  BY <1>1, ActionConstants DEF MachineIs
<1>3. ~Accepted
  BY <1>1 DEF Accepted
<1>. QED  BY <1>1, <1>2, <1>3 DEF ActInv, KeysInOrder, SelectionDone, VerdictTold,
                                   SuccessMeansTested, ReturnAgrees

LEMMA RefuseOk ==
  ASSUME ActInv, Refuse, UNCHANGED <<gpus, batch>>
  PROVE  ActInv'
<1>1. /\ apc' = "end" /\ status' \in {"none", "FAILED"} /\ result' \in {1, -1}
      /\ batch' = batch /\ gpus' = gpus
  BY DEF Refuse, End
<1>2. ~Accepted'
  BY <1>1 DEF Accepted
<1>3. KeysInOrder'
  BY <1>1, <1>2 DEF KeysInOrder
<1>4. SelectionDone'
  BY <1>1 DEF SelectionDone
<1>5. SuccessMeansTested'
  BY <1>1 DEF SuccessMeansTested
<1>6. ReturnAgrees'
  BY <1>1 DEF ReturnAgrees
<1>. QED  BY <1>1, <1>3, <1>4, <1>5, <1>6 DEF ActInv, VerdictTold, MachineIs

\* A name that is missing is never accepted.
LEMMA NameAccepted ==
  ASSUME ~FailedOf(CommonKeys(Module), Conf)
  PROVE  ~(Conf.bad = "name" /\ Conf.how = "absent")
<1>. SUFFICES ASSUME Conf.bad = "name", Conf.how = "absent" PROVE FALSE
  OBVIOUS
<1>1. PICK k \in CommonKeys(Module) : k.name = "name" /\ k.type = "string" /\ k.style = "required"
  <2>. DEFINE key == [name |-> "name", type |-> "string", style |-> "required"]
  <2>1. key \in CommonKeys(Module) /\ key.name = "name" /\ key.type = "string" /\ key.style = "required"
    BY NameIsKey
  <2>. QED  BY <2>1
<1>2. Code(k, Conf.how) = 2
  BY <1>1 DEF Code
<1>3. KeyFails(k, Conf.how)
  BY <1>1, <1>2 DEF KeyFails
<1>. QED  BY <1>1, <1>3 DEF FailedOf, BadOf

LEMMA ReadsCommonOk == ASSUME ActInv, ReadsCommon PROVE ActInv'
<1>1. CASE CommonFails \/ (Module = "smqt" /\ ~keysts)
  BY <1>1, RefuseOk DEF ReadsCommon
<1>2. CASE ~(CommonFails \/ (Module = "smqt" /\ ~keysts))
  <2>1. /\ apc = "common" /\ apc' = "own" /\ tested' = tested /\ status' = status /\ result' = result
        /\ batch' = batch /\ gpus' = gpus /\ ~CommonFails
        /\ unset' = UnsetOf(CommonKeys(Module), Conf) \cup NoDuration
        /\ filter' = IF Conf.bad = "name" /\ Conf.how = "absent" THEN NoFilter ELSE Filter(Conf)
    BY <1>2 DEF ReadsCommon, endVars, NoDuration
  <2>2. filter' = Filter(Conf)
    BY <2>1, NameAccepted DEF CommonFails
  <2>3. Conf' = Conf /\ Module' = Module /\ CommonFails' = CommonFails /\ NoDuration' = NoDuration
    BY <2>1 DEF Conf, Module, CommonFails, ListsFail, NoDuration
  <2>4. status = "none" /\ tested = <<>> /\ ~Accepted'
    BY <2>1 DEF ActInv, VerdictTold, SelectionDone, Accepted
  <2>5. KeysInOrder'
    BY <2>1, <2>2, <2>3, <2>4 DEF KeysInOrder
  <2>6. SelectionDone' /\ VerdictTold'
    BY <2>1, <2>4 DEF SelectionDone, VerdictTold, SuccessMeansTested, ReturnAgrees
  <2>. QED  BY <2>1, <2>5, <2>6 DEF ActInv, MachineIs
<1>. QED  BY <1>1, <1>2

LEMMA ReadsOwnOk == ASSUME ActInv, ReadsOwn PROVE ActInv'
<1>1. CASE failed'
  BY <1>1, RefuseOk DEF ReadsOwn
<1>2. CASE ~failed'
  <2>1. /\ apc = "own" /\ apc' = "rules" /\ tested' = tested /\ status' = status /\ result' = result
        /\ batch' = batch /\ gpus' = gpus /\ filter' = filter
        /\ ~FailedOf(OwnKeys(Module), Conf)
        /\ unset' = unset \cup UnsetOf(OwnKeys(Module), Conf)
    BY <1>2 DEF ReadsOwn, endVars
  <2>3. Conf' = Conf /\ Module' = Module /\ CommonFails' = CommonFails /\ NoDuration' = NoDuration
    BY <2>1 DEF Conf, Module, CommonFails, ListsFail, NoDuration
  <2>4. status = "none" /\ tested = <<>> /\ ~Accepted'
    BY <2>1 DEF ActInv, VerdictTold, SelectionDone, Accepted
  <2>5. ~CommonFails /\ filter = Filter(Conf) /\ unset \subseteq UnsetOf(CommonKeys(Module), Conf) \cup NoDuration
    BY <2>1 DEF ActInv, KeysInOrder
  <2>6. KeysInOrder'
    BY <2>1, <2>3, <2>4, <2>5 DEF KeysInOrder
  <2>7. SelectionDone' /\ VerdictTold'
    BY <2>1, <2>4 DEF SelectionDone, VerdictTold, SuccessMeansTested, ReturnAgrees
  <2>. QED  BY <2>1, <2>6, <2>7 DEF ActInv, MachineIs
<1>. QED  BY <1>1, <1>2

LEMMA ChecksRulesOk == ASSUME ActInv, ChecksRules PROVE ActInv'
<1>1. PICK broken \in BreaksRule :
         /\ failed' = broken
         /\ CASE broken -> Refuse
              [] ~broken /\ Module \in Handed -> End("handed", 0) /\ UNCHANGED tested
              [] OTHER -> apc' = "select" /\ UNCHANGED endVars
  BY DEF ChecksRules
<1>2. apc = "rules" /\ UNCHANGED <<gpus, batch, unset, filter, keysts>>
  BY DEF ChecksRules
<1>3. Conf' = Conf /\ Module' = Module /\ CommonFails' = CommonFails /\ NoDuration' = NoDuration
  BY <1>2 DEF Conf, Module, CommonFails, ListsFail, NoDuration
<1>4. /\ status = "none" /\ tested = <<>>
      /\ ~CommonFails /\ filter = Filter(Conf) /\ ~FailedOf(OwnKeys(Module), Conf)
      /\ unset \subseteq UnsetOf(CommonKeys(Module), Conf) \cup UnsetOf(OwnKeys(Module), Conf) \cup NoDuration
  BY <1>2 DEF ActInv, VerdictTold, SelectionDone, KeysInOrder
<1>5. apc' \in {"select", "end"} => KeysInOrder'
  BY <1>2, <1>3, <1>4 DEF KeysInOrder
<1>6. CASE Refuse
  BY <1>2, <1>6, RefuseOk
<1>7. CASE Module \in Handed /\ End("handed", 0) /\ UNCHANGED tested
  <2>1. apc' = "end" /\ status' = "handed" /\ result' = 0
    BY <1>7 DEF End
  <2>2. SelectionDone' /\ VerdictTold'
    BY <2>1 DEF SelectionDone, VerdictTold, SuccessMeansTested, ReturnAgrees
  <2>. QED  BY <1>2, <1>5, <2>1, <2>2 DEF ActInv, MachineIs
<1>8. CASE Module \notin Handed /\ apc' = "select" /\ UNCHANGED endVars
  <2>1. status' = "none" /\ tested' = <<>> /\ Module' \notin Handed
    BY <1>3, <1>4, <1>8 DEF endVars
  <2>2. SelectionDone' /\ VerdictTold'
    BY <1>8, <2>1 DEF SelectionDone, VerdictTold, SuccessMeansTested, ReturnAgrees
  <2>. QED  BY <1>2, <1>5, <1>8, <2>2 DEF ActInv, MachineIs
<1>9. broken \in BOOLEAN
  <2>1. BreaksRule \subseteq BOOLEAN
    <3>1. (Conf.broken \in Rules(Module)) \in BOOLEAN
      OBVIOUS
    <3>2. BreaksRule = BOOLEAN \/ BreaksRule = {Conf.broken \in Rules(Module)}
      BY Zenon DEF BreaksRule
    <3>. QED  BY <3>1, <3>2
  <2>. QED  BY <2>1
<1>. QED  BY <1>1, <1>6, <1>7, <1>8, <1>9

\* What a loop puts aside is no longer than what it runs over.
LEMMA FilteredHasLength ==
  ASSUME NEW s, NEW places, Len(s) \in Nat, places \subseteq 1..Len(s)
  PROVE  Len(Filtered(s, places)) \in 0..Len(s)
<1>. DEFINE n == Len(s)
<1>0. n \in Nat /\ places \subseteq 1..n
  OBVIOUS
<1>. HIDE DEF n
<1>1. IsFiniteSet(1..n) /\ Cardinality(1..n) = n
  BY <1>0, FS_Interval
<1>2. Cardinality(places) \in Nat /\ Cardinality(places) <= n
  BY <1>0, <1>1, FS_Subset, FS_CardinalityType
<1>. HIDE DEF Filtered
<1>3. Len(Filtered(s, places)) = Cardinality(places)
  BY <1>2 DEF Filtered
<1>. QED  BY <1>0, <1>2, <1>3 DEF n

LEMMA CandidatesHaveLength == ASSUME gpus \in Seq(GpuType) PROVE Len(Candidates(Module, filter)) \in Nat
<1>. DEFINE Matching(s) == Filtered(s, {i \in 1..Len(s) : DeviceMatches(filter, s[i])})
            Located(s)  == [i \in 1..Len(s) |-> AtLocation(s[i])]
<1>1. ASSUME NEW s, NEW places, Len(s) \in Nat, places \subseteq 1..Len(s)
      PROVE  Len(Filtered(s, places)) \in Nat
  BY <1>1, FilteredHasLength
<1>2. Len(gpus) \in Nat
  OBVIOUS
<1>3. Len(KnownGpus) \in Nat
  BY <1>1, <1>2 DEF KnownGpus
<1>4. ASSUME NEW s, Len(s) \in Nat PROVE Len(Matching(s)) \in Nat
  BY <1>1, <1>4
<1>5. ASSUME NEW s, Len(s) \in Nat PROVE Len(Located(s)) \in Nat
  BY <1>5
<1>6. \/ Candidates(Module, filter) = Matching(Located(KnownGpus))
      \/ Candidates(Module, filter) = Located(Matching(KnownGpus))
      \/ Candidates(Module, filter) = Matching(KnownGpus)
  BY DEF Candidates
<1>. HIDE DEF Matching, Located
<1>. QED  BY <1>3, <1>4, <1>5, <1>6

LEMMA ChosenHasLength ==
  ASSUME gpus \in Seq(GpuType)
  PROVE  Len(Chosen(Module, filter)) \in 0..Len(Candidates(Module, filter))
BY CandidatesHaveLength, FilteredHasLength DEF Chosen

LEMMA ConfigurationStays ==
  ASSUME UNCHANGED <<gpus, batch, filter>>
  PROVE  /\ Conf' = Conf /\ Module' = Module /\ CommonFails' = CommonFails /\ NoDuration' = NoDuration
         /\ Chosen(Module, filter)' = Chosen(Module, filter)
BY DEF Conf, Module, CommonFails, ListsFail, NoDuration, Chosen, Candidates, KnownGpus, AtLocation

LEMMA SelectsGpusOk == ASSUME ActInv, SelectsGpus PROVE ActInv'
<1>. DEFINE candidates == Candidates(Module, filter)
            chosen == Chosen(Module, filter)
            mcm == McmTypes(candidates)
            found == IF Module = "smqt" THEN candidates # <<>> ELSE chosen # <<>>
<1>1. /\ apc = "select" /\ UNCHANGED <<gpus, batch, failed, unset, filter, keysts>>
      /\ IF found
         THEN /\ tested' = [i \in 1..Len(chosen) |-> [gpu |-> chosen[i].id, mcm |-> mcm[i]]]
              /\ apc' = "run" /\ UNCHANGED <<status, result>>
         ELSE NoGpus /\ UNCHANGED tested
  BY DEF SelectsGpus, Chosen, keyVars
<1>. HIDE DEF candidates, mcm
<1>2. /\ Conf' = Conf /\ Module' = Module /\ CommonFails' = CommonFails /\ NoDuration' = NoDuration
      /\ Chosen(Module, filter)' = Chosen(Module, filter)
  BY ONLY <1>1, ConfigurationStays
<1>3. /\ status = "none" /\ Module \notin Handed
      /\ ~CommonFails /\ filter = Filter(Conf) /\ ~FailedOf(OwnKeys(Module), Conf)
      /\ unset \subseteq UnsetOf(CommonKeys(Module), Conf) \cup UnsetOf(OwnKeys(Module), Conf) \cup NoDuration
  BY <1>1 DEF ActInv, VerdictTold, SelectionDone, KeysInOrder, Accepted
<1>4. apc' \in {"run", "end"} => KeysInOrder'
  BY <1>1, <1>2, <1>3 DEF KeysInOrder
<1>5. CASE found
  <2>. HIDE DEF chosen, found
  <2>1. /\ apc' = "run" /\ status' = "none"
        /\ tested' = [i \in 1..Len(chosen) |-> [gpu |-> chosen[i].id, mcm |-> mcm[i]]]
    BY <1>1, <1>3, <1>5
  <2>2. Len(chosen) \in Nat
    BY ChosenHasLength, CandidatesHaveLength DEF chosen, ActInv, MachineIs
  <2>3. Len(tested') = Len(chosen) /\ \A i \in 1..Len(chosen) : tested'[i].gpu = chosen[i].id
    BY <2>1, <2>2
  <2>4. Module # "smqt" => tested' # <<>>
    BY <1>5, <2>1 DEF found
  <2>5. SelectionDone'
    BY <1>2, <1>3, <2>1, <2>3, <2>4 DEF SelectionDone, chosen
  <2>6. VerdictTold'
    BY <2>1 DEF VerdictTold, SuccessMeansTested, ReturnAgrees
  <2>. QED  BY <1>1, <1>4, <2>1, <2>5, <2>6 DEF ActInv, MachineIs
<1>6. CASE ~found
  <2>. HIDE DEF chosen, found
  <2>1. NoGpus
    BY <1>1, <1>6
  <2>2. /\ apc' = "end"
        /\ \/ status' = "SUCCESS" /\ result' = 0 /\ (Module = "tst" \/ (Module = "perf" /\ gpus = <<>>))
           \/ status' = "FAILED" /\ result' = -1
    BY <2>1 DEF NoGpus, End
  <2>3. SelectionDone' /\ VerdictTold'
    BY <1>1, <1>2, <2>2 DEF SelectionDone, VerdictTold, SuccessMeansTested, ReturnAgrees
  <2>. QED  BY <1>1, <1>4, <2>2, <2>3 DEF ActInv, MachineIs
<1>. QED  BY <1>5, <1>6

LEMMA RunsOk == ASSUME ActInv, Runs PROVE ActInv'
<1>1. PICK ok \in BOOLEAN :
        /\ ~ok => tested # <<>>
        /\ End(IF ok \/ Module = "peqt" THEN "SUCCESS" ELSE "FAILED",
               IF Module = "perf" THEN 1 ELSE IF ok \/ Module = "peqt" THEN 0 ELSE -1)
  BY DEF Runs
<1>2. apc = "run" /\ UNCHANGED <<gpus, batch, failed, unset, filter, tested, keysts>>
  BY DEF Runs, keyVars
<1>3. apc' = "end" /\ status' \in {"SUCCESS", "FAILED"}
  BY <1>1 DEF End
<1>4. Conf' = Conf /\ Module' = Module /\ ~Accepted'
  BY <1>2, <1>3 DEF Conf, Module, Accepted
<1>5. KeysInOrder' /\ SelectionDone'
  BY <1>3, <1>4 DEF KeysInOrder, SelectionDone
<1>6. SuccessMeansTested'
  BY <1>2, <1>4 DEF ActInv, SelectionDone, SuccessMeansTested
<1>7. ReturnAgrees'
  BY <1>1, <1>4 DEF End, ReturnAgrees
<1>. QED  BY <1>2, <1>3, <1>5, <1>6, <1>7 DEF ActInv, VerdictTold, MachineIs

LEMMA NextActionOk == ASSUME ActInv, NextAction PROVE ActInv'
<1>1. /\ Len(batch) > 1 /\ batch' = Tail(batch) /\ gpus' = gpus
      /\ apc' = "common" /\ tested' = <<>> /\ status' = "none"
  BY DEF NextAction
<1>2. batch' \in Seq(ConfigType) /\ batch' # <<>>
  <2>1. batch \in Seq(ConfigType)
    BY DEF ActInv
  <2>2. Tail(batch) \in Seq(ConfigType) /\ Len(Tail(batch)) = Len(batch) - 1
    BY <1>1, <2>1
  <2>. QED  BY <1>1, <2>2
<1>3. ~Accepted'
  BY <1>1 DEF Accepted
<1>4. KeysInOrder' /\ SelectionDone' /\ VerdictTold'
  BY <1>1, <1>3 DEF KeysInOrder, SelectionDone, VerdictTold, SuccessMeansTested, ReturnAgrees
<1>. QED  BY <1>1, <1>2, <1>4 DEF ActInv, MachineIs

LEMMA ActStep == ActInv /\ [ActionsNext]_actionVars => ActInv'
<1>. SUFFICES ASSUME ActInv, [ActionsNext]_actionVars PROVE ActInv'
  OBVIOUS
<1>1. CASE ActionsNext
  BY <1>1, ReadsCommonOk, ReadsOwnOk, ChecksRulesOk, SelectsGpusOk, RunsOk, NextActionOk DEF ActionsNext
<1>2. CASE UNCHANGED actionVars
  <2>1. UNCHANGED <<gpus, batch, apc, failed, unset, filter, tested, status, result, keysts>>
    BY <1>2 DEF actionVars, keyVars, endVars
  <2>2. Conf' = Conf /\ Module' = Module /\ CommonFails' = CommonFails /\ NoDuration' = NoDuration
        /\ Accepted' = Accepted /\ Chosen(Module, filter)' = Chosen(Module, filter)
    BY <2>1 DEF Conf, Module, CommonFails, ListsFail, NoDuration, Accepted, Chosen, Candidates,
                KnownGpus, AtLocation
  <2>3. KeysInOrder'
    BY <2>1, <2>2 DEF ActInv, KeysInOrder
  <2>4. SelectionDone' /\ VerdictTold'
    BY <2>1, <2>2 DEF ActInv, SelectionDone, VerdictTold, SuccessMeansTested, ReturnAgrees
  <2>. QED  BY <2>1, <2>3, <2>4 DEF ActInv, MachineIs
<1>. QED  BY <1>1, <1>2

-----------------------------------------------------------------------------
(* Actions: what the invariant gives.                                      *)

\* A key in order, in terms of the configuration.
LEMMA AcceptedKeys ==
  ASSUME ActInv, Accepted
  PROVE  /\ Conf \in ConfigType /\ ~ListsFail
         /\ \A k \in AllKeys : k.name = Conf.bad =>
               /\ Conf.how = "invalid" => k.type = "string" \/ k.name = "exclude"
               /\ k.name \in Needed => Conf.how # "absent"
               /\ LeavesUnset(k, Conf.how) => k.style = "lenient" /\ Conf.how = "empty"
<1>1. Conf \in ConfigType
  BY ConfIs DEF ActInv
<1>2. ~CommonFails /\ ~FailedOf(OwnKeys(Module), Conf)
  BY DEF ActInv, KeysInOrder
<1>3. ASSUME NEW k \in AllKeys, k.name = Conf.bad PROVE ~KeyFails(k, Conf.how) /\ Regular(k)
  BY <1>2, <1>3, KeysRegular DEF CommonFails, FailedOf, BadOf, AllKeys
<1>4. Conf.how \in {"absent", "empty", "invalid"}
  BY <1>1 DEF ConfigType
<1>. QED  BY <1>1, <1>2, <1>3, <1>4, AcceptedKey DEF CommonFails

LEMMA UnsetNeverUsedOk == ActInv => UnsetNeverUsed
<1>. SUFFICES ASSUME ActInv, Accepted, NEW u \in unset
     PROVE  \/ u = "property_duration" /\ Module \in {"perf", "mem", "babel"}
            \/ \E k \in AllKeys : k.name = u /\ k.style = "lenient" /\ Conf.how = "empty"
  BY DEF UnsetNeverUsed
<1>1. u \in UnsetOf(CommonKeys(Module), Conf) \cup UnsetOf(OwnKeys(Module), Conf) \cup NoDuration
  BY DEF ActInv, KeysInOrder
<1>2. CASE u \in NoDuration
  BY <1>2 DEF NoDuration
<1>3. CASE u \in UnsetOf(CommonKeys(Module), Conf) \cup UnsetOf(OwnKeys(Module), Conf)
  <2>1. PICK k \in AllKeys : k.name = u /\ k.name = Conf.bad /\ LeavesUnset(k, Conf.how)
    BY <1>3 DEF UnsetOf, BadOf, AllKeys
  <2>. QED  BY <2>1, AcceptedKeys
<1>. QED  BY <1>1, <1>2, <1>3

LEMMA RefusesInvalidOk == ActInv => RefusesInvalid
<1>. SUFFICES ASSUME ActInv, Accepted PROVE RefusesInvalid
  BY DEF RefusesInvalid
<1>1. \A k \in AllKeys : k.name = Conf.bad =>
        /\ Conf.how = "invalid" => k.type = "string" \/ k.name = "exclude"
        /\ k.name \in Needed => Conf.how # "absent"
  BY AcceptedKeys
<1>2. Conf.device.kind \in {"all", "list"}
  <2>1. Conf \in ConfigType /\ ~ListsFail
    BY AcceptedKeys
  <2>2. Conf.device \in ListType
    BY <2>1 DEF ConfigType
  <2>. QED  BY <2>1, <2>2 DEF ListType, ListsFail
<1>3. Conf.bad \in Needed => Conf.how # "absent" \/ Conf.bad \notin {k.name : k \in AllKeys}
  BY <1>1
<1>. QED  BY <1>1, <1>2, <1>3 DEF RefusesInvalid, Needed

LEMMA RunsWhatIsAskedOk == ActInv => RunsWhatIsAsked
<1>. DEFINE hit == {tested[i].gpu : i \in 1..Len(tested)}
            known == {KnownGpus[i] : i \in 1..Len(KnownGpus)}
            f == Filter(Conf)
            s == Chosen(Module, f)
<1>. SUFFICES ASSUME ActInv, apc = "run", Fits, Module \in {"peqt", "smqt"} => DistinctPlaces
     PROVE  /\ {g.id : g \in {g \in known : Asked(g, FALSE)}} \subseteq hit
            /\ Module # "smqt" => hit \subseteq {g.id : g \in {g \in known : Asked(g, TRUE)}}
            /\ Cardinality(hit) = Len(tested)
  BY DEF RunsWhatIsAsked
<1>1. Conf \in ConfigType /\ ~ListsFail
  BY AcceptedKeys DEF Accepted
<1>2. Conf.device.kind \in {"all", "list"} /\ Module \in ActionModules
  <2>1. Conf.device \in ListType
    BY <1>1 DEF ConfigType
  <2>2. Module \in ActionModules
    BY <1>1 DEF ConfigType, Module
  <2>. QED  BY <1>1, <2>1, <2>2 DEF ListType, ListsFail
<1>3. /\ MachineIs /\ Module \notin Handed /\ filter = f
      /\ Len(tested) = Len(s) /\ \A i \in 1..Len(s) : tested[i].gpu = s[i].id
  BY DEF ActInv, SelectionDone, KeysInOrder, Accepted
<1>4. /\ s \in Seq(GpuType) /\ OwnIds(s)
      /\ Members(s) = {g \in Members(KnownGpus) : DeviceMatches(f, g) /\ Selects(Module, f, g)}
  BY <1>2, <1>3, ChosenAre
<1>5. known = Members(KnownGpus) /\ \A g \in known : g \in GpuType
  BY <1>3, KnownAre DEF Members
<1>6. \A g \in GpuType :
        /\ Asked(g, FALSE) => DeviceMatches(f, g) /\ Selects(Module, f, g)
        /\ DeviceMatches(f, g) /\ Selects(Module, f, g) /\ Module # "smqt" => Asked(g, TRUE)
  BY <1>1, <1>2, <1>3, SelectsAsked DEF Module
<1>. HIDE DEF s, f, known
<1>7. hit = {s[i].id : i \in 1..Len(s)}
  BY <1>3
<1>8. hit = {g.id : g \in Members(s)}
  BY <1>7 DEF Members
<1>. HIDE DEF hit
<1>9. {g.id : g \in {g \in known : Asked(g, FALSE)}} \subseteq hit
  BY <1>4, <1>5, <1>6, <1>8
<1>10. Module # "smqt" => hit \subseteq {g.id : g \in {g \in known : Asked(g, TRUE)}}
  BY <1>4, <1>5, <1>6, <1>8
<1>11. Cardinality(hit) = Len(s)
  <2>. DEFINE ids == [i \in 1..Len(s) |-> s[i].id]
  <2>1. Len(s) \in Nat
    BY <1>4
  <2>2. ids \in Bijection(1..Len(s), hit)
    <3>1. ids \in [1..Len(s) -> hit] /\ \A x \in hit : \E i \in 1..Len(s) : ids[i] = x
      BY <1>7
    <3>2. \A i, j \in 1..Len(s) : ids[i] = ids[j] => i = j
      BY <1>4 DEF OwnIds
    <3>. HIDE DEF ids
    <3>. QED  BY <3>1, <3>2 DEF Bijection, Injection, Surjection, IsInjective
  <2>3. IsFiniteSet(1..Len(s)) /\ Cardinality(1..Len(s)) = Len(s)
    <3>. DEFINE n == Len(s)
    <3>1. n \in Int /\ 1 \in Int /\ n \in Nat
      BY <2>1
    <3>. HIDE DEF n
    <3>2. IsFiniteSet(1..n) /\ Cardinality(1..n) = IF 1 > n THEN 0 ELSE n - 1 + 1
      BY ONLY <3>1, FS_Interval
    <3>3. IsFiniteSet(1..n) /\ Cardinality(1..n) = n
      BY ONLY <3>1, <3>2
    <3>. QED  BY ONLY <3>3 DEF n
  <2>. HIDE DEF ids
  <2>4. ExistsBijection(1..Len(s), hit)
    BY <2>2 DEF ExistsBijection
  <2>. QED  BY <2>3, <2>4, FS_Bijection
<1>. QED  BY <1>3, <1>9, <1>10, <1>11

\* A key that fails is the one the configuration has out of order.
LEMMA FailsForAReason ==
  ASSUME NEW keys, keys \subseteq AllKeys, FailedOf(keys, Conf) PROVE Conf.bad # ""
<1>1. PICK k \in keys : k.name = Conf.bad
  BY DEF FailedOf, BadOf
<1>. QED  BY <1>1, KeysRegular DEF Regular

Unreasoned ==
    \/ apc # "end" /\ apc' = "end" /\ failed' /\ ~failed
    \/ apc = "common" /\ apc' = "end"

LEMMA RefusedForAReasonStep ==
  ASSUME [ActionsNext]_actionVars, Unreasoned PROVE HasReason
<1>1. CASE ReadsCommon
  <2>1. CommonFails \/ (Module = "smqt" /\ ~keysts)
    BY <1>1 DEF ReadsCommon, Unreasoned
  <2>2. CommonFails => ListsFail \/ Conf.bad # ""
    BY FailsForAReason DEF CommonFails, AllKeys
  <2>. QED  BY <2>1, <2>2 DEF HasReason
<1>2. CASE ReadsOwn
  <2>1. FailedOf(OwnKeys(Module), Conf)
    BY <1>2 DEF ReadsOwn, Unreasoned
  <2>. QED  BY <2>1, FailsForAReason DEF HasReason, AllKeys
<1>3. CASE ChecksRules
  <2>1. apc = "rules" /\ failed' \in BreaksRule /\ failed'
    BY <1>3 DEF ChecksRules, Unreasoned
  <2>2. Module = "perf" \/ Conf.broken \in Rules(Module)
    BY <2>1, Zenon DEF BreaksRule
  <2>3. Conf.broken \in Rules(Module) => Conf.broken # ""
    BY RulesNamed
  <2>. QED  BY <2>2, <2>3 DEF HasReason
<1>4. CASE SelectsGpus \/ Runs \/ NextAction \/ UNCHANGED actionVars
  <2>1. apc # "common" \/ UNCHANGED actionVars
    BY <1>4 DEF SelectsGpus, Runs, NextAction
  <2>2. failed' = failed \/ apc = "end"
    BY <1>4 DEF SelectsGpus, Runs, NextAction, actionVars, keyVars
  <2>3. UNCHANGED actionVars => apc' = apc
    BY DEF actionVars
  <2>. QED  BY <2>1, <2>2, <2>3 DEF Unreasoned
<1>. QED  BY <1>1, <1>2, <1>3, <1>4 DEF ActionsNext

\* Whatever the configurations and the machine: no action refuses without a reason, and
\* none goes on with a value that is missing or malformed, tests a GPU nobody asked
\* for, or claims a success it did not have.
THEOREM ActionsAreSound == ActionsSpec => ActionsSound
<1>1. ActionsInit => ActInv
  BY ActInitOk
<1>2. ActInv /\ [ActionsNext]_actionVars => ActInv'
  BY ActStep
<1>3. ActInv => /\ UnsetNeverUsed /\ RefusesInvalid /\ RunsWhatIsAsked
                /\ SuccessMeansTested /\ ReturnAgrees
  <2>1. ActInv => SuccessMeansTested /\ ReturnAgrees
    BY DEF ActInv, VerdictTold
  <2>. QED  BY <2>1, UnsetNeverUsedOk, RefusesInvalidOk, RunsWhatIsAskedOk
<1>4. [ActionsNext]_actionVars =>
        [(apc # "end" /\ apc' = "end" /\ failed' /\ ~failed) \/ (apc = "common" /\ apc' = "end")
            => HasReason]_actionVars
  BY RefusedForAReasonStep DEF Unreasoned
<1>. QED  BY <1>1, <1>2, <1>3, <1>4, PTL DEF ActionsSpec, ActionsSound, RefusedForAReason

-----------------------------------------------------------------------------
(* Actions: the domains of the rest of the state.                          *)

FilterType == [device: SUBSET Words16, index: SUBSET Words16, deviceAll: BOOLEAN, indexAll: BOOLEAN,
               deviceid: Words16]

ActionDomains ==
    /\ failed \in BOOLEAN /\ keysts \in BOOLEAN
    /\ filter \in FilterType
    /\ \A i \in 1..Len(tested) : tested[i].mcm \in {"PRIMARY", "SECONDARY"}
    /\ status \in {"none", "FAILED", "SUCCESS", "handed"}
    /\ result \in -1..1

LEMMA NoFilterIs == NoFilter \in FilterType
BY DEF NoFilter, FilterType, Words16

LEMMA NarrowIs == \A n \in Nat : Narrow16(n) \in Words16
<1>1. \A n \in Nat, w \in Nat \ {0} : n % w \in Nat /\ n % w < w
  OBVIOUS
<1>. QED  BY <1>1 DEF Narrow16, Words16

\* Whatever a list holds, 16 bits of each number are kept.
LEMMA ListIs == ASSUME NEW l \in ListType PROVE ToSet(ListOf(l)) \subseteq Words16
<1>1. CASE l.kind = "list"
  <2>1. l.list \in Seq(Nat)
    BY DEF ListType
  <2>2. \A i \in 1..Len(l.list) : l.list[i] \in Nat
    BY <2>1
  <2>3. Len(l.list) \in Nat
    BY <2>1
  <2>4. ListOf(l) = [i \in 1..Len(l.list) |-> Narrow16(l.list[i])]
    BY <1>1 DEF ListOf
  <2>5. \A i \in DOMAIN ListOf(l) : ListOf(l)[i] \in Words16
    BY <2>2, <2>4, NarrowIs
  <2>6. DOMAIN ListOf(l) = 1..Len(ListOf(l))
    BY <2>3, <2>4
  <2>. QED  BY <2>5 DEF ToSet
<1>2. CASE l.kind # "list"
  <2>1. ListOf(l) = <<>>
    BY <1>2 DEF ListOf
  <2>2. \A s : s = <<>> => DOMAIN s = {}
    OBVIOUS
  <2>. QED  BY <2>1, <2>2 DEF ToSet
<1>. QED  BY <1>1, <1>2

LEMMA FilterIs == ASSUME NEW c \in ConfigType PROVE Filter(c) \in FilterType
<1>1. c.device \in ListType /\ c.index \in ListType /\ c.deviceid \in Nat
  BY DEF ConfigType
<1>2. ToSet(ListOf(c.device)) \subseteq Words16 /\ ToSet(ListOf(c.index)) \subseteq Words16
      /\ Narrow16(c.deviceid) \in Words16
  BY <1>1, ListIs, NarrowIs
<1>. DEFINE narrow == Resets(c.module) /\ (ListOf(c.device) # <<>> \/ ListOf(c.index) # <<>>)
            d == ~narrow /\ DeviceFlag(c.device)
            x == ~narrow /\ IndexFlag(c.index)
<1>3. d \in BOOLEAN /\ x \in BOOLEAN
  OBVIOUS
<1>4. Filter(c) = [device |-> ToSet(ListOf(c.device)), index |-> ToSet(ListOf(c.index)),
                   deviceAll |-> d, indexAll |-> x, deviceid |-> Narrow16(c.deviceid)]
  BY DEF Filter
<1>. HIDE DEF d, x
<1>. QED  BY <1>2, <1>3, <1>4 DEF FilterType

LEMMA ActionDomainsStart == ASSUME ActionsInit PROVE ActionDomains
<1>1. Len(tested) = 0 /\ filter \in FilterType
  BY NoFilterIs DEF ActionsInit, ActionsStart
<1>2. failed \in BOOLEAN /\ keysts \in BOOLEAN
  BY DEF ActionsInit, ActionsStart
<1>3. status \in {"none", "FAILED", "SUCCESS", "handed"}
  BY DEF ActionsInit, ActionsStart
<1>4. result \in -1..1
  BY DEF ActionsInit, ActionsStart
<1>5. \A i \in 1..Len(tested) : tested[i].mcm \in {"PRIMARY", "SECONDARY"}
  BY <1>1
<1>. QED  BY <1>1, <1>2, <1>3, <1>4, <1>5 DEF ActionDomains

LEMMA RefusedDomains ==
  ASSUME ActionDomains, Refuse
  PROVE  /\ \A i \in 1..Len(tested') : tested'[i].mcm \in {"PRIMARY", "SECONDARY"}
         /\ status' \in {"none", "FAILED", "SUCCESS", "handed"}
         /\ result' \in -1..1
BY DEF Refuse, End, ActionDomains

LEMMA CommonDomains == ASSUME ActInv, ActionDomains, ReadsCommon PROVE ActionDomains'
<1>1. failed' \in BOOLEAN
  BY DEF ReadsCommon, CommonFails
<1>2. keysts' \in BOOLEAN
  <2>1. keysts' = (keysts /\ ~CommonFails) \/ keysts' = keysts
    BY DEF ReadsCommon
  <2>. QED  BY <2>1 DEF ActionDomains
<1>3. filter' \in FilterType
  <2>1. Conf \in ConfigType
    BY ConfIs DEF ActInv
  <2>. QED  BY <2>1, NoFilterIs, FilterIs DEF ReadsCommon
<1>4. Refuse \/ UNCHANGED endVars
  BY DEF ReadsCommon
<1>. QED  BY <1>1, <1>2, <1>3, <1>4, RefusedDomains DEF ActionDomains, endVars

LEMMA OwnDomains == ASSUME ActionDomains, ReadsOwn PROVE ActionDomains'
<1>1. failed' \in BOOLEAN
  BY DEF ReadsOwn, FailedOf
<1>2. (Refuse \/ UNCHANGED endVars) /\ UNCHANGED <<filter, keysts>>
  BY DEF ReadsOwn
<1>. QED  BY <1>1, <1>2, RefusedDomains DEF ActionDomains, endVars

LEMMA RulesDomains == ASSUME ActionDomains, ChecksRules PROVE ActionDomains'
<1>1. PICK broken \in BreaksRule :
        /\ failed' = broken
        /\ Refuse \/ (End("handed", 0) /\ UNCHANGED tested) \/ UNCHANGED endVars
  BY DEF ChecksRules
<1>2. failed' \in BOOLEAN
  <2>1. \A b \in BreaksRule : b \in BOOLEAN
    <3>. DEFINE x == Conf.broken \in Rules(Module)
    <3>1. x \in BOOLEAN
      OBVIOUS
    <3>2. BreaksRule = BOOLEAN \/ BreaksRule = {x}
      BY DEF BreaksRule
    <3>. HIDE DEF x
    <3>. QED  BY <3>1, <3>2
  <2>. QED  BY <1>1, <2>1
<1>3. UNCHANGED <<filter, keysts>>
  BY DEF ChecksRules
<1>. QED  BY <1>1, <1>2, <1>3, RefusedDomains DEF ActionDomains, endVars, End

LEMMA SelectionDomains == ASSUME ActInv, ActionDomains, SelectsGpus PROVE ActionDomains'
<1>. DEFINE candidates == Candidates(Module, filter)
            chosen == Chosen(Module, filter)
            mcm == McmTypes(candidates)
<1>1. /\ UNCHANGED <<failed, filter, keysts>>
      /\ \/ /\ tested' = [i \in 1..Len(chosen) |-> [gpu |-> chosen[i].id, mcm |-> mcm[i]]]
            /\ UNCHANGED <<status, result>>
         \/ NoGpus /\ UNCHANGED tested
  BY DEF SelectsGpus, Chosen, keyVars
<1>2. Len(candidates) \in Nat /\ Len(chosen) \in 0..Len(candidates)
  BY ChosenHasLength, CandidatesHaveLength DEF ActInv, MachineIs
<1>. HIDE DEF candidates, chosen
<1>3. \A i \in 1..Len(chosen) : mcm[i] \in {"PRIMARY", "SECONDARY"}
  BY <1>2 DEF McmTypes
<1>. HIDE DEF mcm
<1>4. CASE tested' = [i \in 1..Len(chosen) |-> [gpu |-> chosen[i].id, mcm |-> mcm[i]]]
           /\ UNCHANGED <<status, result>>
  <2>1. Len(tested') = Len(chosen)
    BY <1>2, <1>4
  <2>2. \A i \in 1..Len(tested') : tested'[i].mcm \in {"PRIMARY", "SECONDARY"}
    BY <1>3, <1>4, <2>1
  <2>. QED  BY <1>1, <1>4, <2>2 DEF ActionDomains
<1>5. CASE NoGpus /\ UNCHANGED tested
  BY <1>1, <1>5 DEF NoGpus, End, ActionDomains
<1>. QED  BY <1>1, <1>4, <1>5

LEMMA RunDomains == ASSUME ActionDomains, Runs PROVE ActionDomains'
<1>1. UNCHANGED <<failed, filter, tested, keysts>>
      /\ status' \in {"SUCCESS", "FAILED"} /\ result' \in {-1, 0, 1}
  BY DEF Runs, End, keyVars
<1>. QED  BY <1>1 DEF ActionDomains

LEMMA ActionDomainsKept ==
  ASSUME ActInv, ActionDomains, [ActionsNext]_actionVars
  PROVE  ActionDomains'
<1>1. CASE NextAction
  <2>1. Len(tested') = 0 /\ filter' \in FilterType
    BY <1>1, NoFilterIs DEF NextAction
  <2>2. failed' \in BOOLEAN /\ keysts' \in BOOLEAN
    BY <1>1 DEF NextAction, ActionDomains
  <2>3. status' \in {"none", "FAILED", "SUCCESS", "handed"}
    BY <1>1 DEF NextAction
  <2>4. result' \in -1..1
    BY <1>1 DEF NextAction
  <2>5. \A i \in 1..Len(tested') : tested'[i].mcm \in {"PRIMARY", "SECONDARY"}
    BY <2>1
  <2>. QED  BY <2>1, <2>2, <2>3, <2>4, <2>5 DEF ActionDomains
<1>2. CASE UNCHANGED actionVars
  BY <1>2 DEF actionVars, keyVars, endVars, ActionDomains
<1>. QED  BY <1>1, <1>2, CommonDomains, OwnDomains, RulesDomains, SelectionDomains, RunDomains
          DEF ActionsNext

LEMMA ActionsAreTyped == ASSUME ActInv, ActionDomains PROVE ActionsTypeOK
<1>1. /\ batch \in Seq(ConfigType) /\ batch # <<>>
      /\ apc \in {"common", "own", "rules", "select", "run", "end"}
  BY DEF ActInv
<1>2. /\ failed \in BOOLEAN /\ keysts \in BOOLEAN
      /\ \A i \in 1..Len(tested) : tested[i].mcm \in {"PRIMARY", "SECONDARY"}
      /\ status \in {"none", "FAILED", "SUCCESS", "handed"}
      /\ result \in -1..1
  BY DEF ActionDomains
<1>3. /\ filter.device \subseteq Words16 /\ filter.index \subseteq Words16
      /\ filter.deviceid \in Words16 /\ filter.deviceAll \in BOOLEAN /\ filter.indexAll \in BOOLEAN
  <2>1. \A f \in FilterType : /\ f.device \in SUBSET Words16 /\ f.index \in SUBSET Words16
                              /\ f.deviceid \in Words16 /\ f.deviceAll \in BOOLEAN /\ f.indexAll \in BOOLEAN
    BY Zenon DEF FilterType
  <2>2. filter \in FilterType
    BY DEF ActionDomains
  <2>. QED  BY <2>1, <2>2
<1>. QED  BY <1>1, <1>2, <1>3 DEF ActionsTypeOK

-----------------------------------------------------------------------------
(* The lists of the GPUs.                                                  *)

\* The node whose identifier and place the local variables hold after node n.
Carries(t, j, n) == j \in 1..n /\ t[j].readable /\ \A k \in (j + 1)..n : ~t[k].readable
Carrier(t, n) == CHOOSE j \in 1..n : Carries(t, j, n)

IdAt(t, n)    == t[Carrier(t, n)].id
PlaceAt(t, n) == t[Carrier(t, n)].place

\* Whether the pass of a list pushes something for node n, what, and where to.
Pushed(t, name, n) ==
    /\ IdAt(t, n) # 0
    /\ name = "idx" => t[Carrier(t, n)].smi # -1
    /\ name \in {"location", "device", "domain"} => t[n].readable

What(t, name, n) ==
    CASE name = "gpu"      -> IdAt(t, n)
      [] name = "node"     -> n
      [] name = "bdf"      -> PlaceAt(t, n)
      [] name = "idx"      -> t[Carrier(t, n)].smi
      [] name = "location" -> t[n].place[2]
      [] name = "device"   -> t[n].device
      [] OTHER             -> t[n].place[1]

Pos(t, name, n) == Cardinality({m \in 1..n : Pushed(t, name, m)})

ListNames == {"location", "gpu", "idx", "device", "node", "domain", "bdf"}

LEMMA PassNames ==
  /\ Len(Passes) = 7
  /\ \A p \in 1..7 : Passes[p] \in ListNames
  /\ ToSet(Passes) = ListNames
  /\ \A p, q \in 1..7 : p # q => Passes[p] # Passes[q]
  /\ Passes[2] = "gpu" /\ Passes[4] = "device" /\ Passes[6] = "domain"
  /\ \A name \in ListNames : \E p \in 1..7 : Passes[p] = name
<1>1. Len(Passes) = 7 /\ DOMAIN Passes = 1..7
  BY DEF Passes
<1>2. /\ Passes[1] = "location" /\ Passes[2] = "gpu" /\ Passes[3] = "idx" /\ Passes[4] = "device"
      /\ Passes[5] = "node" /\ Passes[6] = "domain" /\ Passes[7] = "bdf"
  BY DEF Passes
<1>3. \A p \in 1..7 : p = 1 \/ p = 2 \/ p = 3 \/ p = 4 \/ p = 5 \/ p = 6 \/ p = 7
  OBVIOUS
<1>4. \A p \in 1..7 : Passes[p] \in ListNames
  BY <1>2, <1>3 DEF ListNames
<1>5. \A name \in ListNames : \E p \in 1..7 : Passes[p] = name
  BY <1>2 DEF ListNames
<1>6. ToSet(Passes) = ListNames
  BY <1>1, <1>4, <1>5 DEF ToSet
<1>7. \A p, q \in 1..7 : p # q => Passes[p] # Passes[q]
  BY <1>2, <1>3
<1>. QED  BY <1>1, <1>2, <1>4, <1>5, <1>6, <1>7

\* What is known of a topology.
LEMMA OfTopology ==
  ASSUME NEW t \in Topologies
  PROVE  /\ t \in Seq(NodeType) /\ Len(t) \in Nat /\ Len(t) >= 1
         /\ t[1].readable /\ t[1].id = 0
         /\ \A i \in 1..Len(t) : /\ t[i] \in NodeType
                                 /\ t[i].id \in Nat /\ t[i].place \in Nat \X Nat /\ t[i].device \in Nat
                                 /\ t[i].smi \in Int /\ t[i].readable \in BOOLEAN
                                 /\ t[i].id = 0 => t[i].readable
                                 /\ t[i].id # 0 => t[i].place # <<0, 0>>
         /\ \A i, j \in 1..Len(t) : i # j /\ t[i].id # 0 /\ t[j].id # 0 =>
              t[i].id # t[j].id /\ t[i].place # t[j].place
<1>1. t \in Seq(NodeType) /\ t # <<>> /\ t[1].id = 0 /\ t[1].readable
  BY TopologiesAreTopologies
<1>2. Len(t) \in Nat /\ Len(t) >= 1 /\ \A i \in 1..Len(t) : t[i] \in NodeType
  BY <1>1
<1>3. \A i \in 1..Len(t) : /\ t[i].id \in Nat /\ t[i].place \in Nat \X Nat /\ t[i].device \in Nat
                           /\ t[i].smi \in Int /\ t[i].readable \in BOOLEAN
  BY <1>2 DEF NodeType
<1>4. \A i, j \in 1..Len(t) :
        /\ t[i].id = 0 => t[i].readable
        /\ t[i].id # 0 => t[i].place # <<0, 0>>
        /\ i # j /\ t[i].id # 0 /\ t[j].id # 0 => t[i].id # t[j].id /\ t[i].place # t[j].place
  BY TopologiesAreTopologies
<1>. QED  BY <1>1, <1>2, <1>3, <1>4

LEMMA CarriedOnce ==
  ASSUME NEW t, NEW n \in Nat, NEW j \in Nat, NEW k \in Nat, Carries(t, j, n), Carries(t, k, n)
  PROVE  j = k
<1>1. CASE j < k
  BY <1>1 DEF Carries
<1>2. CASE k < j
  BY <1>2 DEF Carries
<1>. QED  BY <1>1, <1>2

\* The carrier of a node, by the one of the node before.
LEMMA Carrying ==
  ASSUME NEW t \in Topologies
  PROVE  /\ \A n \in 1..Len(t) : Carrier(t, n) \in 1..n /\ Carries(t, Carrier(t, n), n)
         /\ \A n \in 1..Len(t) : t[n].readable => Carrier(t, n) = n
         /\ \A n \in 2..Len(t) : ~t[n].readable => Carrier(t, n) = Carrier(t, n - 1)
<1>1. \A n \in 1..Len(t) : \E j \in 1..n : Carries(t, j, n)
  <2>. SUFFICES ASSUME NEW n \in 1..Len(t) PROVE \E j \in 1..n : Carries(t, j, n)
    OBVIOUS
  <2>. DEFINE S == {m \in Nat : m < n /\ t[n - m].readable}
  <2>1. n \in Nat /\ n >= 1 /\ t[1].readable
    BY OfTopology
  <2>2. n - 1 \in S
    BY <2>1
  <2>3. PICK m \in S : \A k \in S : m <= k
    BY <2>2, LeastNumber
  <2>4. n - m \in 1..n /\ t[n - m].readable
    BY <2>1, <2>3
  <2>5. ASSUME NEW k \in ((n - m) + 1)..n PROVE ~t[k].readable
    <3>1. k \in Int /\ n - k \in Nat /\ n - k < m /\ n - k < n /\ n - (n - k) = k
      BY <2>1, <2>3, <2>5
    <3>2. m \in Nat
      BY <2>3
    <3>3. n - k \notin S
      <4>. HIDE DEF S
      <4>. QED  BY <2>3, <3>1, <3>2
    <3>. QED  BY <3>1, <3>3
  <2>. QED  BY <2>4, <2>5 DEF Carries
<1>2. \A n \in 1..Len(t) : Carrier(t, n) \in 1..n /\ Carries(t, Carrier(t, n), n)
  BY <1>1 DEF Carrier
<1>3. ASSUME NEW n \in 1..Len(t), t[n].readable PROVE Carrier(t, n) = n
  <2>1. n \in Nat /\ n \in 1..n /\ Carrier(t, n) \in Nat
    BY <1>2, OfTopology
  <2>2. Carries(t, n, n)
    BY <1>3, <2>1 DEF Carries
  <2>. QED  BY <1>2, <2>1, <2>2, CarriedOnce
<1>4. ASSUME NEW n \in 2..Len(t), ~t[n].readable PROVE Carrier(t, n) = Carrier(t, n - 1)
  <2>. DEFINE j == Carrier(t, n - 1)
  <2>1. n \in Nat /\ n - 1 \in 1..Len(t) /\ n \in 1..Len(t)
    BY OfTopology
  <2>2. j \in 1..(n - 1) /\ Carries(t, j, n - 1)
    BY <1>2, <2>1
  <2>3. j \in Nat /\ Carrier(t, n) \in Nat
    BY <1>2, <2>1, <2>2
  <2>. HIDE DEF j
  <2>4. \A k \in (j + 1)..n : k \in (j + 1)..(n - 1) \/ k = n
    BY <2>1, <2>3
  <2>5. Carries(t, j, n)
    BY <1>4, <2>1, <2>2, <2>3, <2>4 DEF Carries
  <2>6. Carrier(t, n) = j
    BY <1>2, <2>1, <2>3, <2>5, CarriedOnce
  <2>. QED  BY <2>6 DEF j
<1>. QED  BY <1>2, <1>3, <1>4

\* An identifier is carried only from its node on.
LEMMA CarriedFrom ==
  ASSUME NEW t \in Topologies, NEW i \in 1..Len(t), t[i].id # 0,
         NEW m \in 1..Len(t), IdAt(t, m) = t[i].id
  PROVE  i <= m /\ Carrier(t, m) = i
<1>1. Carrier(t, m) \in 1..m /\ Carrier(t, m) \in 1..Len(t) /\ m \in Nat
  BY Carrying, OfTopology
<1>2. Carrier(t, m) = i
  BY <1>1, OfTopology DEF IdAt
<1>. QED  BY <1>1, <1>2

LEMMA Positions ==
  ASSUME NEW t, NEW name
  PROVE  /\ \A n \in Nat : Pos(t, name, n) \in Nat /\ Pos(t, name, n) <= n
         /\ Pos(t, name, 0) = 0
         /\ \A n \in Nat : Pos(t, name, n + 1) = Pos(t, name, n) + (IF Pushed(t, name, n + 1) THEN 1 ELSE 0)
         /\ \A n \in Nat : \A m \in 1..n : Pushed(t, name, m) => Pos(t, name, m) \in 1..Pos(t, name, n)
         /\ \A m, n \in Nat : m < n /\ Pushed(t, name, n) => Pos(t, name, m) < Pos(t, name, n)
<1>. DEFINE S(n) == {m \in 1..n : Pushed(t, name, m)}
<1>1. \A n \in Nat : IsFiniteSet(S(n)) /\ Cardinality(S(n)) \in Nat /\ Cardinality(S(n)) <= n
  <2>. TAKE n \in Nat
  <2>1. IsFiniteSet(1..n) /\ Cardinality(1..n) = n
    BY FS_Interval
  <2>2. S(n) \subseteq 1..n
    OBVIOUS
  <2>. QED  BY <2>1, <2>2, FS_Subset, FS_CardinalityType
<1>2. Cardinality(S(0)) = 0
  <2>1. S(0) = {}
    OBVIOUS
  <2>. QED  BY <2>1, FS_EmptySet
<1>3. ASSUME NEW n \in Nat
      PROVE  Cardinality(S(n + 1)) = Cardinality(S(n)) + (IF Pushed(t, name, n + 1) THEN 1 ELSE 0)
  <2>1. 1..(n + 1) = (1..n) \cup {n + 1} /\ n + 1 \notin 1..n
    BY <1>3
  <2>2. CASE Pushed(t, name, n + 1)
    <3>1. S(n + 1) = S(n) \cup {n + 1} /\ n + 1 \notin S(n)
      BY <2>1, <2>2
    <3>. QED  BY <1>1, <2>2, <3>1, FS_AddElement
  <2>3. CASE ~Pushed(t, name, n + 1)
    <3>1. S(n + 1) = S(n)
      BY <2>1, <2>3
    <3>. QED  BY <1>1, <2>3, <3>1
  <2>. QED  BY <2>2, <2>3
<1>4. ASSUME NEW m \in Nat, NEW n \in Nat, m <= n PROVE Cardinality(S(m)) <= Cardinality(S(n))
  <2>1. S(m) \subseteq S(n)
    BY <1>4
  <2>. QED  BY <1>1, <2>1, FS_Subset
<1>5. ASSUME NEW m \in Nat, NEW n \in Nat, m < n, Pushed(t, name, n)
      PROVE  Cardinality(S(m)) < Cardinality(S(n))
  <2>1. n - 1 \in Nat /\ m <= n - 1 /\ (n - 1) + 1 = n
    BY <1>5
  <2>2. Cardinality(S((n - 1) + 1)) = Cardinality(S(n - 1)) + 1
    BY <1>3, <1>5, <2>1
  <2>3. Cardinality(S(m)) <= Cardinality(S(n - 1))
    BY <1>4, <2>1
  <2>. QED  BY <1>1, <2>1, <2>2, <2>3
<1>6. ASSUME NEW n \in Nat, NEW m \in 1..n, Pushed(t, name, m)
      PROVE  Cardinality(S(m)) \in 1..Cardinality(S(n))
  <2>1. m \in Nat /\ 0 < m /\ m <= n
    BY <1>6
  <2>2. Cardinality(S(0)) < Cardinality(S(m)) /\ Cardinality(S(m)) <= Cardinality(S(n))
    BY <1>4, <1>5, <1>6, <2>1
  <2>. QED  BY <1>1, <1>2, <2>1, <2>2
<1>. QED  BY <1>1, <1>2, <1>3, <1>5, <1>6 DEF Pos

Values == Int \cup (Nat \X Nat)

LEMMA Worth ==
  ASSUME NEW t \in Topologies, NEW name \in ListNames, NEW n \in 1..Len(t)
  PROVE  What(t, name, n) \in Values
<1>1. Carrier(t, n) \in 1..n /\ Carrier(t, n) \in 1..Len(t) /\ n \in Nat
  BY Carrying, OfTopology
<1>2. ASSUME NEW j \in 1..Len(t)
      PROVE  /\ t[j].id \in Int /\ t[j].place \in Nat \X Nat /\ t[j].device \in Int /\ t[j].smi \in Int
             /\ t[j].place[1] \in Int /\ t[j].place[2] \in Int
  <2>1. t[j].id \in Nat /\ t[j].place \in Nat \X Nat /\ t[j].device \in Nat /\ t[j].smi \in Int
    BY OfTopology
  <2>. QED  BY ONLY <2>1
<1>. QED  BY <1>1, <1>2 DEF What, Values, IdAt, PlaceAt, ListNames

LEMMA SetToSeqOfOne ==
  /\ SetToSeq({}) = <<>>
  /\ \A x : SetToSeq({x}) = <<x>>
<1>1. Cardinality({}) = 0
  BY FS_EmptySet
<1>2. SetToSeq({}) \in [1..0 -> {}]
  <2>1. [i \in 1..0 |-> i] \in [1..0 -> {}] /\ IsInjective([i \in 1..0 |-> i])
    BY DEF IsInjective
  <2>. QED  BY <1>1, <2>1 DEF SetToSeq
<1>4. \A f \in [1..0 -> {}] : f = <<>>
  <2>. TAKE f \in [1..0 -> {}]
  <2>1. f \in Seq({}) /\ Len(f) = 0
    OBVIOUS
  <2>. QED  BY <2>1
<1>3. ASSUME NEW x PROVE SetToSeq({x}) = <<x>>
  <2>1. Cardinality({x}) = 1
    BY FS_Singleton
  <2>2. <<x>> \in [1..1 -> {x}] /\ IsInjective(<<x>>)
    BY DEF IsInjective
  <2>3. SetToSeq({x}) \in [1..1 -> {x}]
    BY <2>1, <2>2 DEF SetToSeq
  <2>4. \A f \in [1..1 -> {x}] : f = <<x>>
    OBVIOUS
  <2>. QED  BY <2>3, <2>4
<1>. QED  BY <1>2, <1>3, <1>4

\* What a pass pushes for a node is at most one value.
LEMMA Pushing ==
  ASSUME nodes \in Topologies, NEW name \in ListNames, NEW n \in 1..Len(nodes), IdAt(nodes, n) # 0
  PROVE  Pushes(name, n, IdAt(nodes, n), PlaceAt(nodes, n))
           = IF Pushed(nodes, name, n) THEN <<What(nodes, name, n)>> ELSE <<>>
<1>. DEFINE c == Carrier(nodes, n)
            known == {s.index : s \in {s \in SmiMap : s.id = IdAt(nodes, n)}}
<1>1. c \in 1..n /\ c \in 1..Len(nodes) /\ n \in Nat
  BY Carrying, OfTopology
<1>2. c \in GpusOf(nodes) /\ nodes[c].id = IdAt(nodes, n)
  BY <1>1 DEF GpusOf, IdAt
<1>. HIDE DEF c
<1>3. \A i \in GpusOf(nodes) : nodes[i].id = IdAt(nodes, n) => i = c
  BY <1>1, <1>2, OfTopology DEF GpusOf
<1>4. CASE name = "idx" /\ nodes[c].smi # -1
  <2>1. [id |-> nodes[c].id, index |-> nodes[c].smi] \in SmiMap
    BY <1>2, <1>4 DEF SmiMap
  <2>2. \A s \in SmiMap : s.id = IdAt(nodes, n) => s.index = nodes[c].smi
    BY <1>3 DEF SmiMap
  <2>3. known = {nodes[c].smi}
    BY <1>2, <2>1, <2>2
  <2>4. SetToSeq(known) = <<nodes[c].smi>>
    BY <2>3, SetToSeqOfOne
  <2>5. Pushed(nodes, name, n) /\ What(nodes, name, n) = nodes[c].smi
    BY <1>4 DEF Pushed, What, c
  <2>. QED  BY <1>4, <2>4, <2>5 DEF Pushes
<1>5. CASE name = "idx" /\ nodes[c].smi = -1
  <2>1. \A s \in SmiMap : s.id # IdAt(nodes, n)
    BY <1>3, <1>5 DEF SmiMap
  <2>2. known = {}
    BY <2>1
  <2>3. SetToSeq(known) = <<>>
    BY <2>2, SetToSeqOfOne
  <2>4. ~Pushed(nodes, name, n)
    BY <1>5 DEF Pushed, c
  <2>. QED  BY <1>5, <2>3, <2>4 DEF Pushes
<1>6. CASE name # "idx"
  <2>1. CASE name \in {"gpu", "node", "bdf"}
    BY <2>1 DEF Pushes, Pushed, What
  <2>2. CASE name = "location"
    BY <2>2 DEF Pushes, Pushed, What
  <2>3. CASE name = "device"
    BY <2>3 DEF Pushes, Pushed, What
  <2>4. CASE name = "domain"
    BY <2>4 DEF Pushes, Pushed, What
  <2>. QED  BY <1>6, <2>1, <2>2, <2>3, <2>4 DEF ListNames
<1>. QED  BY <1>4, <1>5, <1>6

\* A list begins with what was pushed for the first v nodes.
Begins(t, name, v, s) ==
    /\ Pos(t, name, v) <= Len(s)
    /\ \A k \in 1..Pos(t, name, v) : \E m \in 1..v :
         Pushed(t, name, m) /\ Pos(t, name, m) = k /\ s[k] = What(t, name, m)

LEMMA BeginsLonger ==
  ASSUME NEW t, NEW name, NEW v \in Nat, NEW s \in Seq(Values), NEW w \in Seq(Values), Begins(t, name, v, s)
  PROVE  Begins(t, name, v, s \o w)
<1>1. Pos(t, name, v) \in Nat
  BY Positions
<1>2. Len(s \o w) >= Len(s) /\ \A k \in 1..Len(s) : (s \o w)[k] = s[k]
  OBVIOUS
<1>3. Pos(t, name, v) <= Len(s) /\ \A k \in 1..Pos(t, name, v) : k \in 1..Len(s)
  BY <1>1 DEF Begins
<1>. QED  BY <1>1, <1>2, <1>3 DEF Begins

LEMMA BeginsMore ==
  ASSUME NEW t \in Topologies, NEW name \in ListNames, NEW v \in Nat, v + 1 \in 1..Len(t), NEW s \in Seq(Values),
         Begins(t, name, v, s), Len(s) = Pos(t, name, v)
  PROVE  LET w == s \o (IF Pushed(t, name, v + 1) THEN <<What(t, name, v + 1)>> ELSE <<>>)
         IN Begins(t, name, v + 1, w) /\ Len(w) = Pos(t, name, v + 1)
<1>1. /\ Pos(t, name, v) \in Nat
      /\ Pos(t, name, v + 1) = Pos(t, name, v) + (IF Pushed(t, name, v + 1) THEN 1 ELSE 0)
  BY Positions
<1>2. CASE Pushed(t, name, v + 1)
  <2>. DEFINE x == What(t, name, v + 1)
              w == s \o <<x>>
  <2>1. x \in Values
    BY Worth
  <2>. HIDE DEF x
  <2>2. Len(w) = Len(s) + 1 /\ w[Len(s) + 1] = x /\ \A k \in 1..Len(s) : w[k] = s[k]
    BY <2>1
  <2>. HIDE DEF w
  <2>3. Len(w) = Pos(t, name, v + 1)
    BY <1>1, <1>2, <2>2
  <2>4. ASSUME NEW k \in 1..Pos(t, name, v + 1)
        PROVE  \E m \in 1..(v + 1) : Pushed(t, name, m) /\ Pos(t, name, m) = k /\ w[k] = What(t, name, m)
    <3>1. CASE k = Pos(t, name, v + 1)
      <4>1. v + 1 \in 1..(v + 1) /\ w[k] = x
        BY <1>1, <1>2, <2>2, <3>1
      <4>. QED  BY <1>2, <3>1, <4>1 DEF x
    <3>2. CASE k # Pos(t, name, v + 1)
      <4>1. k \in 1..Pos(t, name, v) /\ k \in 1..Len(s)
        BY <1>1, <1>2, <3>2
      <4>2. PICK m \in 1..v : Pushed(t, name, m) /\ Pos(t, name, m) = k /\ s[k] = What(t, name, m)
        BY <4>1 DEF Begins
      <4>. QED  BY <2>2, <4>1, <4>2
    <3>. QED  BY <3>1, <3>2
  <2>5. Begins(t, name, v + 1, w)
    BY <1>1, <1>2, <2>3, <2>4 DEF Begins
  <2>. QED  BY <1>2, <2>3, <2>5 DEF w, x
<1>3. CASE ~Pushed(t, name, v + 1)
  <2>1. s \o <<>> = s
    OBVIOUS
  <2>2. Begins(t, name, v + 1, s)
    <3>1. \A m \in 1..v : m \in 1..(v + 1)
      OBVIOUS
    <3>. QED  BY <1>1, <1>3, <3>1 DEF Begins
  <2>. QED  BY <1>1, <1>3, <2>1, <2>2
<1>. QED  BY <1>2, <1>3

\* The nodes that the pass of a list has visited in the first call of Initialize.
Visited(p) == IF rounds > 0 \/ pass > p THEN Len(nodes) ELSE IF pass = p THEN at - 1 ELSE 0

ListTypes ==
    /\ nodes \in Topologies /\ rounds \in Nat /\ pass \in 0..7 /\ at \in 1..(Len(nodes) + 1)
    /\ lists \in [ListNames -> Seq(Values)]

Carried == /\ at = 1 => gpuId = 0
           /\ at > 1 => gpuId = IdAt(nodes, at - 1) /\ place = PlaceAt(nodes, at - 1)

Filled ==
    \A p \in 1..7 :
        /\ Begins(nodes, Passes[p], Visited(p), lists[Passes[p]])
        /\ rounds = 0 => Len(lists[Passes[p]]) = Pos(nodes, Passes[p], Visited(p))

OfGpus == \A k \in 1..Len(lists["device"]) : \E m \in Readable : lists["device"][k] = nodes[m].device

Mapped ==
    /\ \A e \in domLoc : \E m \in Readable : e = Entry(nodes[m].place, nodes[m].id)
    /\ \A m \in Readable : m <= Visited(6) => Entry(nodes[m].place, nodes[m].id) \in domLoc

ListsInv == ListTypes /\ Carried /\ Filled /\ OfGpus /\ Mapped

LEMMA ListsStart ==
  ASSUME GpuListInit
  PROVE  ListsInv
<1>. USE DEF GpuListInit, GpuListStart
<1>1. nodes \in Topologies /\ Len(nodes) \in Nat
  BY OfTopology
<1>2. lists \in [ListNames -> Seq(Values)] /\ \A name \in ListNames : lists[name] = <<>>
  BY PassNames
<1>3. ListTypes
  BY <1>1, <1>2 DEF ListTypes
<1>4. \A p \in 1..7 : Visited(p) = 0 /\ lists[Passes[p]] = <<>> /\ Pos(nodes, Passes[p], 0) = 0
  BY <1>2, PassNames, Positions DEF Visited
<1>5. Filled
  BY <1>4 DEF Filled, Begins
<1>6. OfGpus
  <2>1. lists["device"] = <<>>
    BY <1>2 DEF ListNames
  <2>. QED  BY <2>1 DEF OfGpus
<1>7. Visited(6) = 0 /\ \A m \in Readable : m \in 1..Len(nodes)
  BY <1>4 DEF Readable, GpusOf
<1>8. Mapped
  BY <1>7 DEF Mapped
<1>. QED  BY <1>3, <1>5, <1>6, <1>8 DEF ListsInv, Carried

LEMMA ListsInitialize ==
  ASSUME ListsInv, Initialize
  PROVE  ListsInv'
<1>. USE DEF Initialize, Started
<1>1. ListTypes'
  BY OfTopology DEF ListsInv, ListTypes
<1>2. Carried'
  BY DEF Carried
<1>3. \A p \in 1..7 : Visited(p)' = Visited(p)
  BY <1>1 DEF Visited, ListsInv, ListTypes
<1>4. Filled'
  BY <1>3 DEF ListsInv, Filled
<1>5. OfGpus'
  BY DEF ListsInv, OfGpus, Readable, GpusOf
<1>6. Mapped'
  BY <1>3 DEF ListsInv, Mapped, Readable, GpusOf
<1>. QED  BY <1>1, <1>2, <1>4, <1>5, <1>6 DEF ListsInv

LEMMA ListsEndPass ==
  ASSUME ListsInv, EndPass
  PROVE  ListsInv'
<1>. USE DEF EndPass, Started
<1>0. Len(nodes) \in Nat /\ at = Len(nodes) + 1 /\ pass \in 1..7 /\ rounds \in Nat
  BY OfTopology DEF ListsInv, ListTypes
<1>1. ListTypes'
  <2>1. /\ nodes \in Topologies /\ lists \in [ListNames -> Seq(Values)]
        /\ nodes' = nodes /\ lists' = lists /\ at' = 1
    BY DEF ListsInv, ListTypes
  <2>2. pass' \in 0..7 /\ rounds' \in Nat
    BY <1>0, PassNames
  <2>. QED  BY <1>0, <2>1, <2>2 DEF ListTypes
<1>2. Carried'
  BY DEF Carried
<1>3. \A p \in 1..7 : Visited(p)' = Visited(p)
  <2>. TAKE p \in 1..7
  <2>1. CASE pass = 7
    BY <1>0, <2>1, PassNames DEF Visited
  <2>2. CASE pass # 7
    <3>1. pass' = pass + 1 /\ rounds' = rounds /\ at' = 1 /\ nodes' = nodes
      BY <2>2, PassNames
    <3>. QED  BY <1>0, <3>1 DEF Visited
  <2>. QED  BY <2>1, <2>2
<1>4. Filled'
  <2>1. rounds' = 0 => rounds = 0
    BY <1>0
  <2>. QED  BY <1>3, <2>1 DEF ListsInv, Filled
<1>5. OfGpus'
  BY DEF ListsInv, OfGpus, Readable, GpusOf
<1>6. Mapped'
  BY <1>3 DEF ListsInv, Mapped, Readable, GpusOf
<1>. QED  BY <1>1, <1>2, <1>4, <1>5, <1>6 DEF ListsInv

\* What the local variables hold when the node has been read.
LEMMA ReadsNode ==
  ASSUME ListsInv, ReadNode
  PROVE  /\ at \in 1..Len(nodes) /\ pass \in 1..7 /\ Len(nodes) \in Nat
         /\ gpuId' = IdAt(nodes, at) /\ place' = PlaceAt(nodes, at)
         /\ lists' = [lists EXCEPT ![Passes[pass]] =
                        @ \o (IF Pushed(nodes, Passes[pass], at) THEN <<What(nodes, Passes[pass], at)>> ELSE <<>>)]
         /\ domLoc' = IF gpuId' = 0 \/ pass # 6 THEN domLoc
                      ELSE {e \in domLoc : e.place # place'} \cup {Entry(place', gpuId')}
<1>0. nodes \in Topologies /\ at \in 1..Len(nodes) /\ pass \in 1..7 /\ Len(nodes) \in Nat
  <2>1. nodes \in Topologies /\ pass \in 0..7 /\ at \in 1..(Len(nodes) + 1) /\ pass # 0 /\ at <= Len(nodes)
    BY DEF ListsInv, ListTypes, ReadNode
  <2>2. Len(nodes) \in Nat
    BY <2>1, OfTopology
  <2>. QED  BY <2>1, <2>2
<1>1. nodes \in Topologies /\ at \in 1..Len(nodes) /\ pass \in 1..7 /\ Len(nodes) \in Nat /\ Passes[pass] \in ListNames
  BY <1>0, PassNames
<1>2. /\ gpuId' = IF nodes[at].readable THEN nodes[at].id ELSE gpuId
      /\ place' = IF nodes[at].readable THEN nodes[at].place ELSE place
  BY DEF ReadNode
<1>3. gpuId' = IdAt(nodes, at) /\ place' = PlaceAt(nodes, at)
  <2>1. CASE nodes[at].readable
    <3>1. Carrier(nodes, at) = at
      BY <1>1, <2>1, Carrying
    <3>. QED  BY <1>2, <2>1, <3>1 DEF IdAt, PlaceAt
  <2>2. CASE ~nodes[at].readable
    <3>1. at # 1 /\ at \in 2..Len(nodes)
      BY <1>1, <2>2, OfTopology
    <3>2. Carrier(nodes, at) = Carrier(nodes, at - 1)
      BY <1>1, <2>2, <3>1, Carrying
    <3>. QED  BY <1>2, <2>2, <3>1, <3>2 DEF ListsInv, Carried, IdAt, PlaceAt
  <2>. QED  BY <2>1, <2>2
<1>4. lists' = IF gpuId' = 0 THEN lists
               ELSE [lists EXCEPT ![Passes[pass]] = @ \o Pushes(Passes[pass], at, gpuId', place')]
  BY DEF ReadNode
<1>5. lists \in [ListNames -> Seq(Values)]
  BY DEF ListsInv, ListTypes
<1>6. lists' = [lists EXCEPT ![Passes[pass]] =
                  @ \o (IF Pushed(nodes, Passes[pass], at) THEN <<What(nodes, Passes[pass], at)>> ELSE <<>>)]
  <2>1. CASE gpuId' = 0
    <3>1. ~Pushed(nodes, Passes[pass], at)
      BY <1>3, <2>1 DEF Pushed
    <3>2. lists[Passes[pass]] \o <<>> = lists[Passes[pass]]
      BY <1>1, <1>5
    <3>. QED  BY <1>1, <1>4, <1>5, <2>1, <3>1, <3>2
  <2>2. CASE gpuId' # 0
    BY <1>1, <1>3, <1>4, <2>2, Pushing
  <2>. QED  BY <2>1, <2>2
<1>7. (Passes[pass] = "domain") <=> (pass = 6)
  BY <1>1, PassNames
<1>8. domLoc' = IF gpuId' = 0 \/ Passes[pass] # "domain" THEN domLoc
                ELSE {e \in domLoc : e.place # place'} \cup {Entry(place', gpuId')}
  BY DEF ReadNode
<1>. QED  BY <1>1, <1>3, <1>6, <1>7, <1>8

LEMMA ListsReadNode ==
  ASSUME ListsInv, ReadNode
  PROVE  ListsInv'
<1>. DEFINE name == Passes[pass]
            w == IF Pushed(nodes, name, at) THEN <<What(nodes, name, at)>> ELSE <<>>
<1>1. /\ nodes' = nodes /\ rounds' = rounds /\ pass' = pass /\ at' = at + 1
      /\ at \in 1..Len(nodes) /\ pass \in 1..7 /\ Len(nodes) \in Nat /\ nodes \in Topologies /\ rounds \in Nat
      /\ lists \in [ListNames -> Seq(Values)] /\ name \in ListNames
  BY ReadsNode, PassNames DEF ReadNode, ListsInv, ListTypes
<1>2. gpuId' = IdAt(nodes, at) /\ place' = PlaceAt(nodes, at) /\ lists' = [lists EXCEPT ![name] = @ \o w]
  BY ReadsNode
<1>3. w \in Seq(Values)
  BY <1>1, Worth
<1>. HIDE DEF w
<1>4. ListTypes'
  <2>1. lists[name] \o w \in Seq(Values)
    BY <1>1, <1>3
  <2>2. lists' \in [ListNames -> Seq(Values)]
    BY <1>1, <1>2, <2>1
  <2>. QED  BY <1>1, <2>2 DEF ListTypes
<1>5. Carried'
  BY <1>1, <1>2 DEF Carried
<1>6. \A p \in 1..7 : Visited(p)' = IF rounds = 0 /\ p = pass THEN Visited(p) + 1 ELSE Visited(p)
  BY <1>1 DEF Visited
<1>7. \A p \in 1..7 : Visited(p) \in Nat
  BY <1>1 DEF Visited
<1>8. Filled'
  <2>. SUFFICES ASSUME NEW p \in 1..7
                PROVE  /\ Begins(nodes, Passes[p], Visited(p)', lists'[Passes[p]])
                       /\ rounds = 0 => Len(lists'[Passes[p]]) = Pos(nodes, Passes[p], Visited(p)')
    BY <1>1 DEF Filled
  <2>1. /\ Begins(nodes, Passes[p], Visited(p), lists[Passes[p]])
        /\ rounds = 0 => Len(lists[Passes[p]]) = Pos(nodes, Passes[p], Visited(p))
        /\ Passes[p] \in ListNames
    BY PassNames DEF ListsInv, Filled
  <2>2. CASE p # pass
    <3>1. lists'[Passes[p]] = lists[Passes[p]]
      BY <1>1, <1>2, <2>1, <2>2, PassNames
    <3>. QED  BY <1>6, <2>1, <2>2, <3>1
  <2>3. CASE p = pass /\ rounds > 0
    <3>1. lists'[Passes[p]] = lists[Passes[p]] \o w
      BY <1>1, <1>2, <2>3
    <3>2. Begins(nodes, Passes[p], Visited(p), lists'[Passes[p]])
      BY <1>1, <1>3, <1>7, <2>1, <3>1, BeginsLonger
    <3>. QED  BY <1>6, <2>3, <3>2
  <2>4. CASE p = pass /\ rounds = 0
    <3>1. lists'[name] = lists[name] \o w
      BY <1>1, <1>2
    <3>2. Visited(p) = at - 1 /\ Visited(p) + 1 = at
      BY <1>1, <2>4 DEF Visited
    <3>3. lists[name] \in Seq(Values) /\ at - 1 \in Nat /\ (at - 1) + 1 = at
      BY <1>1
    <3>4. Begins(nodes, name, at, lists[name] \o w) /\ Len(lists[name] \o w) = Pos(nodes, name, at)
      <4>1. Begins(nodes, name, at - 1, lists[name]) /\ Len(lists[name]) = Pos(nodes, name, at - 1)
        BY <2>1, <2>4, <3>2
      <4>. HIDE DEF name
      <4>2. (at - 1) + 1 \in 1..Len(nodes)
        BY <1>1
      <4>. QED  BY <1>1, <3>3, <4>1, <4>2, BeginsMore DEF w
    <3>. QED  BY <1>6, <2>4, <3>1, <3>2, <3>4
  <2>. QED  BY <1>1, <2>2, <2>3, <2>4
<1>9. Readable' = Readable /\ \A m \in Readable : m \in 1..Len(nodes) /\ nodes[m].readable /\ nodes[m].id # 0
  BY <1>1 DEF Readable, GpusOf
<1>10. OfGpus'
  <2>. SUFFICES ASSUME NEW k \in 1..Len(lists'["device"])
                PROVE  \E m \in Readable : lists'["device"][k] = nodes[m].device
    BY <1>1, <1>9 DEF OfGpus
  <2>0. "device" \in ListNames
    BY DEF ListNames
  <2>1. CASE name # "device"
    <3>1. lists'["device"] = lists["device"]
      BY <1>1, <1>2, <2>1
    <3>. QED  BY <3>1 DEF ListsInv, OfGpus
  <2>2. CASE name = "device" /\ ~Pushed(nodes, name, at)
    <3>1. lists'["device"] = lists["device"] \o <<>>
      BY <1>1, <1>2, <2>2 DEF w
    <3>2. lists["device"] \o <<>> = lists["device"]
      BY <1>1, <2>0
    <3>. QED  BY <3>1, <3>2 DEF ListsInv, OfGpus
  <2>3. CASE name = "device" /\ Pushed(nodes, name, at)
    <3>1. What(nodes, name, at) = nodes[at].device
      BY <2>3 DEF What
    <3>2. lists'["device"] = lists["device"] \o <<nodes[at].device>>
      BY <1>1, <1>2, <2>3, <3>1 DEF w
    <3>3. at \in Readable
      <4>1. nodes[at].readable /\ IdAt(nodes, at) # 0
        BY <2>3 DEF Pushed
      <4>2. Carrier(nodes, at) = at
        BY <1>1, <4>1, Carrying
      <4>. QED  BY <1>1, <4>1, <4>2 DEF Readable, GpusOf, IdAt
    <3>4. lists["device"] \in Seq(Values)
      BY <1>1, <2>0
    <3>5. CASE k \in 1..Len(lists["device"])
      <4>1. lists'["device"][k] = lists["device"][k]
        BY <3>2, <3>4, <3>5
      <4>. QED  BY <3>5, <4>1 DEF ListsInv, OfGpus
    <3>6. CASE k = Len(lists["device"]) + 1
      <4>1. lists'["device"][k] = nodes[at].device
        BY <3>2, <3>4, <3>6
      <4>. QED  BY <3>3, <4>1
    <3>7. Len(lists'["device"]) = Len(lists["device"]) + 1 /\ Len(lists["device"]) \in Nat
      BY <3>2, <3>4
    <3>. QED  BY <3>5, <3>6, <3>7
  <2>. QED  BY <2>1, <2>2, <2>3
<1>11. Mapped'
  <2>. DEFINE E(m) == Entry(nodes[m].place, nodes[m].id)
              c == Carrier(nodes, at)
  <2>0. domLoc' = IF gpuId' = 0 \/ pass # 6 THEN domLoc
                  ELSE {e \in domLoc : e.place # place'} \cup {Entry(place', gpuId')}
    BY ReadsNode
  <2>1. (\A e \in domLoc : \E m \in Readable : e = E(m)) /\ \A m \in Readable : m <= Visited(6) => E(m) \in domLoc
    BY DEF ListsInv, Mapped
  <2>2. c \in 1..at /\ c \in 1..Len(nodes) /\ nodes[c].readable /\ Carries(nodes, c, at)
    BY <1>1, Carrying DEF Carries
  <2>3. gpuId' = nodes[c].id /\ place' = nodes[c].place
    BY <1>2 DEF IdAt, PlaceAt
  <2>. HIDE DEF c
  <2>4. CASE gpuId' = 0 \/ pass # 6
    <3>1. domLoc' = domLoc
      BY <2>0, <2>4
    <3>2. \A m \in Readable : m <= Visited(6)' => m <= Visited(6)
      <4>. SUFFICES ASSUME NEW m \in Readable, m <= Visited(6)', ~(m <= Visited(6)) PROVE FALSE
        OBVIOUS
      <4>1. pass = 6 /\ rounds = 0 /\ m = at
        <5>1. m \in Nat
          BY <1>1, <1>9
        <5>2. Visited(6)' # Visited(6) /\ Visited(6) \in Nat
          BY <1>7
        <5>3. pass = 6 /\ rounds = 0 /\ Visited(6)' = Visited(6) + 1
          BY <1>6, <5>2
        <5>4. Visited(6) = at - 1
          BY <1>1, <5>3 DEF Visited
        <5>. QED  BY <1>1, <5>1, <5>2, <5>3, <5>4
      <4>2. nodes[at].readable /\ nodes[at].id # 0
        BY <1>9, <4>1
      <4>3. Carrier(nodes, at) = at
        BY <1>1, <4>2, Carrying
      <4>. QED  BY <1>2, <2>4, <4>1, <4>2, <4>3 DEF IdAt
    <3>. QED  BY <1>1, <1>9, <2>1, <3>1, <3>2 DEF Mapped
  <2>5. CASE gpuId' # 0 /\ pass = 6
    <3>1. domLoc' = {e \in domLoc : e.place # nodes[c].place} \cup {E(c)}
      BY <2>0, <2>3, <2>5
    <3>2. c \in Readable
      BY <2>2, <2>3, <2>5 DEF Readable, GpusOf
    <3>3. \A m \in Readable : E(m).place = nodes[m].place
      BY DEF Entry
    <3>4. \A m \in Readable : m # c => nodes[m].place # nodes[c].place
      <4>1. \A i, j \in 1..Len(nodes) : i # j /\ nodes[i].id # 0 /\ nodes[j].id # 0 => nodes[i].place # nodes[j].place
        BY <1>1, OfTopology
      <4>. QED  BY <1>9, <3>2, <4>1
    <3>5. \A e \in domLoc' : \E m \in Readable : e = E(m)
      BY <2>1, <3>1, <3>2
    <3>6. ASSUME NEW m \in Readable, m <= Visited(6)' PROVE E(m) \in domLoc'
      <4>1. CASE m = c
        BY <3>1, <4>1
      <4>2. CASE m # c /\ m <= Visited(6)
        <5>1. E(m) \in domLoc
          BY <2>1, <4>2
        <5>. QED  BY <3>1, <3>3, <3>4, <4>2, <5>1
      <4>3. CASE m # c /\ ~(m <= Visited(6))
        <5>1. m \in Nat /\ Visited(6) \in Nat /\ Visited(6)' # Visited(6)
          <6>1. m \in Nat
            BY <1>1, <1>9
          <6>2. Visited(6) \in Nat
            BY <1>7
          <6>. QED  BY <3>6, <4>3, <6>1, <6>2
        <5>2. rounds = 0 /\ Visited(6)' = Visited(6) + 1
          BY <1>6, <5>1
        <5>3. Visited(6) = at - 1
          BY <1>1, <2>5, <5>2 DEF Visited
        <5>4. m = at
          BY <1>1, <3>6, <4>3, <5>1, <5>2, <5>3
        <5>5. c = at
          BY <1>1, <1>9, <5>4, Carrying DEF c
        <5>. QED  BY <4>3, <5>4, <5>5
      <4>. QED  BY <4>1, <4>2, <4>3
    <3>. QED  BY <1>1, <1>9, <3>5, <3>6 DEF Mapped
  <2>. QED  BY <2>4, <2>5
<1>. QED  BY <1>4, <1>5, <1>8, <1>10, <1>11 DEF ListsInv

\* std::find gives the first position.
LEMMA LookedUp ==
  ASSUME NEW keys \in Seq(Values), NEW key, NEW values \in Seq(Values), NEW k \in 1..Len(keys),
         keys[k] = key, \A j \in 1..(k - 1) : keys[j] # key, k <= Len(values)
  PROVE  Lookup(keys, key, values) = values[k]
<1>. DEFINE where == {i \in 1..Len(keys) : keys[i] = key}
            first == CHOOSE i \in where : \A j \in where : i <= j
<1>1. k \in where /\ Len(keys) \in Nat /\ Len(values) \in Nat
  OBVIOUS
<1>2. \A j \in where : k <= j
  <2>. SUFFICES ASSUME NEW j \in where, j < k PROVE FALSE
    OBVIOUS
  <2>1. j \in 1..(k - 1)
    OBVIOUS
  <2>. QED  BY <2>1
<1>3. first \in where /\ \A j \in where : first <= j
  <2>. HIDE DEF where
  <2>. QED  BY <1>1, <1>2
<1>4. first = k
  <2>1. first <= k /\ k <= first /\ first \in Int
    BY <1>1, <1>2, <1>3
  <2>. QED  BY <2>1
<1>5. Lookup(keys, key, values) = IF where = {} THEN None ELSE IF first > Len(values) THEN Past ELSE values[first]
  BY DEF Lookup
<1>6. where # {} /\ ~(k > Len(values))
  BY <1>1
<1>. HIDE DEF where, first
<1>. QED  BY <1>4, <1>5, <1>6

\* What a list has at the position of a node, and before it, after the first call.
LEMMA InList ==
  ASSUME ListsInv, rounds > 0, NEW name \in ListNames, NEW n \in 1..Len(nodes), Pushed(nodes, name, n)
  PROVE  /\ lists[name] \in Seq(Values)
         /\ Pos(nodes, name, n) \in 1..Len(lists[name])
         /\ lists[name][Pos(nodes, name, n)] = What(nodes, name, n)
         /\ \A j \in 1..(Pos(nodes, name, n) - 1) : \E m \in 1..Len(nodes) :
              m < n /\ Pushed(nodes, name, m) /\ Pos(nodes, name, m) = j /\ lists[name][j] = What(nodes, name, m)
<1>1. PICK p \in 1..7 : Passes[p] = name
  BY PassNames
<1>2. nodes \in Topologies /\ Len(nodes) \in Nat /\ lists[name] \in Seq(Values) /\ rounds \in Nat
  BY OfTopology DEF ListsInv, ListTypes
<1>3. Begins(nodes, name, Len(nodes), lists[name])
  BY <1>1, <1>2 DEF ListsInv, Filled, Visited
<1>. DEFINE P(m) == Pos(nodes, name, m)
            N == P(Len(nodes))
<1>4. /\ P(n) \in 1..N /\ N \in Nat
      /\ \A m \in 1..Len(nodes) : P(m) \in Nat
      /\ \A l, m \in Nat : l < m /\ Pushed(nodes, name, m) => P(l) < P(m)
  <2>1. \A m \in Nat : P(m) \in Nat
    BY Positions
  <2>2. P(n) \in 1..N
    BY <1>2, Positions
  <2>3. \A l, m \in Nat : l < m /\ Pushed(nodes, name, m) => P(l) < P(m)
    BY Positions
  <2>. HIDE DEF P
  <2>. QED  BY <1>2, <2>1, <2>2, <2>3
<1>5. N <= Len(lists[name]) /\ \A k \in 1..N : \E m \in 1..Len(nodes) :
         Pushed(nodes, name, m) /\ P(m) = k /\ lists[name][k] = What(nodes, name, m)
  BY <1>3 DEF Begins
<1>. HIDE DEF P, N
<1>6. P(n) \in 1..Len(lists[name])
  BY <1>2, <1>4, <1>5
<1>7. lists[name][P(n)] = What(nodes, name, n)
  <2>1. PICK m \in 1..Len(nodes) : Pushed(nodes, name, m) /\ P(m) = P(n) /\ lists[name][P(n)] = What(nodes, name, m)
    BY <1>4, <1>5
  <2>2. m = n
    <3>1. m \in Nat /\ n \in Nat /\ ~(P(m) < P(n)) /\ ~(P(n) < P(m))
      BY <1>2, <1>4, <2>1
    <3>. QED  BY <1>4, <2>1, <3>1
  <2>. QED  BY <2>1, <2>2
<1>8. ASSUME NEW j \in 1..(P(n) - 1)
      PROVE  \E m \in 1..Len(nodes) : m < n /\ Pushed(nodes, name, m) /\ P(m) = j /\ lists[name][j] = What(nodes, name, m)
  <2>1. j \in 1..N /\ j < P(n)
    BY <1>4
  <2>2. PICK m \in 1..Len(nodes) : Pushed(nodes, name, m) /\ P(m) = j /\ lists[name][j] = What(nodes, name, m)
    BY <1>5, <2>1
  <2>3. m < n
    <3>1. m \in Nat /\ n \in Nat
      BY <1>2
    <3>2. ~(n < m) /\ m # n
      BY <1>4, <2>1, <2>2, <3>1
    <3>. QED  BY <3>1, <3>2
  <2>. QED  BY <2>2, <2>3
<1>. QED  BY <1>2, <1>6, <1>7, <1>8 DEF P

\* The position of a node is the same in two lists that got the same nodes up to it.
LEMMA SamePosition ==
  ASSUME NEW t, NEW one, NEW other, NEW n \in Nat, \A m \in 1..n : Pushed(t, one, m) <=> Pushed(t, other, m)
  PROVE  Pos(t, one, n) = Pos(t, other, n)
<1>1. {m \in 1..n : Pushed(t, one, m)} = {m \in 1..n : Pushed(t, other, m)}
  OBVIOUS
<1>. QED  BY <1>1 DEF Pos

\* A value that no node before n brings into the first list, and that n does, leads to
\* what n brings into the second.
LEMMA Leads ==
  ASSUME ListsInv, rounds > 0, NEW one \in ListNames, NEW other \in ListNames, NEW n \in 1..Len(nodes),
         Pushed(nodes, one, n), Pushed(nodes, other, n),
         \A m \in 1..n : Pushed(nodes, one, m) <=> Pushed(nodes, other, m),
         \A m \in 1..Len(nodes) : m < n /\ Pushed(nodes, one, m) => What(nodes, one, m) # What(nodes, one, n)
  PROVE  Lookup(lists[one], What(nodes, one, n), lists[other]) = What(nodes, other, n)
<1>1. n \in Nat
  BY OfTopology DEF ListsInv, ListTypes
<1>2. Pos(nodes, one, n) = Pos(nodes, other, n)
  BY <1>1, SamePosition
<1>3. /\ lists[one] \in Seq(Values) /\ Pos(nodes, one, n) \in 1..Len(lists[one])
      /\ lists[one][Pos(nodes, one, n)] = What(nodes, one, n)
      /\ \A j \in 1..(Pos(nodes, one, n) - 1) : \E m \in 1..Len(nodes) :
           m < n /\ Pushed(nodes, one, m) /\ Pos(nodes, one, m) = j /\ lists[one][j] = What(nodes, one, m)
  BY InList
<1>4. /\ lists[other] \in Seq(Values) /\ Pos(nodes, other, n) \in 1..Len(lists[other])
      /\ lists[other][Pos(nodes, other, n)] = What(nodes, other, n)
  BY InList
<1>5. \A j \in 1..(Pos(nodes, one, n) - 1) : lists[one][j] # What(nodes, one, n)
  BY <1>3
<1>6. Pos(nodes, one, n) <= Len(lists[other])
  BY <1>2, <1>4
<1>7. Lookup(lists[one], What(nodes, one, n), lists[other]) = lists[other][Pos(nodes, one, n)]
  <2>. DEFINE k == Pos(nodes, one, n)
              x == What(nodes, one, n)
  <2>. HIDE DEF k, x
  <2>1. k \in 1..Len(lists[one]) /\ lists[one][k] = x /\ (\A j \in 1..(k - 1) : lists[one][j] # x) /\ k <= Len(lists[other])
    BY <1>3, <1>5, <1>6 DEF k, x
  <2>2. Lookup(lists[one], x, lists[other]) = lists[other][k]
    <3>1. lists[one] \in Seq(Values) /\ lists[other] \in Seq(Values)
      BY <1>3, <1>4
    <3>. DEFINE keys == lists[one]
                values == lists[other]
    <3>2. keys \in Seq(Values) /\ values \in Seq(Values) /\ k \in 1..Len(keys) /\ keys[k] = x
          /\ (\A j \in 1..(k - 1) : keys[j] # x) /\ k <= Len(values)
      BY <2>1, <3>1
    <3>. HIDE DEF keys, values
    <3>3. Lookup(keys, x, values) = values[k]
      BY ONLY <3>2, LookedUp, Zenon
    <3>. QED  BY <3>3 DEF keys, values
  <2>. QED  BY <2>2 DEF k, x
<1>. QED  BY <1>2, <1>4, <1>7

\* What is pushed for a GPU that can be read.
LEMMA OfReadable ==
  ASSUME nodes \in Topologies, NEW i \in Readable
  PROVE  /\ i \in 1..Len(nodes) /\ i \in Nat /\ nodes[i].id # 0 /\ nodes[i].readable
         /\ IdAt(nodes, i) = nodes[i].id /\ PlaceAt(nodes, i) = nodes[i].place /\ Carrier(nodes, i) = i
         /\ \A name \in ListNames : Pushed(nodes, name, i) <=> (name = "idx" => nodes[i].smi # -1)
<1>1. i \in 1..Len(nodes) /\ i \in Nat /\ nodes[i].id # 0 /\ nodes[i].readable
  BY OfTopology DEF Readable, GpusOf
<1>2. Carrier(nodes, i) = i
  BY <1>1, Carrying
<1>. QED  BY <1>1, <1>2 DEF IdAt, PlaceAt, Pushed, ListNames

LEMMA PlacesFoundByInv ==
  ASSUME ListsInv
  PROVE  PlacesFound
<1>. SUFFICES ASSUME rounds > 0, NEW i \in Readable
              PROVE  LET gpu == nodes[i] IN
                       /\ domlocation2gpu(gpu.place) = gpu.id
                       /\ domlocation2node(gpu.place) = i /\ gpu_hip_to_node(gpu.place) = i
                       /\ node2gpu(i) = gpu.id /\ node2bdf(i) = gpu.place
  BY DEF PlacesFound
<1>. DEFINE gpu == nodes[i]
<1>1. /\ nodes \in Topologies /\ Len(nodes) \in Nat /\ i \in 1..Len(nodes) /\ i \in Nat
      /\ gpu.id # 0 /\ gpu.id \in Nat /\ gpu.readable
      /\ IdAt(nodes, i) = gpu.id /\ PlaceAt(nodes, i) = gpu.place
      /\ "gpu" \in ListNames /\ "node" \in ListNames /\ "bdf" \in ListNames
  BY OfReadable, OfTopology DEF ListsInv, ListTypes, ListNames
<1>2. domlocation2gpu(gpu.place) = gpu.id
  <2>1. Visited(6) = Len(nodes) /\ i <= Visited(6)
    BY <1>1 DEF Visited
  <2>2. Entry(gpu.place, gpu.id) \in domLoc
    BY <2>1 DEF ListsInv, Mapped
  <2>3. \A e \in domLoc : e.place = gpu.place => e.id = gpu.id
    <3>. SUFFICES ASSUME NEW e \in domLoc, e.place = gpu.place PROVE e.id = gpu.id
      OBVIOUS
    <3>1. PICK m \in Readable : e = Entry(nodes[m].place, nodes[m].id)
      BY DEF ListsInv, Mapped
    <3>2. m \in 1..Len(nodes) /\ nodes[m].id # 0 /\ nodes[m].place = gpu.place /\ e.id = nodes[m].id
      BY <1>1, <3>1, OfReadable DEF Entry
    <3>3. m = i
      BY <1>1, <3>2, OfTopology
    <3>. QED  BY <3>2, <3>3
  <2>4. Entry(gpu.place, gpu.id).place = gpu.place
    BY DEF Entry
  <2>5. \E e \in domLoc : e.place = gpu.place
    BY <2>2, <2>4
  <2>. QED  BY <2>3, <2>5 DEF domlocation2gpu
<1>3. \A m \in 1..Len(nodes) : /\ Pushed(nodes, "gpu", m) <=> Pushed(nodes, "node", m)
                               /\ Pushed(nodes, "bdf", m) <=> Pushed(nodes, "node", m)
                               /\ What(nodes, "gpu", m) = IdAt(nodes, m) /\ What(nodes, "node", m) = m
                               /\ What(nodes, "bdf", m) = PlaceAt(nodes, m)
  BY DEF Pushed, What
<1>4. \A m \in 1..i : m \in 1..Len(nodes)
  BY <1>1
<1>5. Pushed(nodes, "gpu", i) /\ Pushed(nodes, "node", i) /\ Pushed(nodes, "bdf", i)
  BY <1>1, <1>3 DEF Pushed
<1>6. \A m \in 1..Len(nodes) : m < i => IdAt(nodes, m) # gpu.id
  <2>. SUFFICES ASSUME NEW m \in 1..Len(nodes), m < i, IdAt(nodes, m) = gpu.id PROVE FALSE
    OBVIOUS
  <2>1. i <= m
    BY <1>1, CarriedFrom
  <2>. QED  BY <1>1, <2>1
<1>7. gpu2node(gpu.id) = i
  <2>1. Lookup(lists["gpu"], What(nodes, "gpu", i), lists["node"]) = What(nodes, "node", i)
    BY <1>1, <1>3, <1>4, <1>5, <1>6, Leads
  <2>. QED  BY <1>1, <1>3, <2>1 DEF gpu2node
<1>8. node2gpu(i) = gpu.id
  <2>1. Lookup(lists["node"], What(nodes, "node", i), lists["gpu"]) = What(nodes, "gpu", i)
    BY <1>1, <1>3, <1>4, <1>5, Leads
  <2>. QED  BY <1>1, <1>3, <2>1 DEF node2gpu
<1>9. node2bdf(i) = gpu.place
  <2>1. Lookup(lists["node"], What(nodes, "node", i), lists["bdf"]) = What(nodes, "bdf", i)
    BY <1>1, <1>3, <1>4, <1>5, Leads
  <2>. QED  BY <1>1, <1>3, <2>1 DEF node2bdf
<1>10. domlocation2node(gpu.place) = i
  <2>1. gpu.id # None
    BY <1>1 DEF None
  <2>. QED  BY <1>2, <1>7, <2>1 DEF domlocation2node
<1>11. gpu_hip_to_node(gpu.place) = i
  <2>. DEFINE where == {m \in GpusOf(nodes) : (IF nodes[m].readable THEN nodes[m].place ELSE <<0, 0>>) = gpu.place}
  <2>1. i \in where
    BY <1>1 DEF GpusOf
  <2>2. gpu.place # <<0, 0>>
    BY <1>1, OfTopology
  <2>3. \A m \in where : m = i
    <3>. SUFFICES ASSUME NEW m \in where PROVE m = i
      OBVIOUS
    <3>1. nodes[m].place = gpu.place /\ m \in 1..Len(nodes) /\ nodes[m].id # 0
      BY <2>2 DEF GpusOf
    <3>. QED  BY <1>1, <3>1, OfTopology
  <2>4. where = {i}
    BY <2>1, <2>3
  <2>5. gpu_hip_to_node(gpu.place) = IF where = {} THEN None ELSE CHOOSE m \in where : \A j \in where : m <= j
    BY DEF gpu_hip_to_node
  <2>. HIDE DEF where
  <2>6. \A j \in where : i <= j
    BY <1>1, <2>4
  <2>. QED  BY <2>1, <2>3, <2>5, <2>6
<1>. QED  BY <1>2, <1>8, <1>9, <1>10, <1>11

\* Up to a GPU without a hidden one before it, the lists agree.
LEMMA UptoGpu ==
  ASSUME nodes \in Topologies, NEW i \in GpusOf(nodes), Upto(i) \subseteq Readable
  PROVE  /\ i \in Readable
         /\ \A m \in 1..i : /\ m \in 1..Len(nodes)
                            /\ IdAt(nodes, m) # 0 <=> m \in Upto(i)
                            /\ m \in Upto(i) => Carrier(nodes, m) = m /\ nodes[m].readable
<1>1. i \in 1..Len(nodes) /\ i \in Nat /\ Len(nodes) \in Nat /\ i \in Upto(i)
  BY OfTopology DEF GpusOf, Upto
<1>2. ASSUME NEW m \in 1..i
      PROVE  /\ m \in 1..Len(nodes)
             /\ IdAt(nodes, m) # 0 <=> m \in Upto(i)
             /\ m \in Upto(i) => Carrier(nodes, m) = m /\ nodes[m].readable
  <2>1. m \in 1..Len(nodes) /\ m <= i
    BY <1>1
  <2>2. nodes[m].readable
    <3>1. CASE nodes[m].id = 0
      BY <2>1, <3>1, OfTopology
    <3>2. CASE nodes[m].id # 0
      <4>1. m \in Upto(i)
        BY <2>1, <3>2 DEF Upto, GpusOf
      <4>. QED  BY <4>1 DEF Readable
    <3>. QED  BY <3>1, <3>2
  <2>3. Carrier(nodes, m) = m
    BY <2>1, <2>2, Carrying
  <2>4. m \in Upto(i) <=> nodes[m].id # 0
    BY <2>1 DEF Upto, GpusOf
  <2>. QED  BY <2>1, <2>2, <2>3, <2>4 DEF IdAt
<1>. QED  BY <1>1, <1>2

LEMMA ListsAgreeByInv ==
  ASSUME ListsInv
  PROVE  ListsAgree
<1>. SUFFICES ASSUME rounds > 0, NEW i \in GpusOf(nodes), Upto(i) \subseteq Readable
              PROVE  LET gpu == nodes[i] IN
                       /\ gpu2location(gpu.id) = gpu.place[2] /\ gpu2domain(gpu.id) = gpu.place[1]
                       /\ gpu2device(gpu.id) = gpu.device
                       /\ (\A j \in Upto(i) : nodes[j].smi # -1) => gpu2gpuindex(gpu.id) = gpu.smi
                       /\ (\A j \in Upto(i) \ {i} : nodes[j].place[2] # gpu.place[2])
                            => /\ location2gpu(gpu.place[2]) = gpu.id /\ location2node(gpu.place[2]) = i
                               /\ location2device(gpu.place[2]) = gpu.device
  BY DEF ListsAgree
<1>. DEFINE gpu == nodes[i]
            Plain == ListNames \ {"idx"}
<1>1. nodes \in Topologies /\ Len(nodes) \in Nat
  BY OfTopology DEF ListsInv, ListTypes
<1>2. /\ i \in Readable
      /\ \A m \in 1..i : /\ m \in 1..Len(nodes)
                         /\ IdAt(nodes, m) # 0 <=> m \in Upto(i)
                         /\ m \in Upto(i) => Carrier(nodes, m) = m /\ nodes[m].readable
  BY <1>1, UptoGpu
<1>3. /\ i \in 1..Len(nodes) /\ i \in Nat /\ gpu.id # 0 /\ gpu.readable
      /\ IdAt(nodes, i) = gpu.id /\ Carrier(nodes, i) = i
  BY <1>1, <1>2, OfReadable
<1>4. /\ "gpu" \in Plain /\ "location" \in Plain /\ "domain" \in Plain /\ "device" \in Plain /\ "node" \in Plain
      /\ Plain \subseteq ListNames /\ "idx" \in ListNames
  BY DEF ListNames
<1>5. \A name \in Plain, m \in 1..i : Pushed(nodes, name, m) <=> m \in Upto(i)
  BY <1>2 DEF Pushed
<1>6. /\ What(nodes, "gpu", i) = gpu.id /\ What(nodes, "location", i) = gpu.place[2]
      /\ What(nodes, "domain", i) = gpu.place[1] /\ What(nodes, "device", i) = gpu.device
      /\ What(nodes, "node", i) = i /\ What(nodes, "idx", i) = gpu.smi
  BY <1>3 DEF What
<1>7. i \in 1..i /\ i \in Upto(i)
  BY <1>3 DEF Upto
<1>8. \A m \in 1..Len(nodes) : m < i => What(nodes, "gpu", m) # What(nodes, "gpu", i)
  <2>. SUFFICES ASSUME NEW m \in 1..Len(nodes), m < i, IdAt(nodes, m) = gpu.id PROVE FALSE
    BY <1>6 DEF What
  <2>1. i <= m
    BY <1>1, <1>3, CarriedFrom
  <2>. QED  BY <1>1, <1>3, <2>1
<1>9. \A other \in Plain : Lookup(lists["gpu"], gpu.id, lists[other]) = What(nodes, other, i)
  <2>. TAKE other \in Plain
  <2>1. \A m \in 1..i : Pushed(nodes, "gpu", m) <=> Pushed(nodes, other, m)
    BY <1>4, <1>5
  <2>2. Pushed(nodes, "gpu", i) /\ Pushed(nodes, other, i)
    BY <1>4, <1>5, <1>7
  <2>3. Lookup(lists["gpu"], What(nodes, "gpu", i), lists[other]) = What(nodes, other, i)
    BY <1>3, <1>4, <1>8, <2>1, <2>2, Leads
  <2>. QED  BY <1>6, <2>3
<1>10. gpu2location(gpu.id) = gpu.place[2] /\ gpu2domain(gpu.id) = gpu.place[1] /\ gpu2device(gpu.id) = gpu.device
  BY <1>4, <1>6, <1>9 DEF gpu2location, gpu2domain, gpu2device
<1>11. ASSUME \A j \in Upto(i) : nodes[j].smi # -1 PROVE gpu2gpuindex(gpu.id) = gpu.smi
  <2>1. \A m \in 1..i : Pushed(nodes, "gpu", m) <=> Pushed(nodes, "idx", m)
    BY <1>2, <1>4, <1>11 DEF Pushed
  <2>2. Pushed(nodes, "gpu", i) /\ Pushed(nodes, "idx", i)
    BY <1>4, <1>5, <1>7, <2>1
  <2>3. Lookup(lists["gpu"], What(nodes, "gpu", i), lists["idx"]) = What(nodes, "idx", i)
    BY <1>3, <1>4, <1>8, <2>1, <2>2, Leads
  <2>. QED  BY <1>6, <2>3 DEF gpu2gpuindex
<1>12. ASSUME \A j \in Upto(i) \ {i} : nodes[j].place[2] # gpu.place[2]
       PROVE  \A other \in Plain : Lookup(lists["location"], gpu.place[2], lists[other]) = What(nodes, other, i)
  <2>. TAKE other \in Plain
  <2>1. \A m \in 1..i : Pushed(nodes, "location", m) <=> Pushed(nodes, other, m)
    BY <1>4, <1>5
  <2>2. Pushed(nodes, "location", i) /\ Pushed(nodes, other, i)
    BY <1>4, <1>5, <1>7
  <2>3. ASSUME NEW m \in 1..Len(nodes), m < i, Pushed(nodes, "location", m)
        PROVE  What(nodes, "location", m) # What(nodes, "location", i)
    <3>1. m \in 1..i /\ m # i
      BY <1>1, <1>3, <2>3
    <3>2. m \in Upto(i) \ {i}
      BY <1>4, <1>5, <2>3, <3>1
    <3>3. What(nodes, "location", m) = nodes[m].place[2]
      BY DEF What
    <3>. QED  BY <1>6, <1>12, <3>2, <3>3
  <2>4. Lookup(lists["location"], What(nodes, "location", i), lists[other]) = What(nodes, other, i)
    BY <1>3, <1>4, <2>1, <2>2, <2>3, Leads
  <2>. QED  BY <1>6, <2>4
<1>13. ASSUME \A j \in Upto(i) \ {i} : nodes[j].place[2] # gpu.place[2]
       PROVE  /\ location2gpu(gpu.place[2]) = gpu.id /\ location2node(gpu.place[2]) = i
              /\ location2device(gpu.place[2]) = gpu.device
  BY <1>4, <1>6, <1>12, <1>13 DEF location2gpu, location2node, location2device
<1>. QED  BY <1>10, <1>11, <1>13

LEMMA HandlesOwnAlways == HandlesOwn
  BY DEF HandlesOwn, gpu_hip_to_smi_hdl, smi_dev_ind_get

LEMMA PlatformByInv ==
  ASSUME ListsInv
  PROVE  PlatformOfAll
<1>. DEFINE devices == {nodes[i].device : i \in Readable}
<1>. SUFFICES ASSUME rounds > 0, NEW watts \in {0, 450, 525, 600}
              PROVE  LET name == gpu_get_platform_name(watts) IN
                       /\ name # "" => Cardinality(devices) = 1
                       /\ devices = {Shared} => name = (IF watts = 600 THEN "MI350P-600W" ELSE "MI350P-450W")
  BY DEF PlatformOfAll
<1>1. nodes \in Topologies /\ "device" \in ListNames /\ lists["device"] \in Seq(Values)
  BY DEF ListsInv, ListTypes, ListNames
<1>2. ToSet(lists["device"]) = devices
  <2>1. DOMAIN lists["device"] = 1..Len(lists["device"])
    BY <1>1
  <2>2. \A k \in 1..Len(lists["device"]) : lists["device"][k] \in devices
    BY DEF ListsInv, OfGpus
  <2>3. ASSUME NEW i \in Readable PROVE \E k \in 1..Len(lists["device"]) : lists["device"][k] = nodes[i].device
    <3>1. i \in 1..Len(nodes) /\ Pushed(nodes, "device", i)
      BY <1>1, OfReadable
    <3>2. What(nodes, "device", i) = nodes[i].device
      BY DEF What
    <3>. QED  BY <1>1, <3>1, <3>2, InList
  <2>. QED  BY <2>1, <2>2, <2>3 DEF ToSet
<1>3. gpu_get_platform_name(watts) # "" => Cardinality(devices) = 1
  BY <1>2 DEF gpu_get_platform_name
<1>4. ASSUME devices = {Shared}
      PROVE  gpu_get_platform_name(watts) = IF watts = 600 THEN "MI350P-600W" ELSE "MI350P-450W"
  <2>1. Cardinality(devices) = 1
    BY <1>4, FS_Singleton
  <2>2. lists["device"][1] = Shared
    <3>1. DOMAIN lists["device"] = 1..Len(lists["device"]) /\ Len(lists["device"]) \in Nat
      BY <1>1
    <3>2. ToSet(lists["device"]) # {}
      BY <1>2, <1>4
    <3>3. 1 \in DOMAIN lists["device"]
      BY <3>1, <3>2 DEF ToSet
    <3>4. lists["device"][1] \in ToSet(lists["device"])
      BY <3>3 DEF ToSet
    <3>5. ToSet(lists["device"]) = {Shared}
      BY <1>2, <1>4
    <3>. QED  BY ONLY <3>4, <3>5
  <2>3. gpu_get_platform_name(watts) = Sku(watts)
    <3>1. Cardinality(ToSet(lists["device"])) = 1
      BY <1>2, <2>1
    <3>. QED  BY ONLY <2>2, <3>1 DEF gpu_get_platform_name, Shared, Named
  <2>. QED  BY <2>3 DEF Sku
<1>. QED  BY <1>3, <1>4

LEMMA ListsKept == ASSUME ListsInv, [GpuListNext]_listVars PROVE ListsInv'
<1>1. CASE UNCHANGED listVars
  <2>. USE <1>1 DEF listVars
  <2>1. ListTypes' /\ Carried'
    BY DEF ListsInv, ListTypes, Carried
  <2>2. \A p \in 1..7 : Visited(p)' = Visited(p)
    BY DEF Visited
  <2>3. Filled' /\ OfGpus' /\ Mapped'
    BY <2>2 DEF ListsInv, Filled, OfGpus, Mapped, Readable, GpusOf
  <2>. QED  BY <2>1, <2>3 DEF ListsInv
<1>. QED  BY <1>1, ListsInitialize, ListsReadNode, ListsEndPass DEF GpuListNext

LEMMA ListsHold == GpuListSpec => []ListsInv
<1>1. ListsInv /\ [GpuListNext]_listVars => ListsInv'
  BY ListsKept
<1>. QED  BY <1>1, ListsStart, PTL DEF GpuListSpec

\* Whatever the KFD nodes, hidden GPUs and GPUs unknown to AMD SMI among them, and however
\* often the lists are filled, what the lookups of rvs::gpulist answer for a GPU is its own.
THEOREM GpuListIsSound == GpuListSpec => []GpuListSound
<1>1. ListsInv => GpuListSound
  BY PlacesFoundByInv, ListsAgreeByInv, HandlesOwnAlways, PlatformByInv DEF GpuListSound
<1>. QED  BY <1>1, ListsHold, PTL

-----------------------------------------------------------------------------
(* The lists: no longer than the GPUs that were read.                      *)

\* The entries that a list gets in one call of Initialize, so far in the present one.
Filling(p) ==
    IF pass > p THEN Cardinality(GpusOf(nodes))
    ELSE IF pass = p THEN Pos(nodes, Passes[p], at - 1) ELSE 0

Bounded ==
    /\ rounds \in 0..MaxRounds /\ (pass # 0 => rounds < MaxRounds)
    /\ \A p \in 1..7 : Len(lists[Passes[p]]) <= Cardinality(GpusOf(nodes)) * rounds + Filling(p)

\* A pass pushes something only for the nodes of GPUs: a CPU is not hidden.
LEMMA PushedAreGpus ==
  ASSUME NEW t \in Topologies, NEW name, NEW m \in 1..Len(t), Pushed(t, name, m)
  PROVE  m \in GpusOf(t)
<1>1. CASE t[m].readable
  <2>1. Carrier(t, m) = m
    BY <1>1, Carrying
  <2>. QED  BY <2>1 DEF Pushed, IdAt, GpusOf
<1>2. CASE ~t[m].readable
  BY <1>2, OfTopology DEF GpusOf
<1>. QED  BY <1>1, <1>2

LEMMA NoMoreThanGpus ==
  ASSUME NEW t \in Topologies, NEW name, NEW n \in 0..Len(t)
  PROVE  Cardinality(GpusOf(t)) \in Nat /\ Pos(t, name, n) \in Nat /\ Pos(t, name, n) <= Cardinality(GpusOf(t))
<1>1. Len(t) \in Nat
  BY OfTopology
<1>2. IsFiniteSet(1..Len(t)) /\ GpusOf(t) \subseteq 1..Len(t)
  BY <1>1, FS_Interval DEF GpusOf
<1>3. IsFiniteSet(GpusOf(t)) /\ Cardinality(GpusOf(t)) \in Nat
  BY <1>2, FS_Subset, FS_CardinalityType
<1>4. {m \in 1..n : Pushed(t, name, m)} \subseteq GpusOf(t)
  <2>1. \A m \in 1..n : m \in 1..Len(t)
    BY <1>1
  <2>. QED  BY <2>1, PushedAreGpus
<1>. QED  BY <1>3, <1>4, FS_Subset, FS_CardinalityType DEF Pos

LEMMA BoundedStart == ASSUME GpuListInit PROVE Bounded
<1>1. nodes \in Topologies /\ rounds = 0 /\ pass = 0 /\ lists = [name \in ToSet(Passes) |-> <<>>]
  BY DEF GpuListInit, GpuListStart
<1>2. Cardinality(GpusOf(nodes)) \in Nat
  <2>1. Len(nodes) \in Nat
    BY <1>1, OfTopology
  <2>. QED  BY <1>1, <2>1, NoMoreThanGpus
<1>3. \A p \in 1..7 : lists[Passes[p]] = <<>>
  BY <1>1, PassNames
<1>4. \A p \in 1..7 : Len(lists[Passes[p]]) = 0 /\ Filling(p) = 0
  BY <1>1, <1>3 DEF Filling
<1>5. Cardinality(GpusOf(nodes)) * rounds = 0
  BY <1>1, <1>2
<1>6. rounds \in 0..MaxRounds
  BY <1>1, TopologiesAreTopologies
<1>. QED  BY <1>1, <1>4, <1>5, <1>6 DEF Bounded

\* The state that the bound is about.
LEMMA ListState ==
  ASSUME ListsInv, Bounded
  PROVE  /\ nodes \in Topologies /\ Len(nodes) \in Nat /\ MaxRounds \in Nat /\ rounds \in Nat
         /\ pass \in 0..7 /\ at \in 1..(Len(nodes) + 1)
         /\ Cardinality(GpusOf(nodes)) \in Nat /\ Cardinality(GpusOf(nodes)) * rounds \in Nat
         /\ \A p \in 1..7 : /\ lists[Passes[p]] \in Seq(Values) /\ Len(lists[Passes[p]]) \in Nat
                            /\ Filling(p) \in Nat /\ Filling(p) <= Cardinality(GpusOf(nodes))
                            /\ Pos(nodes, Passes[p], at - 1) \in Nat
                            /\ Pos(nodes, Passes[p], at - 1) <= Cardinality(GpusOf(nodes))
<1>1. /\ nodes \in Topologies /\ rounds \in Nat /\ pass \in 0..7 /\ at \in 1..(Len(nodes) + 1)
      /\ lists \in [ListNames -> Seq(Values)]
  BY DEF ListsInv, ListTypes
<1>2. Len(nodes) \in Nat /\ MaxRounds \in Nat
  BY <1>1, OfTopology, TopologiesAreTopologies
<1>3. at - 1 \in 0..Len(nodes)
  BY <1>1, <1>2
<1>4. Cardinality(GpusOf(nodes)) \in Nat
  BY <1>1, <1>3, NoMoreThanGpus
<1>5. \A p \in 1..7 : /\ Pos(nodes, Passes[p], at - 1) \in Nat
                      /\ Pos(nodes, Passes[p], at - 1) <= Cardinality(GpusOf(nodes))
  BY <1>1, <1>3, NoMoreThanGpus
<1>6. \A p \in 1..7 : Filling(p) \in Nat /\ Filling(p) <= Cardinality(GpusOf(nodes))
  BY <1>4, <1>5 DEF Filling
<1>7. \A p \in 1..7 : lists[Passes[p]] \in Seq(Values) /\ Len(lists[Passes[p]]) \in Nat
  BY <1>1, PassNames
<1>8. \A g, r \in Nat : g * r \in Nat
  OBVIOUS
<1>. QED  BY <1>1, <1>2, <1>4, <1>5, <1>6, <1>7, <1>8

LEMMA BoundedInitialize == ASSUME ListsInv, Bounded, Initialize PROVE Bounded'
<1>1. /\ pass = 0 /\ rounds < MaxRounds /\ pass' = 1 /\ at' = 1
      /\ nodes' = nodes /\ rounds' = rounds /\ lists' = lists
  BY DEF Initialize, Started
<1>2. \A p \in 1..7 : Filling(p)' = 0 /\ Filling(p) = 0
  <2>1. \A p \in 1..7 : Pos(nodes, Passes[p], 0) = 0
    BY Positions
  <2>2. \A p \in 1..7 : Filling(p)' = IF p = 1 THEN Pos(nodes, Passes[p], 0) ELSE 0
    BY <1>1 DEF Filling
  <2>3. \A p \in 1..7 : Filling(p) = 0
    BY <1>1 DEF Filling
  <2>. QED  BY <2>1, <2>2, <2>3
<1>3. Cardinality(GpusOf(nodes))' = Cardinality(GpusOf(nodes))
  BY <1>1 DEF GpusOf
<1>. QED  BY <1>1, <1>2, <1>3, ListState DEF Bounded

LEMMA BoundedReadNode == ASSUME ListsInv, Bounded, ReadNode PROVE Bounded'
<1>. DEFINE name == Passes[pass]
            w == IF Pushed(nodes, name, at) THEN <<What(nodes, name, at)>> ELSE <<>>
            g == Cardinality(GpusOf(nodes))
<1>1. /\ nodes' = nodes /\ rounds' = rounds /\ pass' = pass /\ at' = at + 1
      /\ at \in 1..Len(nodes) /\ pass \in 1..7 /\ lists' = [lists EXCEPT ![name] = @ \o w]
  BY ReadsNode DEF ReadNode
<1>2. g' = g /\ g \in Nat /\ g * rounds \in Nat
  BY <1>1, ListState DEF GpusOf
<1>3. lists \in [ListNames -> Seq(Values)] /\ Len(nodes) \in Nat
  BY ListState DEF ListsInv, ListTypes
<1>4. name \in ListNames /\ lists[name] \in Seq(Values) /\ w \in Seq(Values)
  <2>1. name \in ListNames
    BY <1>1, PassNames
  <2>2. nodes \in Topologies
    BY ListState
  <2>. QED  BY <1>1, <1>3, <2>1, <2>2, Worth
<1>5. Len(w) = IF Pushed(nodes, name, at) THEN 1 ELSE 0
  OBVIOUS
<1>6. Pos(nodes, name, at) = Pos(nodes, name, at - 1) + (IF Pushed(nodes, name, at) THEN 1 ELSE 0)
  <2>1. at - 1 \in Nat /\ (at - 1) + 1 = at
    BY <1>1
  <2>. HIDE DEF name
  <2>. QED  BY <2>1, Positions
<1>. HIDE DEF w, g
<1>7. ASSUME NEW p \in 1..7
      PROVE  Len(lists'[Passes[p]]) <= g * rounds + Filling(p)'
  <2>0. /\ Len(lists[Passes[p]]) \in Nat /\ Filling(p) \in Nat
        /\ Len(lists[Passes[p]]) <= g * rounds + Filling(p)
    BY ListState DEF Bounded, g
  <2>1. CASE p = pass
    <3>1. Filling(p) = Pos(nodes, name, at - 1) /\ Filling(p)' = Pos(nodes, name, at)
      BY <1>1, <2>1 DEF Filling
    <3>2. lists'[Passes[p]] = lists[Passes[p]] \o w
      BY <1>1, <1>3, <1>4, <2>1
    <3>3. Len(lists'[Passes[p]]) = Len(lists[Passes[p]]) + Len(w)
      BY <1>4, <2>1, <3>2
    <3>4. Filling(p)' = Filling(p) + Len(w) /\ Len(w) \in Nat
      BY <1>5, <1>6, <3>1
    <3>. QED  BY <1>2, <2>0, <3>3, <3>4
  <2>2. CASE p # pass
    <3>1. Filling(p)' = Filling(p)
      BY <1>1, <2>2 DEF Filling, GpusOf
    <3>2. lists'[Passes[p]] = lists[Passes[p]]
      BY <1>1, <1>3, <2>2, PassNames
    <3>. QED  BY <2>0, <3>1, <3>2
  <2>. QED  BY <2>1, <2>2
<1>. QED  BY <1>1, <1>2, <1>7 DEF Bounded, g

LEMMA BoundedEndPass == ASSUME ListsInv, Bounded, EndPass PROVE Bounded'
<1>. DEFINE g == Cardinality(GpusOf(nodes))
<1>1. /\ nodes' = nodes /\ lists' = lists /\ at' = 1 /\ pass # 0 /\ rounds < MaxRounds
      /\ \/ pass = 7 /\ pass' = 0 /\ rounds' = rounds + 1
         \/ pass # 7 /\ pass' = pass + 1 /\ rounds' = rounds
  BY PassNames DEF EndPass, Started, Bounded
<1>2. g' = g /\ g \in Nat /\ g * rounds \in Nat /\ rounds \in Nat /\ MaxRounds \in Nat /\ pass \in 1..7
  BY <1>1, ListState DEF GpusOf
<1>. HIDE DEF g
<1>3. g * (rounds + 1) = g * rounds + g
  BY <1>2
<1>4. ASSUME NEW p \in 1..7
      PROVE  Len(lists'[Passes[p]]) <= g * rounds' + Filling(p)'
  <2>1. /\ Len(lists[Passes[p]]) \in Nat /\ Filling(p) \in Nat /\ Filling(p) <= g
        /\ Len(lists[Passes[p]]) <= g * rounds + Filling(p)
    BY ListState DEF Bounded, g
  <2>2. CASE pass = 7
    <3>1. Filling(p)' = 0 /\ rounds' = rounds + 1
      BY <1>1, <2>2 DEF Filling
    <3>. QED  BY <1>1, <1>2, <1>3, <2>1, <3>1
  <2>3. CASE pass # 7
    <3>1. Filling(p) <= Filling(p)' /\ Filling(p)' \in Nat
      <4>1. CASE pass > p
        BY <1>1, <1>2, <2>3, <4>1 DEF Filling, g
      <4>2. CASE pass = p
        BY <1>1, <1>2, <2>1, <2>3, <4>2 DEF Filling, g
      <4>3. CASE pass < p
        <5>1. Pos(nodes, Passes[p], 0) = 0
          BY Positions
        <5>2. Filling(p) = 0 /\ Filling(p)' \in {Pos(nodes, Passes[p], 0), 0}
          BY <1>1, <1>2, <2>3, <4>3 DEF Filling
        <5>. QED  BY <5>1, <5>2
      <4>. QED  BY <1>2, <4>1, <4>2, <4>3
    <3>. QED  BY <1>1, <1>2, <2>1, <2>3, <3>1
  <2>. QED  BY <2>2, <2>3
<1>5. rounds' \in 0..MaxRounds /\ (pass' # 0 => rounds' < MaxRounds)
  BY <1>1, <1>2
<1>. QED  BY <1>1, <1>2, <1>4, <1>5 DEF Bounded, g

LEMMA BoundedKept ==
  ASSUME ListsInv, Bounded, [GpuListNext]_listVars
  PROVE  Bounded'
<1>1. CASE UNCHANGED listVars
  BY <1>1 DEF listVars, Bounded, Filling, GpusOf
<1>. QED  BY <1>1, BoundedInitialize, BoundedReadNode, BoundedEndPass DEF GpuListNext

LEMMA ListsAreTyped == ASSUME ListsInv, Bounded PROVE GpuListTypeOK
<1>. DEFINE g == Cardinality(GpusOf(nodes))
<1>1. \A p \in 1..7 :
        Len(lists[Passes[p]]) <= g * (rounds + (IF pass = 0 THEN 0 ELSE 1))
  <2>. TAKE p \in 1..7
  <2>1. /\ Len(lists[Passes[p]]) \in Nat /\ Filling(p) \in Nat /\ Filling(p) <= g /\ g \in Nat
        /\ Len(lists[Passes[p]]) <= g * rounds + Filling(p)
        /\ rounds \in Nat /\ g * rounds \in Nat /\ pass \in 0..7
    BY ListState DEF Bounded
  <2>2. pass = 0 => Filling(p) = 0
    BY DEF Filling
  <2>. HIDE DEF g
  <2>3. g * (rounds + 1) = g * rounds + g /\ rounds + 0 = rounds
    BY <2>1
  <2>. QED  BY <2>1, <2>2, <2>3
<1>2. \A name \in ToSet(Passes) : Len(lists[name]) <= g * (rounds + (IF pass = 0 THEN 0 ELSE 1))
  BY <1>1, PassNames
<1>3. \A e \in domLoc : \E i \in GpusOf(nodes) : nodes[i].id = e.id /\ nodes[i].place = e.place
  BY DEF ListsInv, Mapped, Readable, Entry
<1>4. nodes \in Topologies /\ rounds \in 0..MaxRounds /\ pass \in 0..Len(Passes) /\ at \in 1..(Len(nodes) + 1)
  BY PassNames DEF ListsInv, ListTypes, Bounded
<1>. QED  BY <1>2, <1>3, <1>4 DEF GpuListTypeOK

-----------------------------------------------------------------------------
(* The queries.                                                            *)

LEMMA Known == KnownCapabilities = ToSet(PcieCapNames) \ {"atomic_op_128_CAS_completer"}
<1>. DEFINE s == SubSeq(PcieCapNames, 1, 14)
<1>1. Len(PcieCapNames) = 15 /\ DOMAIN PcieCapNames = 1..15
  BY DEF PcieCapNames
<1>2. PcieCapNames \in Seq(ToSet(PcieCapNames))
  <2>1. \A i \in 1..15 : PcieCapNames[i] \in ToSet(PcieCapNames)
    BY <1>1 DEF ToSet
  <2>2. PcieCapNames = [i \in 1..15 |-> PcieCapNames[i]]
    BY DEF PcieCapNames
  <2>. HIDE DEF PcieCapNames
  <2>3. PcieCapNames \in [1..15 -> ToSet(PcieCapNames)]
    BY <2>1, <2>2
  <2>4. \A T : \A n \in Nat : \A f \in [1..n -> T] : f \in Seq(T)
    OBVIOUS
  <2>. QED  BY <2>3, <2>4, Zenon
<1>3. PcieCapNames[15] = "atomic_op_128_CAS_completer"
  BY DEF PcieCapNames
<1>4. \A i \in 1..14 : PcieCapNames[i] # "atomic_op_128_CAS_completer"
  <2>1. \A i \in 1..14 : \/ i = 1 \/ i = 2 \/ i = 3 \/ i = 4 \/ i = 5 \/ i = 6 \/ i = 7
                         \/ i = 8 \/ i = 9 \/ i = 10 \/ i = 11 \/ i = 12 \/ i = 13 \/ i = 14
    OBVIOUS
  <2>. QED  BY <2>1 DEF PcieCapNames
<1>. HIDE DEF PcieCapNames
<1>5. DOMAIN s = 1..14 /\ \A i \in 1..14 : s[i] = PcieCapNames[i]
  BY <1>1, <1>2
<1>. HIDE DEF s
<1>6. ToSet(s) = {PcieCapNames[i] : i \in 1..14}
  BY <1>5 DEF ToSet
<1>7. ToSet(PcieCapNames) = {PcieCapNames[i] : i \in 1..14} \cup {PcieCapNames[15]}
  <2>1. 1..15 = 1..14 \cup {15}
    OBVIOUS
  <2>. QED  BY <1>1, <2>1 DEF ToSet
<1>. QED  BY <1>3, <1>4, <1>6, <1>7 DEF KnownCapabilities, s

\* What is known of an inspection.
LEMMA OfInspection ==
  ASSUME inspection \in Inspections
  PROVE  /\ inspection.module \in {"peqt", "gpup", "smqt"}
         /\ Len(Props) \in Nat /\ Len(Devices) \in Nat
         /\ \A i \in 1..Len(Devices) : Len(Devices[i].budget) \in Nat
         /\ \A k \in 1..Len(Props) : /\ Props[k].pattern.kind \in {"empty", "all", "one", "malformed"}
                                     /\ Props[k].condition \in Nat
                                     /\ inspection.module # "peqt" => Props[k].condition = 0
                                     /\ Props[k].name \in ToSet(PcieCapNames) => Props[k].condition = 0
         /\ \A j, k \in 1..Len(Props) : Props[j].name = Props[k].name => Props[j].condition = Props[k].condition
<1>1. /\ inspection.module \in {"peqt", "gpup", "smqt"} /\ Len(Devices) \in Nat
      /\ \A i \in 1..Len(Devices) : Len(Devices[i].budget) \in Nat
      /\ Props \in Seq(PropertyType)
      /\ \A k \in 1..Len(Props) : /\ inspection.module # "peqt" => Props[k].condition = 0
                                  /\ Props[k].name \in ToSet(PcieCapNames) => Props[k].condition = 0
                                  /\ \A j \in 1..Len(Props) : Props[j].name = Props[k].name =>
                                                                Props[j].condition = Props[k].condition
  BY InspectionsAreInspections DEF Props, Devices
<1>2. Len(Props) \in Nat /\ \A k \in 1..Len(Props) : Props[k] \in PropertyType
  BY <1>1
<1>3. \A k \in 1..Len(Props) : /\ Props[k].pattern.kind \in {"empty", "all", "one", "malformed"}
                               /\ Props[k].condition \in Nat
  BY <1>2 DEF PropertyType
<1>. QED  BY <1>1, <1>2, <1>3

\* The verdict on a property, as it is taken and as it is meant.
LEMMA Judging ==
  ASSUME inspection \in Inspections, NEW k \in 1..Len(Props), NEW d
  PROVE  LET p      == Props[k]
             named  == p.name \in KnownCapabilities
             budget == ~named /\ p.section = "capability" /\ p.condition # 0
             value  == IF named THEN Capability(p.name, d) ELSE PwrBudgeting(p.condition, d)
         IN (named /\ FailsNamed(p, value)) \/ (budget /\ FailsBudget(p, value)) <=> Violates(d, p)
<1>. DEFINE p == Props[k]
<1>1. p.pattern.kind \in {"empty", "all", "one", "malformed"}
  BY OfInspection
<1>2. KnownCapabilities = ToSet(PcieCapNames) \ {"atomic_op_128_CAS_completer"}
  BY Known
<1>. HIDE DEF p
<1>3. CASE p.name \in KnownCapabilities
  <2>1. FailsNamed(p, Capability(p.name, d)) <=> p.pattern.kind = "one" /\ p.pattern.value # Capability(p.name, d)
    BY <1>1 DEF FailsNamed, Matches
  <2>. QED  BY <1>2, <1>3, <2>1 DEF Violates, p
<1>4. CASE p.name \notin KnownCapabilities
  <2>1. FailsBudget(p, PwrBudgeting(p.condition, d)) <=> ~Matches(p.pattern, PwrBudgeting(p.condition, d))
    BY DEF FailsBudget
  <2>. QED  BY <1>2, <1>4, <2>1 DEF Violates, p
<1>. QED  BY <1>3, <1>4

\* The power of a condition is the one of an entry before the end of the list.
LEMMA Budgeting ==
  ASSUME NEW d, Len(d.budget) \in Nat, NEW condition, PwrBudgeting(condition, d) # NotSupported
  PROVE  \E i \in 1..Len(d.budget) :
           /\ d.budget[i].condition = condition /\ PwrBudgeting(condition, d) = <<"mW", d.budget[i].power>>
           /\ \A j \in 1..(i - 1) : d.budget[j].selects => d.budget[j].condition # 0
<1>. DEFINE ends == {i \in 1..Len(d.budget) : d.budget[i].selects /\ d.budget[i].condition = 0}
            hits == {i \in 1..Len(d.budget) : /\ d.budget[i].selects /\ d.budget[i].condition = condition
                                              /\ \A j \in ends : i < j}
            first == CHOOSE i \in hits : \A j \in hits : i <= j
<1>1. PwrBudgeting(condition, d) = IF hits = {} THEN NotSupported ELSE <<"mW", d.budget[first].power>>
  BY DEF PwrBudgeting
<1>2. hits # {} /\ hits \in SUBSET Nat
  <2>1. hits # {}
    BY <1>1
  <2>2. hits \in SUBSET Nat
    OBVIOUS
  <2>. QED  BY <2>1, <2>2
<1>3. first \in hits
  <2>. HIDE DEF hits
  <2>1. \E i \in hits : \A j \in hits : i <= j
    BY <1>2, LeastNumber
  <2>. QED  BY <2>1
<1>. HIDE DEF first
<1>4. \A j \in 1..(first - 1) : d.budget[j].selects => d.budget[j].condition # 0
  <2>. SUFFICES ASSUME NEW j \in 1..(first - 1), d.budget[j].selects, d.budget[j].condition = 0 PROVE FALSE
    OBVIOUS
  <2>1. first \in 1..Len(d.budget)
    BY <1>3
  <2>2. j \in ends
    BY <2>1
  <2>3. first < j
    BY <1>3, <2>2
  <2>. QED  BY <2>1, <2>3
<1>. QED  BY <1>1, <1>2, <1>3, <1>4

QueryTypes ==
    /\ inspection \in Inspections
    /\ device \in 1..(Len(Devices) + 1) /\ item \in 1..LastItem
    /\ device = Len(Devices) + 1 => item = 1
    /\ passes \in BOOLEAN /\ allPass \in BOOLEAN
    /\ outcome # "none" => device = Len(Devices) + 1

\* The verdict so far, on the devices before the current one and on this one.
Judged ==
    /\ inspection.module = "peqt" =>
         /\ allPass <=> \A i \in 1..(device - 1), k \in 1..Len(Props) : ~Violates(Devices[i], Props[k])
         /\ passes <=> \A k \in 1..(item - 1) : ~Violates(Dev, Props[k])
    /\ inspection.module = "smqt" =>
         /\ allPass <=> \A i \in 1..(device - 1) : BarsFit(Devices[i], inspection.bounds)
         /\ passes <=> (item = 2 => BarsFit(Dev, inspection.bounds))
         /\ outcome # "none" => (outcome = "SUCCESS" <=> allPass)

\* The devices that have been asked for their properties.
Reached == IF item > 1 THEN device ELSE device - 1

Property(i, n) == [device |-> i, name |-> n, value |-> <<"property", 0>>]

\* Nothing is told of the properties of a device that has not been reached.
NotAhead ==
    inspection.module = "gpup" =>
        /\ \A i \in Nat : \A n : <<i, n>> \in notFound \/ Property(i, n) \in answers => i <= Reached

\* What is asked of a device that has been reached is told or named as not found.
AskedTold ==
    inspection.module = "gpup" =>
        \A i \in 1..Reached : \A n \in PropertyNames :
            <<i, n>> \in notFound <=> Property(i, n) \notin answers

QueriesInv == QueryTypes /\ Judged /\ NotAhead /\ AskedTold /\ BudgetOfDevice

LEMMA QueriesStarted ==
  ASSUME QueriesInit
  PROVE  QueriesInv
<1>. USE DEF QueriesInit, QueriesStart
<1>1. inspection \in Inspections /\ Len(Devices) \in Nat /\ Len(Props) \in Nat
  BY OfInspection
<1>2. QueryTypes
  BY <1>1 DEF QueryTypes, LastItem
<1>3. Judged
  BY <1>1 DEF Judged
<1>4. NotAhead /\ AskedTold /\ BudgetOfDevice
  BY <1>1 DEF NotAhead, AskedTold, BudgetOfDevice, Reached
<1>. QED  BY <1>2, <1>3, <1>4 DEF QueriesInv

\* The names of what is the same before and after every step.
LEMMA SameInspection ==
  ASSUME inspection' = inspection
  PROVE  /\ Props' = Props /\ Devices' = Devices /\ LastItem' = LastItem
         /\ PropertyNames' = PropertyNames /\ LinkNames' = LinkNames
BY DEF Props, Devices, LastItem, PropertyNames, LinkNames, Split

LEMMA QueriesLook ==
  ASSUME QueriesInv, LookAtCapability
  PROVE  QueriesInv'
<1>. DEFINE p      == Props[item]
            named  == p.name \in KnownCapabilities
            budget == ~named /\ p.section = "capability" /\ p.condition # 0
            value  == IF named THEN Capability(p.name, Dev) ELSE PwrBudgeting(p.condition, Dev)
<1>1. /\ inspection \in Inspections /\ inspection' = inspection /\ inspection.module = "peqt"
      /\ device' = device /\ item' = item + 1 /\ allPass' = allPass /\ outcome' = outcome /\ outcome = "none"
      /\ device <= Len(Devices) /\ item <= Len(Props)
  BY DEF LookAtCapability, QueriesInv, QueryTypes
<1>2. /\ Len(Devices) \in Nat /\ Len(Props) \in Nat /\ device \in 1..Len(Devices) /\ item \in 1..Len(Props)
      /\ LastItem = Len(Props) + 1 /\ passes \in BOOLEAN /\ allPass \in BOOLEAN
  BY <1>1, OfInspection DEF QueriesInv, QueryTypes, LastItem
<1>3. /\ answers' = IF named \/ budget
                    THEN answers \cup {[device |-> device, name |-> p.name, value |-> value]} ELSE answers
      /\ passes' = (passes /\ ~(named /\ FailsNamed(p, value)) /\ ~(budget /\ FailsBudget(p, value)))
  BY DEF LookAtCapability
<1>4. Props' = Props /\ Devices' = Devices /\ LastItem' = LastItem /\ Dev' = Dev
  BY <1>1, SameInspection DEF Dev
<1>5. (named /\ FailsNamed(p, value)) \/ (budget /\ FailsBudget(p, value)) <=> Violates(Dev, p)
  BY <1>1, <1>2, Judging
<1>6. passes' \in BOOLEAN /\ (passes' <=> passes /\ ~Violates(Dev, p))
  BY <1>2, <1>3, <1>5
<1>7. QueryTypes'
  BY <1>1, <1>2, <1>4, <1>6 DEF QueryTypes
<1>8. Judged'
  <2>1. passes' <=> \A k \in 1..(item' - 1) : ~Violates(Dev, Props[k])
    <3>1. passes <=> \A k \in 1..(item - 1) : ~Violates(Dev, Props[k])
      BY <1>1 DEF QueriesInv, Judged
    <3>2. 1..(item' - 1) = 1..(item - 1) \cup {item}
      BY <1>1, <1>2
    <3>. QED  BY <1>6, <3>1, <3>2
  <2>2. allPass <=> \A i \in 1..(device - 1), k \in 1..Len(Props) : ~Violates(Devices[i], Props[k])
    BY <1>1 DEF QueriesInv, Judged
  <2>. QED  BY <1>1, <1>4, <2>1, <2>2 DEF Judged
<1>9. NotAhead' /\ AskedTold'
  BY <1>1 DEF NotAhead, AskedTold
<1>10. BudgetOfDevice'
  <2>. SUFFICES ASSUME NEW a \in answers', NEW k \in 1..Len(Props),
                       Props[k].name = a.name, Props[k].condition # 0, a.value # NotSupported
                PROVE  LET b == Devices[a.device].budget IN
                       \E i \in 1..Len(b) :
                         /\ b[i].condition = Props[k].condition /\ a.value = <<"mW", b[i].power>>
                         /\ \A j \in 1..(i - 1) : b[j].selects => b[j].condition # 0
    BY <1>4 DEF BudgetOfDevice
  <2>1. CASE a \in answers
    BY <2>1 DEF QueriesInv, BudgetOfDevice
  <2>2. CASE a \notin answers
    <3>1. (named \/ budget) /\ a = [device |-> device, name |-> p.name, value |-> value]
      BY <1>3, <2>2
    <3>2. a.device = device /\ a.name = p.name /\ a.value = value
      BY <3>1
    <3>3. ~named
      <4>1. Props[k].name \notin ToSet(PcieCapNames)
        BY <1>1, OfInspection
      <4>. QED  BY <3>2, <4>1, Known
    <3>4. Props[k].condition = p.condition
      BY <1>1, <1>2, <3>2, OfInspection
    <3>5. a.value = PwrBudgeting(p.condition, Dev) /\ Dev = Devices[a.device]
      BY <3>2, <3>3 DEF Dev
    <3>6. Len(Dev.budget) \in Nat
      BY <1>1, <1>2, OfInspection DEF Dev
    <3>7. PwrBudgeting(p.condition, Dev) # NotSupported
      BY <3>5
    <3>. HIDE DEF p
    <3>8. \E i \in 1..Len(Dev.budget) :
            /\ Dev.budget[i].condition = p.condition /\ PwrBudgeting(p.condition, Dev) = <<"mW", Dev.budget[i].power>>
            /\ \A j \in 1..(i - 1) : Dev.budget[j].selects => Dev.budget[j].condition # 0
      BY ONLY <3>6, <3>7, Budgeting
    <3>. QED  BY <3>4, <3>5, <3>8
  <2>. QED  BY <2>1, <2>2
<1>. QED  BY <1>7, <1>8, <1>9, <1>10 DEF QueriesInv

LEMMA QueriesValues ==
  ASSUME QueriesInv, GetValues
  PROVE  QueriesInv'
<1>. DEFINE shown == IF LinkNames # {} THEN Dev.names \cap PropertyNames ELSE Dev.names
<1>1. /\ inspection \in Inspections /\ inspection' = inspection /\ inspection.module = "gpup"
      /\ device' = device /\ item = 1 /\ item' = 2 /\ allPass' = allPass /\ passes' = passes
      /\ outcome' = outcome /\ outcome = "none" /\ device <= Len(Devices)
  BY DEF GetValues, QueriesInv, QueryTypes
<1>2. /\ Len(Devices) \in Nat /\ Len(Props) \in Nat /\ device \in 1..Len(Devices) /\ device \in Nat
      /\ LastItem = 3 /\ passes \in BOOLEAN /\ allPass \in BOOLEAN
  BY <1>1, OfInspection DEF QueriesInv, QueryTypes, LastItem
<1>3. /\ answers' = answers \cup {Property(device, n) : n \in shown}
      /\ notFound' = notFound \cup {<<device, n>> : n \in PropertyNames \ Dev.names}
  BY DEF GetValues, Property, ToFind
<1>4. /\ Props' = Props /\ Devices' = Devices /\ LastItem' = LastItem /\ Dev' = Dev
      /\ PropertyNames' = PropertyNames
  BY <1>1, SameInspection DEF Dev
<1>5. QueryTypes'
  BY <1>1, <1>2, <1>4 DEF QueryTypes
<1>6. Judged'
  BY <1>1 DEF Judged
<1>7. \A i \in Nat : \A n :
        /\ Property(i, n) \in answers' <=> Property(i, n) \in answers \/ (i = device /\ n \in shown)
        /\ <<i, n>> \in notFound' <=> <<i, n>> \in notFound \/ (i = device /\ n \in PropertyNames \ Dev.names)
  <2>1. \A i, j, n, m : Property(i, n) = Property(j, m) <=> i = j /\ n = m
    BY DEF Property
  <2>. QED  BY <1>3, <2>1
<1>8. \A i \in Nat : \A n : <<i, n>> \in notFound \/ Property(i, n) \in answers => i <= device - 1
  BY <1>1 DEF QueriesInv, NotAhead, Reached
<1>9. NotAhead'
  <2>1. Reached' = device
    BY <1>1 DEF Reached
  <2>. QED  BY <1>1, <1>2, <1>7, <1>8, <2>1 DEF NotAhead
<1>10. AskedTold'
  <2>. SUFFICES ASSUME NEW i \in 1..device, NEW n \in PropertyNames
                PROVE  <<i, n>> \in notFound' <=> Property(i, n) \notin answers'
    <3>1. Reached' = device
      BY <1>1 DEF Reached
    <3>. QED  BY <1>1, <1>4, <3>1 DEF AskedTold, Property
  <2>1. CASE i = device
    <3>1. <<i, n>> \notin notFound /\ Property(i, n) \notin answers
      BY <1>2, <1>8, <2>1
    <3>2. n \in shown <=> n \in Dev.names
      OBVIOUS
    <3>. QED  BY <1>2, <1>7, <2>1, <3>1, <3>2
  <2>2. CASE i # device
    <3>1. i \in 1..(device - 1) /\ i \in Nat
      BY <1>2, <2>2
    <3>2. <<i, n>> \in notFound <=> Property(i, n) \notin answers
      <4>1. Reached = device - 1
        BY <1>1 DEF Reached
      <4>. QED  BY <1>1, <3>1, <4>1 DEF QueriesInv, AskedTold
    <3>. QED  BY <1>7, <2>2, <3>1, <3>2
  <2>. QED  BY <2>1, <2>2
<1>11. BudgetOfDevice'
  BY <1>1, <1>4, OfInspection DEF BudgetOfDevice
<1>. QED  BY <1>5, <1>6, <1>9, <1>10, <1>11 DEF QueriesInv

LEMMA QueriesLinks ==
  ASSUME QueriesInv, GetLinks
  PROVE  QueriesInv'
<1>1. /\ inspection \in Inspections /\ inspection' = inspection /\ inspection.module = "gpup"
      /\ device' = device /\ item = 2 /\ item' = 3 /\ allPass' = allPass /\ passes' = passes
      /\ outcome' = outcome /\ outcome = "none" /\ device <= Len(Devices) /\ notFound' = notFound
  BY DEF GetLinks, QueriesInv, QueryTypes
<1>2. /\ Len(Devices) \in Nat /\ device \in 1..Len(Devices) /\ device \in Nat
      /\ LastItem = 3 /\ passes \in BOOLEAN /\ allPass \in BOOLEAN
  BY <1>1, OfInspection DEF QueriesInv, QueryTypes, LastItem
<1>3. /\ Props' = Props /\ Devices' = Devices /\ LastItem' = LastItem
      /\ PropertyNames' = PropertyNames
  BY <1>1, SameInspection
<1>4. \A i, n : Property(i, n) \in answers' <=> Property(i, n) \in answers
  <2>1. \A i, j, n, m, l : Property(i, n) # [device |-> j, name |-> m, value |-> <<"link", l>>]
    BY DEF Property
  <2>. QED  BY <2>1 DEF GetLinks
<1>5. Reached' = Reached
  BY <1>1 DEF Reached
<1>6. QueryTypes' /\ Judged'
  BY <1>1, <1>2, <1>3 DEF QueryTypes, Judged
<1>7. NotAhead'
  BY <1>1, <1>4, <1>5 DEF QueriesInv, NotAhead
<1>8. AskedTold'
  <2>1. \A i, n : (Property(i, n) \in answers)' <=> Property(i, n) \in answers
    BY <1>4 DEF Property
  <2>. QED  BY <1>1, <1>3, <1>5, <2>1 DEF QueriesInv, AskedTold
<1>9. BudgetOfDevice'
  BY <1>1, <1>3, OfInspection DEF BudgetOfDevice
<1>. QED  BY <1>6, <1>7, <1>8, <1>9 DEF QueriesInv

LEMMA QueriesBars ==
  ASSUME QueriesInv, CompareBars
  PROVE  QueriesInv'
<1>1. /\ inspection \in Inspections /\ inspection' = inspection /\ inspection.module = "smqt"
      /\ device' = device /\ item = 1 /\ item' = 2 /\ allPass' = allPass
      /\ passes' = BarsFit(Dev, inspection.bounds)
      /\ outcome' = outcome /\ outcome = "none" /\ device <= Len(Devices)
  BY DEF CompareBars, QueriesInv, QueryTypes
<1>2. /\ Len(Devices) \in Nat /\ device \in 1..Len(Devices)
      /\ LastItem = 2 /\ allPass \in BOOLEAN
  BY <1>1, OfInspection DEF QueriesInv, QueryTypes, LastItem
<1>3. Props' = Props /\ Devices' = Devices /\ LastItem' = LastItem /\ Dev' = Dev
  BY <1>1, SameInspection DEF Dev
<1>4. passes' \in BOOLEAN
  BY <1>1 DEF BarsFit
<1>5. QueryTypes'
  BY <1>1, <1>2, <1>3, <1>4 DEF QueryTypes
<1>6. Judged'
  BY <1>1, <1>3 DEF QueriesInv, Judged
<1>7. NotAhead' /\ AskedTold'
  BY <1>1 DEF NotAhead, AskedTold
<1>8. BudgetOfDevice'
  BY <1>1, <1>3, OfInspection DEF BudgetOfDevice
<1>. QED  BY <1>5, <1>6, <1>7, <1>8 DEF QueriesInv

LEMMA QueriesNextDevice ==
  ASSUME QueriesInv, NextDevice
  PROVE  QueriesInv'
<1>1. /\ inspection \in Inspections /\ inspection' = inspection
      /\ device' = device + 1 /\ item = LastItem /\ item' = 1 /\ allPass' = (allPass /\ passes) /\ passes' = TRUE
      /\ outcome' = outcome /\ outcome = "none" /\ device <= Len(Devices)
      /\ answers' = answers /\ notFound' = notFound
  BY DEF NextDevice, WithDevice, QueriesInv, QueryTypes
<1>2. /\ Len(Devices) \in Nat /\ Len(Props) \in Nat /\ device \in 1..Len(Devices)
      /\ LastItem \in Nat /\ LastItem >= 1 /\ allPass \in BOOLEAN /\ passes \in BOOLEAN
      /\ inspection.module \in {"peqt", "gpup", "smqt"}
  BY <1>1, OfInspection DEF QueriesInv, QueryTypes, LastItem
<1>3. Props' = Props /\ Devices' = Devices /\ LastItem' = LastItem /\ PropertyNames' = PropertyNames
  BY <1>1, SameInspection
<1>4. QueryTypes'
  BY <1>1, <1>2, <1>3 DEF QueryTypes
<1>5. 1..(device' - 1) = 1..(device - 1) \cup {device}
  BY <1>1, <1>2
<1>6. Judged'
  <2>1. CASE inspection.module = "peqt"
    <3>1. item - 1 = Len(Props)
      BY <1>1, <1>2, <2>1 DEF LastItem
    <3>2. allPass <=> \A i \in 1..(device - 1), k \in 1..Len(Props) : ~Violates(Devices[i], Props[k])
      BY <2>1 DEF QueriesInv, Judged
    <3>3. passes <=> \A k \in 1..Len(Props) : ~Violates(Devices[device], Props[k])
      BY <2>1, <3>1 DEF QueriesInv, Judged, Dev
    <3>4. allPass' <=> \A i \in 1..(device' - 1), k \in 1..Len(Props) : ~Violates(Devices[i], Props[k])
      BY <1>1, <1>5, <3>2, <3>3
    <3>5. 1..(item' - 1) = {}
      BY <1>1
    <3>. QED  BY <1>1, <1>3, <2>1, <3>4, <3>5 DEF Judged
  <2>2. CASE inspection.module = "smqt"
    <3>1. item = 2
      BY <1>1, <2>2 DEF LastItem
    <3>2. allPass <=> \A i \in 1..(device - 1) : BarsFit(Devices[i], inspection.bounds)
      BY <2>2 DEF QueriesInv, Judged
    <3>3. passes <=> BarsFit(Devices[device], inspection.bounds)
      BY <2>2, <3>1 DEF QueriesInv, Judged, Dev
    <3>4. allPass' <=> \A i \in 1..(device' - 1) : BarsFit(Devices[i], inspection.bounds)
      BY <1>1, <1>5, <3>2, <3>3
    <3>. QED  BY <1>1, <1>3, <2>2, <3>4 DEF Judged
  <2>3. CASE inspection.module = "gpup"
    BY <1>1, <2>3 DEF Judged
  <2>. QED  BY <1>2, <2>1, <2>2, <2>3
<1>7. inspection.module = "gpup" => Reached = device /\ Reached' = device
  BY <1>1, <1>2 DEF Reached, LastItem
<1>8. NotAhead'
  BY <1>1, <1>7 DEF QueriesInv, NotAhead, Property
<1>9. AskedTold'
  <2>1. \A i, n : (Property(i, n) \in answers)' <=> Property(i, n) \in answers
    BY <1>1 DEF Property
  <2>. QED  BY <1>1, <1>3, <1>7, <2>1 DEF QueriesInv, AskedTold
<1>10. BudgetOfDevice'
  BY <1>1, <1>3 DEF QueriesInv, BudgetOfDevice
<1>. QED  BY <1>4, <1>6, <1>8, <1>9, <1>10 DEF QueriesInv

LEMMA QueriesEnd ==
  ASSUME QueriesInv, EndOfQuery
  PROVE  QueriesInv'
<1>1. /\ inspection \in Inspections /\ inspection' = inspection
      /\ device' = device /\ item' = item /\ allPass' = allPass /\ passes' = passes
      /\ outcome' = (IF inspection.module = "smqt" /\ ~allPass THEN "FAILED" ELSE "SUCCESS")
      /\ device > Len(Devices) /\ answers' = answers /\ notFound' = notFound
  BY DEF EndOfQuery, QueriesInv, QueryTypes
<1>2. Len(Devices) \in Nat /\ device = Len(Devices) + 1
  BY <1>1, OfInspection DEF QueriesInv, QueryTypes
<1>3. /\ Props' = Props /\ Devices' = Devices /\ LastItem' = LastItem /\ PropertyNames' = PropertyNames
      /\ Dev' = Dev
  BY <1>1, SameInspection DEF Dev
<1>4. QueryTypes'
  BY <1>1, <1>2, <1>3 DEF QueriesInv, QueryTypes
<1>5. Judged'
  BY <1>1, <1>3 DEF QueriesInv, Judged
<1>6. NotAhead'
  BY <1>1 DEF QueriesInv, NotAhead, Reached, Property
<1>7. AskedTold'
  <2>1. Reached' = Reached /\ \A i, n : (Property(i, n) \in answers)' <=> Property(i, n) \in answers
    BY <1>1 DEF Reached, Property
  <2>. QED  BY <1>1, <1>3, <2>1 DEF QueriesInv, AskedTold
<1>8. BudgetOfDevice'
  BY <1>1, <1>3 DEF QueriesInv, BudgetOfDevice
<1>. QED  BY <1>4, <1>5, <1>6, <1>7, <1>8 DEF QueriesInv

LEMMA QueriesKept == ASSUME QueriesInv, [QueriesNext]_queryVars PROVE QueriesInv'
<1>1. ASSUME UNCHANGED queryVars PROVE QueriesInv'
  <2>. USE <1>1 DEF queryVars
  <2>1. Props' = Props /\ Devices' = Devices /\ LastItem' = LastItem /\ PropertyNames' = PropertyNames /\ Dev' = Dev
    BY SameInspection DEF Dev
  <2>2. QueryTypes' /\ Judged' /\ BudgetOfDevice'
    BY <2>1 DEF QueriesInv, QueryTypes, Judged, BudgetOfDevice
  <2>3. NotAhead' /\ AskedTold'
    BY <2>1 DEF QueriesInv, NotAhead, AskedTold, Reached, Property
  <2>. QED  BY <2>2, <2>3 DEF QueriesInv
<1>2. ASSUME QueriesNext PROVE QueriesInv'
  BY <1>2, QueriesLook, QueriesValues, QueriesLinks, QueriesBars, QueriesNextDevice, QueriesEnd DEF QueriesNext
<1>. QED  BY <1>1, <1>2

LEMMA QueriesHold == QueriesSpec => []QueriesInv
<1>1. QueriesInv /\ [QueriesNext]_queryVars => QueriesInv'
  BY QueriesKept
<1>. QED  BY <1>1, QueriesStarted, PTL DEF QueriesSpec

\* For any devices and properties: the verdict of peqt and smqt is about all of them, what
\* gpup is asked for is told or named as not found, and a power is of the device's own list.
THEOREM QueriesAreSound == QueriesSpec => []QueriesSound
<1>1. QueriesInv => QueriesSound
  <2>. SUFFICES ASSUME QueriesInv PROVE QueriesSound
    OBVIOUS
  <2>1. VerdictOnAll
    <3>. SUFFICES ASSUME outcome # "none"
                  PROVE  /\ inspection.module = "peqt" =>
                              (allPass <=> \A i \in 1..Len(Devices), k \in 1..Len(Props) : ~Violates(Devices[i], Props[k]))
                         /\ inspection.module = "smqt" =>
                              (outcome = "SUCCESS" <=> \A i \in 1..Len(Devices) : BarsFit(Devices[i], inspection.bounds))
      BY DEF VerdictOnAll
    <3>1. Len(Devices) \in Nat /\ device - 1 = Len(Devices)
      BY OfInspection DEF QueriesInv, QueryTypes
    <3>. QED  BY <3>1 DEF QueriesInv, Judged
  <2>2. AskedAnswered
    <3>1. Reached = IF item > 1 THEN device ELSE device - 1
      BY DEF Reached
    <3>2. AskedTold
      BY DEF QueriesInv
    <3>3. inspection.module = "gpup" =>
            \A i \in 1..(IF item > 1 THEN device ELSE device - 1) : \A n \in PropertyNames :
              <<i, n>> \in notFound <=> Property(i, n) \notin answers
      BY <3>2 DEF AskedTold, Reached
    <3>. QED  BY <3>3, Zenon DEF AskedAnswered, Property
  <2>. QED  BY <2>1, <2>2 DEF QueriesInv, QueriesSound
<1>. QED  BY <1>1, QueriesHold, PTL

-----------------------------------------------------------------------------
(* Queries: the domains of the rest of the state.                          *)

QueryDomains ==
    /\ \A a \in answers : a.device \in 1..Len(Devices)
    /\ missing \subseteq PropertyNames /\ notFound \subseteq (1..Len(Devices)) \X PropertyNames
    /\ outcome \in {"none", "SUCCESS", "FAILED"}

LEMMA QueryDomainsStart == ASSUME QueriesInit PROVE QueryDomains
BY DEF QueriesInit, QueriesStart, QueryDomains

LEMMA QueryDomainsKept ==
  ASSUME QueriesInv, QueryDomains, [QueriesNext]_queryVars
  PROVE  QueryDomains'
<1>0. Devices' = Devices /\ PropertyNames' = PropertyNames
  <2>1. inspection' = inspection
    BY DEF QueriesNext, LookAtCapability, GetValues, GetLinks, CompareBars, NextDevice, EndOfQuery, queryVars
  <2>. QED  BY <2>1, SameInspection
<1>1. device <= Len(Devices) => device \in 1..Len(Devices)
  BY OfInspection DEF QueriesInv, QueryTypes
<1>2. CASE LookAtCapability
  <2>1. /\ \A a \in answers' : a \in answers \/ a.device = device
        /\ UNCHANGED <<missing, notFound, outcome>> /\ device <= Len(Devices)
    BY <1>2 DEF LookAtCapability
  <2>. QED  BY <1>0, <1>1, <2>1 DEF QueryDomains
<1>3. CASE GetValues
  <2>1. /\ \A a \in answers' : a \in answers \/ a.device = device
        /\ outcome' = outcome /\ device <= Len(Devices)
    BY <1>3 DEF GetValues
  <2>2. missing' \subseteq PropertyNames
    BY <1>3 DEF GetValues, ToFind
  <2>3. notFound' = notFound \cup {<<device, n>> : n \in missing'}
    BY <1>3 DEF GetValues
  <2>. QED  BY <1>0, <1>1, <2>1, <2>2, <2>3 DEF QueryDomains
<1>4. CASE GetLinks
  <2>1. /\ \A a \in answers' : a \in answers \/ a.device = device
        /\ UNCHANGED <<missing, notFound, outcome>> /\ device <= Len(Devices)
    BY <1>4 DEF GetLinks
  <2>. QED  BY <1>0, <1>1, <2>1 DEF QueryDomains
<1>5. CASE CompareBars
  <2>1. /\ \A a \in answers' : a \in answers \/ a.device = device
        /\ UNCHANGED <<missing, notFound, outcome>> /\ device <= Len(Devices)
    BY <1>5 DEF CompareBars
  <2>. QED  BY <1>0, <1>1, <2>1 DEF QueryDomains
<1>6. CASE NextDevice \/ EndOfQuery \/ UNCHANGED queryVars
  <2>1. UNCHANGED <<answers, missing, notFound>> /\ outcome' \in {outcome, "FAILED", "SUCCESS"}
    BY <1>6 DEF NextDevice, EndOfQuery, queryVars
  <2>. QED  BY <1>0, <2>1 DEF QueryDomains
<1>. QED  BY <1>2, <1>3, <1>4, <1>5, <1>6 DEF QueriesNext

LEMMA QueriesAreTyped == ASSUME QueriesInv, QueryDomains PROVE QueriesTypeOK
BY DEF QueriesInv, QueryTypes, QueryDomains, QueriesTypeOK

-----------------------------------------------------------------------------
(* The packages.                                                           *)

\* A dependency of which the host knows both names.
KnownDeps == {d \in DependencyType : {d.name, d.other} \subseteq DOMAIN host.world}

\* What an item is called: a package, or the list.
Titles == STRING \cup {"list"}

Items == [kind: {"meta", "listed", "end"}, name: Titles] \cup [kind: {"dep"}, name: Titles, dep: DependencyType]

Kinds == {"total", "installed", "missing", "bad"}

\* What a dependency is told as.
ToldAs(dep, asked) ==
    LET installed == IF asked THEN InstalledVersion(dep) ELSE NoVersion
    IN IF installed = NoVersion THEN "missing"
       ELSE IF IsVersionMismatch(Expected(dep), installed) THEN "bad"
       ELSE "installed"

PackageTypes ==
    /\ host \in Hosts
    /\ agenda \in Seq(Items)
    /\ counts \in [Kinds -> Nat]
    /\ IsFiniteSet(checked)
    /\ \A i \in 1..Len(agenda) : agenda[i].kind = "meta" => agenda[i].name \in ToSet(host.metas)

\* The dependencies of one meta package are at the front, their end behind them; each name
\* is there once, and none that has been counted.
AtFront ==
    /\ \A i \in 1..Len(agenda) : agenda[i].kind = "dep" =>
         /\ \A j \in 1..i : agenda[j].kind = "dep"
         /\ i + 1 \in 1..Len(agenda) /\ agenda[i + 1].kind \in {"dep", "end"}
         /\ agenda[i].dep \in KnownDeps /\ agenda[i].name = agenda[i].dep.name
         /\ \A c \in checked : c.dep.name # agenda[i].name
    /\ \A i, j \in 1..Len(agenda) :
         agenda[i].kind = "dep" /\ agenda[j].kind = "dep" /\ agenda[i].name = agenda[j].name => i = j
    /\ checked # {} => agenda # <<>> /\ agenda[1].kind \in {"dep", "end"}
    /\ host.manager = "none" => checked = {}

Agree(n, s) ==
    /\ n["total"] = Cardinality(s)
    /\ \A as \in {"installed", "missing", "bad"} : n[as] = Cardinality({c \in s : c.as = as})

Counted == checked # {} \/ (agenda # <<>> /\ agenda[1].kind = "dep") => Agree(counts, checked)

Told == \A c \in checked : c.dep \in KnownDeps /\ c.asked \in BOOLEAN /\ c.as = ToldAs(c.dep, c.asked)

PackagesInv == PackageTypes /\ AtFront /\ Counted /\ Told

LEMMA OfHost ==
  ASSUME host \in Hosts
  PROVE  /\ host.metas \in Seq(STRING) /\ host.listed \in Seq(STRING)
         /\ host.manager \in {"deb", "rpm", "zyp", "none"}
         /\ \A n \in DOMAIN host.world :
              /\ host.world[n].state \in {"present", "removed", "available", "unknown"}
              /\ host.world[n].version \in Nat \X Nat /\ host.world[n].version # NoVersion
         /\ \A m \in ToSet(host.metas) : /\ host.deps[m] \in Seq(DependencyType)
                                         /\ \A i \in 1..Len(host.deps[m]) : host.deps[m][i] \in KnownDeps
<1>1. /\ host.metas \in Seq(STRING) /\ host.listed \in Seq(STRING)
      /\ host.manager \in {"deb", "rpm", "zyp", "none"}
      /\ \A n \in DOMAIN host.world : host.world[n] \in PackageType
      /\ \A i \in 1..Len(host.metas) :
           /\ host.deps[host.metas[i]] \in Seq(DependencyType)
           /\ \A d \in ToSet(host.deps[host.metas[i]]) : {d.name, d.other} \subseteq DOMAIN host.world
  BY HostsAreHosts
<1>2. \A n \in DOMAIN host.world :
        /\ host.world[n].state \in {"present", "removed", "available", "unknown"}
        /\ host.world[n].version \in Nat \X Nat /\ host.world[n].version # NoVersion
  BY <1>1 DEF PackageType
<1>3. ASSUME NEW m \in ToSet(host.metas)
      PROVE  /\ host.deps[m] \in Seq(DependencyType)
             /\ \A i \in 1..Len(host.deps[m]) : host.deps[m][i] \in KnownDeps
  <2>1. PICK k \in 1..Len(host.metas) : m = host.metas[k]
    BY <1>1 DEF ToSet
  <2>2. host.deps[m] \in Seq(DependencyType) /\ \A d \in ToSet(host.deps[m]) : {d.name, d.other} \subseteq DOMAIN host.world
    BY <1>1, <2>1
  <2>3. \A i \in 1..Len(host.deps[m]) : host.deps[m][i] \in DependencyType /\ host.deps[m][i] \in ToSet(host.deps[m])
    BY <2>2 DEF ToSet
  <2>. QED  BY <2>2, <2>3 DEF KnownDeps
<1>. QED  BY <1>1, <1>2, <1>3

LEMMA Tails ==
  ASSUME NEW S, NEW s \in Seq(S), s # <<>>
  PROVE  /\ Tail(s) \in Seq(S) /\ Len(s) \in Nat /\ Len(s) >= 1 /\ Len(Tail(s)) = Len(s) - 1 /\ Head(s) = s[1]
         /\ \A i \in 1..Len(Tail(s)) : i + 1 \in 1..Len(s) /\ Tail(s)[i] = s[i + 1]
OBVIOUS

\* When the first item is done, the order of the others stands.
LEMMA FrontKept ==
  ASSUME PackageTypes, AtFront, agenda # <<>>, agenda' = Tail(agenda), host' = host,
         checked' # {} => agenda[1].kind = "dep" /\ host.manager # "none",
         \A c \in checked' : \A i \in 2..Len(agenda) : agenda[i].kind = "dep" => c.dep.name # agenda[i].name
  PROVE  AtFront' /\ agenda' \in Seq(Items)
         /\ \A i \in 1..Len(agenda') : agenda'[i].kind = "meta" => agenda'[i].name \in ToSet(host.metas)
<1>1. /\ agenda' \in Seq(Items) /\ Len(agenda) \in Nat /\ Len(agenda') = Len(agenda) - 1
      /\ \A i \in 1..Len(agenda') : i + 1 \in 1..Len(agenda) /\ agenda'[i] = agenda[i + 1]
  BY Tails DEF PackageTypes
<1>2. KnownDeps' = KnownDeps
  BY DEF KnownDeps
<1>4. ASSUME NEW i \in 1..Len(agenda'), agenda'[i].kind = "dep"
      PROVE  /\ \A j \in 1..i : agenda'[j].kind = "dep"
             /\ i + 1 \in 1..Len(agenda') /\ agenda'[i + 1].kind \in {"dep", "end"}
             /\ agenda'[i].dep \in KnownDeps /\ agenda'[i].name = agenda'[i].dep.name
             /\ \A c \in checked' : c.dep.name # agenda'[i].name
  <2>1. i + 1 \in 1..Len(agenda) /\ agenda[i + 1].kind = "dep" /\ i \in Nat
    BY <1>1, <1>4
  <2>2. /\ \A j \in 1..(i + 1) : agenda[j].kind = "dep"
        /\ (i + 1) + 1 \in 1..Len(agenda) /\ agenda[(i + 1) + 1].kind \in {"dep", "end"}
        /\ agenda[i + 1].dep \in KnownDeps /\ agenda[i + 1].name = agenda[i + 1].dep.name
    BY <2>1 DEF AtFront
  <2>5. i + 1 \in 2..Len(agenda)
    BY <1>1, <2>1
  <2>3. i + 1 \in 1..Len(agenda')
    BY <1>1, <2>1, <2>2
  <2>4. \A j \in 1..i : j + 1 \in 1..(i + 1) /\ j \in 1..Len(agenda')
    BY <1>1, <2>1
  <2>6. \A c \in checked' : c.dep.name # agenda'[i].name
    BY <1>1, <2>1, <2>5
  <2>. QED  BY <1>1, <1>4, <2>2, <2>3, <2>4, <2>6
<1>5. ASSUME NEW i \in 1..Len(agenda'), NEW j \in 1..Len(agenda'),
             agenda'[i].kind = "dep", agenda'[j].kind = "dep", agenda'[i].name = agenda'[j].name
      PROVE  i = j
  <2>1. i + 1 \in 1..Len(agenda) /\ j + 1 \in 1..Len(agenda) /\ agenda'[i] = agenda[i + 1] /\ agenda'[j] = agenda[j + 1]
    BY <1>1
  <2>2. i + 1 = j + 1
    BY <1>5, <2>1 DEF AtFront
  <2>. QED  BY <2>2
<1>6. checked' # {} => agenda' # <<>> /\ agenda'[1].kind \in {"dep", "end"}
  <2>. SUFFICES ASSUME checked' # {} PROVE agenda' # <<>> /\ agenda'[1].kind \in {"dep", "end"}
    OBVIOUS
  <2>1. 1 \in 1..Len(agenda)
    BY Tails DEF PackageTypes
  <2>2. 1 + 1 \in 1..Len(agenda) /\ agenda[1 + 1].kind \in {"dep", "end"}
    BY <2>1 DEF AtFront
  <2>3. 1 \in 1..Len(agenda')
    BY <1>1, <2>2
  <2>4. agenda' # <<>>
    BY <2>3
  <2>. QED  BY <1>1, <2>2, <2>3, <2>4
<1>7. host'.manager = "none" => checked' = {}
  OBVIOUS
<1>8. AtFront'
  BY <1>2, <1>4, <1>5, <1>6, <1>7 DEF AtFront
<1>9. \A i \in 1..Len(agenda') : agenda'[i].kind = "meta" => agenda'[i].name \in ToSet(host.metas)
  BY <1>1 DEF PackageTypes
<1>. QED  BY <1>1, <1>8, <1>9

LEMMA NoneAgree == Agree(ZeroCounts, {}) /\ ZeroCounts \in [Kinds -> Nat]
<1>1. \A as : {c \in {} : c.as = as} = {}
  OBVIOUS
<1>. QED  BY <1>1, FS_EmptySet DEF Agree, ZeroCounts, Kinds

\* One more dependency is counted once, and as one of three.
LEMMA OneMore ==
  ASSUME NEW n \in [Kinds -> Nat], NEW s, IsFiniteSet(s), Agree(n, s), NEW c, c \notin s,
         c.as \in {"installed", "missing", "bad"},
         NEW m, m = [n EXCEPT !.total = @ + 1, ![c.as] = @ + 1]
  PROVE  m \in [Kinds -> Nat] /\ IsFiniteSet(s \cup {c}) /\ Agree(m, s \cup {c})
<1>1. /\ m \in [Kinds -> Nat] /\ m["total"] = n["total"] + 1 /\ m[c.as] = n[c.as] + 1
      /\ \A as \in {"installed", "missing", "bad"} : as # c.as => m[as] = n[as]
  BY DEF Kinds
<1>2. IsFiniteSet(s \cup {c}) /\ Cardinality(s \cup {c}) = Cardinality(s) + 1
  BY FS_AddElement
<1>3. ASSUME NEW as \in {"installed", "missing", "bad"}
      PROVE  m[as] = Cardinality({d \in s \cup {c} : d.as = as})
  <2>. DEFINE t == {d \in s : d.as = as}
  <2>1. IsFiniteSet(t) /\ n[as] = Cardinality(t)
    BY FS_Subset DEF Agree
  <2>2. CASE as = c.as
    <3>1. {d \in s \cup {c} : d.as = as} = t \cup {c} /\ c \notin t
      BY <2>2
    <3>2. Cardinality(t \cup {c}) = Cardinality(t) + 1
      BY <2>1, <3>1, FS_AddElement
    <3>. QED  BY <1>1, <2>1, <2>2, <3>1, <3>2
  <2>3. CASE as # c.as
    <3>1. {d \in s \cup {c} : d.as = as} = t
      BY <2>3
    <3>. QED  BY <1>1, <2>1, <2>3, <3>1
  <2>. QED  BY <2>2, <2>3
<1>. QED  BY <1>1, <1>2, <1>3 DEF Agree

\* A manifest lists each name once.
LEMMA Listing ==
  ASSUME NEW deps, Len(deps) \in Nat
  PROVE  /\ Len(Manifest(deps)) \in Nat
         /\ \A k \in 1..Len(Manifest(deps)) : Manifest(deps)[k] \in 1..Len(deps)
         /\ \A k, l \in 1..Len(Manifest(deps)) :
              deps[Manifest(deps)[k]].name = deps[Manifest(deps)[l]].name => k = l
<1>. DEFINE S == {i \in 1..Len(deps) :
                    /\ InManifest(deps[i])
                    /\ \A j \in 1..(i - 1) : InManifest(deps[j]) => deps[j].name # deps[i].name}
            n == Cardinality(S)
            f == SetToSeq(S)
<1>1. IsFiniteSet(S) /\ n \in Nat
  <2>1. IsFiniteSet(1..Len(deps)) /\ S \subseteq 1..Len(deps)
    BY FS_Interval
  <2>. QED  BY <2>1, FS_Subset, FS_CardinalityType
<1>2. \A i, j \in S : deps[i].name = deps[j].name => i = j
  <2>. SUFFICES ASSUME NEW i \in S, NEW j \in S, deps[i].name = deps[j].name, i < j PROVE FALSE
    OBVIOUS
  <2>1. i \in 1..(j - 1)
    OBVIOUS
  <2>. QED  BY <2>1
<1>3. \A i \in S : i \in 1..Len(deps)
  OBVIOUS
<1>4. Manifest(deps) = f
  BY DEF Manifest
<1>. HIDE DEF S
<1>5. f \in [1..n -> S] /\ IsInjective(f)
  <2>1. \E g : g \in Bijection(1..n, S)
    BY <1>1, FS_CardinalityType DEF ExistsBijection
  <2>2. PICK g : g \in Bijection(1..n, S)
    BY <2>1
  <2>3. g \in [1..n -> S] /\ IsInjective(g)
    BY <2>2 DEF Bijection, Injection, IsInjective
  <2>. QED  BY <2>3 DEF SetToSeq
<1>. HIDE DEF f, n
<1>6. f \in Seq(S) /\ Len(f) = n
  BY <1>1, <1>5
<1>7. \A k \in 1..n : f[k] \in S
  BY <1>5
<1>8. \A k, l \in 1..n : f[k] = f[l] => k = l
  BY <1>5 DEF IsInjective
<1>. QED  BY <1>1, <1>2, <1>3, <1>4, <1>6, <1>7, <1>8

LEMMA Behind ==
  ASSUME NEW S, NEW s \in Seq(S), NEW t \in Seq(S)
  PROVE  /\ s \o t \in Seq(S) /\ Len(s \o t) = Len(s) + Len(t)
         /\ \A i \in 1..Len(s) : (s \o t)[i] = s[i]
         /\ \A i \in 1..Len(s \o t) : i > Len(s) => i - Len(s) \in 1..Len(t) /\ (s \o t)[i] = t[i - Len(s)]
OBVIOUS

LEMMA Joined ==
  ASSUME NEW S, NEW s \in Seq(S), NEW t \in Seq(S)
  PROVE  /\ s \o t \in Seq(S) /\ Len(s \o t) = Len(s) + Len(t)
         /\ \A i \in 1..Len(s \o t) : \/ i \in 1..Len(s) /\ (s \o t)[i] = s[i]
                                      \/ /\ i - Len(s) \in 1..Len(t) /\ (s \o t)[i] = t[i - Len(s)]
         /\ \A i \in 1..Len(s \o t) : \/ \E j \in 1..Len(s) : (s \o t)[i] = s[j]
                                      \/ \E j \in 1..Len(t) : (s \o t)[i] = t[j]
<1>1. /\ s \o t \in Seq(S) /\ Len(s) \in Nat /\ Len(t) \in Nat /\ Len(s \o t) = Len(s) + Len(t)
      /\ \A i \in 1..Len(s) : (s \o t)[i] = s[i]
      /\ \A i \in 1..Len(s \o t) : i > Len(s) => i - Len(s) \in 1..Len(t) /\ (s \o t)[i] = t[i - Len(s)]
  BY Behind
<1>. DEFINE u == s \o t
<1>2. \A i \in 1..Len(u) : i \in 1..Len(s) \/ i > Len(s)
  BY <1>1
<1>. HIDE DEF u
<1>3. /\ \A i \in 1..Len(s) : u[i] = s[i]
      /\ \A i \in 1..Len(u) : i > Len(s) => i - Len(s) \in 1..Len(t) /\ u[i] = t[i - Len(s)]
  BY <1>1 DEF u
<1>4. ASSUME NEW i \in 1..Len(u)
      PROVE  \/ i \in 1..Len(s) /\ u[i] = s[i]
             \/ i - Len(s) \in 1..Len(t) /\ u[i] = t[i - Len(s)]
  BY <1>2, <1>3
<1>5. ASSUME NEW i \in 1..Len(u)
      PROVE  (\E j \in 1..Len(s) : u[i] = s[j]) \/ (\E j \in 1..Len(t) : u[i] = t[j])
  BY <1>4
<1>. QED  BY <1>1, <1>4, <1>5 DEF u

LEMMA PackagesStarted ==
  ASSUME PackagesInit
  PROVE  PackagesInv
<1>. DEFINE metas == [i \in 1..Len(host.metas) |-> [kind |-> "meta", name |-> host.metas[i]]]
            listed == [i \in 1..Len(host.listed) |-> [kind |-> "listed", name |-> host.listed[i]]]
            end == IF host.listed = <<>> THEN <<>> ELSE <<[kind |-> "end", name |-> "list"]>>
            Whole == [kind: {"meta", "listed", "end"}, name: Titles]
<1>1. host \in Hosts /\ host.metas \in Seq(STRING) /\ host.listed \in Seq(STRING)
  BY OfHost DEF PackagesInit
<1>2. metas \in Seq(Whole) /\ \A i \in 1..Len(metas) : metas[i].name \in ToSet(host.metas)
  <2>1. \A i \in 1..Len(host.metas) : host.metas[i] \in STRING /\ host.metas[i] \in ToSet(host.metas)
    BY <1>1 DEF ToSet
  <2>6. \A i \in 1..Len(host.metas) : host.metas[i] \in Titles
    BY <2>1 DEF Titles
  <2>2. metas \in [1..Len(host.metas) -> Whole]
    BY <2>6
  <2>3. Len(host.metas) \in Nat
    BY <1>1
  <2>4. \A i \in 1..Len(host.metas) : metas[i].name = host.metas[i]
    OBVIOUS
  <2>. HIDE DEF metas, Whole
  <2>5. metas \in Seq(Whole) /\ Len(metas) = Len(host.metas)
    BY <2>2, <2>3
  <2>. QED  BY <2>1, <2>4, <2>5
<1>3. listed \in Seq(Whole) /\ \A i \in 1..Len(listed) : listed[i].kind = "listed"
  <2>1. \A i \in 1..Len(host.listed) : host.listed[i] \in Titles
    BY <1>1 DEF Titles
  <2>2. listed \in [1..Len(host.listed) -> Whole]
    BY <2>1
  <2>3. Len(host.listed) \in Nat
    BY <1>1
  <2>4. \A i \in 1..Len(host.listed) : listed[i].kind = "listed"
    OBVIOUS
  <2>. HIDE DEF listed, Whole
  <2>5. listed \in Seq(Whole) /\ Len(listed) = Len(host.listed)
    BY <2>2, <2>3
  <2>. QED  BY <2>4, <2>5
<1>4. end \in Seq(Whole) /\ \A i \in 1..Len(end) : end[i].kind = "end"
  <2>. DEFINE last == [kind |-> "end", name |-> "list"]
  <2>1. last \in Whole /\ last.kind = "end"
    <3>1. "list" \in Titles
      BY DEF Titles
    <3>2. \A x \in Titles : [kind |-> "end", name |-> x] \in Whole
      OBVIOUS
    <3>. QED  BY <3>1, <3>2
  <2>. HIDE DEF last, Whole
  <2>2. <<last>> \in Seq(Whole) /\ <<>> \in Seq(Whole) /\ Len(<<last>>) = 1 /\ Len(<<>>) = 0 /\ <<last>>[1] = last
    BY <2>1
  <2>3. end = IF host.listed = <<>> THEN <<>> ELSE <<last>>
    BY DEF last, end
  <2>. HIDE DEF end
  <2>. QED  BY <2>1, <2>2, <2>3
<1>5. agenda = metas \o listed \o end
  BY DEF PackagesInit, PackagesStart
<1>. HIDE DEF metas, listed, end, Whole
<1>6. /\ agenda \in Seq(Whole)
      /\ \A i \in 1..Len(agenda) :
           \/ \E j \in 1..Len(metas) : agenda[i] = metas[j]
           \/ \E j \in 1..Len(listed) : agenda[i] = listed[j]
           \/ \E j \in 1..Len(end) : agenda[i] = end[j]
  <2>. DEFINE both == metas \o listed
  <2>1. both \in Seq(Whole) /\ \A i \in 1..Len(both) : \/ \E j \in 1..Len(metas) : both[i] = metas[j]
                                                       \/ \E j \in 1..Len(listed) : both[i] = listed[j]
    <3>1. metas \in Seq(Whole) /\ listed \in Seq(Whole)
      BY <1>2, <1>3
    <3>. QED  BY ONLY <3>1, Joined
  <2>2. agenda = both \o end
    BY <1>5
  <2>. HIDE DEF both
  <2>3. agenda \in Seq(Whole) /\ \A i \in 1..Len(agenda) : \/ \E j \in 1..Len(both) : agenda[i] = both[j]
                                                          \/ \E j \in 1..Len(end) : agenda[i] = end[j]
    BY <1>4, <2>1, <2>2, Joined
  <2>4. ASSUME NEW i \in 1..Len(agenda)
        PROVE  \/ \E j \in 1..Len(metas) : agenda[i] = metas[j]
               \/ \E j \in 1..Len(listed) : agenda[i] = listed[j]
               \/ \E j \in 1..Len(end) : agenda[i] = end[j]
    <3>1. CASE \E j \in 1..Len(both) : agenda[i] = both[j]
      <4>1. PICK j \in 1..Len(both) : agenda[i] = both[j]
        BY <3>1
      <4>2. \/ \E k \in 1..Len(metas) : both[j] = metas[k]
            \/ \E k \in 1..Len(listed) : both[j] = listed[k]
        BY <2>1
      <4>. QED  BY <4>1, <4>2
    <3>2. CASE \E j \in 1..Len(end) : agenda[i] = end[j]
      BY <3>2
    <3>. QED  BY <2>3, <3>1, <3>2
  <2>. QED  BY <2>3, <2>4
<1>7. \A i \in 1..Len(agenda) : agenda[i].kind = "meta" => agenda[i].name \in ToSet(host.metas)
  <2>. SUFFICES ASSUME NEW i \in 1..Len(agenda), agenda[i].kind = "meta" PROVE agenda[i].name \in ToSet(host.metas)
    OBVIOUS
  <2>1. PICK j \in 1..Len(metas) : agenda[i] = metas[j]
    BY <1>3, <1>4, <1>6
  <2>. QED  BY <1>2, <2>1
<1>8. agenda \in Seq(Items) /\ \A i \in 1..Len(agenda) : agenda[i].kind # "dep"
  <2>1. \A i \in 1..Len(agenda) : agenda[i] \in Whole
    BY <1>6
  <2>2. \A x \in Whole : x \in Items /\ x.kind # "dep"
    BY DEF Items, Whole
  <2>3. agenda \in Seq(Items)
    <3>1. \A i \in 1..Len(agenda) : agenda[i] \in Items
      BY <2>1, <2>2
    <3>2. Len(agenda) \in Nat /\ agenda = [i \in 1..Len(agenda) |-> agenda[i]]
      BY <1>6
    <3>. QED  BY <3>1, <3>2
  <2>. QED  BY <2>1, <2>2, <2>3
<1>9. PackageTypes
  BY <1>1, <1>7, <1>8, NoneAgree, FS_EmptySet DEF PackageTypes, PackagesInit, PackagesStart
<1>10. AtFront
  BY <1>8 DEF AtFront, PackagesInit, PackagesStart
<1>11. Counted
  <2>1. agenda # <<>> => 1 \in 1..Len(agenda)
    BY <1>8
  <2>. QED  BY <1>8, <2>1 DEF Counted, PackagesInit, PackagesStart
<1>12. Told
  BY DEF Told, PackagesInit, PackagesStart
<1>. QED  BY <1>9, <1>10, <1>11, <1>12 DEF PackagesInv

\* A step that leaves the agenda and the counts alone.
LEMMA PackagesStay ==
  ASSUME PackagesInv, UNCHANGED <<host, agenda, counts, checked>>
  PROVE  PackagesInv'
<1>1. KnownDeps' = KnownDeps
  BY DEF KnownDeps
<1>2. PackageTypes'
  BY DEF PackagesInv, PackageTypes
<1>3. AtFront'
  BY <1>1 DEF PackagesInv, AtFront
<1>4. Counted'
  BY DEF PackagesInv, Counted, Agree
<1>5. \A d, asked : ToldAs(d, asked)' = ToldAs(d, asked)
  BY DEF ToldAs, InstalledVersion, IsVersionMismatch, Expected, Answered
<1>6. Told'
  BY <1>1, <1>5 DEF PackagesInv, Told
<1>. QED  BY <1>2, <1>3, <1>4, <1>6 DEF PackagesInv

\* An item that is no dependency is done, and nothing is kept of what was checked.
LEMMA ItemDone ==
  ASSUME PackagesInv, agenda # <<>>, agenda[1].kind # "dep", agenda' = Tail(agenda), host' = host,
         checked' = {}, counts' \in [Kinds -> Nat]
  PROVE  PackagesInv'
<1>1. AtFront' /\ agenda' \in Seq(Items)
      /\ \A i \in 1..Len(agenda') : agenda'[i].kind = "meta" => agenda'[i].name \in ToSet(host.metas)
  BY FrontKept DEF PackagesInv
<1>2. PackageTypes'
  BY <1>1, FS_EmptySet DEF PackagesInv, PackageTypes
<1>3. Counted'
  <2>. SUFFICES ASSUME agenda' # <<>>, agenda'[1].kind = "dep" PROVE FALSE
    BY DEF Counted
  <2>1. 1 \in 1..Len(agenda') /\ 1 + 1 \in 1..Len(agenda) /\ agenda'[1] = agenda[1 + 1]
    BY <1>1, Tails DEF PackagesInv, PackageTypes
  <2>2. agenda[1].kind = "dep"
    BY <2>1 DEF PackagesInv, AtFront
  <2>. QED  BY <2>2
<1>4. Told'
  BY DEF Told
<1>. QED  BY <1>1, <1>2, <1>3, <1>4 DEF PackagesInv

LEMMA PackagesListed ==
  ASSUME PackagesInv, ListPackage
  PROVE  PackagesInv'
<1>1. /\ agenda # <<>> /\ agenda[1].kind = "listed" /\ agenda' = Tail(agenda) /\ host' = host
      /\ checked' = checked
  BY Tails DEF ListPackage, Item, PackagesInv, PackageTypes
<1>2. checked = {}
  BY <1>1 DEF PackagesInv, AtFront
<1>3. counts' \in [Kinds -> Nat]
  <2>1. counts \in [Kinds -> Nat]
    BY DEF PackagesInv, PackageTypes
  <2>2. \A as \in {"installed", "missing"} : CountAs(as) \in [Kinds -> Nat]
    <3>1. "total" \in Kinds /\ "installed" \in Kinds /\ "missing" \in Kinds
      BY DEF Kinds
    <3>2. \A f \in [Kinds -> Nat] : \A k \in Kinds : [f EXCEPT ![k] = @ + 1] \in [Kinds -> Nat]
      OBVIOUS
    <3>3. ASSUME NEW as \in {"installed", "missing"} PROVE CountAs(as) \in [Kinds -> Nat]
      <4>1. as \in Kinds
        BY DEF Kinds
      <4>2. [counts EXCEPT !.total = @ + 1] \in [Kinds -> Nat]
        BY <2>1, <3>1, <3>2
      <4>. QED  BY <3>2, <4>1, <4>2 DEF CountAs
    <3>. QED  BY <3>3
  <2>. QED  BY <2>2 DEF ListPackage
<1>. QED  BY <1>1, <1>2, <1>3, ItemDone

LEMMA PackagesSummary ==
  ASSUME PackagesInv, Summary
  PROVE  PackagesInv'
<1>1. /\ agenda # <<>> /\ agenda[1].kind = "end" /\ agenda' = Tail(agenda) /\ host' = host
      /\ checked' = {} /\ counts' = ZeroCounts
  BY Tails DEF Summary, Item, PackagesInv, PackageTypes
<1>. QED  BY <1>1, NoneAgree, ItemDone

LEMMA PackagesValidate ==
  ASSUME PackagesInv, ValidatePackage, host.manager # "none"
  PROVE  PackagesInv'
<1>. DEFINE asked == parent # "failed"
            dep == agenda[1].dep
            as == ToldAs(dep, asked)
            c == [dep |-> dep, asked |-> asked, as |-> as]
<1>1. /\ agenda # <<>> /\ agenda[1].kind = "dep" /\ agenda' = Tail(agenda) /\ host' = host
      /\ 1 \in 1..Len(agenda)
  BY Tails DEF ValidatePackage, Item, PackagesInv, PackageTypes
<1>2. checked' = checked \cup {c} /\ counts' = CountAs(as)
  <2>1. Item = agenda[1]
    BY <1>1, Tails DEF Item, PackagesInv, PackageTypes
  <2>2. as = LET installed == IF parent = "failed" THEN NoVersion ELSE InstalledVersion(Item.dep)
             IN IF installed = NoVersion THEN "missing"
                ELSE IF IsVersionMismatch(Expected(Item.dep), installed) THEN "bad"
                ELSE "installed"
    BY <2>1 DEF ToldAs
  <2>. QED  BY <2>1, <2>2 DEF ValidatePackage
<1>3. /\ dep \in KnownDeps /\ agenda[1].name = dep.name
      /\ \A d \in checked : d.dep.name # dep.name
  BY <1>1 DEF PackagesInv, AtFront
<1>4. c \notin checked /\ c.as = as /\ as \in {"installed", "missing", "bad"} /\ asked \in BOOLEAN
  BY <1>3 DEF ToldAs
<1>. HIDE DEF c, as, asked
<1>5. c.dep = dep /\ c.asked = asked /\ c.as = as
  BY DEF c
<1>6. /\ counts' \in [Kinds -> Nat] /\ IsFiniteSet(checked') /\ Agree(counts', checked')
  <2>1. counts \in [Kinds -> Nat] /\ IsFiniteSet(checked) /\ Agree(counts, checked)
    BY <1>1 DEF PackagesInv, PackageTypes, Counted
  <2>2. counts' = [counts EXCEPT !.total = @ + 1, ![c.as] = @ + 1]
    BY <1>2, <1>5 DEF CountAs
  <2>. QED  BY <1>2, <1>4, <2>1, <2>2, OneMore
<1>7. AtFront' /\ agenda' \in Seq(Items)
      /\ \A i \in 1..Len(agenda') : agenda'[i].kind = "meta" => agenda'[i].name \in ToSet(host.metas)
  <2>1. ASSUME NEW d \in checked', NEW i \in 2..Len(agenda), agenda[i].kind = "dep"
        PROVE  d.dep.name # agenda[i].name
    <3>1. i \in 1..Len(agenda) /\ i # 1
      BY <1>1
    <3>2. CASE d \in checked
      BY <2>1, <3>1, <3>2 DEF PackagesInv, AtFront
    <3>3. CASE d = c
      <4>1. d.dep.name = agenda[1].name
        BY <1>3, <1>5, <3>3
      <4>. QED  BY <1>1, <2>1, <3>1, <4>1 DEF PackagesInv, AtFront
    <3>. QED  BY <1>2, <3>2, <3>3
  <2>. QED  BY <1>1, <2>1, FrontKept DEF PackagesInv
<1>8. PackageTypes'
  BY <1>1, <1>6, <1>7 DEF PackagesInv, PackageTypes
<1>9. Counted'
  BY <1>6 DEF Counted, Agree
<1>10. Told'
  <2>1. KnownDeps' = KnownDeps
    BY <1>1 DEF KnownDeps
  <2>2. \A d, a : ToldAs(d, a)' = ToldAs(d, a)
    BY <1>1 DEF ToldAs, InstalledVersion, IsVersionMismatch, Expected, Answered
  <2>3. \A d \in checked' : d.dep \in KnownDeps /\ d.asked \in BOOLEAN /\ d.as = ToldAs(d.dep, d.asked)
    BY <1>2, <1>3, <1>4, <1>5 DEF PackagesInv, Told, as
  <2>. QED  BY <2>1, <2>2, <2>3 DEF Told
<1>. QED  BY <1>7, <1>8, <1>9, <1>10 DEF PackagesInv

\* The dependencies of the next meta package, all of them still to be looked up.
LEMMA PackagesRead ==
  ASSUME PackagesInv, ReadDependencies, host.manager # "none"
  PROVE  PackagesInv'
<1>. DEFINE deps == host.deps[Item.name]
            keys == Manifest(deps)
            n == Len(keys)
            items == [i \in 1..n |-> [kind |-> "dep", name |-> deps[keys[i]].name, dep |-> deps[keys[i]]]]
            end == [kind |-> "end", name |-> Item.name]
            rest == Tail(agenda)
<1>1. /\ agenda # <<>> /\ agenda[1] = Item /\ agenda[1].kind = "meta" /\ host' = host
      /\ checked' = {} /\ counts' = ZeroCounts /\ 1 \in 1..Len(agenda) /\ agenda \in Seq(Items)
      /\ agenda[1].name \in ToSet(host.metas)
  <2>1. agenda # <<>> /\ Item.kind = "meta" /\ host' = host /\ checked' = {} /\ counts' = ZeroCounts
    BY DEF ReadDependencies
  <2>2. agenda \in Seq(Items) /\ \A i \in 1..Len(agenda) : agenda[i].kind = "meta" => agenda[i].name \in ToSet(host.metas)
    BY DEF PackagesInv, PackageTypes
  <2>3. Item = agenda[1] /\ 1 \in 1..Len(agenda)
    BY <2>1, <2>2, Tails DEF Item
  <2>. QED  BY <2>1, <2>2, <2>3
<1>2. CASE agenda' = rest
  BY <1>1, <1>2, NoneAgree, ItemDone
<1>3. CASE agenda' = items \o <<end>> \o rest
  <2>1. /\ deps \in Seq(DependencyType) /\ \A i \in 1..Len(deps) : deps[i] \in KnownDeps
        /\ Item.name \in Titles
    <3>1. host \in Hosts
      BY DEF PackagesInv, PackageTypes
    <3>2. host.metas \in Seq(STRING)
      BY <3>1, OfHost
    <3>3. Item.name \in Titles
      BY <1>1, <3>2 DEF ToSet, Titles
    <3>. QED  BY <1>1, <3>1, <3>3, OfHost
  <2>2. /\ n \in Nat /\ \A k \in 1..n : keys[k] \in 1..Len(deps)
        /\ \A k, l \in 1..n : deps[keys[k]].name = deps[keys[l]].name => k = l
    BY <2>1, Listing
  <2>. HIDE DEF deps, keys
  <2>3. \A k \in 1..n : deps[keys[k]] \in KnownDeps /\ deps[keys[k]].name \in Titles
    BY <2>1, <2>2 DEF KnownDeps, DependencyType, Titles
  <2>. HIDE DEF n
  <2>4. \A k \in 1..n : /\ items[k].kind = "dep" /\ items[k].dep \in KnownDeps /\ items[k].name = items[k].dep.name
                        /\ items[k].name = deps[keys[k]].name
    BY <2>3
  <2>5. items \in [1..n -> Items] /\ end \in Items /\ end.kind = "end"
    <3>1. \A k \in 1..n : [kind |-> "dep", name |-> deps[keys[k]].name, dep |-> deps[keys[k]]] \in Items
      BY <2>3 DEF Items, KnownDeps
    <3>2. end \in Items
      BY <2>1 DEF Items
    <3>. QED  BY <3>1, <3>2
  <2>. HIDE DEF items, end
  <2>6. items \in Seq(Items) /\ Len(items) = n /\ <<end>> \in Seq(Items) /\ Len(<<end>>) = 1 /\ <<end>>[1] = end
    BY <2>2, <2>5
  <2>7. /\ rest \in Seq(Items) /\ Len(rest) \in Nat /\ Len(rest) + 1 = Len(agenda)
        /\ \A i \in 1..Len(rest) : i + 1 \in 1..Len(agenda) /\ rest[i] = agenda[i + 1]
    BY <1>1, Tails
  <2>8. \A i \in 1..Len(agenda) : agenda[i].kind # "dep"
    <3>. SUFFICES ASSUME NEW i \in 1..Len(agenda), agenda[i].kind = "dep" PROVE FALSE
      OBVIOUS
    <3>1. 1 \in 1..i
      BY <1>1
    <3>. QED  BY <1>1, <3>1 DEF PackagesInv, AtFront
  <2>9. \A i \in 1..Len(rest) : /\ rest[i].kind # "dep"
                                /\ rest[i].kind = "meta" => rest[i].name \in ToSet(host.metas)
    BY <2>7, <2>8 DEF PackagesInv, PackageTypes
  <2>. HIDE DEF rest
  <2>10. /\ agenda' \in Seq(Items) /\ Len(agenda') = n + 1 + Len(rest)
         /\ \A i \in 1..n : agenda'[i] = items[i]
         /\ agenda'[n + 1] = end
         /\ \A i \in 1..Len(agenda') : i > n + 1 => i - (n + 1) \in 1..Len(rest) /\ agenda'[i] = rest[i - (n + 1)]
    <3>. DEFINE front == items \o <<end>>
    <3>1. /\ front \in Seq(Items) /\ Len(front) = n + 1 /\ front[n + 1] = end
          /\ \A i \in 1..n : i \in 1..Len(front) /\ front[i] = items[i]
      BY <2>2, <2>6
    <3>2. agenda' = front \o rest
      BY <1>3
    <3>. HIDE DEF front
    <3>3. /\ agenda' \in Seq(Items) /\ Len(agenda') = n + 1 + Len(rest)
          /\ \A i \in 1..(n + 1) : agenda'[i] = front[i]
          /\ \A i \in 1..Len(agenda') : i > n + 1 => i - (n + 1) \in 1..Len(rest) /\ agenda'[i] = rest[i - (n + 1)]
      <4>1. /\ front \o rest \in Seq(Items) /\ Len(front \o rest) = Len(front) + Len(rest)
            /\ \A i \in 1..Len(front) : (front \o rest)[i] = front[i]
            /\ \A i \in 1..Len(front \o rest) :
                 i > Len(front) => i - Len(front) \in 1..Len(rest) /\ (front \o rest)[i] = rest[i - Len(front)]
        <5>1. front \in Seq(Items) /\ rest \in Seq(Items)
          BY <2>7, <3>1
        <5>. QED  BY ONLY <5>1, Behind
      <4>. QED  BY <2>7, <3>1, <3>2, <4>1
    <3>4. n + 1 \in 1..(n + 1) /\ \A i \in 1..n : i \in 1..(n + 1)
      BY <2>2
    <3>. QED  BY <3>1, <3>3, <3>4
  <2>11. \A i \in 1..Len(agenda') : agenda'[i].kind = "dep" => i \in 1..n
    <3>. SUFFICES ASSUME NEW i \in 1..Len(agenda'), agenda'[i].kind = "dep", i > n PROVE FALSE
      BY <2>2
    <3>1. CASE i = n + 1
      BY <2>5, <2>10, <3>1
    <3>2. CASE i > n + 1
      BY <2>9, <2>10, <3>2
    <3>. QED  BY <2>2, <3>1, <3>2
  <2>12. \A i \in 1..Len(agenda') : agenda'[i].kind = "meta" => agenda'[i].name \in ToSet(host.metas)
    <3>. SUFFICES ASSUME NEW i \in 1..Len(agenda'), agenda'[i].kind = "meta" PROVE agenda'[i].name \in ToSet(host.metas)
      OBVIOUS
    <3>1. i > n + 1
      <4>1. ~(i \in 1..n)
        BY <2>4, <2>10
      <4>2. i # n + 1
        BY <2>5, <2>10
      <4>. QED  BY <2>2, <4>1, <4>2
    <3>. QED  BY <2>9, <2>10, <3>1
  <2>13. PackageTypes'
    BY <1>1, <2>10, <2>12, NoneAgree, FS_EmptySet DEF PackagesInv, PackageTypes
  <2>14. AtFront'
    <3>1. ASSUME NEW i \in 1..Len(agenda'), agenda'[i].kind = "dep"
          PROVE  /\ \A j \in 1..i : agenda'[j].kind = "dep"
                 /\ i + 1 \in 1..Len(agenda') /\ agenda'[i + 1].kind \in {"dep", "end"}
                 /\ agenda'[i].dep \in KnownDeps' /\ agenda'[i].name = agenda'[i].dep.name
      <4>1. i \in 1..n
        BY <2>11, <3>1
      <4>2. \A j \in 1..i : j \in 1..n
        BY <2>2, <4>1
      <4>3. i + 1 \in 1..Len(agenda')
        BY <2>2, <2>7, <2>10, <4>1
      <4>4. CASE i = n
        BY <1>1, <2>4, <2>5, <2>10, <4>1, <4>2, <4>3, <4>4 DEF KnownDeps
      <4>5. CASE i # n
        <5>1. i + 1 \in 1..n
          BY <2>2, <4>1, <4>5
        <5>. QED  BY <1>1, <2>4, <2>10, <4>1, <4>2, <4>3, <5>1 DEF KnownDeps
      <4>. QED  BY <4>4, <4>5
    <3>2. ASSUME NEW i \in 1..Len(agenda'), NEW j \in 1..Len(agenda'),
                 agenda'[i].kind = "dep", agenda'[j].kind = "dep", agenda'[i].name = agenda'[j].name
          PROVE  i = j
      <4>1. i \in 1..n /\ j \in 1..n
        BY <2>11, <3>2
      <4>2. deps[keys[i]].name = deps[keys[j]].name
        BY <2>4, <2>10, <3>2, <4>1
      <4>. QED  BY <2>2, <4>1, <4>2
    <3>. QED  BY <1>1, <3>1, <3>2 DEF AtFront
  <2>15. Counted'
    BY <1>1, NoneAgree DEF Counted, Agree
  <2>16. Told'
    BY <1>1 DEF Told
  <2>. QED  BY <2>13, <2>14, <2>15, <2>16 DEF PackagesInv
<1>4. agenda' = rest \/ agenda' = items \o <<end>> \o rest
  BY DEF ReadDependencies
<1>. QED  BY <1>2, <1>3, <1>4

LEMMA PackagesUnknown ==
  ASSUME PackagesInv, NoHandler
  PROVE  PackagesInv'
<1>1. /\ agenda' = <<>> /\ host' = host /\ counts' = counts /\ checked' = checked /\ checked = {}
  BY DEF NoHandler, PackagesInv, AtFront
<1>2. Len(agenda') = 0 /\ agenda' \in Seq(Items)
  BY <1>1
<1>3. PackageTypes'
  BY <1>1, <1>2 DEF PackagesInv, PackageTypes
<1>4. AtFront' /\ Counted' /\ Told'
  BY <1>1, <1>2 DEF AtFront, Counted, Told
<1>. QED  BY <1>3, <1>4 DEF PackagesInv

LEMMA PackagesKept == ASSUME PackagesInv, [PackagesNext]_packageVars PROVE PackagesInv'
<1>1. CASE NoHandler
  BY <1>1, PackagesUnknown
<1>2. CASE Fork \/ ChildWrites \/ ChildEnds \/ Wait \/ EndOfAction
  BY <1>2, PackagesStay DEF Fork, ChildWrites, ChildEnds, Wait, EndOfAction
<1>3. CASE host.manager # "none" /\ ReadDependencies
  BY <1>3, PackagesRead
<1>4. CASE host.manager # "none" /\ ValidatePackage
  BY <1>4, PackagesValidate
<1>5. CASE ListPackage
  BY <1>5, PackagesListed
<1>6. CASE Summary
  BY <1>6, PackagesSummary
<1>7. CASE UNCHANGED packageVars
  BY <1>7, PackagesStay DEF packageVars
<1>. QED  BY <1>1, <1>2, <1>3, <1>4, <1>5, <1>6, <1>7 DEF PackagesNext

LEMMA PackagesHold == PackagesSpec => []PackagesInv
<1>1. PackagesInit => PackagesInv
  BY PackagesStarted
<1>2. PackagesInv /\ [PackagesNext]_packageVars => PackagesInv'
  BY PackagesKept
<1>. QED  BY <1>1, <1>2, PTL DEF PackagesSpec

\* A manager answers with the version of the package, and always for one that is present.
LEMMA AnswerOf ==
  ASSUME host \in Hosts, NEW n \in DOMAIN host.world
  PROVE  /\ Answered(n) # NoVersion => /\ Answered(n) = host.world[n].version
                                       /\ host.world[n].state \in {"present", "removed", "available"}
         /\ host.world[n].state = "present" => Answered(n) = host.world[n].version /\ Answered(n) # NoVersion
         /\ host.world[n].version \in Nat \X Nat
<1>. DEFINE p == host.world[n]
<1>1. /\ p.state \in {"present", "removed", "available", "unknown"}
      /\ p.version \in Nat \X Nat /\ p.version # NoVersion
      /\ host.manager \in {"deb", "rpm", "zyp", "none"}
  BY OfHost
<1>. HIDE DEF p
<1>2. Answered(n) = IF host.manager = "deb" THEN (IF DebKnows(p) THEN p.version ELSE NoVersion)
                    ELSE IF host.manager = "rpm" THEN (IF RpmKnows(p) THEN p.version ELSE NoVersion)
                    ELSE IF ZypKnows(p) THEN p.version ELSE NoVersion
  BY <1>1 DEF Answered, p
<1>3. /\ Answered(n) # NoVersion => Answered(n) = p.version /\ p.state \in {"present", "removed", "available"}
      /\ p.state = "present" => Answered(n) = p.version /\ Answered(n) # NoVersion
  BY <1>1, <1>2 DEF DebKnows, RpmKnows, ZypKnows
<1>. QED  BY <1>1, <1>3 DEF p

\* Below ten, the numbers of two versions are in the order of the versions.
LEMMA InOrder ==
  ASSUME NEW v \in Nat \X Nat, NEW w \in Nat \X Nat, v[2] < 10, w[2] < 10
  PROVE  (AsNumber(v) < AsNumber(w)) <=> Below(v, w)
<1>1. v[1] \in Nat /\ v[2] \in Nat /\ w[1] \in Nat /\ w[2] \in Nat
  OBVIOUS
<1>2. AsNumber(v) = v[1] * 100 + v[2] * 10 /\ AsNumber(w) = w[1] * 100 + w[2] * 10
  BY DEF AsNumber
<1>. QED  BY <1>1, <1>2 DEF Below

LEMMA NeverLess ==
  ASSUME NEW v \in Nat \X Nat
  PROVE  ~(AsNumber(v) < AsNumber(NoVersion)) /\ ~Below(v, v)
<1>1. v[1] \in Nat /\ v[2] \in Nat
  OBVIOUS
<1>2. AsNumber(NoVersion) = 0
  BY DEF AsNumber, NoVersion
<1>3. AsNumber(v) \in Nat
  BY <1>1 DEF AsNumber
<1>. QED  BY <1>1, <1>2, <1>3 DEF Below

\* What a dependency is told as, for each of the relations.
LEMMA ByRelation ==
  ASSUME NEW dep \in KnownDeps
  PROVE  /\ ToldAs(dep, FALSE) = "missing"
         /\ dep.relation = "<" => ToldAs(dep, TRUE) = "missing"
         /\ dep.relation = "or" =>
              ToldAs(dep, TRUE) =
                IF Answered(dep.name) # NoVersion \/ Answered(dep.other) = NoVersion THEN "missing"
                ELSE IF AsNumber(Answered(dep.other)) < AsNumber(NoVersion) THEN "bad" ELSE "installed"
         /\ dep.relation = "=" =>
              ToldAs(dep, TRUE) = IF Answered(dep.name) = NoVersion THEN "missing"
                                  ELSE IF dep.version # Answered(dep.name) THEN "bad" ELSE "installed"
         /\ dep.relation = ">=" /\ host.manager = "rpm" =>
              ToldAs(dep, TRUE) = IF Answered(dep.name) = NoVersion THEN "missing"
                                  ELSE IF dep.version # Answered(dep.name) THEN "bad" ELSE "installed"
         /\ dep.relation = ">=" /\ host.manager # "rpm" =>
              ToldAs(dep, TRUE) = IF Answered(dep.name) = NoVersion THEN "missing"
                                  ELSE IF AsNumber(Answered(dep.name)) < AsNumber(dep.version) THEN "bad" ELSE "installed"
         /\ dep.relation = "" =>
              ToldAs(dep, TRUE) = IF Answered(dep.name) = NoVersion THEN "missing"
                                  ELSE IF AsNumber(Answered(dep.name)) < AsNumber(NoVersion) THEN "bad" ELSE "installed"
<1>1. dep.relation \in {"=", ">=", "<", "or", ""}
  BY DEF KnownDeps, DependencyType
<1>2. ToldAs(dep, FALSE) = "missing"
  BY DEF ToldAs
<1>3. ToldAs(dep, TRUE) = IF InstalledVersion(dep) = NoVersion THEN "missing"
                          ELSE IF IsVersionMismatch(Expected(dep), InstalledVersion(dep)) THEN "bad" ELSE "installed"
  BY DEF ToldAs
<1>4. dep.relation = "<" => InstalledVersion(dep) = NoVersion
  BY DEF InstalledVersion
<1>5. dep.relation = "or" =>
        /\ InstalledVersion(dep) = IF Answered(dep.name) = NoVersion THEN Answered(dep.other) ELSE NoVersion
        /\ IsVersionMismatch(Expected(dep), InstalledVersion(dep)) = (AsNumber(InstalledVersion(dep)) < AsNumber(NoVersion))
  BY DEF InstalledVersion, IsVersionMismatch, Expected
<1>6. dep.relation \in {"=", ">=", ""} => InstalledVersion(dep) = Answered(dep.name)
  BY <1>1 DEF InstalledVersion
<1>7. dep.relation = "=" => IsVersionMismatch(Expected(dep), Answered(dep.name)) = (dep.version # Answered(dep.name))
  BY DEF IsVersionMismatch, Expected
<1>8. dep.relation = ">=" /\ host.manager = "rpm" =>
        IsVersionMismatch(Expected(dep), Answered(dep.name)) = (dep.version # Answered(dep.name))
  BY DEF IsVersionMismatch, Expected
<1>9. dep.relation = ">=" /\ host.manager # "rpm" =>
        IsVersionMismatch(Expected(dep), Answered(dep.name)) = (AsNumber(Answered(dep.name)) < AsNumber(dep.version))
  BY DEF IsVersionMismatch, Expected
<1>10. dep.relation = "" =>
        IsVersionMismatch(Expected(dep), Answered(dep.name)) = (AsNumber(Answered(dep.name)) < AsNumber(NoVersion))
  BY DEF IsVersionMismatch, Expected
<1>. QED  BY <1>2, <1>3, <1>4, <1>5, <1>6, <1>7, <1>8, <1>9, <1>10

LEMMA IsThere ==
  ASSUME host \in Hosts, NEW dep \in KnownDeps, ToldAs(dep, TRUE) = "installed"
  PROVE  \/ Satisfied(dep)
         \/ ~OneDigit(dep)
         \/ \E n \in {dep.name, dep.other} : host.world[n].state \in {"removed", "available"}
<1>. SUFFICES ASSUME OneDigit(dep), \A n \in {dep.name, dep.other} : ~(host.world[n].state \in {"removed", "available"})
              PROVE  Satisfied(dep)
  OBVIOUS
<1>1. /\ dep.relation \in {"=", ">=", "<", "or", ""} /\ dep.version \in Nat \X Nat
      /\ dep.name \in DOMAIN host.world /\ dep.other \in DOMAIN host.world
  BY DEF KnownDeps, DependencyType
<1>2. \A n \in {dep.name, dep.other} :
        /\ host.world[n].version \in Nat \X Nat
        /\ Answered(n) # NoVersion => Answered(n) = host.world[n].version /\ host.world[n].state = "present"
  BY <1>1, AnswerOf
<1>3. dep.relation # "<"
  BY ByRelation
<1>4. CASE dep.relation = "or"
  <2>1. Answered(dep.other) # NoVersion
    BY <1>4, ByRelation
  <2>. QED  BY <1>2, <1>4, <2>1 DEF Satisfied, SatisfiedBy
<1>5. CASE dep.relation = "="
  <2>1. Answered(dep.name) # NoVersion /\ dep.version = Answered(dep.name)
    BY <1>5, ByRelation
  <2>. QED  BY <1>2, <1>5, <2>1 DEF Satisfied, SatisfiedBy
<1>6. CASE dep.relation = ""
  <2>1. Answered(dep.name) # NoVersion
    BY <1>6, ByRelation
  <2>. QED  BY <1>2, <1>6, <2>1 DEF Satisfied, SatisfiedBy
<1>7. CASE dep.relation = ">="
  <2>. DEFINE v == host.world[dep.name].version
  <2>1. Answered(dep.name) # NoVersion
    BY <1>7, ByRelation
  <2>2. v = Answered(dep.name) /\ host.world[dep.name].state = "present" /\ v \in Nat \X Nat
    BY <1>2, <2>1
  <2>3. ~Below(v, dep.version)
    <3>1. CASE host.manager = "rpm"
      <4>1. dep.version = v
        BY <1>7, <2>1, <2>2, <3>1, ByRelation
      <4>. QED  BY <2>2, <4>1, NeverLess
    <3>2. CASE host.manager # "rpm"
      <4>1. ~(AsNumber(v) < AsNumber(dep.version))
        BY <1>7, <2>1, <2>2, <3>2, ByRelation
      <4>2. v[2] < 10 /\ dep.version[2] < 10
        BY DEF OneDigit
      <4>. QED  BY <1>1, <2>2, <4>1, <4>2, InOrder
    <3>. QED  BY <3>1, <3>2
  <2>. QED  BY <1>7, <2>2, <2>3 DEF Satisfied, SatisfiedBy
<1>. QED  BY <1>1, <1>3, <1>4, <1>5, <1>6, <1>7

LEMMA IsTold ==
  ASSUME host \in Hosts, NEW dep \in KnownDeps, Satisfied(dep)
  PROVE  CASE dep.relation = "<"  -> ToldAs(dep, TRUE) = "missing"
           [] dep.relation = "or" -> (ToldAs(dep, TRUE) = "installed") <=> Answered(dep.name) = NoVersion
           [] dep.relation = ">=" /\ host.manager = "rpm" -> ToldAs(dep, TRUE) # "missing"
           [] OTHER -> ToldAs(dep, TRUE) = "installed" \/ ~OneDigit(dep)
<1>1. /\ dep.relation \in {"=", ">=", "<", "or", ""} /\ dep.version \in Nat \X Nat
      /\ dep.name \in DOMAIN host.world /\ dep.other \in DOMAIN host.world
  BY DEF KnownDeps, DependencyType
<1>2. \A n \in {dep.name, dep.other} :
        /\ host.world[n].version \in Nat \X Nat
        /\ host.world[n].state = "present" => Answered(n) = host.world[n].version /\ Answered(n) # NoVersion
  BY <1>1, AnswerOf
<1>3. CASE dep.relation = "<"
  BY <1>3, ByRelation
<1>4. CASE dep.relation = "or"
  <2>1. (ToldAs(dep, TRUE) = "installed") <=> (Answered(dep.name) = NoVersion)
    <3>1. CASE Answered(dep.name) # NoVersion
      BY <1>4, <3>1, ByRelation
    <3>2. CASE Answered(dep.name) = NoVersion
      <4>1. host.world[dep.other].state = "present"
        BY <1>2, <1>4, <3>2 DEF Satisfied, SatisfiedBy
      <4>2. Answered(dep.other) # NoVersion /\ Answered(dep.other) \in Nat \X Nat
        BY <1>2, <4>1
      <4>3. ~(AsNumber(Answered(dep.other)) < AsNumber(NoVersion))
        BY <4>2, NeverLess
      <4>. QED  BY <1>4, <3>2, <4>2, <4>3, ByRelation
    <3>. QED  BY <3>1, <3>2
  <2>. QED  BY <1>4, <2>1
<1>5. CASE dep.relation \in {"=", ">=", ""}
  <2>. DEFINE v == host.world[dep.name].version
  <2>1. SatisfiedBy(dep.name, dep)
    BY <1>5 DEF Satisfied
  <2>2. v = Answered(dep.name) /\ Answered(dep.name) # NoVersion /\ v \in Nat \X Nat
    BY <1>2, <2>1 DEF SatisfiedBy
  <2>3. CASE dep.relation = "="
    <3>1. v = dep.version
      BY <2>1, <2>3 DEF SatisfiedBy
    <3>2. ToldAs(dep, TRUE) = "installed"
      BY <2>2, <2>3, <3>1, ByRelation
    <3>. QED  BY <2>3, <3>2
  <2>4. CASE dep.relation = ""
    <3>1. ToldAs(dep, TRUE) = "installed"
      BY <2>2, <2>4, NeverLess, ByRelation
    <3>. QED  BY <2>4, <3>1
  <2>5. CASE dep.relation = ">=" /\ host.manager = "rpm"
    <3>1. ToldAs(dep, TRUE) # "missing"
      BY <2>2, <2>5, ByRelation
    <3>. QED  BY <2>5, <3>1
  <2>6. CASE dep.relation = ">=" /\ host.manager # "rpm"
    <3>1. ~Below(v, dep.version)
      BY <2>1, <2>6 DEF SatisfiedBy
    <3>2. ToldAs(dep, TRUE) = "installed" \/ ~OneDigit(dep)
      <4>. SUFFICES ASSUME OneDigit(dep) PROVE ToldAs(dep, TRUE) = "installed"
        OBVIOUS
      <4>1. v[2] < 10 /\ dep.version[2] < 10
        BY DEF OneDigit
      <4>2. ~(AsNumber(v) < AsNumber(dep.version))
        BY <1>1, <2>2, <3>1, <4>1, InOrder
      <4>. QED  BY <2>2, <2>6, <4>2, ByRelation
    <3>. QED  BY <2>6, <3>2
  <2>. QED  BY <1>5, <2>3, <2>4, <2>5, <2>6
<1>. QED  BY <1>1, <1>3, <1>4, <1>5

LEMMA PackagesSoundness == ASSUME PackagesInv PROVE PackagesSound
<1>1. host \in Hosts /\ Told
  BY DEF PackagesInv, PackageTypes
<1>2. CountsAgree
  <2>. SUFFICES ASSUME checked # {} PROVE /\ counts.total = Cardinality(checked)
                                          /\ \A as \in {"installed", "missing", "bad"} :
                                               counts[as] = Cardinality({c \in checked : c.as = as})
    BY DEF CountsAgree
  <2>. QED  BY DEF PackagesInv, Counted, Agree
<1>3. ASSUME NEW c \in checked
      PROVE  c.dep \in KnownDeps /\ (c.asked = TRUE \/ c.asked = FALSE) /\ c.as = ToldAs(c.dep, c.asked)
  BY <1>1 DEF Told
<1>4. InstalledIsThere
  <2>. SUFFICES ASSUME NEW c \in checked, c.as = "installed"
                PROVE  \/ Satisfied(c.dep)
                       \/ ~OneDigit(c.dep)
                       \/ \E n \in {c.dep.name, c.dep.other} : host.world[n].state \in {"removed", "available"}
    BY DEF InstalledIsThere
  <2>1. c.dep \in KnownDeps /\ ToldAs(c.dep, TRUE) = "installed"
    BY <1>3, ByRelation
  <2>. QED  BY <1>1, <2>1, IsThere
<1>5. MetIsTold
  <2>. SUFFICES ASSUME NEW c \in checked, c.asked, Satisfied(c.dep)
                PROVE  CASE c.dep.relation = "<"  -> c.as = "missing"
                         [] c.dep.relation = "or" -> (c.as = "installed") <=> Answered(c.dep.name) = NoVersion
                         [] c.dep.relation = ">=" /\ host.manager = "rpm" -> c.as # "missing"
                         [] OTHER -> c.as = "installed" \/ ~OneDigit(c.dep)
    BY DEF MetIsTold
  <2>1. c.dep \in KnownDeps /\ c.as = ToldAs(c.dep, TRUE)
    BY <1>3
  <2>. QED  BY <1>1, <2>1, IsTold
<1>. QED  BY <1>2, <1>4, <1>5 DEF PackagesSound

\* Every dependency of a meta package is counted once and as one of three; one that is
\* told as installed is installed as asked, and one that is met is told as installed,
\* apart from what is known of the managers (PackageHandler::validatePackages).
THEOREM PackagesAreSound == PackagesSpec => []PackagesSound
<1>1. PackagesInv => PackagesSound
  BY PackagesSoundness
<1>. QED  BY <1>1, PackagesHold, PTL

-----------------------------------------------------------------------------
(* Packages: the domains of the rest of the state.                         *)

Verdicts == [what: Titles \cup {"action"}, pass: BOOLEAN, state: {"COMPLETED"}, status: {"SUCCESS", "FAILED"}]

PackageDomains ==
    /\ parent \in {"ready", "waits", "reads", "failed", "done"}
    /\ child \in {"none", "writes", "ended"} /\ written \in 0..PipeCap
    /\ verdicts \in Seq(Verdicts)
    /\ ret \in 0..1

LEMMA PackageDomainsStart == ASSUME PackagesInit PROVE PackageDomains
<1>1. verdicts \in Seq(Verdicts)
  BY DEF PackagesInit, PackagesStart
<1>. QED  BY <1>1, PipeHolds DEF PackagesInit, PackagesStart, PackageDomains

LEMMA PackageDomainsKept ==
  ASSUME PackagesInv, PackageDomains, [PackagesNext]_packageVars
  PROVE  PackageDomains'
<1>1. CASE Fork
  BY <1>1, PipeHolds DEF Fork, PackageDomains
<1>2. CASE ChildWrites
  <2>1. written' \in 0..PipeCap
    BY <1>2, PipeHolds DEF ChildWrites, PackageDomains
  <2>. QED  BY <1>2, <2>1 DEF ChildWrites, PackageDomains
<1>3. CASE ChildEnds \/ Wait
  BY <1>3 DEF ChildEnds, Wait, PackageDomains
<1>4. CASE ReadDependencies \/ ValidatePackage \/ ListPackage
  <2>1. Answer /\ UNCHANGED <<verdicts, ret>>
    BY <1>4 DEF ReadDependencies, ValidatePackage, ListPackage
  <2>. QED  BY <2>1, PipeHolds DEF Answer, PackageDomains
<1>5. CASE Summary
  <2>1. Item \in Items
    BY <1>5 DEF Summary, Item, PackagesInv, PackageTypes
  <2>2. Item.name \in Titles
    BY <2>1 DEF Items
  <2>3. [what |-> Item.name, pass |-> counts.total = counts.installed, state |-> "COMPLETED",
         status |-> "SUCCESS"] \in Verdicts
    BY <2>2 DEF Verdicts
  <2>4. verdicts' \in Seq(Verdicts)
    BY <1>5, <2>3 DEF Summary, TellResult, PackageDomains
  <2>. QED  BY <1>5, <2>4 DEF Summary, PackageDomains
<1>6. CASE NoHandler
  BY <1>6 DEF NoHandler, PackageDomains
<1>7. CASE EndOfAction
  <2>1. [what |-> "action", pass |-> ret = 0, state |-> "COMPLETED",
         status |-> IF ret = 0 THEN "SUCCESS" ELSE "FAILED"] \in Verdicts
    BY DEF Verdicts
  <2>2. verdicts' \in Seq(Verdicts)
    BY <1>7, <2>1 DEF EndOfAction, PackageDomains
  <2>. QED  BY <1>7, <2>2 DEF EndOfAction, PackageDomains
<1>8. CASE UNCHANGED packageVars
  BY <1>8 DEF packageVars, PackageDomains
<1>. QED  BY <1>1, <1>2, <1>3, <1>4, <1>5, <1>6, <1>7, <1>8 DEF PackagesNext

LEMMA PackagesAreTyped == ASSUME PackagesInv, PackageDomains PROVE PackagesTypeOK
<1>1. \A c \in checked : c.as \in {"installed", "missing", "bad"} /\ c.asked \in BOOLEAN
  BY DEF PackagesInv, Told, ToldAs
<1>2. \A v \in ToSet(verdicts) : v.pass \in BOOLEAN /\ v.status \in {"SUCCESS", "FAILED"}
  <2>1. \A v \in ToSet(verdicts) : v \in Verdicts
    BY DEF ToSet, PackageDomains
  <2>. QED  BY <2>1 DEF Verdicts
<1>. QED  BY <1>1, <1>2 DEF PackageDomains, PackagesTypeOK

-----------------------------------------------------------------------------
(* The parts together.  A part that stands still stands at a start of its  *)
(* own, and a step of one part leaves the others where they are: for every *)
(* part a step of the whole is a step of it or a stutter.                  *)

SetupInv ==
    /\ part \in {"launch", "actions", "lists", "queries", "packages"}
    /\ LineInv /\ RunInv /\ LaunchDomains
    /\ ActInv /\ ActionDomains
    /\ ListsInv /\ Bounded
    /\ QueriesInv /\ QueryDomains
    /\ PackagesInv /\ PackageDomains

LEMMA PartsStart ==
  ASSUME SetupInit
  PROVE  LaunchInit /\ ActionsInit /\ GpuListInit /\ QueriesInit /\ PackagesInit
BY StandingPartsAreStarts
   DEF SetupInit, LaunchStands, ActionsStand, ListsStand, QueriesStand, PackagesStand,
       LaunchInit, ActionsInit, GpuListInit, QueriesInit, PackagesInit

LEMMA PartsStep ==
  ASSUME [SetupNext]_setupVars
  PROVE  /\ [LaunchNext]_launchVars /\ [ActionsNext]_actionVars /\ [GpuListNext]_listVars
         /\ [QueriesNext]_queryVars /\ [PackagesNext]_packageVars
BY DEF SetupNext, setupVars

LEMMA SetupStarts == ASSUME SetupInit PROVE SetupInv
<1>1. LaunchInit /\ ActionsInit /\ GpuListInit /\ QueriesInit /\ PackagesInit
  BY PartsStart
<1>2. LineInv /\ RunInv /\ LaunchDomains
  BY <1>1, LineInit, RunInit, LaunchDomainsStart
<1>3. ActInv /\ ActionDomains
  BY <1>1, ActInitOk, ActionDomainsStart
<1>4. ListsInv /\ Bounded
  BY <1>1, ListsStart, BoundedStart
<1>5. QueriesInv /\ QueryDomains
  BY <1>1, QueriesStarted, QueryDomainsStart
<1>6. PackagesInv /\ PackageDomains
  BY <1>1, PackagesStarted, PackageDomainsStart
<1>. QED  BY <1>2, <1>3, <1>4, <1>5, <1>6 DEF SetupInv, SetupInit

LEMMA SetupKeeps == ASSUME SetupInv, [SetupNext]_setupVars PROVE SetupInv'
<1>0. /\ [LaunchNext]_launchVars /\ [ActionsNext]_actionVars /\ [GpuListNext]_listVars
      /\ [QueriesNext]_queryVars /\ [PackagesNext]_packageVars
  BY PartsStep
<1>1. (LineInv /\ RunInv /\ LaunchDomains)'
  BY <1>0, LineStep, LineStays, LaunchStep, LaunchStays, LaunchDomainsKept DEF SetupInv
<1>2. (ActInv /\ ActionDomains)'
  BY <1>0, ActStep, ActionDomainsKept DEF SetupInv
<1>3. (ListsInv /\ Bounded)'
  BY <1>0, ListsKept, BoundedKept DEF SetupInv
<1>4. (QueriesInv /\ QueryDomains)'
  BY <1>0, QueriesKept, QueryDomainsKept DEF SetupInv
<1>5. (PackagesInv /\ PackageDomains)'
  BY <1>0, PackagesKept, PackageDomainsKept DEF SetupInv
<1>6. part' = part
  BY DEF SetupNext, setupVars
<1>. QED  BY <1>1, <1>2, <1>3, <1>4, <1>5, <1>6 DEF SetupInv

LEMMA SetupHolds == SetupSpec => []SetupInv
<1>1. SetupInit => SetupInv
  BY SetupStarts
<1>2. SetupInv /\ [SetupNext]_setupVars => SetupInv'
  BY SetupKeeps
<1>. QED  BY <1>1, <1>2, PTL DEF SetupSpec

\* Whatever is written on the command line and whatever the configurations, the machine,
\* the nodes, the devices and the packages are: what the launcher reads and returns, the
\* numbers an action selects GPUs by, what is found at a device and told of a package stay
\* within what there is to say, and the lists of the GPUs, which nothing empties, get no
\* more entries in a call of Initialize than there are GPUs.
THEOREM SetupIsTyped == SetupSpec => []SetupTypeOK
<1>1. SetupInv => SetupTypeOK
  BY LaunchIsTyped, ActionsAreTyped, ListsAreTyped, QueriesAreTyped, PackagesAreTyped
     DEF SetupInv, SetupTypeOK
<1>. QED  BY <1>1, SetupHolds, PTL

\* Seen alone, each part of the whole is a behaviour of its own module: what has been
\* proved of it there holds beside the others.
THEOREM SetupIsPart ==
  SetupSpec => /\ LaunchSpec /\ ActionsSpec /\ GpuListSpec /\ QueriesSpec
               /\ PackagesInit /\ [][PackagesNext]_packageVars
<1>1. SetupInit => LaunchInit /\ ActionsInit /\ GpuListInit /\ QueriesInit /\ PackagesInit
  BY PartsStart
<1>2. [SetupNext]_setupVars =>
        /\ [LaunchNext]_launchVars /\ [ActionsNext]_actionVars /\ [GpuListNext]_listVars
        /\ [QueriesNext]_queryVars /\ [PackagesNext]_packageVars
  BY PartsStep
<1>. QED  BY <1>1, <1>2, PTL DEF SetupSpec, LaunchSpec, ActionsSpec, GpuListSpec, QueriesSpec

\* Before and beside the tests on a GPU, whichever part runs: what is written is what is
\* read and what is selected is what runs, an action refuses with a reason and tests what
\* it is asked to, and what is looked up of a GPU, a device or a package is its own.
THEOREM SetupIsSound ==
  SetupSpec => ActionsSound /\ [](LaunchSound /\ GpuListSound /\ QueriesSound /\ PackagesSound)
<1>1. SetupInv => PackagesSound
  BY PackagesSoundness DEF SetupInv
<1>. QED  BY <1>1, SetupHolds, SetupIsPart, LaunchIsSound, ActionsAreSound, GpuListIsSound,
             QueriesAreSound, PTL
=================================================================================
