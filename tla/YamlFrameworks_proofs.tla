------------------------ MODULE YamlFrameworks_proofs ------------------------
(***************************************************************************)
(* What holds of loading YAML frameworks, for any directories, files,      *)
(* definitions, calls and edits, and of the frameworks once they are       *)
(* loaded, for any projects and built-in detectors.                        *)
(***************************************************************************)
EXTENDS YamlFrameworks, Listing_proofs

-----------------------------------------------------------------------------
(* The inductive invariant.  Whether a file was accounted for when the     *)
(* call returns depends on how far it is: its directory is still to be     *)
(* visited or listed, it is still to be read, or it is settled.            *)

\* A good file's definition has been read or registered, a bad one noted.
Settled(d, f) ==
    /\ disk[d][f] # Bad => disk[d][f] \in ToSet(defs) \cup ToSet(detectors)
    /\ disk[d][f] = Bad => errs

Pending(d, f) ==
    \/ d \in ToSet(todo)
    \/ d = dir /\ pc = "list"
    \/ d = dir /\ pc = "file" /\ f \in files

ProgressInv == \A d \in Dirs, f \in Files : Given(d, f) => Pending(d, f) \/ Settled(d, f)

\* Definitions are carried inside a directory, an outcome between calls.
PhaseInv ==
    /\ pc # "file" => defs = <<>>
    /\ outcome # "none" => pc = "idle" /\ todo = <<>>
    /\ outcome = "ok" => ~errs

IInv == TypeOK /\ ProgressInv /\ PhaseInv

-----------------------------------------------------------------------------
(* Sequences as sets.                                                      *)

LEMMA HeadOrTail ==
    ASSUME NEW S, NEW s \in Seq(S), s # <<>>
    PROVE  /\ Head(s) \in S /\ Tail(s) \in Seq(S)
           /\ ToSet(s) = {Head(s)} \cup ToSet(Tail(s))
<1>1. /\ Head(s) \in S /\ Tail(s) \in Seq(S) /\ Len(s) \in Nat /\ Len(s) # 0
      /\ Head(s) = s[1]
      /\ Len(Tail(s)) = Len(s) - 1
      /\ \A i \in 1..Len(s) - 1 : Tail(s)[i] = s[i + 1]
  BY HeadTailProperties
<1>2. ASSUME NEW i \in 1..Len(s) PROVE s[i] \in {Head(s)} \cup ToSet(Tail(s))
  <2>1. CASE i = 1
    BY <1>1, <2>1
  <2>2. CASE i # 1
    <3>1. i - 1 \in 1..Len(Tail(s)) /\ Tail(s)[i - 1] = s[i]
      BY <1>1, <2>2
    <3>2. i - 1 \in DOMAIN Tail(s)
      BY <1>1, <3>1
    <3> QED
      BY <3>1, <3>2 DEF ToSet
  <2> QED
    BY <2>1, <2>2
<1>3. Head(s) \in ToSet(s)
  BY <1>1 DEF ToSet
<1>4. ASSUME NEW i \in 1..Len(Tail(s)) PROVE Tail(s)[i] \in ToSet(s)
  <2>1. i + 1 \in 1..Len(s) /\ Tail(s)[i] = s[i + 1]
    BY <1>1
  <2> QED
    BY <1>1, <2>1 DEF ToSet
<1>5. DOMAIN s = 1..Len(s) /\ DOMAIN Tail(s) = 1..Len(Tail(s))
  BY <1>1
<1> QED
  BY <1>1, <1>2, <1>3, <1>4, <1>5 DEF ToSet

LEMMA ConcatSet ==
    ASSUME NEW S, NEW s \in Seq(S), NEW t \in Seq(S)
    PROVE  s \o t \in Seq(S) /\ ToSet(s \o t) = ToSet(s) \cup ToSet(t)
<1>1. ToSet(s \o t) = Range(s \o t) /\ ToSet(s) = Range(s) /\ ToSet(t) = Range(t)
  BY DEF ToSet, Range
<1> QED
  BY <1>1, RangeConcatenation, ConcatProperties

LEMMA SingletonSet ==
    ASSUME NEW S, NEW e \in S
    PROVE  <<e>> \in Seq(S) /\ ToSet(<<e>>) = {e}
BY DEF ToSet

LEMMA AppendedSet ==
    ASSUME NEW S, NEW s \in Seq(S), NEW e \in S
    PROVE  Append(s, e) \in Seq(S) /\ ToSet(Append(s, e)) = ToSet(s) \cup {e}
<1>1. Append(s, e) = s \o <<e>>
  BY AppendIsConcat
<1>2. <<e>> \in Seq(S) /\ ToSet(<<e>>) = {e}
  BY SingletonSet
<1> DEFINE t == <<e>>
<1> HIDE DEF t
<1>3. t \in Seq(S) /\ ToSet(t) = {e} /\ Append(s, e) = s \o t
  BY <1>1, <1>2 DEF t
<1> QED
  BY <1>3, ConcatSet

LEMMA PrependedSet ==
    ASSUME NEW reg \in Seq(Entries), NEW e \in Entries
    PROVE  /\ Prepend(reg, e) \in Seq(Entries)
           /\ ToSet(Prepend(reg, e)) = ToSet(reg) \cup {e}
<1>1. Prepend(reg, e) = <<e>> \o reg
  BY DEF Prepend, Cons
<1>2. <<e>> \in Seq(Entries) /\ ToSet(<<e>>) = {e}
  BY SingletonSet
<1> DEFINE t == <<e>>
<1> HIDE DEF t
<1>3. t \in Seq(Entries) /\ ToSet(t) = {e} /\ Prepend(reg, e) = t \o reg
  BY <1>1, <1>2 DEF t
<1> QED
  BY <1>3, ConcatSet

-----------------------------------------------------------------------------
(* The operators of RegistryOps.                                           *)

\* A prepended entry is the first, and the rest moves one place back.
LEMMA PrependShape ==
    ASSUME NEW reg \in Seq(Entries), NEW e \in Entries
    PROVE  /\ Prepend(reg, e) \in Seq(Entries)
           /\ Len(Prepend(reg, e)) = Len(reg) + 1
           /\ Prepend(reg, e)[1] = e
           /\ \A i \in 1..Len(reg) : Prepend(reg, e)[i + 1] = reg[i]
<1> DEFINE t == <<e>>
<1>1. t \in Seq(Entries) /\ Len(t) = 1 /\ t[1] = e
  OBVIOUS
<1>2. Prepend(reg, e) = t \o reg
  BY DEF Prepend, Cons
<1> HIDE DEF t
<1>3. /\ t \o reg \in Seq(Entries) /\ Len(t \o reg) = 1 + Len(reg)
      /\ \A i \in 1..1 + Len(reg) : (t \o reg)[i] = IF i <= 1 THEN t[i] ELSE reg[i - 1]
  BY SMTT(30), <1>1, ConcatProperties
<1>4. Len(reg) \in Nat
  OBVIOUS
<1>5. \A i \in 1..Len(reg) : i + 1 \in 1..1 + Len(reg) /\ ~(i + 1 <= 1) /\ (i + 1) - 1 = i
  BY <1>4
<1>6. 1 \in 1..1 + Len(reg)
  BY <1>4
<1> QED
  BY <1>1, <1>2, <1>3, <1>4, <1>5, <1>6

\* FirstMatch answers the first entry that recognises the directory.
LEMMA FirstMatchCases ==
    ASSUME NEW reg \in Seq(Entries), NEW hits
    PROVE  \/ /\ \A i \in 1..Len(reg) : reg[i] \notin hits
              /\ FirstMatch(reg, hits) = NoEntry
           \/ \E k \in 1..Len(reg) :
                 /\ reg[k] \in hits /\ \A i \in 1..k - 1 : reg[i] \notin hits
                 /\ FirstMatch(reg, hits) = reg[k]
<1> DEFINE I == {i \in 1..Len(reg) : reg[i] \in hits}
           k == SelectInSeq(reg, LAMBDA e : e \in hits)
<1>1. k = IF I # {} THEN Min(I) ELSE 0
  BY DEF SelectInSeq
<1>2. FirstMatch(reg, hits) = IF k = 0 THEN NoEntry ELSE reg[k]
  BY DEF FirstMatch
<1>3. I # {} => Min(I) \in I /\ \A i \in I : Min(I) <= i
  <2>1. I \in SUBSET Nat
    OBVIOUS
  <2> HIDE DEF I
  <2> QED
    BY <2>1, MinOfNaturals
<1> HIDE DEF k
<1>4. CASE I = {}
  BY <1>1, <1>2, <1>4
<1>5. CASE I # {}
  <2>1. k \in I /\ \A i \in I : k <= i
    BY <1>1, <1>3, <1>5
  <2>2. k \in 1..Len(reg) /\ reg[k] \in hits /\ k # 0
    BY <2>1
  <2>3. ASSUME NEW i \in 1..k - 1
        PROVE  reg[i] \notin hits
    <3>1. i \in 1..Len(reg) /\ ~(k <= i)
      BY <2>2
    <3> QED
      BY <2>1, <3>1
  <2> QED
    BY <1>2, <2>2, <2>3
<1> QED
  BY <1>4, <1>5

-----------------------------------------------------------------------------
(* Type correctness.                                                       *)

LEMMA InitIInv == Init => IInv
<1> SUFFICES ASSUME Init PROVE IInv
  OBVIOUS
<1>1. /\ \A S : <<>> \in Seq(S)
      /\ ToSet(<<>>) = {}
  BY DEF ToSet
<1>2. (CHOOSE d \in Dirs : TRUE) \in Dirs
  BY LoaderAssumption
<1>3. Builtin \in Seq(Entries)
  BY LoaderAssumption, SeqMonotonic
<1>4. TypeOK
  BY <1>1, <1>2, <1>3, LoaderAssumption DEF Init, TypeOK
<1> QED
  BY <1>1, <1>4 DEF Init, IInv, ProgressInv, PhaseInv, Given

LEMMA FilesType ==
    ASSUME TypeOK, NEW d \in Dirs
    PROVE  /\ FilesOf(d) \subseteq Files
           /\ \A f \in FilesOf(d) : disk[d][f] \in Defs \cup {Bad}
BY DEF TypeOK, FilesOf, Contents

LEMMA TypeStep ==
    ASSUME IInv, [Next]_vars
    PROVE  TypeOK'
<1> USE DEF IInv
<1>1. CASE UNCHANGED vars
  BY <1>1 DEF vars, caller, TypeOK
<1>2. ASSUME NEW ds \in Loads, Call(ds) PROVE TypeOK'
  BY <1>2, LoaderAssumption DEF Call, TypeOK
<1>3. CASE SkipMissing
  <2>1. Head(todo) \in Dirs /\ Tail(todo) \in Seq(Dirs)
    BY <1>3, HeadTailProperties DEF SkipMissing, TypeOK
  <2> QED
    BY <1>3, <2>1 DEF SkipMissing, caller, TypeOK
<1>4. CASE List
  BY <1>4, FilesType DEF List, caller, TypeOK
<1>5. CASE BadFile
  BY <1>5 DEF BadFile, caller, TypeOK
<1>6. CASE GoodFile
  <2>1. PICK f \in FilesOf(dir) :
            /\ disk[dir][f] # Bad
            /\ defs' = Append(defs, disk[dir][f]) /\ files' = files \ {f}
    BY <1>6 DEF GoodFile
  <2>2. disk[dir][f] \in Defs
    BY <2>1, FilesType DEF TypeOK
  <2>3. defs' \in Seq(Defs)
    BY <2>1, <2>2, AppendedSet DEF TypeOK
  <2> QED
    BY <1>6, <2>1, <2>3 DEF GoodFile, caller, TypeOK
<1>7. CASE Register
  <2>1. CASE defs # <<>> /\ detectors' = Prepend(detectors, Head(defs)) /\ defs' = Tail(defs)
    <3>1. Head(defs) \in Defs /\ Tail(defs) \in Seq(Defs)
      BY <2>1, HeadTailProperties DEF TypeOK
    <3>2. Prepend(detectors, Head(defs)) \in Seq(Entries)
      BY <3>1, PrependedSet, LoaderAssumption DEF TypeOK
    <3> QED
      BY <1>7, <2>1, <3>1, <3>2 DEF Register, caller, TypeOK
  <2>2. CASE UNCHANGED <<detectors, defs>>
    BY <1>7, <2>2 DEF Register, caller, TypeOK
  <2> QED
    BY <1>7, <2>1, <2>2 DEF Register
<1>8. CASE Return
  BY <1>8 DEF Return, caller, TypeOK
<1>9. ASSUME NEW d \in Dirs, NEW content \in Edits, Edit(d, content) PROVE TypeOK'
  BY <1>9, LoaderAssumption DEF Edit, caller, TypeOK
<1> QED
  BY <1>1, <1>2, <1>3, <1>4, <1>5, <1>6, <1>7, <1>8, <1>9 DEF Next

-----------------------------------------------------------------------------
(* The other two parts of the invariant.                                   *)

LEMMA PhaseStep ==
    ASSUME IInv, [Next]_vars
    PROVE  PhaseInv'
<1> USE DEF IInv, PhaseInv
<1>1. CASE UNCHANGED vars
  BY <1>1 DEF vars
<1>2. ASSUME NEW ds \in Loads, Call(ds) PROVE PhaseInv'
  BY <1>2 DEF Call
<1>3. CASE SkipMissing \/ List \/ BadFile \/ GoodFile \/ Register \/ Return
  BY <1>3 DEF SkipMissing, List, BadFile, GoodFile, Register, Return, TypeOK
<1>4. ASSUME NEW d \in Dirs, NEW content \in Edits, Edit(d, content) PROVE PhaseInv'
  BY <1>4 DEF Edit
<1> QED
  BY <1>1, <1>2, <1>3, <1>4 DEF Next

\* A file a step leaves where it was stays given, and is as far as before.
LEMMA ProgressKept ==
    ASSUME ProgressInv, NEW d \in Dirs, NEW f \in Files, Given(d, f),
           disk'[d][f] = disk[d][f],
           UNCHANGED <<detectors, pc, todo, dir, files, defs, errs>>
    PROVE  Pending(d, f)' \/ Settled(d, f)'
BY DEF ProgressInv, Pending, Settled

LEMMA ProgressStep ==
    ASSUME IInv, [Next]_vars
    PROVE  ProgressInv'
<1> USE DEF IInv, Given, FilesOf
<1>1. CASE UNCHANGED vars
  BY <1>1 DEF vars, caller, ProgressInv, Pending, Settled
<1>2. ASSUME NEW ds \in Loads, Call(ds) PROVE ProgressInv'
  \* Everything the call was given is still to be visited.
  BY <1>2 DEF Call, ProgressInv, Pending
<1> SUFFICES ASSUME NEW d \in Dirs, NEW f \in Files, Given(d, f)',
                    Next, ~ \E ds \in Loads : Call(ds)
             PROVE  Pending(d, f)' \/ Settled(d, f)'
  BY <1>1, <1>2 DEF ProgressInv
<1>3. CASE SkipMissing
  <2>1. ToSet(todo) = {dir'} \cup ToSet(todo')
    BY <1>3, HeadOrTail DEF SkipMissing, TypeOK
  <2>2. d = dir' => pc' = "list"
    BY <1>3 DEF SkipMissing, caller
  <2>3. Given(d, f) /\ UNCHANGED <<disk, detectors, defs, errs>> /\ pc = "dir"
    BY <1>3 DEF SkipMissing, caller
  <2> QED
    BY <2>1, <2>2, <2>3 DEF ProgressInv, Pending, Settled
<1>4. CASE List
  BY <1>4 DEF List, caller, ProgressInv, Pending, Settled
<1>5. CASE BadFile
  BY <1>5 DEF BadFile, caller, ProgressInv, Pending, Settled
<1>6. CASE GoodFile
  <2>1. PICK g \in FilesOf(dir) :
            /\ disk[dir][g] # Bad
            /\ defs' = Append(defs, disk[dir][g]) /\ files' = files \ {g}
    BY <1>6 DEF GoodFile
  <2>2. disk[dir][g] \in Defs
    BY <2>1, FilesType DEF TypeOK
  <2>3. ToSet(defs') = ToSet(defs) \cup {disk[dir][g]}
    BY <2>1, <2>2, AppendedSet DEF TypeOK
  <2>4. Given(d, f) /\ UNCHANGED <<disk, detectors, pc, todo, dir, errs>>
    BY <1>6 DEF GoodFile, caller
  <2> QED
    BY <2>1, <2>3, <2>4 DEF ProgressInv, Pending, Settled
<1>7. CASE Register
  <2>1. /\ Given(d, f) /\ UNCHANGED <<disk, todo, dir, files, errs>>
        /\ pc = "file" /\ files = {}
    BY <1>7 DEF Register, caller
  <2>2. ToSet(defs') \cup ToSet(detectors') = ToSet(defs) \cup ToSet(detectors)
    <3>1. CASE defs # <<>> /\ detectors' = Prepend(detectors, Head(defs)) /\ defs' = Tail(defs)
      <4>1. Head(defs) \in Defs /\ ToSet(defs) = {Head(defs)} \cup ToSet(Tail(defs))
        BY <3>1, HeadOrTail DEF TypeOK
      <4>2. ToSet(detectors') = ToSet(detectors) \cup {Head(defs)}
        BY <3>1, <4>1, PrependedSet, LoaderAssumption DEF TypeOK
      <4> QED
        BY <3>1, <4>1, <4>2
    <3>2. CASE UNCHANGED <<detectors, defs>>
      BY <3>2
    <3> QED
      BY <1>7, <3>1, <3>2 DEF Register
  <2>3. Pending(d, f) => d \in ToSet(todo)
    BY <2>1 DEF Pending
  <2> QED
    BY <2>1, <2>2, <2>3 DEF ProgressInv, Pending, Settled
<1>8. CASE Return
  BY <1>8 DEF Return, caller, ProgressInv, Pending, Settled
<1>9. ASSUME NEW c \in Dirs, NEW content \in Edits, Edit(c, content)
      PROVE  Pending(d, f)' \/ Settled(d, f)'
  <2>1. /\ UNCHANGED <<args, detectors, pc, todo, dir, files, defs, errs>>
        /\ disk' = [disk EXCEPT ![c] = content]
        /\ d \in ToSet(args) /\ <<d, f>> \in steady
        /\ d # c \/ (f \in DOMAIN disk[d] /\ disk[d] # NoDir /\ disk[d][f] = content[f])
    BY <1>9 DEF Edit, caller
  <2>2. Given(d, f) /\ disk'[d][f] = disk[d][f]
    BY <2>1, <1>9 DEF TypeOK
  <2> QED
    BY <2>1, <2>2, ProgressKept
<1> QED
  BY <1>3, <1>4, <1>5, <1>6, <1>7, <1>8, <1>9 DEF Next

(* What a call has read, skipped and registered so far fits the directories *)
(* it was given: the invariant that all three results below rest on.       *)
THEOREM Inductive == Spec => []IInv
<1>1. IInv /\ [Next]_vars => IInv'
  BY TypeStep, PhaseStep, ProgressStep DEF IInv
<1> QED
  BY <1>1, InitIInv, PTL DEF Spec

-----------------------------------------------------------------------------
(* The theorems.                                                           *)

(* The variables of the loader keep their types, whatever is edited.       *)
THEOREM TypeCorrect == Spec => []TypeOK
<1>1. IInv => TypeOK
  BY DEF IInv
<1> QED
  BY <1>1, Inductive, PTL

(* For any directories, any number of calls and any edits meanwhile: what  *)
(* nobody touched is registered if it is good and reported if it is not.   *)
THEOREM AccountedFor == Spec => []EveryFileAccountedFor
<1>1. ASSUME IInv PROVE EveryFileAccountedFor
  <2> SUFFICES ASSUME NEW d \in Dirs, NEW f \in Files, Given(d, f), outcome # "none"
               PROVE  /\ disk[d][f] # Bad => disk[d][f] \in ToSet(detectors)
                      /\ outcome = "ok" => disk[d][f] # Bad
    BY DEF EveryFileAccountedFor
  <2>1. pc = "idle" /\ todo = <<>> /\ defs = <<>> /\ (outcome = "ok" => ~errs)
    BY <1>1 DEF IInv, PhaseInv
  <2>2. ToSet(todo) = {} /\ ToSet(defs) = {}
    BY <2>1 DEF ToSet
  <2>3. ~Pending(d, f)
    BY <2>1, <2>2 DEF Pending
  <2> QED
    BY <1>1, <2>1, <2>2, <2>3 DEF IInv, ProgressInv, Settled
<1> QED
  BY <1>1, Inductive, PTL

-----------------------------------------------------------------------------
(* Where the definitions stand.                                            *)

\* The registry is what was registered from files, then the built-ins.
LoadedInv ==
    LET n == Len(detectors) - Len(Builtin)
    IN  /\ n \in Nat
        /\ \A i \in 1..n : detectors[i] \in Defs
        /\ \A i \in 1..Len(Builtin) : detectors[n + i] = Builtin[i]

LEMMA LoadedStep ==
    ASSUME IInv, LoadedInv, [Next]_vars
    PROVE  LoadedInv'
<1>1. CASE UNCHANGED detectors
  BY <1>1 DEF LoadedInv
<1>2. CASE Register /\ defs # <<>> /\ detectors' = Prepend(detectors, Head(defs))
  <2> DEFINE n == Len(detectors) - Len(Builtin)
             e == Head(defs)
  <2>1. e \in Defs /\ e \in Entries /\ detectors \in Seq(Entries) /\ Builtin \in Seq(Entries)
    BY <1>2, LoaderAssumption, SeqMonotonic, HeadTailProperties DEF IInv, TypeOK
  <2> HIDE DEF e
  <2>2. /\ Len(detectors') = Len(detectors) + 1 /\ detectors'[1] = e
        /\ \A i \in 1..Len(detectors) : detectors'[i + 1] = detectors[i]
    BY <1>2, <2>1, PrependShape DEF e
  <2>3. /\ n \in Nat /\ n <= Len(detectors) /\ Len(detectors) = n + Len(Builtin)
        /\ Len(Builtin) \in Nat /\ Len(detectors') - Len(Builtin) = n + 1
        /\ \A i \in 1..n : detectors[i] \in Defs
        /\ \A i \in 1..Len(Builtin) : detectors[n + i] = Builtin[i]
    BY <2>1, <2>2 DEF LoadedInv
  <2> HIDE DEF n
  <2>4. ASSUME NEW i \in 1..n + 1 PROVE detectors'[i] \in Defs
    <3>1. CASE i = 1
      BY <2>1, <2>2, <3>1
    <3>2. CASE i # 1
      <4>1. i - 1 \in 1..n /\ i - 1 \in 1..Len(detectors)
        BY <2>3, <3>2
      <4>2. detectors'[(i - 1) + 1] = detectors[i - 1]
        BY <2>2, <4>1
      <4> QED
        BY <2>3, <4>1, <4>2
    <3> QED
      BY <3>1, <3>2
  <2>5. ASSUME NEW i \in 1..Len(Builtin) PROVE detectors'[n + 1 + i] = Builtin[i]
    <3>1. n + i \in 1..Len(detectors) /\ (n + i) + 1 = n + 1 + i
      BY <2>3
    <3>2. detectors'[(n + i) + 1] = detectors[n + i]
      BY <2>2, <3>1
    <3> QED
      BY <2>3, <3>1, <3>2
  <2> DEFINE m == n + 1
  <2>6. /\ m \in Nat /\ Len(detectors') - Len(Builtin) = m
        /\ \A i \in 1..m : detectors'[i] \in Defs
        /\ \A i \in 1..Len(Builtin) : detectors'[m + i] = Builtin[i]
    BY <2>3, <2>4, <2>5
  <2> HIDE DEF m
  <2> QED
    BY <2>6 DEF LoadedInv
<1>3. UNCHANGED detectors \/ (Register /\ defs # <<>> /\ detectors' = Prepend(detectors, Head(defs)))
  BY DEF Next, vars, Call, SkipMissing, List, BadFile, GoodFile, Register, Return, Edit
<1> QED
  BY <1>1, <1>2, <1>3

(* No file ever removes, reorders or shadows the built-ins among           *)
(* themselves: they end the registry as they were, after all definitions.  *)
THEOREM BuiltinsLast == Spec => []LoadedInv
<1>1. Init => LoadedInv
  <2> SUFFICES ASSUME Init PROVE LoadedInv
    OBVIOUS
  <2>1. Len(Builtin) \in Nat
    BY LoaderAssumption
  <2>2. Len(detectors) - Len(Builtin) = 0 /\ \A i \in 1..Len(Builtin) : 0 + i = i
    BY <2>1 DEF Init
  <2> QED
    BY <2>2 DEF Init, LoadedInv
<1>2. IInv /\ LoadedInv /\ [Next]_vars => LoadedInv'
  BY LoadedStep
<1> QED
  BY <1>1, <1>2, Inductive, PTL DEF Spec

-----------------------------------------------------------------------------
(* The composition behaves as its loader.                                  *)

LEMMA YamlStepLoads ==
    ASSUME [YamlNext]_<<vars, use>>
    PROVE  [Next]_vars
BY DEF YamlNext, Detect, Plan, FromDef, FromDefDir

(* Detecting and planning leave the loader alone, so what is proved of     *)
(* LoadAndRegisterFrameworks holds with its users around it.               *)
THEOREM LoaderInside == YamlSpec => Spec
<1>1. YamlInit => Init
  BY DEF YamlInit
<1>2. [YamlNext]_<<vars, use>> => [Next]_vars
  BY YamlStepLoads
<1> QED
  BY <1>1, <1>2, PTL DEF YamlSpec, Spec

-----------------------------------------------------------------------------
(* Definitions before built-ins.                                           *)

\* The answer is that of the registry, which no longer changes.
ReplyInv == project # NoProject => reply = FirstMatch(detectors, Hits(project))

LEMMA ReplyStep ==
    ASSUME ReplyInv, [YamlNext]_<<vars, use>>
    PROVE  ReplyInv'
<1>1. CASE UNCHANGED <<vars, use>>
  BY <1>1 DEF vars, use, ReplyInv
<1>2. CASE project = NoProject /\ Next /\ UNCHANGED use
  BY <1>2 DEF use, ReplyInv
<1>3. CASE Detect
  BY <1>3 DEF Detect, vars, ReplyInv
<1>4. CASE Plan \/ FromDef \/ FromDefDir
  BY <1>4 DEF Plan, FromDef, FromDefDir, vars, ReplyInv
<1> QED
  BY <1>1, <1>2, <1>3, <1>4 DEF YamlNext

\* The definitions registered, the last one first.
LoadedPart == SubSeq(detectors, 1, Len(detectors) - Len(Builtin))

LEMMA LoadedPartShape ==
    ASSUME TypeOK, LoadedInv
    PROVE  LET n == Len(detectors) - Len(Builtin)
           IN  /\ n \in 0..Len(detectors) /\ Len(LoadedPart) = n
               /\ LoadedPart \in Seq(Entries)
               /\ \A i \in 1..n : LoadedPart[i] = detectors[i]
<1> DEFINE n == Len(detectors) - Len(Builtin)
<1>1. detectors \in Seq(Entries) /\ Len(Builtin) \in Nat
  BY LoaderAssumption DEF TypeOK
<1>2. n \in Nat /\ n <= Len(detectors) /\ Len(detectors) \in Nat
  BY <1>1 DEF LoadedInv
<1>3. \A i \in 1..n : detectors[i] \in Entries
  BY <1>1, <1>2
<1>4. LoadedPart = SubSeq(detectors, 1, n)
  BY DEF LoadedPart
<1> HIDE DEF n
<1>5. /\ SubSeq(detectors, 1, n) \in Seq(Entries)
      /\ Len(SubSeq(detectors, 1, n)) = IF 1 <= n THEN n - 1 + 1 ELSE 0
      /\ \A i \in 1..n - 1 + 1 : SubSeq(detectors, 1, n)[i] = detectors[1 + i - 1]
  BY <1>2, <1>3, SubSeqProperties
<1> QED
  BY <1>2, <1>4, <1>5 DEF n

(* Whatever the definitions, directories and edits: a built-in answers only *)
(* where no loaded definition recognises the project, and the definition   *)
(* loaded last answers where its passing tests say so.                     *)
THEOREM DefinitionsFirst == YamlSpec => []DefinitionsAnswerFirst
<1>1. ASSUME TypeOK, LoadedInv, ReplyInv
      PROVE  DefinitionsAnswerFirst
  <2> SUFFICES ASSUME project # NoProject
               PROVE  /\ reply \in ToSet(Builtin) => Hits(project) \cap ToSet(LoadedPart) = {}
                      /\ \A d \in Defs : \A t \in Definition[d].tests :
                            /\ LoadedPart # <<>> /\ d = LoadedPart[1]
                            /\ TestPasses(Definition[d], t) /\ t.detected /\ t.fixture = project
                            => reply = d
    BY DEF DefinitionsAnswerFirst, LoadedPart
  <2> DEFINE n == Len(detectors) - Len(Builtin)
  <2>1. /\ n \in 0..Len(detectors) /\ Len(LoadedPart) = n
        /\ LoadedPart \in Seq(Entries)
        /\ \A i \in 1..n : LoadedPart[i] = detectors[i]
        /\ \A i \in 1..n : detectors[i] \in Defs
    BY <1>1, LoadedPartShape DEF LoadedInv
  <2>2. detectors \in Seq(Entries) /\ reply = FirstMatch(detectors, Hits(project))
    BY <1>1 DEF TypeOK, ReplyInv
  <2> HIDE DEF n
  <2>3. ASSUME reply \in ToSet(Builtin), NEW h \in Hits(project), h \in ToSet(LoadedPart)
        PROVE  FALSE
    <3>1. PICK i \in 1..n : h = detectors[i]
      BY <2>1, <2>3 DEF ToSet
    <3>2. PICK k \in 1..Len(detectors) :
              /\ \A j \in 1..k - 1 : detectors[j] \notin Hits(project)
              /\ reply = detectors[k]
      <4>1. i \in 1..Len(detectors)
        BY <2>1
      <4> QED
        BY <2>2, <2>3, <3>1, <4>1, FirstMatchCases
    <3>3. k <= n
      <4>1. ~ (i \in 1..k - 1)
        BY <2>3, <3>1, <3>2
      <4> QED
        BY <2>1, <4>1
    <3>4. reply \in Defs
      BY <2>1, <3>2, <3>3
    <3>5. ToSet(Builtin) \cap Defs = {}
      BY LoaderAssumption DEF ToSet
    <3> QED
      BY <2>3, <3>4, <3>5
  <2>4. ASSUME NEW d \in Defs, NEW t \in Definition[d].tests,
               LoadedPart # <<>>, d = LoadedPart[1],
               TestPasses(Definition[d], t), t.detected, t.fixture = project
        PROVE  reply = d
    <3>1. 1 \in 1..n /\ 1 \in 1..Len(detectors) /\ d = detectors[1]
      <4>1. n # 0
        BY <2>1, <2>4
      <4> QED
        BY <2>1, <2>4, <4>1
    <3>2. EvalDetectRules(project, Definition[d])
      BY <2>4 DEF TestPasses
    <3>3. d \in Hits(project)
      BY <3>2 DEF Hits
    <3>4. PICK k \in 1..Len(detectors) :
              /\ \A j \in 1..k - 1 : detectors[j] \notin Hits(project)
              /\ FirstMatch(detectors, Hits(project)) = detectors[k]
      BY <2>2, <3>1, <3>3, FirstMatchCases
    <3>5. FirstMatch(detectors, Hits(project)) = detectors[1]
      <4>1. 1 \notin 1..k - 1
        BY <3>1, <3>3, <3>4
      <4>2. k = 1
        BY <4>1
      <4> QED
        BY <3>4, <4>2
    <3> QED
      BY <2>2, <3>1, <3>5
  <2> QED
    BY <2>3, <2>4
<1>2. YamlInit => ReplyInv
  BY DEF YamlInit, UseInit, ReplyInv
<1>3. ReplyInv /\ [YamlNext]_<<vars, use>> => ReplyInv'
  BY ReplyStep
<1>4. YamlSpec => []ReplyInv
  BY <1>2, <1>3, PTL DEF YamlSpec
<1> QED
  BY <1>1, <1>4, LoaderInside, TypeCorrect, BuiltinsLast, PTL

-----------------------------------------------------------------------------
(* The two builders.                                                       *)

\* The position of x in a list of seven one-field kinds.
LEMMA KindOfField ==
    ASSUME NEW order, DOMAIN order = 1..7, Len(order) = 7,
           NEW step, NEW k \in 1..7, order[k] \subseteq DOMAIN step,
           \A i \in 1..7 : order[i] \subseteq DOMAIN step => i = k
    PROVE  KindOf(order, step) = k
<1> DEFINE I == {i \in 1..Len(order) : order[i] \subseteq DOMAIN step}
<1>1. I = {k}
  OBVIOUS
<1>2. Min(I) = k
  <2>1. I \in SUBSET Nat /\ I # {}
    BY <1>1
  <2> HIDE DEF I
  <2>2. Min(I) \in I
    BY <2>1, MinOfNaturals
  <2> QED
    BY <1>1, <2>2
<1>3. KindOf(order, step) = IF I # {} THEN Min(I) ELSE 0
  BY DEF KindOf, SelectInSeq
<1> QED
  BY <1>1, <1>2, <1>3

\* Each field of a step has one place in either builder's list.
LEMMA FieldPlaces ==
    ASSUME NEW x \in StepFields, x # "cache"
    PROVE  /\ \E k \in 1..7 : FieldOrder[k] = {x}
           /\ \E k \in 1..7 : FieldOrderDir[k] = {x}
<1>1. /\ FieldOrder[1] = {"workdir"} /\ FieldOrder[2] = {"copy"} /\ FieldOrder[3] = {"copy_from"}
      /\ FieldOrder[4] = {"run"} /\ FieldOrder[5] = {"env"} /\ FieldOrder[6] = {"expose"}
      /\ FieldOrder[7] = {"cmd"}
  BY DEF FieldOrder
<1>2. /\ FieldOrderDir[1] = {"workdir"} /\ FieldOrderDir[2] = {"copy_from"}
      /\ FieldOrderDir[3] = {"copy"} /\ FieldOrderDir[4] = {"run"} /\ FieldOrderDir[5] = {"env"}
      /\ FieldOrderDir[6] = {"cmd"} /\ FieldOrderDir[7] = {"expose"}
  BY DEF FieldOrderDir
<1>3. x \in {"workdir", "copy", "copy_from", "run", "env", "cmd", "expose"}
  BY DEF StepFields
<1> QED
  BY <1>1, <1>2, <1>3

\* No kind is listed twice, and each is a single field other than the cache.
LEMMA OrdersDistinct ==
    /\ DOMAIN FieldOrder = 1..7 /\ Len(FieldOrder) = 7
    /\ DOMAIN FieldOrderDir = 1..7 /\ Len(FieldOrderDir) = 7
    /\ \A i, k \in 1..7 : FieldOrder[i] = FieldOrder[k] => i = k
    /\ \A i, k \in 1..7 : FieldOrderDir[i] = FieldOrderDir[k] => i = k
    /\ \A i \in 1..7 : \E y : FieldOrder[i] = {y} /\ y # "cache"
    /\ \A i \in 1..7 : \E y : FieldOrderDir[i] = {y} /\ y # "cache"
BY DEF FieldOrder, FieldOrderDir

\* A step that sets one field, besides a cache, is of that field's kind.
LEMMA StepKind ==
    ASSUME NEW step, NEW x, DOMAIN step \subseteq StepFields, DOMAIN step \ {"cache"} = {x}
    PROVE  /\ KindOf(FieldOrder, step) \in 1..7 /\ FieldOrder[KindOf(FieldOrder, step)] = {x}
           /\ KindOf(FieldOrderDir, step) \in 1..7 /\ FieldOrderDir[KindOf(FieldOrderDir, step)] = {x}
<1>1. x \in StepFields /\ x # "cache" /\ x \in DOMAIN step
  OBVIOUS
<1>2. \A y : y # "cache" /\ {y} \subseteq DOMAIN step => y = x
  OBVIOUS
<1>3. PICK k \in 1..7 : FieldOrder[k] = {x}
  BY <1>1, FieldPlaces
<1>4. \A i \in 1..7 : FieldOrder[i] \subseteq DOMAIN step => i = k
  <2> SUFFICES ASSUME NEW i \in 1..7, FieldOrder[i] \subseteq DOMAIN step
               PROVE  i = k
    OBVIOUS
  <2>1. PICK y : FieldOrder[i] = {y} /\ y # "cache"
    BY OrdersDistinct
  <2>2. y = x
    BY <1>2, <2>1
  <2> QED
    BY <1>3, <2>1, <2>2, OrdersDistinct
<1>5. KindOf(FieldOrder, step) = k
  BY <1>1, <1>3, <1>4, KindOfField, OrdersDistinct
<1>6. PICK l \in 1..7 : FieldOrderDir[l] = {x}
  BY <1>1, FieldPlaces
<1>7. \A i \in 1..7 : FieldOrderDir[i] \subseteq DOMAIN step => i = l
  <2> SUFFICES ASSUME NEW i \in 1..7, FieldOrderDir[i] \subseteq DOMAIN step
               PROVE  i = l
    OBVIOUS
  <2>1. PICK y : FieldOrderDir[i] = {y} /\ y # "cache"
    BY OrdersDistinct
  <2>2. y = x
    BY <1>2, <2>1
  <2> QED
    BY <1>6, <2>1, <2>2, OrdersDistinct
<1>8. KindOf(FieldOrderDir, step) = l
  BY <1>1, <1>6, <1>7, KindOfField, OrdersDistinct
<1> QED
  BY <1>3, <1>5, <1>6, <1>8

\* Both builders make one step of it, of that type.
OneStep(steps, type) == \E text : steps = {[type |-> type, args |-> text]}

LEMMA StepBuilt ==
    ASSUME NEW step, NEW x, DOMAIN step \subseteq StepFields, DOMAIN step \ {"cache"} = {x},
           NEW values, NEW order
    PROVE  /\ OneStep(buildStepFromDef(step), x)
           /\ OneStep(resolveStep(step, values, order), x)
<1>1. (CHOOSE f \in {x} : TRUE) = x
  OBVIOUS
<1>2. buildStepFromDef(step) = {[type |-> x, args |-> step[x]]}
  BY <1>1, StepKind DEF buildStepFromDef
<1>3. resolveStep(step, values, order) = {[type |-> x, args |-> Sub(step[x], values, order)]}
  BY <1>1, StepKind DEF resolveStep
<1> QED
  BY <1>2, <1>3 DEF OneStep

\* The one field a step sets besides its cache.
FieldOf(step) == CHOOSE x : DOMAIN step \ {"cache"} = {x}

\* A definition whose steps set one known field each, and whose stages have
\* one of base and from.
Readable(def) ==
    /\ def.stages # <<>>
    /\ \A i \in DOMAIN def.stages :
          /\ (def.stages[i].base = "") # (def.stages[i].from = "")
          /\ \A j \in DOMAIN def.stages[i].steps :
                LET step == def.stages[i].steps[j]
                IN  DOMAIN step \subseteq StepFields /\ DOMAIN step \ {"cache"} = {FieldOf(step)}

LEMMA WellFormedReadable ==
    ASSUME NEW d \in Defs, WellFormed(Definition[d])
    PROVE  Readable(Definition[d])
<1> DEFINE def == Definition[d]
<1> SUFFICES ASSUME NEW i \in DOMAIN def.stages
             PROVE  /\ (def.stages[i].base = "") # (def.stages[i].from = "")
                    /\ \A j \in DOMAIN def.stages[i].steps :
                          LET step == def.stages[i].steps[j]
                          IN  /\ DOMAIN step \subseteq StepFields
                              /\ DOMAIN step \ {"cache"} = {FieldOf(step)}
  BY DEF Readable, WellFormed
<1> DEFINE s == def.stages[i]
<1>1. s \in ToSet(def.stages)
  BY DEF ToSet
<1>2. (s.base = "") # (s.from = "")
  BY <1>1 DEF WellFormed
<1>3. ASSUME NEW j \in DOMAIN s.steps
      PROVE  /\ DOMAIN s.steps[j] \subseteq StepFields
             /\ DOMAIN s.steps[j] \ {"cache"} = {FieldOf(s.steps[j])}
  <2> DEFINE step == s.steps[j]
             F == DOMAIN step \ {"cache"}
  <2>1. step \in ToSet(s.steps)
    BY DEF ToSet
  <2>2. DOMAIN step \subseteq StepFields
    BY <1>1, <2>1, DefinitionAssumption
  <2>3. Cardinality(F) = 1
    BY <1>1, <2>1 DEF WellFormed
  <2>4. IsFiniteSet(F)
    <3>1. IsFiniteSet(StepFields)
      <4>1. /\ IsFiniteSet({}) /\ \A S, y : IsFiniteSet(S) => IsFiniteSet(S \cup {y})
        BY FS_EmptySet, FS_AddElement
      <4>2. StepFields = {} \cup {"workdir"} \cup {"copy"} \cup {"copy_from"} \cup {"run"}
                            \cup {"cache"} \cup {"env"} \cup {"cmd"} \cup {"expose"}
        BY DEF StepFields
      <4> QED
        BY <4>1, <4>2
    <3>2. F \in SUBSET StepFields
      BY <2>2
    <3> QED
      BY <3>1, <3>2, FS_Subset
  <2> HIDE DEF F
  <2>5. \E x : F = {x}
    BY <2>3, <2>4, FS_Singleton
  <2>6. DOMAIN step \ {"cache"} = {FieldOf(step)}
    BY <2>5 DEF F, FieldOf
  <2> QED
    BY <2>2, <2>6
<1> QED
  BY <1>2, <1>3

\* What both builders make of a readable definition.
Read(plan, def) ==
    /\ plan # Failed /\ plan.expose = def.port
    /\ DOMAIN plan.stages = DOMAIN def.stages
    /\ \A i \in DOMAIN def.stages :
          /\ plan.stages[i].name = def.stages[i].name
          /\ Len(plan.stages[i].from) = IF def.stages[i].base = "" THEN 1 ELSE 2
          /\ DOMAIN plan.stages[i].steps = DOMAIN def.stages[i].steps
          /\ \A j \in DOMAIN def.stages[i].steps :
                OneStep(plan.stages[i].steps[j], FieldOf(def.stages[i].steps[j]))

\* A stage's image has two words for a base, one for a literal, and the same
\* of the two sources wins where only one is given.
LEMMA ImageBuilt ==
    ASSUME NEW stage, (stage.base = "") # (stage.from = ""), NEW version
    PROVE  /\ buildFrom(stage, version) # <<>> /\ resolveFrom(stage, version) # <<>>
           /\ Len(buildFrom(stage, version)) = IF stage.base = "" THEN 1 ELSE 2
           /\ Len(resolveFrom(stage, version)) = IF stage.base = "" THEN 1 ELSE 2
<1>1. CASE stage.base = ""
  BY <1>1 DEF buildFrom, resolveFrom
<1>2. CASE stage.base # "" /\ stage.from = ""
  BY <1>2 DEF buildFrom, resolveFrom, BaseTag
<1> QED
  BY <1>1, <1>2

\* A plan is not the failure: it has stages.
LEMMA PlanIsNoFailure ==
    ASSUME NEW name, NEW port, NEW stages
    PROVE  [framework |-> name, expose |-> port, stages |-> stages] # Failed
<1>1. "expose" \in DOMAIN [framework |-> name, expose |-> port, stages |-> stages]
  OBVIOUS
<1>2. "expose" \notin DOMAIN Failed
  BY DEF Failed
<1> QED
  BY <1>1, <1>2

LEMMA FromDefReads ==
    ASSUME NEW def, Readable(def), NEW fw, fw.port = def.port
    PROVE  Read(BuildPlanFromDef(def, fw), def)
<1> DEFINE stage(i) == [name |-> def.stages[i].name,
                        from |-> buildFrom(def.stages[i], versionForBase(def.stages[i].base, fw)),
                        steps |-> [j \in DOMAIN def.stages[i].steps |->
                                      buildStepFromDef(def.stages[i].steps[j])]]
           stages == [i \in DOMAIN def.stages |-> stage(i)]
           plan == [framework |-> def.name, expose |-> def.port, stages |-> stages]
<1>1. ASSUME NEW i \in DOMAIN def.stages
      PROVE  /\ stage(i).name = def.stages[i].name
             /\ stage(i).from # <<>>
             /\ Len(stage(i).from) = IF def.stages[i].base = "" THEN 1 ELSE 2
             /\ DOMAIN stage(i).steps = DOMAIN def.stages[i].steps
             /\ \A j \in DOMAIN def.stages[i].steps :
                   OneStep(stage(i).steps[j], FieldOf(def.stages[i].steps[j]))
  <2>1. (def.stages[i].base = "") # (def.stages[i].from = "")
    BY DEF Readable
  <2>2. /\ buildFrom(def.stages[i], versionForBase(def.stages[i].base, fw)) # <<>>
        /\ Len(buildFrom(def.stages[i], versionForBase(def.stages[i].base, fw)))
             = IF def.stages[i].base = "" THEN 1 ELSE 2
    BY <2>1, ImageBuilt
  <2>3. ASSUME NEW j \in DOMAIN def.stages[i].steps
        PROVE  OneStep(buildStepFromDef(def.stages[i].steps[j]),
                       FieldOf(def.stages[i].steps[j]))
    <3>1. DOMAIN def.stages[i].steps[j] \subseteq StepFields
          /\ DOMAIN def.stages[i].steps[j] \ {"cache"} = {FieldOf(def.stages[i].steps[j])}
      BY DEF Readable
    <3> QED
      BY <3>1, StepBuilt
  <2> QED
    BY <2>2, <2>3
<1>2. ~ \E i \in DOMAIN stages : stages[i].from = <<>> \/ {} \in ToSet(stages[i].steps)
  <2> SUFFICES ASSUME NEW i \in DOMAIN def.stages
               PROVE  stage(i).from # <<>> /\ {} \notin ToSet(stage(i).steps)
    OBVIOUS
  <2>1. \A j \in DOMAIN def.stages[i].steps : stage(i).steps[j] # {}
    BY <1>1 DEF OneStep
  <2> QED
    BY <1>1, <2>1 DEF ToSet
<1>3. BuildPlanFromDef(def, fw) = plan
  BY <1>2 DEF BuildPlanFromDef, Assembled, Readable
<1>4. plan # Failed /\ plan.expose = def.port /\ plan.stages = stages
  BY PlanIsNoFailure
<1>5. DOMAIN plan.stages = DOMAIN def.stages
      /\ \A i \in DOMAIN def.stages : plan.stages[i] = stage(i)
  BY <1>4
<1> HIDE DEF plan, stages, stage
<1>6. Read(plan, def)
  BY <1>1, <1>4, <1>5 DEF Read
<1> QED
  BY <1>3, <1>6

\* The other builder, whatever the project and the order of its variables.
LEMMA FromDirReads ==
    ASSUME NEW def, Readable(def), NEW P, NEW order
    PROVE  Read(BuildPlanFromDefDir(def, P, order), def)
<1> DEFINE stage(i) == [name |-> def.stages[i].name,
                        from |-> resolveFrom(def.stages[i], ResolveVersion(def, P)),
                        steps |-> [j \in DOMAIN def.stages[i].steps |->
                                      resolveStep(def.stages[i].steps[j], Vars(def, P), order)]]
           stages == [i \in DOMAIN def.stages |-> stage(i)]
           plan == [framework |-> def.name, expose |-> def.port, stages |-> stages]
<1>1. ASSUME NEW i \in DOMAIN def.stages
      PROVE  /\ stage(i).name = def.stages[i].name
             /\ stage(i).from # <<>>
             /\ Len(stage(i).from) = IF def.stages[i].base = "" THEN 1 ELSE 2
             /\ DOMAIN stage(i).steps = DOMAIN def.stages[i].steps
             /\ \A j \in DOMAIN def.stages[i].steps :
                   OneStep(stage(i).steps[j], FieldOf(def.stages[i].steps[j]))
  <2>1. (def.stages[i].base = "") # (def.stages[i].from = "")
    BY DEF Readable
  <2>2. /\ resolveFrom(def.stages[i], ResolveVersion(def, P)) # <<>>
        /\ Len(resolveFrom(def.stages[i], ResolveVersion(def, P)))
             = IF def.stages[i].base = "" THEN 1 ELSE 2
    BY <2>1, ImageBuilt
  <2>3. ASSUME NEW j \in DOMAIN def.stages[i].steps
        PROVE  OneStep(resolveStep(def.stages[i].steps[j], Vars(def, P), order),
                       FieldOf(def.stages[i].steps[j]))
    <3>1. DOMAIN def.stages[i].steps[j] \subseteq StepFields
          /\ DOMAIN def.stages[i].steps[j] \ {"cache"} = {FieldOf(def.stages[i].steps[j])}
      BY DEF Readable
    <3> QED
      BY <3>1, StepBuilt
  <2> QED
    BY <2>2, <2>3
<1>2. ~ \E i \in DOMAIN stages : stages[i].from = <<>> \/ {} \in ToSet(stages[i].steps)
  <2> SUFFICES ASSUME NEW i \in DOMAIN def.stages
               PROVE  stage(i).from # <<>> /\ {} \notin ToSet(stage(i).steps)
    OBVIOUS
  <2>1. \A j \in DOMAIN def.stages[i].steps : stage(i).steps[j] # {}
    BY <1>1 DEF OneStep
  <2> QED
    BY <1>1, <2>1 DEF ToSet
<1>3. BuildPlanFromDefDir(def, P, order) = plan
  BY <1>2 DEF BuildPlanFromDefDir, Assembled
<1>4. plan # Failed /\ plan.expose = def.port /\ plan.stages = stages
  BY PlanIsNoFailure
<1>5. DOMAIN plan.stages = DOMAIN def.stages
      /\ \A i \in DOMAIN def.stages : plan.stages[i] = stage(i)
  BY <1>4
<1> HIDE DEF plan, stages, stage
<1>6. Read(plan, def)
  BY <1>1, <1>4, <1>5 DEF Read
<1> QED
  BY <1>3, <1>6

\* What the builders make of a definition has the shape the definition gives.
LEMMA ReadShape ==
    ASSUME NEW def, NEW plan, Read(plan, def)
    PROVE  Shape(plan) = [i \in DOMAIN def.stages |->
                              <<def.stages[i].name, IF def.stages[i].base = "" THEN 1 ELSE 2,
                                [j \in DOMAIN def.stages[i].steps |-> {FieldOf(def.stages[i].steps[j])}]>>]
<1>1. ASSUME NEW steps, NEW type, OneStep(steps, type)
      PROVE  {s.type : s \in steps} = {type}
  <2>1. PICK text : steps = {[type |-> type, args |-> text]}
    BY <1>1 DEF OneStep
  <2> QED
    BY <2>1
<1>2. ASSUME NEW i \in DOMAIN def.stages
      PROVE  Kinds(plan.stages[i].steps)
                = [j \in DOMAIN def.stages[i].steps |-> {FieldOf(def.stages[i].steps[j])}]
  <2>1. DOMAIN plan.stages[i].steps = DOMAIN def.stages[i].steps
    BY DEF Read
  <2>2. \A j \in DOMAIN def.stages[i].steps :
            {s.type : s \in plan.stages[i].steps[j]} = {FieldOf(def.stages[i].steps[j])}
    BY <1>1 DEF Read
  <2> QED
    BY <2>1, <2>2 DEF Kinds
<1>3. DOMAIN plan.stages = DOMAIN def.stages
      /\ \A i \in DOMAIN def.stages :
            /\ plan.stages[i].name = def.stages[i].name
            /\ Len(plan.stages[i].from) = IF def.stages[i].base = "" THEN 1 ELSE 2
  BY DEF Read
<1> QED
  BY <1>2, <1>3 DEF Shape

\* What answers is about a project that was asked about.
AskedInv == reply \in Defs => project \in Projects

LEMMA AskedStep ==
    ASSUME AskedInv, [YamlNext]_<<vars, use>>
    PROVE  AskedInv'
<1>1. CASE UNCHANGED <<vars, use>>
  BY <1>1 DEF vars, use, AskedInv
<1>2. CASE project = NoProject /\ Next /\ UNCHANGED use
  BY <1>2 DEF use, AskedInv
<1>3. CASE Detect
  BY <1>3 DEF Detect, AskedInv
<1>4. CASE Plan \/ FromDef \/ FromDefDir
  BY <1>4 DEF Plan, FromDef, FromDefDir, AskedInv
<1> QED
  BY <1>1, <1>2, <1>3, <1>4 DEF YamlNext

(* Whatever the definitions, the projects and the iteration orders: of a   *)
(* well-formed definition the two builders of yamldef/build.go make plans  *)
(* of the same port, stages, literal images and kinds of step.             *)
THEOREM BuildersRead == YamlSpec => []BuildersAgree
<1>1. ASSUME AskedInv PROVE BuildersAgree
  <2> SUFFICES ASSUME reply \in Defs, WellFormed(Definition[reply])
               PROVE  <<reply, project>> \in Agreeing
    BY DEF BuildersAgree
  <2> DEFINE def == Definition[reply]
             fromDef == BuildPlanFromDef(def, FrameworkOf(reply))
             fromDir(order) == BuildPlanFromDefDir(def, project, order)
  <2>1. Readable(def)
    BY WellFormedReadable
  <2>2. FrameworkOf(reply).port = def.port
    BY DEF FrameworkOf
  <2>3. Read(fromDef, def)
    BY <2>1, <2>2, FromDefReads
  <2>4. ASSUME NEW order \in Orders
        PROVE  /\ Failed \notin {fromDef, fromDir(order)}
               /\ fromDef.expose = fromDir(order).expose
               /\ Shape(fromDef) = Shape(fromDir(order))
    <3>1. Read(fromDir(order), def)
      BY <2>1, FromDirReads
    <3> HIDE DEF fromDef, fromDir, def
    <3>2. Shape(fromDef) = Shape(fromDir(order))
      BY <2>3, <3>1, ReadShape
    <3> QED
      BY <2>3, <3>1, <3>2 DEF Read
  <2>5. <<reply, project>> \in Defs \X Projects
    BY <1>1 DEF AskedInv
  <2> QED
    BY <2>4, <2>5 DEF Agreeing
<1>2. YamlInit => AskedInv
  BY LoaderAssumption, EntriesAssumption DEF YamlInit, UseInit, AskedInv
<1>3. AskedInv /\ [YamlNext]_<<vars, use>> => AskedInv'
  BY AskedStep
<1> QED
  BY <1>1, <1>2, <1>3, PTL DEF YamlSpec
=============================================================================
