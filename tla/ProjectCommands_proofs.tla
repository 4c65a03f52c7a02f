----------------------- MODULE ProjectCommands_proofs -----------------------
(***************************************************************************)
(* What holds of the commands for any number of processes, any project,    *)
(* any choice of commands and any number of edits and faults.              *)
(***************************************************************************)
EXTENDS ProjectCommands, TLAPS

-----------------------------------------------------------------------------
(* The inductive invariant.                                                *)

Detecting == {"config", "look", "options"}
Writing == {"open", "write", "rename"}
WritingFile == {"lstat", "remove"} \cup Writing

\* What a temporary file may hold: never a config.
Temporary == Texts \cup {"missing", "template", "half", "mixed"}

Typed ==
    /\ project \in {"builtin", "home"}
    /\ files \in [Files -> Contents]
    /\ tmp \in [Targets -> Temporary]
    /\ edits \in Nat /\ faults \in Nat
    /\ pc \in [Procs -> {"idle"} \cup Detecting \cup WritingFile]
    /\ kind \in [Procs -> {"init", "eject", "force", "detect", "build", "dockerfile"}]
    /\ pos \in [Procs -> {1, 2}]
    /\ fw \in [Procs -> Texts \cup {"dockerfile", "none"}]
    /\ target \in [Procs -> Targets]
    /\ at \in [Procs -> {"none", "tmp", "dest", "gone"}]
    /\ result \in [Procs -> Results]
    /\ since \in [Procs -> SUBSET (Files \X Contents)]
    /\ wrote \in [Procs -> SUBSET Targets]
    /\ shared \in SUBSET Targets

\* Only init, eject and eject --force write, each its own files and eject
\* the Dockerfile first; a file is not written twice.
CommandInv == \A p \in Procs :
    /\ pc[p] = "idle" => pos[p] = 1
    /\ pc[p] \in Detecting => wrote[p] = {}
    /\ pc[p] = "options" => kind[p] = "dockerfile"
    /\ pc[p] \in WritingFile =>
          /\ \/ kind[p] = "init" /\ target[p] = "toml"
             \/ kind[p] \in {"eject", "force"} /\ target[p] # "toml" /\ fw[p] \in Texts
          /\ IF target[p] = "ignore" THEN wrote[p] = {"Dockerfile"} ELSE wrote[p] = {}
    /\ pc[p] # "idle" => result[p] = NoResult

\* A file remembered in `since` is as it was, unless the command has written
\* it; and one the command is about to write it was told to.
SinceInv == \A p \in Procs : \A s \in since[p] :
    /\ s[1] \notin wrote[p] => files[s[1]] = s[2] /\ s[2] # "missing"
    /\ pc[p] \in Writing /\ s[1] = target[p] => kind[p] = "force" /\ s[2] # "link"

\* With a docksmith.toml that stays as it is, a command goes no further than
\* that file and what is in it allows.
ConfigInv == \A p \in Procs : \A s \in since[p] : s[1] = "toml" =>
    /\ pc[p] = "config" => pos[p] = 1
    /\ pc[p] # "look"
    /\ pc[p] = "options" => s[2] = "config" /\ fw[p] = "configured" /\ pos[p] = 1
    /\ pc[p] \in WritingFile =>
          s[2] \in ValidConfigs /\ (kind[p] # "init" => fw[p] = "configured")

\* One writer at a time: the temporary file is its own.
Solo(t) ==
    /\ files[t] \notin {"half", "mixed"}
    /\ \A p \in Procs : target[p] = t /\ pc[p] \in {"write", "rename"} =>
          /\ \A q \in Procs \ {p} : ~(target[q] = t /\ pc[q] \in {"write", "rename"})
          /\ pc[p] = "write" =>
                \/ at[p] = "tmp" /\ tmp[t] = "half"
                \/ at[p] = "gone" /\ tmp[t] = "missing"
          /\ pc[p] = "rename" => tmp[t] \notin {"half", "mixed"}

SoloInv == \A t \in Targets \ shared : Solo(t)

Quiet == edits = 0 /\ faults = 0

\* The text every command writes as long as the user does not interfere.
Agreed(t) ==
    IF t = "toml" THEN "template"
    ELSE IF files["toml"] = "config" \/ files["yaml"] = "config" THEN "configured"
    ELSE IF project = "builtin" THEN "app" ELSE "static"

\* No command makes a config or changes one, so all see the same ...
AgreedBy(p) ==
    /\ pc[p] = "config" /\ pos[p] = 2 => files["toml"] # "config"
    /\ pc[p] = "look" => files["toml"] # "config" /\ files["yaml"] # "config"
    /\ pc[p] \in WritingFile /\ kind[p] # "init" => fw[p] = Agreed("Dockerfile")
    /\ pc[p] \in Writing /\ target[p] = "toml" => files["toml"] # "config"
    /\ pc[p] = "write" /\ at[p] = "tmp" => tmp[target[p]] # "missing"
    /\ pc[p] = "write" /\ at[p] = "dest" => files[target[p]] \in {"half", Agreed(target[p])}

\* ... and there is only one text to be written.
AgreedInv == Quiet =>
    /\ \A p \in Procs : AgreedBy(p)
    /\ \A t \in Targets : tmp[t] \in {"missing", "half", Agreed(t)}

Opened(p, t, place) == pc[p] = "write" /\ target[p] = t /\ at[p] = place

\* Then a file is not whole only while the process that opened it has still
\* to write, and what was written stays.
HalfInv == Quiet =>
    /\ \A t \in Targets :
          /\ files[t] # "mixed"
          /\ tmp[t] = "half" => \E p \in Procs : Opened(p, t, "tmp")
          /\ files[t] = "half" => \E p \in Procs : Opened(p, t, "dest")
    /\ \A p \in Procs : \A t \in wrote[p] : files[t] # "missing"

IInv == /\ Typed /\ CommandInv /\ SinceInv /\ ConfigInv /\ SoloInv /\ AgreedInv /\ HalfInv
        /\ ExistingKept /\ ConfigDecides

-----------------------------------------------------------------------------
(* Types, and the initial state.                                           *)

LEMMA ResultType ==
    /\ NoResult \in Results
    /\ \A f \in Texts \cup {"dockerfile", "none"} : \A b \in BOOLEAN :
          \A what \in {"none", "ok", "error", "exists", "nothing"} : Result(what, f, b) \in Results
BY DEF NoResult, Result, Results

LEMMA NothingYet == NoResult.what = "none"
BY DEF NoResult, Result

LEMMA NotOk ==
    ASSUME NEW what \in {"error", "exists", "nothing"}, NEW f \in {"none", "dockerfile"}
    PROVE  Result(what, f, FALSE) \in {r \in Results : r.what \in {"error", "exists", "nothing"}}
<1>1. Result(what, f, FALSE) \in Results
  BY ResultType
<1>2. Result(what, f, FALSE).what = what
  BY DEF Result
<1> QED
  BY <1>1, <1>2

LEMMA InitIInv == Init => IInv
<1> SUFFICES ASSUME Init PROVE IInv
  OBVIOUS
<1>1. files \in [Files -> {"missing", "config", "dockerfile config", "invalid", "own", "link"}]
  BY CommandsAssumption DEF Init
<1>2. Typed
  BY <1>1, CommandsAssumption, ResultType
     DEF Init, Typed, Contents, Temporary, Detecting, WritingFile, Files, Targets, Texts
<1>4. CommandInv /\ SinceInv /\ ConfigInv /\ ExistingKept
  BY DEF Init, CommandInv, SinceInv, ConfigInv, ExistingKept, Detecting, WritingFile, Writing
<1>5. SoloInv /\ AgreedInv /\ HalfInv
  BY <1>1 DEF Init, SoloInv, Solo, AgreedInv, AgreedBy, HalfInv, Writing, WritingFile, Targets, Files
<1>6. ConfigDecides
  BY DEF Init, ConfigDecides
<1> QED
  BY <1>2, <1>4, <1>5, <1>6 DEF IInv

LEMMA ExitType ==
    ASSUME Typed, NEW p \in Procs, NEW r \in Results, Exit(p, r)
    PROVE  /\ pc' \in [Procs -> {"idle"} \cup Detecting \cup WritingFile]
           /\ pos' \in [Procs -> {1, 2}]
           /\ fw' \in [Procs -> Texts \cup {"dockerfile", "none"}]
           /\ target' \in [Procs -> Targets]
           /\ result' \in [Procs -> Results]
BY DEF Exit, Typed, Targets

LEMMA FailType ==
    ASSUME Typed, NEW p \in Procs, Fail(p)
    PROVE  /\ pc' \in [Procs -> {"idle"} \cup Detecting \cup WritingFile]
           /\ pos' \in [Procs -> {1, 2}]
           /\ fw' \in [Procs -> Texts \cup {"dockerfile", "none"}]
           /\ target' \in [Procs -> Targets]
           /\ result' \in [Procs -> Results]
BY ExitType, ResultType DEF Fail

LEMMA DetectedType ==
    ASSUME Typed, NEW p \in Procs, NEW f \in Texts \cup {"dockerfile"}, Detected(p, f)
    PROVE  /\ pc' \in [Procs -> {"idle"} \cup Detecting \cup WritingFile]
           /\ pos' \in [Procs -> {1, 2}]
           /\ fw' \in [Procs -> Texts \cup {"dockerfile", "none"}]
           /\ target' \in [Procs -> Targets]
           /\ result' \in [Procs -> Results]
<1>1. CASE Exit(p, Result("ok", f, FALSE)) \/ Exit(p, Result("nothing", f, FALSE))
  BY <1>1, ExitType, ResultType
<1>2. CASE /\ pc' = [pc EXCEPT ![p] = "options"] /\ pos' = [pos EXCEPT ![p] = 1]
           /\ fw' = [fw EXCEPT ![p] = f] /\ UNCHANGED <<target, result, log>>
  BY <1>2 DEF Typed, Detecting
<1>3. CASE /\ pc' = [pc EXCEPT ![p] = "lstat"] /\ fw' = [fw EXCEPT ![p] = f]
           /\ target' = [target EXCEPT ![p] = IF kind[p] = "init" THEN "toml" ELSE "Dockerfile"]
           /\ UNCHANGED <<pos, result, log>>
  BY <1>3 DEF Typed, WritingFile, Targets
<1> QED
  BY <1>1, <1>2, <1>3 DEF Detected

\* A file's content and what a process writes are contents.
LEMMA TextType ==
    ASSUME Typed, CommandInv, NEW p \in Procs, pc[p] \in WritingFile
    PROVE  Text(p) \in Texts \cup {"template"}
BY DEF Text, CommandInv

LEMMA AtType ==
    ASSUME Typed, NEW p \in Procs, NEW t, NEW place
    PROVE  /\ Moved(p, t) \in [Procs -> {"none", "tmp", "dest", "gone"}]
           /\ Dropped(t, place) \in [Procs -> {"none", "tmp", "dest", "gone"}]
BY DEF Moved, Dropped, Typed

LEMMA ChangedType ==
    ASSUME Typed, NEW t
    PROVE  Changed(t) \in [Procs -> SUBSET (Files \X Contents)]
BY DEF Changed, Typed

LEMMA TypeStep ==
    ASSUME IInv, [Next]_vars
    PROVE  Typed'
<1> USE DEF IInv, Typed
<1>1. CASE UNCHANGED vars
  BY <1>1 DEF vars
<1>2. ASSUME NEW p \in Procs, NEW k \in Kinds, Call(p, k) PROVE Typed'
  <2>1. {<<f, files[f]>> : f \in {g \in Files : Present(g)}} \in SUBSET (Files \X Contents)
    OBVIOUS
  <2>2. k \in {"init", "eject", "force", "detect", "build", "dockerfile"}
    BY CommandsAssumption
  <2> QED
    BY <1>2, <2>1, <2>2, ResultType DEF Call, Goto, disk, world, Detecting
<1>3. ASSUME NEW p \in Procs, ReadConfig(p) PROVE Typed'
  <2>1. \/ /\ pos[p] < 2 /\ pos' = [pos EXCEPT ![p] = @ + 1]
           /\ UNCHANGED <<pc, fw, target, result, log>>
        \/ pc' = [pc EXCEPT ![p] = "look"] /\ UNCHANGED <<pos, fw, target, result, log>>
        \/ Detected(p, "configured") \/ Detected(p, "dockerfile") \/ Fail(p)
    BY <1>3 DEF ReadConfig, NextName, Goto
  <2>2. ASSUME pos[p] < 2, pos' = [pos EXCEPT ![p] = @ + 1]
        PROVE  pos' \in [Procs -> {1, 2}]
    BY <2>2
  <2>3. CASE Detected(p, "configured") \/ Detected(p, "dockerfile") \/ Fail(p)
    BY <1>3, <2>3, DetectedType, FailType DEF ReadConfig, disk, world, Texts
  <2> QED
    BY <1>3, <2>1, <2>2, <2>3 DEF ReadConfig, disk, world, Detecting
<1>4. ASSUME NEW p \in Procs, Look(p) PROVE Typed'
  <2>1. \E f \in Texts \cup {"dockerfile"} : Detected(p, f)
    BY <1>4 DEF Look, Texts
  <2> QED
    BY <1>4, <2>1, DetectedType DEF Look, disk, world
<1>5. ASSUME NEW p \in Procs, ReadOptions(p) PROVE Typed'
  <2>1. \/ /\ pos[p] < 2 /\ pos' = [pos EXCEPT ![p] = @ + 1]
           /\ UNCHANGED <<pc, fw, target, result, log>>
        \/ Exit(p, Result("ok", fw[p], FALSE)) \/ Exit(p, Result("ok", fw[p], TRUE)) \/ Fail(p)
    BY <1>5 DEF ReadOptions, NextName
  <2>2. ASSUME pos[p] < 2, pos' = [pos EXCEPT ![p] = @ + 1]
        PROVE  pos' \in [Procs -> {1, 2}]
    BY <2>2
  <2>3. CASE Exit(p, Result("ok", fw[p], FALSE)) \/ Exit(p, Result("ok", fw[p], TRUE)) \/ Fail(p)
    <3>1. Result("ok", fw[p], FALSE) \in Results /\ Result("ok", fw[p], TRUE) \in Results
      BY ResultType
    <3> QED
      BY <1>5, <2>3, <3>1, ExitType, FailType DEF ReadOptions, disk, world
  <2> QED
    BY <1>5, <2>1, <2>2, <2>3 DEF ReadOptions, disk, world
<1>6. ASSUME NEW p \in Procs, Lstat(p) PROVE Typed'
  BY <1>6, FailType, ExitType, ResultType DEF Lstat, Goto, disk, world, WritingFile, Writing
<1>7. ASSUME NEW p \in Procs, Open(p) PROVE Typed'
  BY <1>7 DEF Open, Goto, disk, world, WritingFile, Writing, Temporary
<1>8. ASSUME NEW p \in Procs, Write(p) PROVE Typed'
  <2>1. Text(p) \in Texts \cup {"template"}
    BY <1>8, TextType DEF Write, Goto, WritingFile, Writing
  <2>2. \A old : Over(Text(p), old) \subseteq Temporary /\ Over(Text(p), old) \subseteq Contents
    BY <2>1 DEF Over, Temporary, Contents
  <2>3. tmp' \in [Targets -> Temporary] /\ files' \in [Files -> Contents]
    BY <1>8, <2>2 DEF Write, disk
  <2> QED
    BY <1>8, <2>3, ChangedType DEF Write, Goto, world, disk, WritingFile, Writing
<1>9. ASSUME NEW p \in Procs, WriteFails(p) PROVE Typed'
  BY <1>9, FailType DEF WriteFails, disk
<1>10. ASSUME NEW p \in Procs, Rename(p) PROVE Typed'
  <2>1. tmp[target[p]] \in Contents
    BY DEF Temporary, Contents
  <2>2. files' \in [Files -> Contents] /\ tmp' \in [Targets -> Temporary]
    BY <1>10, <2>1 DEF Rename, Temporary
  <2>3. since' \in [Procs -> SUBSET (Files \X Contents)] /\ wrote' \in [Procs -> SUBSET Targets]
    <3>1. since' = [Changed(target[p]) EXCEPT ![p] = since[p]]
          /\ wrote' = [wrote EXCEPT ![p] = wrote[p] \cup {target[p]}]
      BY <1>10 DEF Rename
    <3>2. Changed(target[p]) \in [Procs -> SUBSET (Files \X Contents)]
      BY ChangedType
    <3> QED
      BY <3>1, <3>2
  <2>4. at' \in [Procs -> {"none", "tmp", "dest", "gone"}]
    BY <1>10, AtType DEF Rename
  <2>5. CASE Exit(p, Result("ok", fw[p], FALSE))
    BY <1>10, <2>2, <2>3, <2>4, <2>5, ExitType, ResultType DEF Rename, world
  <2>6. CASE Goto(p, "rename", "lstat") /\ target' = [target EXCEPT ![p] = "ignore"]
             /\ UNCHANGED <<pos, fw, result, log>>
    BY <1>10, <2>2, <2>3, <2>4, <2>6 DEF Rename, Goto, world, WritingFile, Targets
  <2> QED
    BY <1>10, <2>5, <2>6 DEF Rename
<1>11. ASSUME NEW p \in Procs, RenameFails(p) PROVE Typed'
  BY <1>11 DEF RenameFails, Goto, disk, history, WritingFile
<1>12. ASSUME NEW p \in Procs, Remove(p) PROVE Typed'
  BY <1>12, FailType, AtType DEF Remove, world, Temporary
<1>13. ASSUME NEW p \in Procs, Crash(p) PROVE Typed'
  BY <1>13, ExitType, ResultType DEF Crash, disk
<1>14. ASSUME NEW f \in Files, NEW content \in MayContain(f), Edit(f, content)
      PROVE  Typed'
  <2>1. content \in Contents
    BY DEF MayContain, Contents
  <2>2. at' \in [Procs -> {"none", "tmp", "dest", "gone"}]
    BY <1>14 DEF Edit, Dropped
  <2> QED
    BY <1>14, <2>1, <2>2, ChangedType DEF Edit
<1> HIDE DEF IInv, Typed
<1> QED
  BY <1>1, <1>2, <1>3, <1>4, <1>5, <1>6, <1>7, <1>8, <1>9, <1>10, <1>11, <1>12,
     <1>13, <1>14 DEF Next, Step

-----------------------------------------------------------------------------
(* What the steps do to the process that takes them, and to the others.    *)

OthersSame(p) == \A q \in Procs \ {p} :
    /\ pc'[q] = pc[q] /\ pos'[q] = pos[q] /\ fw'[q] = fw[q]
    /\ target'[q] = target[q] /\ result'[q] = result[q]

Exited(p, r) ==
    /\ OthersSame(p)
    /\ pc'[p] = "idle" /\ pos'[p] = 1
    /\ fw'[p] = "none" /\ target'[p] = "toml" /\ result'[p] = r

LEMMA ExitEffect ==
    ASSUME Typed, NEW p \in Procs, NEW r, Exit(p, r)
    PROVE  Exited(p, r)
BY DEF Exit, Typed, OthersSame, Exited

LEMMA ChangedEffect ==
    ASSUME NEW q \in Procs, NEW t
    PROVE  Changed(t)[q] = {s \in since[q] : s[1] # t}
BY DEF Changed

\* Where a command goes from what it has detected.
Chosen(p, f) ==
    /\ OthersSame(p)
    /\ \/ /\ pc'[p] = "idle"
          /\ pos'[p] = 1
          /\ \/ result'[p] = Result("ok", f, FALSE)
                /\ (kind[p] \in {"detect", "build"} \/ (kind[p] = "dockerfile" /\ f = "dockerfile"))
             \/ result'[p] = Result("nothing", f, FALSE)
                /\ kind[p] \in {"eject", "force"} /\ f = "dockerfile"
       \/ /\ pc'[p] = "options" /\ kind[p] = "dockerfile" /\ f # "dockerfile"
          /\ pos'[p] = 1 /\ fw'[p] = f /\ result'[p] = result[p]
       \/ /\ pc'[p] = "lstat" /\ fw'[p] = f /\ result'[p] = result[p]
          /\ \/ kind[p] = "init" /\ target'[p] = "toml"
             \/ kind[p] \in {"eject", "force"} /\ f # "dockerfile" /\ target'[p] = "Dockerfile"

LEMMA DetectedEffect ==
    ASSUME Typed, NEW p \in Procs, NEW f, Detected(p, f)
    PROVE  Chosen(p, f)
<1>1. CASE Exit(p, Result("ok", f, FALSE))
           /\ (kind[p] \in {"detect", "build"} \/ (kind[p] = "dockerfile" /\ f = "dockerfile"))
  BY <1>1, ExitEffect DEF Chosen, Exited
<1>2. CASE Exit(p, Result("nothing", f, FALSE)) /\ kind[p] \in {"eject", "force"} /\ f = "dockerfile"
  BY <1>2, ExitEffect DEF Chosen, Exited
<1>3. CASE /\ kind[p] = "dockerfile" /\ f # "dockerfile"
           /\ pc' = [pc EXCEPT ![p] = "options"] /\ pos' = [pos EXCEPT ![p] = 1]
           /\ fw' = [fw EXCEPT ![p] = f] /\ UNCHANGED <<target, result, log>>
  BY <1>3 DEF Typed, Chosen, OthersSame
<1>4. CASE /\ kind[p] = "init" \/ (kind[p] \in {"eject", "force"} /\ f # "dockerfile")
           /\ pc' = [pc EXCEPT ![p] = "lstat"] /\ fw' = [fw EXCEPT ![p] = f]
           /\ target' = [target EXCEPT ![p] = IF kind[p] = "init" THEN "toml" ELSE "Dockerfile"]
           /\ UNCHANGED <<pos, result, log>>
  BY <1>4 DEF Typed, Chosen, OthersSame
<1> QED
  BY <1>1, <1>2, <1>3, <1>4 DEF Detected

\* A step of the detection: it looks under the next name, exits, or goes
\* where the command goes from what it has found.
Detects(p) ==
    /\ UNCHANGED <<files, tmp, project, edits, faults, kind, at, since, wrote, shared>>
    /\ pc[p] \in Detecting
    /\ \/ /\ OthersSame(p) /\ result'[p] = result[p] /\ pc[p] # "look"
          /\ Config(p) = "missing" /\ target'[p] = target[p] /\ fw'[p] = fw[p]
          /\ \/ pc'[p] = pc[p] /\ pos[p] = 1 /\ pos'[p] = 2
             \/ pc[p] = "config" /\ pc'[p] = "look" /\ pos[p] = 2
       \/ pc[p] = "config" /\ Config(p) = "config" /\ Chosen(p, "configured")
       \/ pc[p] = "config" /\ Config(p) = "dockerfile config" /\ Chosen(p, "dockerfile")
       \/ pc[p] \in {"config", "options"} /\ Config(p) \notin ValidConfigs \cup {"missing"}
          /\ Exited(p, Result("error", "none", FALSE))
       \/ pc[p] = "look" /\ Present("Dockerfile") /\ Chosen(p, "dockerfile")
       \/ pc[p] = "look" /\ Chosen(p, IF project = "builtin" THEN "app" ELSE "static")
       \/ pc[p] = "options" /\ Config(p) = "missing" /\ pos[p] = 2
          /\ Exited(p, Result("ok", fw[p], FALSE))
       \/ pc[p] = "options" /\ Config(p) \in ValidConfigs
          /\ Exited(p, Result("ok", fw[p], Config(p) = "config"))

LEMMA DetectEffect ==
    ASSUME Typed, NEW p \in Procs, ReadConfig(p) \/ Look(p) \/ ReadOptions(p)
    PROVE  Detects(p)
<1> USE DEF Detecting
<1>1. ASSUME pos[p] < 2, pos' = [pos EXCEPT ![p] = @ + 1],
             UNCHANGED <<pc, fw, target, result, log>>
      PROVE  OthersSame(p) /\ pos[p] = 1 /\ pos'[p] = 2 /\ pc'[p] = pc[p]
             /\ result'[p] = result[p] /\ target'[p] = target[p] /\ fw'[p] = fw[p]
  BY <1>1 DEF Typed, OthersSame
<1>2. ASSUME ReadConfig(p) PROVE Detects(p)
  <2>1. CASE Config(p) = "missing" /\ pos[p] < 2 /\ pos' = [pos EXCEPT ![p] = @ + 1]
             /\ UNCHANGED <<pc, fw, target, result, log>>
    BY <1>1, <1>2, <2>1 DEF ReadConfig, Detects, disk, world
  <2>2. CASE Config(p) = "missing" /\ pos[p] = 2 /\ Goto(p, "config", "look")
             /\ UNCHANGED <<pos, fw, target, result, log>>
    <3>1. OthersSame(p) /\ pc'[p] = "look"
      BY <2>2 DEF Goto, OthersSame, Typed
    <3> QED
      BY <1>2, <2>2, <3>1 DEF ReadConfig, Detects, disk, world
  <2>3. CASE Config(p) = "config" /\ Detected(p, "configured")
    BY <1>2, <2>3, DetectedEffect DEF ReadConfig, Detects, disk, world
  <2>4. CASE Config(p) = "dockerfile config" /\ Detected(p, "dockerfile")
    BY <1>2, <2>4, DetectedEffect DEF ReadConfig, Detects, disk, world
  <2>5. CASE Config(p) \notin ValidConfigs \cup {"missing"} /\ Fail(p)
    BY <1>2, <2>5, ExitEffect DEF ReadConfig, Fail, Detects, disk, world
  <2> QED
    BY <1>2, <2>1, <2>2, <2>3, <2>4, <2>5 DEF ReadConfig, NextName
<1>3. ASSUME Look(p) PROVE Detects(p)
  <2>1. Chosen(p, IF Present("Dockerfile") THEN "dockerfile"
                  ELSE IF project = "builtin" THEN "app" ELSE "static")
    BY <1>3, DetectedEffect DEF Look
  <2> QED
    BY <1>3, <2>1 DEF Look, Detects, disk, world
<1>4. ASSUME ReadOptions(p) PROVE Detects(p)
  <2>1. CASE Config(p) = "missing" /\ pos[p] < 2 /\ pos' = [pos EXCEPT ![p] = @ + 1]
             /\ UNCHANGED <<pc, fw, target, result, log>>
    BY <1>1, <1>4, <2>1 DEF ReadOptions, Detects, disk, world
  <2>2. CASE Config(p) = "missing" /\ pos[p] = 2 /\ Exit(p, Result("ok", fw[p], FALSE))
    BY <1>4, <2>2, ExitEffect DEF ReadOptions, Detects, disk, world
  <2>3. CASE Config(p) \in ValidConfigs /\ Exit(p, Result("ok", fw[p], Config(p) = "config"))
    BY <1>4, <2>3, ExitEffect DEF ReadOptions, Detects, disk, world
  <2>4. CASE Config(p) \notin ValidConfigs \cup {"missing"} /\ Fail(p)
    BY <1>4, <2>4, ExitEffect DEF ReadOptions, Fail, Detects, disk, world
  <2> QED
    BY <1>4, <2>1, <2>2, <2>3, <2>4 DEF ReadOptions, NextName
<1> QED
  BY <1>2, <1>3, <1>4

-----------------------------------------------------------------------------
(* What a command has seen and written.                                    *)

\* writeProjectFile looks before it writes.
Looked(p) ==
    /\ UNCHANGED <<files, tmp, project, edits, faults, kind, at, since, wrote, shared>>
    /\ pc[p] = "lstat"
    /\ \/ Exited(p, Result("error", "none", FALSE))
       \/ Exited(p, Result("exists", "none", FALSE))
       \/ /\ OthersSame(p) /\ pc'[p] = "open"
          /\ target'[p] = target[p] /\ fw'[p] = fw[p] /\ result'[p] = result[p]
          /\ ~Present(target[p]) \/ (kind[p] = "force" /\ files[target[p]] # "link")

LEMMA LstatEffect ==
    ASSUME Typed, NEW p \in Procs, Lstat(p)
    PROVE  Looked(p)
<1>1. pc[p] = "lstat" /\ UNCHANGED <<files, tmp, project, edits, faults, kind, at, since, wrote, shared>>
  BY DEF Lstat, disk, world
<1>2. CASE Fail(p)
  BY <1>1, <1>2, ExitEffect DEF Fail, Looked
<1>3. CASE Exit(p, Result("exists", "none", FALSE))
  BY <1>1, <1>3, ExitEffect DEF Looked
<1>4. CASE /\ Goto(p, "lstat", "open") /\ UNCHANGED <<pos, fw, target, result, log>>
           /\ ~Present(target[p]) \/ (kind[p] = "force" /\ files[target[p]] # "link")
  BY <1>1, <1>4 DEF Typed, Goto, OthersSame, Looked
<1> QED
  BY <1>2, <1>3, <1>4 DEF Lstat

LEMMA LooksOrLeaves ==
    ASSUME NEW p \in Procs, Looked(p)
    PROVE  /\ UNCHANGED <<files, tmp, project, edits, faults, kind, at, since, wrote, shared>>
           /\ pc[p] = "lstat" /\ OthersSame(p)
           /\ \/ pc'[p] = "idle" /\ pos'[p] = 1
              \/ /\ pc'[p] = "open" /\ target'[p] = target[p]
                 /\ fw'[p] = fw[p] /\ result'[p] = result[p]
                 /\ ~Present(target[p]) \/ (kind[p] = "force" /\ files[target[p]] # "link")
<1>1. ASSUME NEW r, Exited(p, r) PROVE OthersSame(p) /\ pc'[p] = "idle" /\ pos'[p] = 1
  BY <1>1 DEF Exited
<1> QED
  BY <1>1 DEF Looked

\* A detection step changes its own process, and takes it nowhere but out,
\* to another step of the detection, or to the writing of the first file.
Proceeds(p) ==
    /\ OthersSame(p)
    /\ IF pc'[p] = "idle" THEN pos'[p] = 1 ELSE result'[p] = NoResult
    /\ \/ pc'[p] = "idle"
       \/ pc'[p] \in Detecting /\ (pc'[p] = "options" => kind[p] = "dockerfile")
       \/ /\ pc'[p] = "lstat"
          /\ \/ kind[p] = "init" /\ target'[p] = "toml"
             \/ /\ kind[p] \in {"eject", "force"} /\ target'[p] = "Dockerfile"
                /\ fw'[p] \in Texts

LEMMA DetectsProceeds ==
    ASSUME IInv, NEW p \in Procs, Detects(p)
    PROVE  Proceeds(p) /\ pc[p] \in Detecting /\ wrote[p] = {}
           /\ UNCHANGED <<files, tmp, project, edits, faults, kind, at, since, wrote, shared>>
<1>1. pc[p] \in Detecting /\ wrote[p] = {} /\ result[p] = NoResult
      /\ (pc[p] = "options" => kind[p] = "dockerfile")
  BY DEF Detects, IInv, CommandInv, Detecting
<1>2. ASSUME NEW f \in Texts \cup {"dockerfile"}, Chosen(p, f) PROVE Proceeds(p)
  BY <1>1, <1>2 DEF Chosen, Proceeds, Detecting
<1>3. ASSUME NEW r, Exited(p, r) PROVE Proceeds(p)
  BY <1>3 DEF Exited, Proceeds
<1>4. ASSUME OthersSame(p), result'[p] = result[p], pc[p] # "look",
             pc'[p] = pc[p] \/ (pc[p] = "config" /\ pc'[p] = "look")
      PROVE  Proceeds(p)
  BY <1>1, <1>4 DEF Proceeds, Detecting
<1> QED
  BY <1>1, <1>2, <1>3, <1>4 DEF Detects, Texts

LEMMA CommandStep ==
    ASSUME IInv, [Next]_vars
    PROVE  CommandInv'
<1> USE DEF IInv, Typed, CommandInv, Detecting, WritingFile, Writing
<1>1. CASE UNCHANGED vars
  BY <1>1 DEF vars
<1>2. ASSUME NEW p \in Procs, NEW k \in Kinds, Call(p, k) PROVE CommandInv'
  BY <1>2 DEF Call, Goto, disk, world
<1>3. ASSUME NEW p \in Procs, ReadConfig(p) PROVE CommandInv'
  BY <1>3, DetectEffect, DetectsProceeds DEF Proceeds, OthersSame
<1>4. ASSUME NEW p \in Procs, Look(p) PROVE CommandInv'
  BY <1>4, DetectEffect, DetectsProceeds DEF Proceeds, OthersSame
<1>5. ASSUME NEW p \in Procs, ReadOptions(p) PROVE CommandInv'
  BY <1>5, DetectEffect, DetectsProceeds DEF Proceeds, OthersSame
<1>6. ASSUME NEW p \in Procs, Lstat(p) PROVE CommandInv'
  BY <1>6, LstatEffect, LooksOrLeaves DEF OthersSame, Present
<1>7. ASSUME NEW p \in Procs, Open(p) PROVE CommandInv'
  BY <1>7 DEF Open, disk, world, history, Goto
<1>8. ASSUME NEW p \in Procs, Write(p) PROVE CommandInv'
  BY <1>8 DEF Write, disk, world, history, Goto, Over, Changed
<1>9. ASSUME NEW p \in Procs, WriteFails(p) PROVE CommandInv'
  BY <1>9 DEF WriteFails, disk, world, history, Fail, Exit
<1>10. ASSUME NEW p \in Procs, Rename(p) PROVE CommandInv'
  <2>1. CASE target[p] = "Dockerfile"
    BY <1>10, <2>1 DEF Rename, Goto, world
  <2>2. CASE target[p] # "Dockerfile" /\ Exited(p, Result("ok", fw[p], FALSE))
    BY <1>10, <2>2 DEF Rename, Exited, OthersSame, world
  <2> QED
    BY <1>10, <2>1, <2>2, ExitEffect DEF Rename
<1>11. ASSUME NEW p \in Procs, RenameFails(p) PROVE CommandInv'
  BY <1>11 DEF RenameFails, disk, world, history, Goto, history
<1>12. ASSUME NEW p \in Procs, Remove(p) PROVE CommandInv'
  BY <1>12 DEF Remove, disk, world, history, Fail, Exit, Dropped
<1>13. ASSUME NEW p \in Procs, Crash(p) PROVE CommandInv'
  BY <1>13 DEF Crash, disk, world, history, Exit
<1>14. ASSUME NEW f \in Files, NEW content \in MayContain(f), Edit(f, content)
      PROVE  CommandInv'
  BY <1>14 DEF Edit, MayContain, Changed, Dropped
<1> HIDE DEF IInv, Typed, CommandInv, Detecting, WritingFile, Writing
<1> QED
  BY <1>1, <1>2, <1>3, <1>4, <1>5, <1>6, <1>7, <1>8, <1>9, <1>10, <1>11, <1>12,
     <1>13, <1>14 DEF Next, Step

LEMMA SinceStep ==
    ASSUME IInv, [Next]_vars
    PROVE  SinceInv'
<1> USE DEF IInv, Typed, CommandInv, SinceInv, Detecting, WritingFile, Writing
<1>1. CASE UNCHANGED vars
  BY <1>1 DEF vars
<1>2. ASSUME NEW p \in Procs, NEW k \in Kinds, Call(p, k) PROVE SinceInv'
  <2>1. \A s \in since'[p] : files[s[1]] = s[2] /\ s[2] # "missing"
    BY <1>2 DEF Call, Present
  <2>2. \A q \in Procs \ {p} : since'[q] = since[q] /\ wrote'[q] = wrote[q] /\ pc'[q] = pc[q]
    BY <1>2 DEF Call, Goto
  <2> QED
    BY <1>2, <2>1, <2>2 DEF Call, Goto, disk, world
<1>3. ASSUME NEW p \in Procs, ReadConfig(p) PROVE SinceInv'
  BY <1>3, DetectEffect, DetectsProceeds DEF Proceeds, OthersSame
<1>4. ASSUME NEW p \in Procs, Look(p) PROVE SinceInv'
  BY <1>4, DetectEffect, DetectsProceeds DEF Proceeds, OthersSame
<1>5. ASSUME NEW p \in Procs, ReadOptions(p) PROVE SinceInv'
  BY <1>5, DetectEffect, DetectsProceeds DEF Proceeds, OthersSame
<1>6. ASSUME NEW p \in Procs, Lstat(p) PROVE SinceInv'
  BY <1>6, LstatEffect, LooksOrLeaves DEF OthersSame, Present
<1>7. ASSUME NEW p \in Procs, Open(p) PROVE SinceInv'
  BY <1>7 DEF Open, disk, world, history, Goto
<1>8. ASSUME NEW p \in Procs, Write(p) PROVE SinceInv'
  BY <1>8, ChangedEffect DEF Write, Goto, world, disk
<1>9. ASSUME NEW p \in Procs, WriteFails(p) PROVE SinceInv'
  BY <1>9 DEF WriteFails, disk, world, history, Fail, Exit
<1>10. ASSUME NEW p \in Procs, Rename(p) PROVE SinceInv'
  <2>1. \A q \in Procs : q # p => since'[q] = {s \in since[q] : s[1] # target[p]}
    BY <1>10, ChangedEffect DEF Rename, Changed
  <2>2. since'[p] = since[p] /\ wrote'[p] = wrote[p] \cup {target[p]}
        /\ \A q \in Procs : q # p => wrote'[q] = wrote[q]
    BY <1>10 DEF Rename, Changed
  <2>3. \A f \in Files : f # target[p] => files'[f] = files[f]
    BY <1>10 DEF Rename
  <2>4. /\ \A q \in Procs \ {p} : pc'[q] = pc[q] /\ target'[q] = target[q]
        /\ pc'[p] \in {"idle", "lstat"}
    <3>1. CASE Goto(p, "rename", "lstat") /\ target' = [target EXCEPT ![p] = "ignore"]
      BY <3>1 DEF Goto
    <3>2. CASE Exit(p, Result("ok", fw[p], FALSE))
      BY <3>2 DEF Exit
    <3> QED
      BY <1>10, <3>1, <3>2 DEF Rename
  <2> QED
    BY <1>10, <2>1, <2>2, <2>3, <2>4 DEF Rename, world
<1>11. ASSUME NEW p \in Procs, RenameFails(p) PROVE SinceInv'
  BY <1>11 DEF RenameFails, disk, world, history, Goto, history
<1>12. ASSUME NEW p \in Procs, Remove(p) PROVE SinceInv'
  BY <1>12 DEF Remove, disk, world, history, Fail, Exit, Dropped
<1>13. ASSUME NEW p \in Procs, Crash(p) PROVE SinceInv'
  BY <1>13 DEF Crash, disk, world, history, Exit
<1>14. ASSUME NEW f \in Files, NEW content \in MayContain(f), Edit(f, content)
      PROVE  SinceInv'
  <2>1. \A q \in Procs : since'[q] = {s \in since[q] : s[1] # f}
    BY <1>14, ChangedEffect DEF Edit
  <2> QED
    BY <1>14, <2>1 DEF Edit
<1> HIDE DEF IInv, Typed, CommandInv, SinceInv, Detecting, WritingFile, Writing
<1> QED
  BY <1>1, <1>2, <1>3, <1>4, <1>5, <1>6, <1>7, <1>8, <1>9, <1>10, <1>11, <1>12,
     <1>13, <1>14 DEF Next, Step

LEMMA ExistingStep ==
    ASSUME IInv, [Next]_vars
    PROVE  ExistingKept'
<1> USE DEF IInv, Typed, ExistingKept, SinceInv, WritingFile, Writing
<1>1. CASE UNCHANGED vars
  BY <1>1 DEF vars
<1>2. ASSUME NEW p \in Procs, NEW k \in Kinds, Call(p, k) PROVE ExistingKept'
  BY <1>2 DEF Call, Goto, disk, world
<1>3. ASSUME NEW p \in Procs, ReadConfig(p) PROVE ExistingKept'
  BY <1>3 DEF ReadConfig, disk, world, history, NextName, Detected, Fail, Exit, Goto
<1>4. ASSUME NEW p \in Procs, Look(p) PROVE ExistingKept'
  BY <1>4 DEF Look, disk, world, history, Detected, Exit
<1>5. ASSUME NEW p \in Procs, ReadOptions(p) PROVE ExistingKept'
  BY <1>5 DEF ReadOptions, disk, world, history, NextName, Fail, Exit
<1>6. ASSUME NEW p \in Procs, Lstat(p) PROVE ExistingKept'
  BY <1>6 DEF Lstat, disk, world, history, Fail, Exit, Goto, Present
<1>7. ASSUME NEW p \in Procs, Open(p) PROVE ExistingKept'
  BY <1>7 DEF Open, disk, world, history, Goto
<1>8. ASSUME NEW p \in Procs, Write(p) PROVE ExistingKept'
  BY <1>8 DEF Write, disk, world, history, Goto, Over, Changed
<1>9. ASSUME NEW p \in Procs, WriteFails(p) PROVE ExistingKept'
  BY <1>9 DEF WriteFails, disk, world, history, Fail, Exit
<1>10. ASSUME NEW p \in Procs, Rename(p) PROVE ExistingKept'
  BY <1>10 DEF Rename, disk, world, history, Goto, Exit, Changed, Moved
<1>11. ASSUME NEW p \in Procs, RenameFails(p) PROVE ExistingKept'
  BY <1>11 DEF RenameFails, disk, world, history, Goto, history
<1>12. ASSUME NEW p \in Procs, Remove(p) PROVE ExistingKept'
  BY <1>12 DEF Remove, disk, world, history, Fail, Exit, Dropped
<1>13. ASSUME NEW p \in Procs, Crash(p) PROVE ExistingKept'
  BY <1>13 DEF Crash, disk, world, history, Exit
<1>14. ASSUME NEW f \in Files, NEW content \in MayContain(f), Edit(f, content)
      PROVE  ExistingKept'
  BY <1>14 DEF Edit, MayContain, Changed, Dropped
<1> HIDE DEF IInv, Typed, ExistingKept, SinceInv, WritingFile, Writing
<1> QED
  BY <1>1, <1>2, <1>3, <1>4, <1>5, <1>6, <1>7, <1>8, <1>9, <1>10, <1>11, <1>12,
     <1>13, <1>14 DEF Next, Step

-----------------------------------------------------------------------------
(* What a docksmith.toml decides.                                          *)

\* The config a command finds in a docksmith.toml that stays as it is.
LEMMA TomlFound ==
    ASSUME IInv, NEW p \in Procs, pc[p] \in Detecting, NEW s \in since[p], s[1] = "toml"
    PROVE  /\ s[2] # "missing" /\ files["toml"] = s[2]
           /\ pc[p] \in {"config", "options"} /\ Config(p) = s[2]
           /\ pc[p] = "options" =>
                 s[2] = "config" /\ fw[p] = "configured" /\ kind[p] = "dockerfile"
<1>1. wrote[p] = {}
  BY DEF IInv, CommandInv
<1>2. s[2] # "missing" /\ files["toml"] = s[2]
  BY <1>1 DEF IInv, SinceInv
<1>3. pc[p] \in {"config", "options"} /\ pos[p] = 1
      /\ (pc[p] = "options" => s[2] = "config" /\ fw[p] = "configured" /\ kind[p] = "dockerfile")
  BY DEF IInv, ConfigInv, CommandInv, Detecting
<1>4. ConfigNames[1] = "toml"
  BY DEF ConfigNames
<1> QED
  BY <1>2, <1>3, <1>4 DEF Config

\* So a detection step is one of four.
LEMMA TomlDetects ==
    ASSUME IInv, NEW p \in Procs, Detects(p), NEW s \in since[p], s[1] = "toml"
    PROVE  \/ pc[p] = "config" /\ s[2] = "config" /\ Chosen(p, "configured")
           \/ pc[p] = "config" /\ s[2] = "dockerfile config" /\ Chosen(p, "dockerfile")
           \/ pc[p] = "config" /\ s[2] \notin ValidConfigs
              /\ Exited(p, Result("error", "none", FALSE))
           \/ pc[p] = "options" /\ s[2] = "config" /\ kind[p] = "dockerfile"
              /\ Exited(p, Result("ok", "configured", TRUE))
<1>1. pc[p] \in Detecting
  BY DEF Detects
<1> QED
  BY ZenonT(60), <1>1, TomlFound DEF Detects, ValidConfigs

LEMMA ConfigDetects ==
    ASSUME IInv, NEW p \in Procs, Detects(p)
    PROVE  ConfigInv'
<1>1. ASSUME NEW q \in Procs \ {p} PROVE pc'[q] = pc[q] /\ pos'[q] = pos[q] /\ fw'[q] = fw[q]
  BY DetectsProceeds DEF Proceeds, OthersSame
<1>2. ASSUME NEW s \in since[p], s[1] = "toml"
      PROVE  /\ pc'[p] = "config" => pos'[p] = 1
             /\ pc'[p] # "look"
             /\ pc'[p] = "options" => s[2] = "config" /\ fw'[p] = "configured" /\ pos'[p] = 1
             /\ pc'[p] \in WritingFile =>
                   s[2] \in ValidConfigs /\ (kind[p] # "init" => fw'[p] = "configured")
  BY <1>2, TomlDetects DEF Chosen, Exited, ValidConfigs, WritingFile, Writing
<1>3. UNCHANGED <<kind, since>>
  BY DEF Detects
<1> QED
  BY <1>1, <1>2, <1>3 DEF ConfigInv, IInv

LEMMA ConfigStep ==
    ASSUME IInv, [Next]_vars
    PROVE  ConfigInv'
<1> USE DEF IInv, Typed, ConfigInv, Detecting, WritingFile, Writing
<1>1. CASE UNCHANGED vars
  BY <1>1 DEF vars
<1>2. ASSUME NEW p \in Procs, NEW k \in Kinds, Call(p, k) PROVE ConfigInv'
  <2>1. \A q \in Procs \ {p} : since'[q] = since[q] /\ pc'[q] = pc[q] /\ kind'[q] = kind[q]
    BY <1>2 DEF Call, Goto
  <2>2. pc'[p] = "config" /\ pos' = pos /\ fw' = fw /\ pos[p] = 1
    BY <1>2 DEF Call, Goto, CommandInv
  <2> QED
    BY <2>1, <2>2
<1>3. ASSUME NEW p \in Procs, ReadConfig(p) PROVE ConfigInv'
  BY <1>3, DetectEffect, ConfigDetects
<1>4. ASSUME NEW p \in Procs, Look(p) PROVE ConfigInv'
  BY <1>4, DetectEffect, ConfigDetects
<1>5. ASSUME NEW p \in Procs, ReadOptions(p) PROVE ConfigInv'
  BY <1>5, DetectEffect, ConfigDetects
<1>6. ASSUME NEW p \in Procs, Lstat(p) PROVE ConfigInv'
  BY <1>6, LstatEffect, LooksOrLeaves DEF OthersSame, Present
<1>7. ASSUME NEW p \in Procs, Open(p) PROVE ConfigInv'
  <2>1. /\ \A q \in Procs : since'[q] \subseteq since[q]
        /\ UNCHANGED kind /\ pc'[p] \notin Detecting
        /\ \A q \in Procs \ {p} : pc'[q] = pc[q] /\ pos'[q] = pos[q] /\ fw'[q] = fw[q]
        /\ pc'[p] \in WritingFile => pc[p] \in WritingFile /\ fw'[p] = fw[p]
    BY <1>7 DEF Open, Goto, world
  <2> QED
    BY <2>1
<1>8. ASSUME NEW p \in Procs, Write(p) PROVE ConfigInv'
  <2>1. /\ \A q \in Procs : since'[q] \subseteq since[q]
        /\ UNCHANGED kind /\ pc'[p] \notin Detecting
        /\ \A q \in Procs \ {p} : pc'[q] = pc[q] /\ pos'[q] = pos[q] /\ fw'[q] = fw[q]
        /\ pc'[p] \in WritingFile => pc[p] \in WritingFile /\ fw'[p] = fw[p]
    BY <1>8, ChangedEffect DEF Write, Goto, world
  <2> QED
    BY <2>1
<1>9. ASSUME NEW p \in Procs, WriteFails(p) PROVE ConfigInv'
  BY <1>9 DEF WriteFails, disk, world, history, Fail, Exit
<1>10. ASSUME NEW p \in Procs, Rename(p) PROVE ConfigInv'
  <2>1. \A q \in Procs : since'[q] \subseteq since[q]
    BY <1>10 DEF Rename, Changed
  <2>2. /\ \A q \in Procs \ {p} : pc'[q] = pc[q] /\ pos'[q] = pos[q] /\ fw'[q] = fw[q]
        /\ pc'[p] = "idle" \/ (pc'[p] = "lstat" /\ fw'[p] = fw[p])
    <3>1. CASE Goto(p, "rename", "lstat") /\ UNCHANGED <<pos, fw>>
      BY <3>1 DEF Goto
    <3>2. CASE Exit(p, Result("ok", fw[p], FALSE))
      BY <3>2 DEF Exit
    <3> QED
      BY <1>10, <3>1, <3>2 DEF Rename
  <2>3. pc[p] = "rename" /\ UNCHANGED kind
    BY <1>10 DEF Rename, world
  <2> QED
    BY <2>1, <2>2, <2>3
<1>11. ASSUME NEW p \in Procs, RenameFails(p) PROVE ConfigInv'
  BY <1>11 DEF RenameFails, disk, world, history, Goto, history
<1>12. ASSUME NEW p \in Procs, Remove(p) PROVE ConfigInv'
  BY <1>12 DEF Remove, disk, world, history, Fail, Exit, Dropped
<1>13. ASSUME NEW p \in Procs, Crash(p) PROVE ConfigInv'
  BY <1>13 DEF Crash, disk, world, history, Exit
<1>14. ASSUME NEW f \in Files, NEW content \in MayContain(f), Edit(f, content)
      PROVE  ConfigInv'
  BY <1>14 DEF Edit, MayContain, Changed, Dropped
<1> HIDE DEF IInv, Typed, ConfigInv, Detecting, WritingFile, Writing
<1> QED
  BY <1>1, <1>2, <1>3, <1>4, <1>5, <1>6, <1>7, <1>8, <1>9, <1>10, <1>11, <1>12,
     <1>13, <1>14 DEF Next, Step

\* A step by which no command returns keeps ConfigDecides, and so does a
\* return with what the config says.
LEMMA NoReturn ==
    ASSUME IInv, UNCHANGED kind, \A q \in Procs : since'[q] \subseteq since[q] /\ result'[q] = result[q]
    PROVE  ConfigDecides'
BY ZenonT(60) DEF IInv, ConfigDecides, Decided

LEMMA Returns ==
    ASSUME IInv, NEW p \in Procs, NEW r, Exited(p, r), UNCHANGED kind,
           \A q \in Procs : since'[q] \subseteq since[q],
           \A s \in since[p] : s[1] = "toml" => r.what = "none" \/ r \in Decided(p, s[2])
    PROVE  ConfigDecides'
<1>1. \A q \in Procs \ {p} : result'[q] = result[q]
  BY DEF Exited, OthersSame
<1>2. result'[p] = r
  BY DEF Exited
<1>3. \A q \in Procs : \A c : Decided(q, c)' = Decided(q, c)
  BY DEF Decided
<1> QED
  BY <1>1, <1>2, <1>3 DEF IInv, ConfigDecides

\* Once it writes, a command has a valid config, and may fail.
LEMMA WriterReturns ==
    ASSUME IInv, NEW p \in Procs, pc[p] \in WritingFile, NEW s \in since[p], s[1] = "toml",
           NEW what \in {"error", "exists"}
    PROVE  Result(what, "none", FALSE) \in Decided(p, s[2])
<1>1. s[2] \in ValidConfigs /\ kind[p] \in {"init", "eject", "force"}
  BY DEF IInv, ConfigInv, CommandInv
<1>2. Result(what, "none", FALSE) \in {r \in Results : r.what \in {"error", "exists", "nothing"}}
  BY NotOk
<1> QED
  BY <1>1, <1>2 DEF Decided

LEMMA DecidesDetects ==
    ASSUME IInv, NEW p \in Procs, Detects(p)
    PROVE  ConfigDecides'
<1>1. UNCHANGED <<kind, since>> /\ OthersSame(p)
  BY DetectsProceeds DEF Proceeds
<1>2. CASE pc'[p] # "idle"
  <2>1. result'[p] = result[p]
    BY <1>2, DetectsProceeds DEF Proceeds, IInv, CommandInv, Detecting
  <2> QED
    BY <1>1, <2>1, NoReturn DEF OthersSame
<1>3. CASE pc'[p] = "idle"
  <2>1. ASSUME NEW s \in since[p], s[1] = "toml"
        PROVE  result'[p] \in Decided(p, s[2])
    <3>1. CASE pc[p] = "config" /\ s[2] = "config" /\ Chosen(p, "configured")
      <4>1. result'[p] = Result("ok", "configured", FALSE) /\ kind[p] \in {"detect", "build"}
        BY <1>3, <3>1 DEF Chosen
      <4> QED
        BY <3>1, <4>1 DEF Decided, ValidConfigs
    <3>2. CASE pc[p] = "config" /\ s[2] = "dockerfile config" /\ Chosen(p, "dockerfile")
      <4>1. CASE result'[p] = Result("ok", "dockerfile", FALSE)
                 /\ kind[p] \in {"detect", "build", "dockerfile"}
        BY <3>2, <4>1 DEF Decided, ValidConfigs
      <4>2. CASE result'[p] = Result("nothing", "dockerfile", FALSE) /\ kind[p] \in {"eject", "force"}
        <5>1. result'[p] \in {r \in Results : r.what \in {"error", "exists", "nothing"}}
          BY <4>2, NotOk
        <5> QED
          BY <3>2, <4>2, <5>1 DEF Decided, ValidConfigs
      <4> QED
        BY <1>3, <3>2, <4>1, <4>2 DEF Chosen
    <3>3. CASE s[2] \notin ValidConfigs /\ Exited(p, Result("error", "none", FALSE))
      <4>1. result'[p] = Result("error", "none", FALSE)
        BY <3>3 DEF Exited
      <4> QED
        BY <3>3, <4>1 DEF Decided, ValidConfigs
    <3>4. CASE pc[p] = "options" /\ s[2] = "config" /\ kind[p] = "dockerfile"
               /\ Exited(p, Result("ok", "configured", TRUE))
      BY <3>4 DEF Exited, Decided, ValidConfigs
    <3> QED
      BY <2>1, <3>1, <3>2, <3>3, <3>4, TomlDetects
  <2>2. \A q \in Procs : \A c : Decided(q, c)' = Decided(q, c)
    BY <1>1 DEF Decided
  <2> QED
    BY <1>1, <2>1, <2>2 DEF OthersSame, IInv, ConfigDecides
<1> QED
  BY <1>2, <1>3

LEMMA DecidesStep ==
    ASSUME IInv, [Next]_vars
    PROVE  ConfigDecides'
<1> USE DEF IInv, Typed
<1>1. CASE UNCHANGED vars
  BY <1>1, NoReturn DEF vars
<1>2. ASSUME NEW p \in Procs, NEW k \in Kinds, Call(p, k) PROVE ConfigDecides'
  <2>1. result'[p].what = "none"
    BY <1>2, NothingYet DEF Call
  <2>2. \A q \in Procs \ {p} : since'[q] = since[q] /\ result'[q] = result[q] /\ kind'[q] = kind[q]
    BY <1>2 DEF Call
  <2> QED
    BY ZenonT(60), <2>1, <2>2 DEF ConfigDecides, Decided
<1>3. ASSUME NEW p \in Procs, ReadConfig(p) PROVE ConfigDecides'
  BY <1>3, DetectEffect, DecidesDetects
<1>4. ASSUME NEW p \in Procs, Look(p) PROVE ConfigDecides'
  BY <1>4, DetectEffect, DecidesDetects
<1>5. ASSUME NEW p \in Procs, ReadOptions(p) PROVE ConfigDecides'
  BY <1>5, DetectEffect, DecidesDetects
<1>6. ASSUME NEW p \in Procs, Lstat(p) PROVE ConfigDecides'
  <2>1. Looked(p) /\ pc[p] = "lstat" /\ UNCHANGED <<kind, since>>
    BY <1>6, LstatEffect DEF Looked
  <2>2. pc[p] \in WritingFile
    BY <2>1 DEF WritingFile
  <2>3. CASE OthersSame(p) /\ result'[p] = result[p]
    BY <2>1, <2>3, NoReturn DEF OthersSame
  <2>4. ASSUME NEW what \in {"error", "exists"}, Exited(p, Result(what, "none", FALSE))
        PROVE  ConfigDecides'
    BY <2>1, <2>2, <2>4, WriterReturns, Returns
  <2> QED
    BY <2>1, <2>3, <2>4 DEF Looked
<1>7. ASSUME NEW p \in Procs, Open(p) PROVE ConfigDecides'
  BY <1>7, NoReturn DEF Open, world, history
<1>8. ASSUME NEW p \in Procs, Write(p) PROVE ConfigDecides'
  BY <1>8, NoReturn, ChangedEffect DEF Write, world
<1>9. ASSUME NEW p \in Procs, WriteFails(p) PROVE ConfigDecides'
  <2>1. pc[p] \in WritingFile /\ UNCHANGED <<kind, since>>
    BY <1>9 DEF WriteFails, WritingFile, Writing
  <2>2. Exited(p, Result("error", "none", FALSE))
    BY <1>9, ExitEffect DEF WriteFails, Fail
  <2> QED
    BY <2>1, <2>2, WriterReturns, Returns
<1>10. ASSUME NEW p \in Procs, Rename(p) PROVE ConfigDecides'
  <2>1. pc[p] = "rename" /\ UNCHANGED kind /\ \A q \in Procs : since'[q] \subseteq since[q]
    BY <1>10 DEF Rename, Changed, world
  <2>2. CASE target[p] = "Dockerfile"
    BY <1>10, <2>1, <2>2, NoReturn DEF Rename
  <2>3. CASE Exited(p, Result("ok", fw[p], FALSE))
    <3>1. ASSUME NEW s \in since[p], s[1] = "toml"
          PROVE  Result("ok", fw[p], FALSE) \in Decided(p, s[2])
      <4>1. s[2] \in ValidConfigs /\ kind[p] \in {"init", "eject", "force"}
            /\ (kind[p] # "init" => fw[p] = "configured")
        BY <2>1, <3>1 DEF ConfigInv, CommandInv, WritingFile, Writing
      <4>2. kind[p] # "init"
        BY <2>1, <3>1 DEF SinceInv, CommandInv, WritingFile, Writing
      <4> QED
        BY <4>1, <4>2 DEF Decided
    <3> QED
      BY <2>1, <2>3, <3>1, Returns
  <2> QED
    BY <1>10, <2>2, <2>3, ExitEffect DEF Rename
<1>11. ASSUME NEW p \in Procs, RenameFails(p) PROVE ConfigDecides'
  BY <1>11, NoReturn DEF RenameFails, world, history
<1>12. ASSUME NEW p \in Procs, Remove(p) PROVE ConfigDecides'
  <2>1. pc[p] \in WritingFile /\ UNCHANGED <<kind, since>>
    BY <1>12 DEF Remove, WritingFile, Writing
  <2>2. Exited(p, Result("error", "none", FALSE))
    BY <1>12, ExitEffect DEF Remove, Fail
  <2> QED
    BY <2>1, <2>2, WriterReturns, Returns
<1>13. ASSUME NEW p \in Procs, Crash(p) PROVE ConfigDecides'
  <2>1. Exited(p, NoResult) /\ UNCHANGED <<kind, since>>
    BY <1>13, ExitEffect DEF Crash
  <2>2. NoResult.what = "none"
    BY NothingYet
  <2> QED
    BY <2>1, <2>2, Returns
<1>14. ASSUME NEW f \in Files, NEW content \in MayContain(f), Edit(f, content)
      PROVE  ConfigDecides'
  BY <1>14, NoReturn, ChangedEffect DEF Edit
<1> HIDE DEF IInv, Typed
<1> QED
  BY <1>1, <1>2, <1>3, <1>4, <1>5, <1>6, <1>7, <1>8, <1>9, <1>10, <1>11, <1>12,
     <1>13, <1>14 DEF Next, Step

-----------------------------------------------------------------------------
(* Whole files.                                                            *)

\* What a process writes is neither torn nor a config.
LEMMA WholeText ==
    ASSUME IInv, NEW p \in Procs, pc[p] \in WritingFile
    PROVE  Text(p) \notin {"missing", "half", "mixed"}
BY TextType DEF IInv, Texts

LEMMA SoloStep ==
    ASSUME IInv, [Next]_vars
    PROVE  SoloInv'
<1> USE DEF IInv, Typed, SoloInv, Solo, WritingFile, Writing, Detecting
<1>1. CASE UNCHANGED vars
  BY <1>1 DEF vars
<1>2. ASSUME NEW p \in Procs, NEW k \in Kinds, Call(p, k) PROVE SoloInv'
  BY <1>2 DEF Call, Goto, disk, world
<1>3. ASSUME NEW p \in Procs, ReadConfig(p) PROVE SoloInv'
  BY <1>3, DetectEffect, DetectsProceeds DEF Proceeds, OthersSame
<1>4. ASSUME NEW p \in Procs, Look(p) PROVE SoloInv'
  BY <1>4, DetectEffect, DetectsProceeds DEF Proceeds, OthersSame
<1>5. ASSUME NEW p \in Procs, ReadOptions(p) PROVE SoloInv'
  BY <1>5, DetectEffect, DetectsProceeds DEF Proceeds, OthersSame
<1>6. ASSUME NEW p \in Procs, Lstat(p) PROVE SoloInv'
  BY <1>6, LstatEffect, LooksOrLeaves DEF OthersSame, Present
<1>7. ASSUME NEW p \in Procs, Open(p) PROVE SoloInv'
  <2> SUFFICES ASSUME NEW t \in Targets \ shared' PROVE Solo(t)'
    OBVIOUS
  <2>1. Solo(t) /\ t \notin shared
    BY <1>7 DEF Open
  <2>2. CASE t # target[p]
    BY <1>7, <2>1, <2>2 DEF Open, Goto
  <2>3. CASE t = target[p]
    <3>1. ~Sharing(p)
      BY <1>7, <2>3 DEF Open
    <3>2. tmp'[t] = "half" /\ at'[p] = "tmp" /\ pc'[p] = "write" /\ UNCHANGED <<files, target>>
      BY <1>7, <2>3 DEF Open, Goto
    <3>3. \A q \in Procs \ {p} : ~(target'[q] = t /\ pc'[q] \in {"write", "rename"})
      BY <1>7, <2>3, <3>1 DEF Open, Goto, Sharing
    <3> QED
      BY <2>1, <3>2, <3>3
  <2> QED
    BY <2>2, <2>3
<1>8. ASSUME NEW p \in Procs, Write(p) PROVE SoloInv'
  <2> SUFFICES ASSUME NEW t \in Targets \ shared' PROVE Solo(t)'
    OBVIOUS
  <2>1. Solo(t) /\ t \notin shared
    BY <1>8 DEF Write
  <2>2. /\ \A q \in Procs \ {p} : pc'[q] = pc[q] /\ at'[q] = at[q]
        /\ pc[p] = "write" /\ pc'[p] = "rename" /\ UNCHANGED target
    BY <1>8 DEF Write, Goto
  <2>3. CASE t # target[p]
    <3>1. tmp'[t] = tmp[t] /\ files'[t] = files[t]
      BY <1>8, <2>3 DEF Write, disk, Targets, Files
    <3> QED
      BY <2>1, <2>2, <2>3, <3>1
  <2>4. CASE t = target[p]
    <3>1. Text(p) \notin {"half", "mixed"}
      BY <2>2, WholeText
    <3>2. UNCHANGED files /\ tmp'[t] \notin {"half", "mixed"}
      BY <1>8, <2>1, <2>2, <2>4, <3>1 DEF Write, Over, disk
    <3> QED
      BY <2>1, <2>2, <2>4, <3>2
  <2> QED
    BY <2>3, <2>4
<1>9. ASSUME NEW p \in Procs, WriteFails(p) PROVE SoloInv'
  BY <1>9 DEF WriteFails, disk, world, history, Fail, Exit
<1>10. ASSUME NEW p \in Procs, Rename(p) PROVE SoloInv'
  <2> SUFFICES ASSUME NEW t \in Targets \ shared' PROVE Solo(t)'
    OBVIOUS
  <2>1. Solo(t) /\ t \notin shared
    BY <1>10 DEF Rename
  <2>2. /\ \A q \in Procs \ {p} : pc'[q] = pc[q] /\ target'[q] = target[q]
        /\ pc[p] = "rename" /\ pc'[p] \in {"idle", "lstat"}
    <3>1. CASE Goto(p, "rename", "lstat") /\ target' = [target EXCEPT ![p] = "ignore"]
      BY <1>10, <3>1 DEF Rename, Goto
    <3>2. CASE Exit(p, Result("ok", fw[p], FALSE))
      BY <1>10, <3>2 DEF Rename, Exit
    <3> QED
      BY <1>10, <3>1, <3>2 DEF Rename
  <2>3. /\ files' = [files EXCEPT ![target[p]] = tmp[target[p]]]
        /\ tmp' = [tmp EXCEPT ![target[p]] = "missing"]
        /\ at' = Moved(p, target[p])
    BY <1>10 DEF Rename
  <2>4. CASE t # target[p]
    BY <2>1, <2>2, <2>3, <2>4 DEF Moved, Targets, Files
  <2>5. CASE t = target[p]
    BY <2>1, <2>2, <2>3, <2>5 DEF Targets, Files
  <2> QED
    BY <2>4, <2>5
<1>11. ASSUME NEW p \in Procs, RenameFails(p) PROVE SoloInv'
  BY <1>11 DEF RenameFails, disk, world, history, Goto, history
<1>12. ASSUME NEW p \in Procs, Remove(p) PROVE SoloInv'
  BY <1>12 DEF Remove, disk, world, history, Fail, Exit, Dropped
<1>13. ASSUME NEW p \in Procs, Crash(p) PROVE SoloInv'
  BY <1>13 DEF Crash, disk, world, history, Exit
<1>14. ASSUME NEW f \in Files, NEW content \in MayContain(f), Edit(f, content)
      PROVE  SoloInv'
  <2>1. content \notin {"half", "mixed"}
    BY DEF MayContain
  <2>2. \A q \in Procs : at[q] # "dest" => at'[q] = at[q]
    BY <1>14 DEF Edit, Dropped
  <2>3. \A t \in Targets : files'[t] = files[t] \/ files'[t] = content
    BY <1>14 DEF Edit, Targets, Files
  <2> QED
    BY <1>14, <2>1, <2>2, <2>3 DEF Edit
<1> HIDE DEF IInv, Typed, SoloInv, Solo, WritingFile, Writing, Detecting
<1> QED
  BY <1>1, <1>2, <1>3, <1>4, <1>5, <1>6, <1>7, <1>8, <1>9, <1>10, <1>11, <1>12,
     <1>13, <1>14 DEF Next, Step

\* No command makes a config or changes one.
LEMMA SameConfigs ==
    ASSUME IInv, [Next]_vars, Quiet'
    PROVE  /\ Quiet /\ UNCHANGED project /\ files'["yaml"] = files["yaml"]
           /\ files'["toml"] = "config" <=> files["toml"] = "config"
           /\ \A t \in Targets : Agreed(t)' = Agreed(t)
<1> DEFINE Same == /\ Quiet /\ UNCHANGED project /\ files'["yaml"] = files["yaml"]
                   /\ files'["toml"] = "config" <=> files["toml"] = "config"
<1> USE DEF IInv, Quiet
<1>1. ASSUME UNCHANGED <<files, project, edits, faults>> PROVE Same
  BY <1>1
<1>2. ASSUME NEW p \in Procs, Write(p) PROVE Same
  <2>1. files' = files \/ \E c \in Texts \cup {"template", "mixed"} :
                              files' = [files EXCEPT ![target[p]] = c]
    <3>1. Text(p) \in Texts \cup {"template"}
      BY <1>2, TextType DEF Write, Goto, WritingFile, Writing
    <3> QED
      BY <1>2, <3>1 DEF Write, Over, disk
  <2>2. pc[p] \in Writing /\ UNCHANGED <<project, edits, faults>>
    BY <1>2 DEF Write, Goto, Writing, world
  <2>3. target[p] = "toml" => files["toml"] # "config"
    BY <2>2 DEF AgreedInv, AgreedBy
  <2> QED
    BY <2>1, <2>2, <2>3 DEF Typed, Files, Targets, Texts
<1>3. ASSUME NEW p \in Procs, Rename(p) PROVE Same
  <2>1. files' = [files EXCEPT ![target[p]] = tmp[target[p]]]
        /\ UNCHANGED <<project, edits, faults>> /\ pc[p] \in Writing
    BY <1>3 DEF Rename, Writing, world
  <2>2. target[p] = "toml" => files["toml"] # "config"
    BY <2>1 DEF AgreedInv, AgreedBy
  <2>3. tmp[target[p]] # "config"
    BY DEF Typed, Temporary, Texts
  <2> QED
    BY <2>1, <2>2, <2>3 DEF Typed, Files, Targets
<1>4. ASSUME NEW p \in Procs, RenameFails(p) PROVE Same
  BY <1>4 DEF RenameFails, disk, Typed
<1>5. ASSUME NEW p \in Procs, WriteFails(p) \/ Crash(p) PROVE FALSE
  BY <1>5 DEF WriteFails, Crash, Typed
<1>6. ASSUME NEW f \in Files, NEW content, Edit(f, content) PROVE FALSE
  BY <1>6 DEF Edit, Typed
<1>7. ASSUME NEW p \in Procs,
             \/ ReadConfig(p) \/ Look(p) \/ ReadOptions(p)
             \/ Lstat(p) \/ Open(p) \/ Remove(p) \/ (\E k \in Kinds : Call(p, k))
      PROVE  Same
  BY <1>7, <1>1 DEF ReadConfig, Look, ReadOptions, Lstat, Open, Remove, Call, disk, world
<1>8. ASSUME UNCHANGED vars PROVE Same
  BY <1>8, <1>1 DEF vars
<1> HIDE DEF IInv, Quiet
<1>9. Same
  <2> HIDE DEF Same
  <2> QED
    BY <1>2, <1>3, <1>4, <1>5, <1>6, <1>7, <1>8 DEF Next, Step
<1> QED
  BY <1>9 DEF Agreed

LEMMA AgreedText ==
    ASSUME IInv, Quiet, NEW p \in Procs, pc[p] \in WritingFile
    PROVE  Text(p) = Agreed(target[p])
BY DEF IInv, Typed, CommandInv, AgreedInv, AgreedBy, Text, Agreed, Targets

\* What a detection step finds is what is agreed.
LEMMA AgreedDetects ==
    ASSUME IInv, Quiet, NEW p \in Procs, Detects(p)
    PROVE  /\ pc'[p] = "config" /\ pos'[p] = 2 => files["toml"] # "config"
           /\ pc'[p] = "look" => files["toml"] # "config" /\ files["yaml"] # "config"
           /\ pc'[p] \in WritingFile /\ kind[p] # "init" => fw'[p] = Agreed("Dockerfile")
           /\ pc'[p] \notin Writing
<1>1. /\ pos[p] \in {1, 2} /\ pc[p] \in Detecting
      /\ pos[p] = 1 => Config(p) = files["toml"]
      /\ pos[p] = 2 => Config(p) = files["yaml"]
  <2>1. ConfigNames[1] = "toml" /\ ConfigNames[2] = "yaml"
    BY DEF ConfigNames
  <2> QED
    BY <2>1 DEF IInv, Typed, Detects, Config
<1>2. /\ pc[p] = "config" /\ pos[p] = 2 => files["toml"] # "config"
      /\ pc[p] = "look" => files["toml"] # "config" /\ files["yaml"] # "config"
  BY DEF IInv, AgreedInv, AgreedBy
<1> USE DEF WritingFile, Writing, Detecting
<1>3. ASSUME OthersSame(p), pc[p] # "look", Config(p) = "missing",
             \/ pc'[p] = pc[p] /\ pos[p] = 1 /\ pos'[p] = 2
             \/ pc[p] = "config" /\ pc'[p] = "look" /\ pos[p] = 2
      PROVE  /\ pc'[p] = "config" /\ pos'[p] = 2 => files["toml"] # "config"
             /\ pc'[p] = "look" => files["toml"] # "config" /\ files["yaml"] # "config"
             /\ pc'[p] \notin WritingFile
  BY <1>1, <1>2, <1>3
<1>4. ASSUME NEW f, Chosen(p, f), f = "dockerfile" \/ f = Agreed("Dockerfile")
      PROVE  /\ pc'[p] \notin {"config", "look"} \cup Writing
             /\ pc'[p] \in WritingFile /\ kind[p] # "init" => fw'[p] = Agreed("Dockerfile")
  BY <1>4 DEF Chosen
<1>5. pc[p] = "config" /\ Config(p) = "config" => "configured" = Agreed("Dockerfile")
  BY <1>1, <1>2 DEF Agreed
<1>6. pc[p] = "look" => (IF project = "builtin" THEN "app" ELSE "static") = Agreed("Dockerfile")
  BY <1>2 DEF Agreed
<1>7. ASSUME NEW r, Exited(p, r) PROVE pc'[p] = "idle"
  BY <1>7 DEF Exited
<1> HIDE DEF WritingFile, Writing, Detecting
<1>8. {"config", "look"} \cap WritingFile = {} /\ "idle" \notin WritingFile /\ Writing \subseteq WritingFile
  BY DEF WritingFile, Writing
<1> QED
  BY <1>3, <1>4, <1>5, <1>6, <1>7, <1>8 DEF Detects

LEMMA AgreedStep ==
    ASSUME IInv, [Next]_vars
    PROVE  AgreedInv'
<1> SUFFICES ASSUME Quiet'
             PROVE  /\ \A q \in Procs : AgreedBy(q)'
                    /\ \A t \in Targets : tmp'[t] \in {"missing", "half", Agreed(t)}
  BY SameConfigs DEF AgreedInv
<1> DEFINE Goal == /\ \A q \in Procs : AgreedBy(q)'
                   /\ \A t \in Targets : tmp'[t] \in {"missing", "half", Agreed(t)}
<1>1. /\ Quiet /\ files'["yaml"] = files["yaml"]
      /\ files'["toml"] = "config" <=> files["toml"] = "config"
      /\ \A t \in Targets : Agreed(t)' = Agreed(t)
      /\ \A t \in Targets : tmp[t] \in {"missing", "half", Agreed(t)}
      /\ \A q \in Procs : AgreedBy(q)
  BY SameConfigs DEF IInv, AgreedInv
<1>2. Agreed("Dockerfile")' = Agreed("Dockerfile")
  BY <1>1 DEF Targets
<1> USE DEF IInv, Typed
\* A process that stays where it is with the files it can touch.
<1>3. ASSUME NEW q \in Procs, pc'[q] = pc[q], pos'[q] = pos[q], kind'[q] = kind[q], fw'[q] = fw[q],
             target'[q] = target[q], at'[q] = at[q],
             tmp'[target[q]] = "missing" => tmp[target[q]] = "missing",
             at[q] = "dest" /\ pc[q] = "write" =>
                 files'[target[q]] \in {"half", Agreed(target[q])}
      PROVE  AgreedBy(q)'
  BY <1>1, <1>2, <1>3 DEF AgreedBy
<1>4. CASE UNCHANGED vars
  <2>1. \A q \in Procs : AgreedBy(q)'
    BY <1>1, <1>3, <1>4 DEF vars, AgreedBy
  <2> QED
    BY <1>1, <1>4, <2>1 DEF vars
<1>5. ASSUME NEW p \in Procs, NEW k \in Kinds, Call(p, k) PROVE Goal
  <2>1. \A q \in Procs \ {p} : AgreedBy(q)'
    BY <1>1, <1>3, <1>5 DEF Call, Goto, disk, AgreedBy
  <2>2. pc'[p] = "config" /\ pos'[p] = 1
    BY <1>5 DEF Call, Goto, CommandInv
  <2>3. AgreedBy(p)'
    BY <2>2 DEF AgreedBy, Writing, WritingFile
  <2> QED
    BY <1>1, <1>5, <2>1, <2>3 DEF Call, disk
<1>6. ASSUME NEW p \in Procs, ReadConfig(p) \/ Look(p) \/ ReadOptions(p) PROVE Goal
  <2>1. Detects(p) /\ OthersSame(p) /\ UNCHANGED <<files, tmp, kind, at>>
    BY <1>6, DetectEffect DEF Detects, Chosen, Exited
  <2>2. \A q \in Procs \ {p} : AgreedBy(q)'
    BY <1>1, <1>3, <2>1 DEF OthersSame, AgreedBy
  <2>3. AgreedBy(p)'
    BY <1>1, <1>2, <2>1, AgreedDetects DEF AgreedBy, Writing
  <2> QED
    BY <1>1, <2>1, <2>2, <2>3
<1>7. ASSUME NEW p \in Procs, Lstat(p) PROVE Goal
  <2>1. Looked(p)
    BY <1>7, LstatEffect
  <2>2. \A q \in Procs \ {p} : AgreedBy(q)'
    BY <1>1, <1>3, <2>1, LooksOrLeaves DEF OthersSame, AgreedBy
  <2>3. ASSUME pc'[p] = "idle" PROVE AgreedBy(p)'
    BY <2>3 DEF AgreedBy, Writing, WritingFile
  <2>4. ASSUME pc'[p] # "idle" PROVE AgreedBy(p)'
    <3>1. pc[p] = "lstat" /\ pc'[p] = "open" /\ target'[p] = target[p] /\ fw'[p] = fw[p]
          /\ (~Present(target[p]) \/ kind[p] = "force") /\ UNCHANGED <<files, kind>>
      BY <2>1, <2>4, LooksOrLeaves
    <3>2. target[p] = "toml" => files["toml"] = "missing"
      BY <3>1 DEF Present, CommandInv, WritingFile
    <3> QED
      BY <1>1, <1>2, <3>1, <3>2 DEF AgreedBy, Writing, WritingFile
  <2>5. UNCHANGED tmp
    BY <2>1, LooksOrLeaves
  <2> QED
    BY <1>1, <2>2, <2>3, <2>4, <2>5
<1>8. ASSUME NEW p \in Procs, Open(p) PROVE Goal
  <2>1. \A q \in Procs \ {p} : AgreedBy(q)'
    BY <1>1, <1>3, <1>8 DEF Open, Goto, world, AgreedBy
  <2>2. AgreedBy(p)'
    BY <1>1, <1>2, <1>8 DEF Open, Goto, world, AgreedBy, Writing, WritingFile
  <2> QED
    BY <1>1, <1>8, <2>1, <2>2 DEF Open
<1>9. ASSUME NEW p \in Procs, Write(p) PROVE Goal
  <2>1. pc[p] = "write" /\ pc'[p] = "rename" /\ UNCHANGED <<pos, kind, fw, target>>
        /\ \A q \in Procs \ {p} : pc'[q] = pc[q] /\ at'[q] = at[q]
    BY <1>9 DEF Write, Goto, world
  <2>2. Text(p) = Agreed(target[p]) /\ Text(p) # "missing"
    BY <1>1, <2>1, AgreedText, WholeText DEF WritingFile, Writing
  <2>3. CASE at[p] = "tmp"
    <3>1. tmp' = [tmp EXCEPT ![target[p]] = Text(p)] /\ UNCHANGED files
      <4>1. tmp[target[p]] \in {"half", Text(p)}
        BY <1>1, <2>1, <2>2, <2>3 DEF AgreedBy
      <4> QED
        BY <1>9, <2>3, <4>1 DEF Write, Over
    <3>2. \A q \in Procs \ {p} : AgreedBy(q)'
      BY <1>1, <1>3, <2>1, <2>2, <3>1 DEF AgreedBy
    <3>3. AgreedBy(p)'
      BY <1>1, <1>2, <2>1, <3>1 DEF AgreedBy, Writing, WritingFile
    <3> QED
      BY <1>1, <2>2, <3>1, <3>2, <3>3
  <2>4. CASE at[p] = "dest"
    <3>1. files' = [files EXCEPT ![target[p]] = Text(p)] /\ UNCHANGED tmp
      <4>1. files[target[p]] \in {"half", Text(p)}
        BY <1>1, <2>1, <2>2, <2>4 DEF AgreedBy
      <4> QED
        BY <1>9, <2>4, <4>1 DEF Write, Over
    <3>2. \A q \in Procs \ {p} : AgreedBy(q)'
      BY <1>1, <1>3, <2>1, <2>2, <3>1 DEF AgreedBy, Files, Targets
    <3>3. AgreedBy(p)'
      BY <1>1, <1>2, <2>1 DEF AgreedBy, Writing, WritingFile
    <3> QED
      BY <1>1, <3>1, <3>2, <3>3
  <2>5. CASE at[p] \notin {"tmp", "dest"}
    <3>1. UNCHANGED <<files, tmp>>
      BY <1>9, <2>5 DEF Write, disk
    <3>2. \A q \in Procs \ {p} : AgreedBy(q)'
      BY <1>1, <1>3, <2>1, <3>1 DEF AgreedBy
    <3>3. AgreedBy(p)'
      BY <1>1, <1>2, <2>1 DEF AgreedBy, Writing, WritingFile
    <3> QED
      BY <1>1, <3>1, <3>2, <3>3
  <2> QED
    BY <2>3, <2>4, <2>5
<1>10. ASSUME NEW p \in Procs, Rename(p) PROVE Goal
  <2>1. /\ files' = [files EXCEPT ![target[p]] = tmp[target[p]]]
        /\ tmp' = [tmp EXCEPT ![target[p]] = "missing"] /\ tmp[target[p]] # "missing"
        /\ at' = Moved(p, target[p]) /\ pc[p] = "rename" /\ UNCHANGED kind
    BY <1>10 DEF Rename, world
  <2>2. /\ \A q \in Procs \ {p} : pc'[q] = pc[q] /\ pos'[q] = pos[q] /\ fw'[q] = fw[q]
                                  /\ target'[q] = target[q]
        /\ pc'[p] = "idle" \/ (pc'[p] = "lstat" /\ fw'[p] = fw[p])
    <3>1. CASE Goto(p, "rename", "lstat") /\ target' = [target EXCEPT ![p] = "ignore"]
               /\ UNCHANGED <<pos, fw>>
      BY <3>1 DEF Goto
    <3>2. CASE Exit(p, Result("ok", fw[p], FALSE))
      BY <3>2 DEF Exit
    <3> QED
      BY <1>10, <3>1, <3>2 DEF Rename
  <2>3. ASSUME NEW q \in Procs \ {p} PROVE AgreedBy(q)'
    <3>1. CASE target[q] # target[p]
      <4>1. at'[q] = at[q]
        BY <2>1, <3>1 DEF Moved
      <4>2. tmp'[target[q]] = tmp[target[q]] /\ files'[target[q]] = files[target[q]]
        BY <2>1, <3>1 DEF Files, Targets
      <4> QED
        BY <1>1, <1>3, <2>1, <2>2, <4>1, <4>2 DEF AgreedBy
    <3>2. CASE target[q] = target[p]
      <4>1. at'[q] # "tmp"
        BY <2>1, <3>2 DEF Moved
      <4>2. files'[target[q]] \in {"half", Agreed(target[q])}
        BY <1>1, <2>1, <3>2 DEF Files, Targets
      <4> QED
        BY <1>1, <1>2, <2>1, <2>2, <4>1, <4>2 DEF AgreedBy
    <3> QED
      BY <3>1, <3>2
  <2>4. AgreedBy(p)'
    BY <1>1, <1>2, <2>1, <2>2 DEF AgreedBy, Writing, WritingFile
  <2> QED
    BY <1>1, <2>1, <2>3, <2>4
<1>11. ASSUME NEW p \in Procs, RenameFails(p) PROVE Goal
  <2>1. \A q \in Procs \ {p} : AgreedBy(q)'
    BY <1>1, <1>3, <1>11 DEF RenameFails, Goto, disk, AgreedBy
  <2>2. AgreedBy(p)'
    BY <1>1, <1>2, <1>11 DEF RenameFails, Goto, AgreedBy, Writing, WritingFile
  <2> QED
    BY <1>1, <1>11, <2>1, <2>2 DEF RenameFails, disk
<1>12. ASSUME NEW p \in Procs, Remove(p) PROVE Goal
  <2>1. /\ tmp' = [tmp EXCEPT ![target[p]] = "missing"] /\ UNCHANGED <<files, kind>>
        /\ at' = Dropped(target[p], "tmp")
    BY <1>12 DEF Remove, world
  <2>2. OthersSame(p) /\ pc'[p] = "idle"
    BY <1>12, ExitEffect DEF Remove, Fail, Exited
  <2>3. ASSUME NEW q \in Procs \ {p} PROVE AgreedBy(q)'
    <3>1. at'[q] = at[q] \/ at'[q] = "gone"
      BY <2>1 DEF Dropped
    <3>2. at'[q] = "tmp" => tmp'[target[q]] = tmp[target[q]]
      BY <2>1 DEF Dropped
    <3> QED
      BY <1>1, <1>2, <2>1, <2>2, <3>1, <3>2 DEF OthersSame, AgreedBy
  <2>4. AgreedBy(p)'
    BY <2>2 DEF AgreedBy, Writing, WritingFile
  <2> QED
    BY <1>1, <2>1, <2>3, <2>4
<1>13. ASSUME NEW p \in Procs, WriteFails(p) \/ Crash(p) PROVE FALSE
  BY <1>13 DEF WriteFails, Crash, Quiet
<1>14. ASSUME NEW f \in Files, NEW content, Edit(f, content) PROVE FALSE
  BY <1>14 DEF Edit, Quiet
<1> HIDE DEF IInv, Typed, Goal
<1>15. Goal
  BY <1>4, <1>5, <1>6, <1>7, <1>8, <1>9, <1>10, <1>11, <1>12, <1>13, <1>14 DEF Next, Step, Goal
<1> QED
  BY <1>15 DEF Goal

LEMMA HalfStep ==
    ASSUME IInv, [Next]_vars
    PROVE  HalfInv'
<1> SUFFICES ASSUME Quiet' PROVE HalfInv'
  BY DEF HalfInv
<1>1. /\ Quiet
      /\ \A t \in Targets : /\ files[t] # "mixed"
                            /\ tmp[t] = "half" => \E q \in Procs : Opened(q, t, "tmp")
                            /\ files[t] = "half" => \E q \in Procs : Opened(q, t, "dest")
      /\ \A q \in Procs : \A t \in wrote[q] : files[t] # "missing"
      /\ \A q \in Procs : AgreedBy(q)
      /\ \A t \in Targets : tmp[t] \in {"missing", "half", Agreed(t)}
      /\ \A t \in Targets : Agreed(t) \notin {"missing", "half", "mixed"}
  BY SameConfigs DEF IInv, HalfInv, AgreedInv, Agreed
<1> USE DEF IInv, Typed
\* What is open stays open but for the process that takes the step.
<1>2. ASSUME NEW p \in Procs, pc[p] # "write", UNCHANGED <<files, tmp>>,
             \A q \in Procs \ {p} : pc'[q] = pc[q] /\ target'[q] = target[q] /\ at'[q] = at[q],
             \A q \in Procs : wrote'[q] \subseteq wrote[q]
      PROVE  HalfInv'
  <2>1. \A place : \A q \in Procs, t \in Targets : Opened(q, t, place) => Opened(q, t, place)'
    BY <1>2 DEF Opened
  <2> QED
    BY <1>1, <1>2, <2>1 DEF HalfInv
<1>3. CASE UNCHANGED vars
  BY <1>1, <1>3 DEF vars, HalfInv, Opened
<1>4. ASSUME NEW p \in Procs, NEW k \in Kinds, Call(p, k) PROVE HalfInv'
  BY <1>2, <1>4 DEF Call, Goto, disk
<1>5. ASSUME NEW p \in Procs, ReadConfig(p) \/ Look(p) \/ ReadOptions(p) PROVE HalfInv'
  <2>1. /\ pc[p] # "write" /\ UNCHANGED <<files, tmp, at, wrote>>
        /\ OthersSame(p)
    BY <1>5, DetectEffect, DetectsProceeds DEF Proceeds, Detecting
  <2> QED
    BY <1>2, <2>1 DEF OthersSame
<1>6. ASSUME NEW p \in Procs, Lstat(p) PROVE HalfInv'
  BY <1>2, <1>6, LstatEffect, LooksOrLeaves DEF OthersSame
<1>7. ASSUME NEW p \in Procs, Open(p) PROVE HalfInv'
  <2>1. /\ tmp' = [tmp EXCEPT ![target[p]] = "half"] /\ UNCHANGED <<files, wrote, target>>
        /\ pc[p] = "open" /\ Opened(p, target[p], "tmp")'
        /\ \A q \in Procs \ {p} : pc'[q] = pc[q] /\ at'[q] = at[q]
    BY <1>7 DEF Open, Goto, Opened
  <2>2. \A place : \A q \in Procs, t \in Targets : Opened(q, t, place) => Opened(q, t, place)'
    BY <2>1 DEF Opened
  <2> QED
    BY <1>1, <2>1, <2>2 DEF HalfInv
<1>8. ASSUME NEW p \in Procs, Write(p) PROVE HalfInv'
  <2>1. /\ pc[p] = "write" /\ UNCHANGED <<wrote, target>>
        /\ \A q \in Procs \ {p} : pc'[q] = pc[q] /\ at'[q] = at[q]
    BY <1>8 DEF Write, Goto
  <2>2. Text(p) = Agreed(target[p])
    BY <1>1, <2>1, AgreedText DEF WritingFile, Writing
  <2>3. \A place : \A q \in Procs \ {p}, t \in Targets : Opened(q, t, place) => Opened(q, t, place)'
    BY <2>1 DEF Opened
  <2>4. CASE at[p] = "tmp"
    <3>1. tmp' = [tmp EXCEPT ![target[p]] = Text(p)] /\ UNCHANGED files
      <4>1. tmp[target[p]] \in {"half", Text(p)}
        BY <1>1, <2>1, <2>2, <2>4 DEF AgreedBy
      <4> QED
        BY <1>8, <2>4, <4>1 DEF Write, Over
    <3>2. \A t \in Targets : /\ t # target[p] => ~Opened(p, t, "tmp")
                             /\ ~Opened(p, t, "dest")
      BY <2>4 DEF Opened
    <3> QED
      BY <1>1, <2>1, <2>2, <2>3, <3>1, <3>2 DEF HalfInv
  <2>5. CASE at[p] = "dest"
    <3>1. files' = [files EXCEPT ![target[p]] = Text(p)] /\ UNCHANGED tmp
      <4>1. files[target[p]] \in {"half", Text(p)}
        BY <1>1, <2>1, <2>2, <2>5 DEF AgreedBy
      <4> QED
        BY <1>8, <2>5, <4>1 DEF Write, Over
    <3>2. \A t \in Targets : /\ t # target[p] => ~Opened(p, t, "dest")
                             /\ ~Opened(p, t, "tmp")
      BY <2>5 DEF Opened
    <3>3. \A t \in Targets : files'[t] = IF t = target[p] THEN Text(p) ELSE files[t]
      BY <3>1 DEF Files, Targets
    <3> QED
      BY <1>1, <2>1, <2>2, <2>3, <3>1, <3>2, <3>3 DEF HalfInv
  <2>6. CASE at[p] \notin {"tmp", "dest"}
    <3>1. UNCHANGED <<files, tmp>>
      BY <1>8, <2>6 DEF Write, disk
    <3>2. \A t \in Targets : ~Opened(p, t, "tmp") /\ ~Opened(p, t, "dest")
      BY <2>6 DEF Opened
    <3> QED
      BY <1>1, <2>1, <2>3, <3>1, <3>2 DEF HalfInv
  <2> QED
    BY <2>4, <2>5, <2>6
<1>9. ASSUME NEW p \in Procs, Rename(p) PROVE HalfInv'
  <2>1. /\ files' = [files EXCEPT ![target[p]] = tmp[target[p]]]
        /\ tmp' = [tmp EXCEPT ![target[p]] = "missing"] /\ tmp[target[p]] # "missing"
        /\ at' = Moved(p, target[p]) /\ pc[p] = "rename"
        /\ wrote' = [wrote EXCEPT ![p] = @ \cup {target[p]}]
    BY <1>9 DEF Rename
  <2>2. \A q \in Procs \ {p} : pc'[q] = pc[q] /\ target'[q] = target[q]
    <3>1. CASE Goto(p, "rename", "lstat") /\ target' = [target EXCEPT ![p] = "ignore"]
      BY <3>1 DEF Goto
    <3>2. CASE Exit(p, Result("ok", fw[p], FALSE))
      BY <3>2 DEF Exit
    <3> QED
      BY <1>9, <3>1, <3>2 DEF Rename
  <2>3. \A t \in Targets : /\ files'[t] = IF t = target[p] THEN tmp[t] ELSE files[t]
                           /\ tmp'[t] = IF t = target[p] THEN "missing" ELSE tmp[t]
    BY <2>1 DEF Files, Targets
  <2>4. ASSUME NEW q \in Procs, NEW t \in Targets
        PROVE  /\ t # target[p] /\ Opened(q, t, "tmp") => Opened(q, t, "tmp")'
               /\ t # target[p] /\ Opened(q, t, "dest") => Opened(q, t, "dest")'
               /\ t = target[p] /\ Opened(q, t, "tmp") => Opened(q, t, "dest")'
    BY <2>1, <2>2 DEF Opened, Moved
  <2>5. ASSUME NEW t \in Targets
        PROVE  /\ files'[t] # "mixed"
               /\ tmp'[t] = "half" => \E q \in Procs : Opened(q, t, "tmp")'
               /\ files'[t] = "half" => \E q \in Procs : Opened(q, t, "dest")'
    BY <1>1, <2>3, <2>4
  <2>6. ASSUME NEW q \in Procs, NEW t \in wrote'[q] PROVE files'[t] # "missing"
    BY <1>1, <2>1, <2>3
  <2> QED
    BY <2>5, <2>6 DEF HalfInv
<1>10. ASSUME NEW p \in Procs, RenameFails(p) PROVE HalfInv'
  BY <1>2, <1>10 DEF RenameFails, Goto, disk, history
<1>11. ASSUME NEW p \in Procs, Remove(p) PROVE HalfInv'
  <2>1. /\ tmp' = [tmp EXCEPT ![target[p]] = "missing"] /\ UNCHANGED <<files, wrote>>
        /\ at' = Dropped(target[p], "tmp") /\ pc[p] = "remove"
    BY <1>11 DEF Remove
  <2>2. OthersSame(p)
    BY <1>11, ExitEffect DEF Remove, Fail, Exited
  <2>3. ASSUME NEW q \in Procs, NEW t \in Targets
        PROVE  /\ t # target[p] /\ Opened(q, t, "tmp") => Opened(q, t, "tmp")'
               /\ Opened(q, t, "dest") => Opened(q, t, "dest")'
    BY <2>1, <2>2 DEF Opened, Dropped, OthersSame
  <2> QED
    BY <1>1, <2>1, <2>3 DEF HalfInv
<1>12. ASSUME NEW p \in Procs, WriteFails(p) \/ Crash(p) PROVE FALSE
  BY <1>12 DEF WriteFails, Crash, Quiet
<1>13. ASSUME NEW f \in Files, NEW content, Edit(f, content) PROVE FALSE
  BY <1>13 DEF Edit, Quiet
<1> HIDE DEF IInv, Typed
<1> QED
  BY <1>3, <1>4, <1>5, <1>6, <1>7, <1>8, <1>9, <1>10, <1>11, <1>12, <1>13 DEF Next, Step

-----------------------------------------------------------------------------
(* The theorems.                                                           *)

(* The invariant above is one.                                             *)
THEOREM Inductive == Spec => []IInv
<1>1. IInv /\ [Next]_vars => IInv'
  BY TypeStep, CommandStep, SinceStep, ConfigStep, SoloStep, AgreedStep, HalfStep,
     ExistingStep, DecidesStep DEF IInv
<1> QED
  BY InitIInv, <1>1, PTL DEF Spec

(* writeProjectFile: whatever the user and other commands do between its   *)
(* Lstat and its rename, a file of the user's that nobody touched meanwhile *)
(* is replaced only by eject --force, and a link never.                    *)
THEOREM KeepsExisting == Spec => []ExistingKept
<1>1. IInv => ExistingKept
  BY DEF IInv
<1> QED
  BY <1>1, Inductive, PTL

(* A docksmith.toml that stays as it is decides what a command answers.    *)
THEOREM TomlDecides == Spec => []ConfigDecides
<1>1. IInv => ConfigDecides
  BY DEF IInv
<1> QED
  BY <1>1, Inductive, PTL

(* No file is left empty or mixed by one writer at a time, nor, among any  *)
(* number of commands that run undisturbed, when all have finished: they   *)
(* agree on the text, and whoever opened a file writes it.                 *)
THEOREM FilesWhole == Spec => []WholeFiles
<1>1. IInv => WholeFiles
  <2> SUFFICES ASSUME IInv PROVE WholeFiles
    OBVIOUS
  <2>1. \A t \in Targets : files[t] \in {"half", "mixed"} => t \in shared
    BY DEF IInv, SoloInv, Solo
  <2>2. ASSUME Quiet, \A p \in Procs : pc[p] = "idle"
        PROVE  /\ \A t \in Targets : files[t] \notin {"half", "mixed"}
               /\ \A p \in Procs : \A t \in wrote[p] : Present(t)
    BY <2>2 DEF IInv, HalfInv, Opened, Present
  <2> QED
    BY <2>1, <2>2 DEF WholeFiles, Quiet, Targets
<1> QED
  BY <1>1, Inductive, PTL

=============================================================================
