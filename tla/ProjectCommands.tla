--------------------------- MODULE ProjectCommands ---------------------------
(***************************************************************************)
(* The commands of cmd/docksmith that a user runs in one project, and the  *)
(* files of the project they read and write: the config files, the         *)
(* Dockerfile and the .dockerignore.  Several commands may run at a time,  *)
(* and the user edits the files meanwhile; nothing locks them.             *)
(*   "init"        writes docksmith.toml                                   *)
(*   "eject"       writes Dockerfile and .dockerignore                     *)
(*   "force"       eject --force                                           *)
(*   "detect", "build"   detect, and detect + plan + emit                  *)
(*   "dockerfile"  as well as "plan": the same with the plan options       *)
(* FrameworkInstall has what detect and build do when all they find is a   *)
(* static site.  Planning and emission are assumed to succeed.             *)
(***************************************************************************)
EXTENDS Naturals

CONSTANTS Procs,
          Kinds,      \* the commands of an instance
          Projects,   \* what a project is, its config and Dockerfile aside
          AtFirst,    \* the files it may have
          MaxEdits, MaxFaults,
          Remember    \* the commands whose runs are remembered in `log`

Targets == {"toml", "Dockerfile", "ignore"}
Files == Targets \cup {"yaml"}

\* The first of these that is there is the config of the project.
ConfigNames == <<"toml", "yaml">>

\* What eject writes depends on the framework: an app some built-in detector
\* recognises, a static site, or what the config says.
Texts == {"app", "static", "configured"}

\* "config" is a valid config that overrides something, "dockerfile config"
\* one that names a Dockerfile, "template" what init writes: comments only.
\* "half" is a file opened and not yet written, "mixed" one written twice.
Contents == Texts \cup
    {"missing", "config", "dockerfile config", "invalid", "own", "link",
     "template", "half", "mixed"}
ValidConfigs == {"config", "dockerfile config"}

ASSUME CommandsAssumption ==
    /\ MaxEdits \in Nat /\ MaxFaults \in Nat
    /\ Kinds \subseteq {"init", "eject", "force", "detect", "build", "dockerfile"}
    /\ Projects \subseteq {"builtin", "home"}
    /\ AtFirst \subseteq [Files -> {"missing", "config", "dockerfile config", "invalid",
                                    "own", "link"}]

VARIABLES
    project,  \* "home": only a YAML definition in ~/.docksmith recognises it
    files, tmp, edits, faults,
    pc,
    kind,     \* the command of each process
    pos,      \* the config name it is at
    fw,       \* the framework it has detected
    target,   \* the file it writes
    at,       \* where the file it has open is now
    result,
    since,    \* history: files that have not changed since the call began
    wrote,    \* history: files the call has put in place
    shared,   \* history: targets two commands have written at a time
    replaced, \* history: files replaced without --force, in instances that remember
    log       \* history: the runs of commands in Remember

vars == <<project, files, tmp, edits, faults, pc, kind, pos, fw, target, at, result,
          since, wrote, shared, replaced, log>>
disk == <<files, tmp>>
world == <<project, edits, faults>>
history == <<since, wrote, shared, replaced, log>>

Results == [what : {"none", "ok", "error", "exists", "nothing"},
            fw : Texts \cup {"dockerfile", "none"}, overridden : BOOLEAN]
Result(what, f, overridden) == [what |-> what, fw |-> f, overridden |-> overridden]
NoResult == Result("none", "none", FALSE)

Init ==
    /\ project \in Projects /\ files \in AtFirst
    /\ tmp = [t \in Targets |-> "missing"]
    /\ edits = 0 /\ faults = 0
    /\ pc = [p \in Procs |-> "idle"]
    /\ kind = [p \in Procs |-> "detect"]
    /\ pos = [p \in Procs |-> 1]
    /\ fw = [p \in Procs |-> "none"]
    /\ target = [p \in Procs |-> "toml"]
    /\ at = [p \in Procs |-> "none"]
    /\ result = [p \in Procs |-> NoResult]
    /\ since = [p \in Procs |-> {}]
    /\ wrote = [p \in Procs |-> {}]
    /\ shared = {} /\ replaced = {} /\ log = {}

Goto(p, from, to) == pc[p] = from /\ pc' = [pc EXCEPT ![p] = to]

\* The command exits; `log` remembers what it found and what it said.
Exit(p, r) ==
    /\ pc' = [pc EXCEPT ![p] = "idle"]
    /\ pos' = [pos EXCEPT ![p] = 1]
    /\ fw' = [fw EXCEPT ![p] = "none"]
    /\ target' = [target EXCEPT ![p] = "toml"]
    /\ result' = [result EXCEPT ![p] = r]
    /\ log' = IF kind[p] \in Remember
              THEN log \cup {[kind |-> kind[p], since |-> since[p], result |-> r]}
              ELSE log

Fail(p) == Exit(p, Result("error", "none", FALSE))

-----------------------------------------------------------------------------
Present(f) == files[f] # "missing"

Call(p, k) ==
    /\ Goto(p, "idle", "config")
    /\ kind' = [kind EXCEPT ![p] = k]
    /\ result' = [result EXCEPT ![p] = NoResult]
    /\ since' = [since EXCEPT ![p] = {<<f, files[f]>> : f \in {g \in Files : Present(g)}}]
    /\ wrote' = [wrote EXCEPT ![p] = {}]
    /\ UNCHANGED <<disk, world, pos, fw, target, at, shared, replaced, log>>

(* LoadWithNames, one ReadFile at a time.                                  *)

Config(p) == files[ConfigNames[pos[p]]]

\* The file is not there: the next name, and after the last one `done`.
NextName(p, done) ==
    \/ /\ pos[p] < 2
       /\ pos' = [pos EXCEPT ![p] = @ + 1]
       /\ UNCHANGED <<pc, fw, target, result, log>>
    \/ pos[p] = 2 /\ done

\* What the commands do with the framework detected.
Detected(p, f) ==
    \/ /\ kind[p] \in {"detect", "build"} \/ (kind[p] = "dockerfile" /\ f = "dockerfile")
       /\ Exit(p, Result("ok", f, FALSE))
    \/ /\ kind[p] \in {"eject", "force"} /\ f = "dockerfile"
       /\ Exit(p, Result("nothing", f, FALSE))
    \/ /\ kind[p] = "dockerfile" /\ f # "dockerfile"
       /\ pc' = [pc EXCEPT ![p] = "options"]
       /\ pos' = [pos EXCEPT ![p] = 1]
       /\ fw' = [fw EXCEPT ![p] = f]
       /\ UNCHANGED <<target, result, log>>
    \/ /\ kind[p] = "init" \/ (kind[p] \in {"eject", "force"} /\ f # "dockerfile")
       /\ pc' = [pc EXCEPT ![p] = "lstat"]
       /\ fw' = [fw EXCEPT ![p] = f]
       /\ target' = [target EXCEPT ![p] = IF kind[p] = "init" THEN "toml" ELSE "Dockerfile"]
       /\ UNCHANGED <<pos, result, log>>

\* Mutant of ReadConfig: a config that does not parse is skipped.
MutReadConfig(p) ==
    /\ pc[p] = "config"
    /\ \/ /\ Config(p) \notin ValidConfigs
          /\ NextName(p, Goto(p, "config", "look") /\ UNCHANGED <<pos, fw, target, result, log>>)
       \/ Config(p) = "config" /\ Detected(p, "configured")
       \/ Config(p) = "dockerfile config" /\ Detected(p, "dockerfile")
    /\ UNCHANGED <<disk, world, kind, at, since, wrote, shared, replaced>>

\* loadConfigFramework: a config that is there but not valid is an error.
ReadConfig(p) ==
    /\ pc[p] = "config"
    /\ \/ /\ Config(p) = "missing"
          /\ NextName(p, Goto(p, "config", "look") /\ UNCHANGED <<pos, fw, target, result, log>>)
       \/ Config(p) = "config" /\ Detected(p, "configured")
       \/ Config(p) = "dockerfile config" /\ Detected(p, "dockerfile")
       \/ Config(p) \notin ValidConfigs \cup {"missing"} /\ Fail(p)
    /\ UNCHANGED <<disk, world, kind, at, since, wrote, shared, replaced>>

\* A Dockerfile, or the detectors.  Nobody has loaded the definitions of
\* ~/.docksmith, so all they see in a project of kind "home" is index.html.
Look(p) ==
    /\ pc[p] = "look"
    /\ Detected(p, IF Present("Dockerfile") THEN "dockerfile"
                   ELSE IF project = "builtin" THEN "app" ELSE "static")
    /\ UNCHANGED <<disk, world, kind, at, since, wrote, shared, replaced>>

\* LoadPlanOptions reads the config a second time.
ReadOptions(p) ==
    /\ pc[p] = "options"
    /\ \/ Config(p) = "missing" /\ NextName(p, Exit(p, Result("ok", fw[p], FALSE)))
       \/ /\ Config(p) \in ValidConfigs
          /\ Exit(p, Result("ok", fw[p], Config(p) = "config"))
       \/ Config(p) \notin ValidConfigs \cup {"missing"} /\ Fail(p)
    /\ UNCHANGED <<disk, world, kind, at, since, wrote, shared, replaced>>

-----------------------------------------------------------------------------
(* writeProjectFile.                                                       *)

\* The path is the same for every process, and so is that of the temporary
\* file.  A process that has it open goes on writing to it wherever it is
\* moved: from "tmp" to its "dest", and when replaced or removed to "gone".
Moved(p, t) ==
    [q \in Procs |-> IF q = p \/ target[q] # t THEN at[q]
                     ELSE CASE at[q] = "tmp" -> "dest"
                            [] at[q] = "dest" -> "gone"
                            [] OTHER -> at[q]]
Dropped(t, place) ==
    [q \in Procs |-> IF target[q] = t /\ at[q] = place THEN "gone" ELSE at[q]]
Changed(f) == [q \in Procs |-> {s \in since[q] : s[1] # f}]

\* Mutant of Lstat: an existing file is no obstacle.
MutLstat(p) ==
    /\ Goto(p, "lstat", "open")
    /\ files[target[p]] # "link"
    /\ UNCHANGED <<disk, world, kind, pos, fw, target, at, result, history>>

\* A symbolic link is refused, and without --force any other file.
Lstat(p) ==
    LET there == Present(target[p]) IN
    /\ pc[p] = "lstat"
    /\ \/ files[target[p]] = "link" /\ Fail(p)
       \/ /\ there /\ files[target[p]] # "link" /\ kind[p] # "force"
          /\ Exit(p, Result("exists", "none", FALSE))
       \/ /\ ~there \/ (kind[p] = "force" /\ files[target[p]] # "link")
          /\ Goto(p, "lstat", "open")
          /\ UNCHANGED <<pos, fw, target, result, log>>
    /\ UNCHANGED <<disk, world, kind, at, since, wrote, shared, replaced>>

Sharing(p) ==
    \E q \in Procs \ {p} : target[q] = target[p] /\ pc[q] \in {"write", "rename"}

\* Mutant of Open: the file itself is opened.
MutOpen(p) ==
    /\ Goto(p, "open", "write")
    /\ files' = [files EXCEPT ![target[p]] = "half"]
    /\ at' = [at EXCEPT ![p] = "dest"]
    /\ UNCHANGED <<tmp, world, kind, pos, fw, target, result, history>>

\* os.WriteFile creates or truncates <path>.tmp ...
Open(p) ==
    /\ Goto(p, "open", "write")
    /\ tmp' = [tmp EXCEPT ![target[p]] = "half"]
    /\ at' = [at EXCEPT ![p] = "tmp"]
    /\ shared' = IF Sharing(p) THEN shared \cup {target[p]} ELSE shared
    /\ UNCHANGED <<files, world, kind, pos, fw, target, result, since, wrote, replaced, log>>

Text(p) == IF target[p] = "toml" THEN "template" ELSE fw[p]

\* ... and writes from its start: over a longer text of another process the
\* tail of that one remains.
Over(text, old) == IF old \in {"half", text} THEN {text} ELSE {text, "mixed"}

Write(p) ==
    LET t == target[p] IN
    /\ Goto(p, "write", "rename")
    /\ \/ /\ at[p] = "tmp"
          /\ \E c \in Over(Text(p), tmp[t]) : tmp' = [tmp EXCEPT ![t] = c]
          /\ UNCHANGED <<files, since>>
       \/ /\ at[p] = "dest"
          /\ \E c \in Over(Text(p), files[t]) : files' = [files EXCEPT ![t] = c]
          /\ since' = Changed(t)
          /\ UNCHANGED tmp
       \/ at[p] = "gone" /\ UNCHANGED <<disk, since>>
    /\ at' = [at EXCEPT ![p] = "none"]
    /\ UNCHANGED <<world, kind, pos, fw, target, result, wrote, shared, replaced, log>>

\* Disk full, permission denied: what was written of <path>.tmp stays.
WriteFails(p) ==
    /\ pc[p] \in {"open", "write"} /\ faults < MaxFaults
    /\ faults' = faults + 1
    /\ Fail(p)
    /\ at' = [at EXCEPT ![p] = "none"]
    /\ UNCHANGED <<disk, project, edits, kind, since, wrote, shared, replaced>>

\* eject goes on to the .dockerignore.
Rename(p) ==
    LET t == target[p] IN
    /\ pc[p] = "rename" /\ tmp[t] # "missing"
    /\ files' = [files EXCEPT ![t] = tmp[t]]
    /\ tmp' = [tmp EXCEPT ![t] = "missing"]
    /\ since' = [Changed(t) EXCEPT ![p] = since[p]]
    /\ wrote' = [wrote EXCEPT ![p] = @ \cup {t}]
    /\ replaced' = IF Remember # {} /\ kind[p] # "force" /\ Present(t)
                   THEN replaced \cup {t} ELSE replaced
    /\ at' = Moved(p, t)
    /\ \/ /\ t = "Dockerfile"
          /\ Goto(p, "rename", "lstat")
          /\ target' = [target EXCEPT ![p] = "ignore"]
          /\ UNCHANGED <<pos, fw, result, log>>
       \/ t # "Dockerfile" /\ Exit(p, Result("ok", fw[p], FALSE))
    /\ UNCHANGED <<world, kind, shared>>

\* Another process has renamed the file first, or the rename cannot be done.
RenameFails(p) ==
    /\ Goto(p, "rename", "remove")
    /\ IF tmp[target[p]] = "missing" THEN faults' = faults
       ELSE faults < MaxFaults /\ faults' = faults + 1
    /\ UNCHANGED <<disk, project, edits, kind, pos, fw, target, at, result, history>>

\* Whatever is by now under the temporary name is removed.
Remove(p) ==
    LET t == target[p] IN
    /\ pc[p] = "remove"
    /\ tmp' = [tmp EXCEPT ![t] = "missing"]
    /\ at' = Dropped(t, "tmp")
    /\ Fail(p)
    /\ UNCHANGED <<files, world, kind, since, wrote, shared, replaced>>

-----------------------------------------------------------------------------
\* The process is killed.
Crash(p) ==
    /\ pc[p] # "idle" /\ faults < MaxFaults
    /\ faults' = faults + 1
    /\ Exit(p, NoResult)
    /\ at' = [at EXCEPT ![p] = "none"]
    /\ UNCHANGED <<disk, project, edits, kind, since, wrote, shared, replaced>>

MayContain(f) == {"missing"} \cup
    (IF f \in {"toml", "yaml"} THEN {"config", "dockerfile config", "invalid"}
     ELSE {"own", "link"})

\* The user writes, links or removes a file.
Edit(f, content) ==
    /\ edits < MaxEdits /\ content # files[f]
    /\ edits' = edits + 1
    /\ files' = [files EXCEPT ![f] = content]
    /\ at' = Dropped(f, "dest")
    /\ since' = Changed(f)
    /\ UNCHANGED <<project, tmp, faults, pc, kind, pos, fw, target, result, wrote, shared, replaced, log>>

Step(p) ==
    \/ ReadConfig(p) \/ Look(p) \/ ReadOptions(p)
    \/ Lstat(p) \/ Open(p) \/ Write(p) \/ WriteFails(p)
    \/ Rename(p) \/ RenameFails(p) \/ Remove(p)

Next ==
    \/ \E p \in Procs : Step(p) \/ Crash(p)
    \/ \E p \in Procs, k \in Kinds : Call(p, k)
    \/ \E f \in Files : \E content \in MayContain(f) : Edit(f, content)

Spec == Init /\ [][Next]_vars

-----------------------------------------------------------------------------
(* Properties.                                                             *)

(* A command replaces a file that was there when it began, and has not     *)
(* changed since, only if it was told to (--force), and never a symbolic   *)
(* link: writeProjectFile decides this steps before it writes.  (Of a file *)
(* that appears between its Lstat and its Rename see OnlyForceOverwrites.)  *)
ExistingKept ==
    \A p \in Procs : \A s \in since[p] :
        s[1] \in wrote[p] => kind[p] = "force" /\ s[2] # "link"

(* A project file is a whole text, whatever is killed, fails or is edited  *)
(* by the user: only two commands that write the same file at the same     *)
(* time, through the one <path>.tmp, can leave it empty or mixed.  And when *)
(* no command runs any more and nothing but commands has happened, the     *)
(* files of eject are whole even then, and what a successful command has   *)
(* written is there: one that loses the race for the temporary file cleans *)
(* up without harm to the winner.                                          *)
WholeFiles ==
    /\ \A t \in Targets : files[t] \in {"half", "mixed"} => t \in shared
    /\ faults = 0 /\ edits = 0 /\ (\A p \in Procs : pc[p] = "idle") =>
          /\ \A t \in {"Dockerfile", "ignore"} : files[t] \notin {"half", "mixed"}
          /\ \A p \in Procs : result[p].what = "ok" => \A t \in wrote[p] : Present(t)

\* What a run that found the config c has to answer.
Decided(p, c) ==
    CASE c \notin ValidConfigs -> {Result("error", "none", FALSE)}
      [] kind[p] \in {"detect", "build", "dockerfile"} /\ c = "config" ->
            {Result("ok", "configured", kind[p] = "dockerfile")}
      [] kind[p] \in {"detect", "build", "dockerfile"} /\ c = "dockerfile config" ->
            {Result("ok", "dockerfile", FALSE)}
      [] OTHER -> {r \in Results : r.what \in {"error", "exists", "nothing"}} \cup
                  {Result("ok", "configured", FALSE)}

(* A docksmith.toml that stays as it is during a call decides its outcome: *)
(* an invalid one is an error, never passed over in silence for detection  *)
(* or for docksmith.yaml, and a valid one gives the framework, and to      *)
(* dockerfile and plan, which read it twice, the options that go with it.  *)
ConfigDecides ==
    \A p \in Procs : \A s \in since[p] :
        s[1] = "toml" /\ result[p].what # "none" => result[p] \in Decided(p, s[2])

-----------------------------------------------------------------------------
(* What documents of the repository say, of the runs in `log`.             *)

(* README: "Add detection for any framework with a YAML file in            *)
(* ~/.docksmith/frameworks/": a project such a file recognises, and which  *)
(* has neither config nor Dockerfile, is not taken for a static site.      *)
HomeDefinitionsDetect ==
    project = "home" => \A run \in log :
        run.kind = "detect" /\ run.since = {} => run.result.fw # "static"

(* README: "Run `docksmith init` to generate a config pre-filled from      *)
(* detection": what init has written is a config the commands accept.      *)
InitConfigWorks ==
    \A run \in log : <<"toml", "template">> \in run.since => run.result.what # "error"

(* The help text of --force: "overwrite existing Dockerfile and            *)
(* .dockerignore".                                                         *)
ForceOverwrites ==
    \A run \in log :
        /\ run.kind = "force" /\ \E c \in Contents : <<"Dockerfile", c>> \in run.since
        /\ \A s \in run.since : s[1] \in {"Dockerfile", "ignore"} /\ s[2] # "link"
        => run.result.what # "nothing"

(* README: "Create `docksmith.toml` in your project root to override       *)
(* detected defaults": also for build.                                     *)
BuildHonoursConfig ==
    \A run \in log :
        run.kind = "build" /\ <<"toml", "config">> \in run.since => run.result.overridden

(* init.go: "docksmith.toml already exists at %s": no command overwrites a *)
(* file unless --force asks for it, and so whatever is in place when it    *)
(* renames its own stays, also what was created after it had looked.       *)
OnlyForceOverwrites == replaced = {}

(* At least one of the five holds.                                         *)
SomeDocumentedCommandHolds ==
    \/ HomeDefinitionsDetect \/ InitConfigWorks
    \/ ForceOverwrites \/ BuildHonoursConfig \/ OnlyForceOverwrites
=============================================================================
