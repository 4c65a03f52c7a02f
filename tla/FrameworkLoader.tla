--------------------------- MODULE FrameworkLoader ---------------------------
(***************************************************************************)
(* LoadAndRegisterFrameworks of yaml.go with LoadFrameworkDefs of          *)
(* yamldef/loader.go: YAML definitions read from directories, file by      *)
(* file, and registered as detectors.  Meanwhile other programs (an        *)
(* editor, `docksmith registry install`) change the same directories.      *)
(***************************************************************************)
EXTENDS Naturals, RegistryOps

CONSTANTS Dirs, Files,
          Position,   \* of each file in what ReadDir lists, which is by name
          Defs,       \* the definitions a file can hold
          Priority,   \* the priority field of each
          Builtin,    \* the registry before the first load
          Loads,      \* argument lists of LoadAndRegisterFrameworks
          Disks,      \* what the directories hold at first
          Edits,      \* what other programs may make of a directory
          NoDir, Bad, MaxEdits, MaxCalls

\* A directory's YAML files; Bad is one that does not parse or has no name.
Contents == UNION {[S -> Defs \cup {Bad}] : S \in SUBSET Files}

ASSUME LoaderAssumption ==
    /\ Dirs # {} /\ Defs \subseteq Entries /\ Builtin \in Seq(Entries \ Defs)
    /\ Loads \subseteq Seq(Dirs)
    /\ Disks \subseteq [Dirs -> Contents \cup {NoDir}] /\ Edits \subseteq Contents \cup {NoDir}
    /\ Position \in [Files -> Nat]
    /\ \A f \in Files : \A g \in Files \ {f} : Position[f] # Position[g]

VARIABLES disk, edits, calls,
          detectors,
          pc,
          args, todo,   \* the dirs of the call, and those not yet loaded
          dir, files,   \* the directory being read, its files not yet read
          defs,         \* what has been read and not yet registered
          errs,         \* some directory or file failed
          outcome,      \* what the last call returned
          steady        \* history: files left alone since the call began

vars == <<disk, edits, calls, detectors, pc, args, todo, dir, files, defs, errs,
          outcome, steady>>
caller == <<calls, args>>

FilesOf(d) == IF disk[d] = NoDir THEN {} ELSE DOMAIN disk[d]

Init ==
    /\ disk \in Disks /\ edits = 0 /\ calls = 0
    /\ detectors = Builtin
    /\ pc = "idle" /\ args = <<>> /\ todo = <<>>
    /\ dir = (CHOOSE d \in Dirs : TRUE) /\ files = {} /\ defs = <<>>
    /\ errs = FALSE /\ outcome = "none"
    /\ steady = {}

Call(ds) ==
    /\ pc = "idle" /\ calls < MaxCalls
    /\ pc' = "dir" /\ calls' = calls + 1
    /\ args' = ds /\ todo' = ds
    /\ errs' = FALSE /\ outcome' = "none"
    /\ steady' = Dirs \X Files
    /\ UNCHANGED <<disk, edits, detectors, dir, files, defs>>

\* os.Stat: a directory that does not exist is skipped without an error.
SkipMissing ==
    /\ pc = "dir" /\ todo # <<>>
    /\ dir' = Head(todo) /\ todo' = Tail(todo)
    /\ pc' = IF disk[Head(todo)] = NoDir THEN "dir" ELSE "list"
    /\ UNCHANGED <<disk, edits, caller, detectors, files, defs, errs, outcome, steady>>

\* os.ReadDir, which fails when the directory has gone since.
List ==
    /\ pc = "list"
    /\ \/ disk[dir] = NoDir /\ errs' = TRUE /\ pc' = "dir" /\ files' = {}
       \/ /\ disk[dir] # NoDir
          /\ pc' = "file" /\ errs' = errs
          /\ files' = FilesOf(dir)
    /\ UNCHANGED <<disk, edits, caller, detectors, todo, dir, defs, outcome, steady>>

FirstListed(f) == f \in files /\ \A g \in files : Position[f] <= Position[g]

\* Mutant of BadFile: the rest of the directory is not read.
MutBadFile ==
    /\ pc = "file"
    /\ \E f \in Files : FirstListed(f) /\ (f \in FilesOf(dir) => disk[dir][f] = Bad)
    /\ errs' = TRUE /\ files' = {}
    /\ UNCHANGED <<disk, edits, caller, detectors, pc, todo, dir, defs, outcome, steady>>

\* A file that has gone, does not parse or has no name is noted and skipped.
BadFile ==
    /\ pc = "file"
    /\ \E f \in Files :
          /\ FirstListed(f)
          /\ f \in FilesOf(dir) => disk[dir][f] = Bad
          /\ errs' = TRUE /\ files' = files \ {f}
    /\ UNCHANGED <<disk, edits, caller, detectors, pc, todo, dir, defs, outcome, steady>>

\* Mutant of GoodFile: a definition without a name is accepted.
MutGoodFile ==
    /\ pc = "file"
    /\ \E f \in FilesOf(dir) :
          /\ FirstListed(f)
          /\ defs' = Append(defs, disk[dir][f]) /\ files' = files \ {f}
    /\ UNCHANGED <<disk, edits, caller, detectors, pc, todo, dir, errs, outcome, steady>>

GoodFile ==
    /\ pc = "file"
    /\ \E f \in FilesOf(dir) :
          /\ FirstListed(f) /\ disk[dir][f] # Bad
          /\ defs' = Append(defs, disk[dir][f]) /\ files' = files \ {f}
    /\ UNCHANGED <<disk, edits, caller, detectors, pc, todo, dir, errs, outcome, steady>>

\* The definitions of a directory are registered once all are read.
Register ==
    /\ pc = "file" /\ files = {}
    /\ \/ /\ defs # <<>>
          /\ detectors' = Prepend(detectors, Head(defs))
          /\ defs' = Tail(defs) /\ pc' = pc
       \/ defs = <<>> /\ pc' = "dir" /\ UNCHANGED <<detectors, defs>>
    /\ UNCHANGED <<disk, edits, caller, todo, dir, files, errs, outcome, steady>>

Return ==
    /\ pc = "dir" /\ todo = <<>>
    /\ pc' = "idle"
    /\ outcome' = IF errs THEN "error" ELSE "ok"
    /\ UNCHANGED <<disk, edits, caller, detectors, todo, dir, files, defs, errs, steady>>

\* Another program replaces, adds, breaks or removes files of a directory,
\* or the directory itself.
Edit(d, content) ==
    /\ edits < MaxEdits /\ edits' = edits + 1
    /\ content # disk[d]
    /\ disk' = [disk EXCEPT ![d] = content]
    /\ steady' = {s \in steady : s[1] # d
                    \/ (content # NoDir /\ s[2] \in FilesOf(d) \cap DOMAIN content
                          /\ disk[d][s[2]] = content[s[2]])}
    /\ UNCHANGED <<caller, detectors, pc, todo, dir, files, defs, errs, outcome>>

Next ==
    \/ \E ds \in Loads : Call(ds)
    \/ SkipMissing \/ List \/ BadFile \/ GoodFile \/ Register \/ Return
    \/ \E d \in Dirs, content \in Edits : Edit(d, content)

Spec == Init /\ [][Next]_vars

-----------------------------------------------------------------------------
(* Properties.                                                             *)

TypeOK ==
    /\ disk \in [Dirs -> Contents \cup {NoDir}]
    /\ detectors \in Seq(Entries)
    /\ pc \in {"idle", "dir", "list", "file"}
    /\ args \in Seq(Dirs) /\ todo \in Seq(Dirs) /\ dir \in Dirs
    /\ files \subseteq Files /\ defs \in Seq(Defs)
    /\ errs \in BOOLEAN /\ outcome \in {"none", "ok", "error"}
    /\ steady \subseteq Dirs \X Files

\* The files the call was given and found as they are now.
Given(d, f) == d \in ToSet(args) /\ <<d, f>> \in steady /\ f \in FilesOf(d)

(* A definition in a file nobody touched during the call is registered,    *)
(* whatever is wrong with the other files and directories, also when they  *)
(* change or vanish while they are read; and no broken file is passed over *)
(* in silence, in whichever directory of the call it is.                   *)
EveryFileAccountedFor ==
    \A d \in Dirs, f \in Files :
        Given(d, f) =>
            /\ outcome # "none" /\ disk[d][f] # Bad => disk[d][f] \in ToSet(detectors)
            /\ outcome = "ok" => disk[d][f] # Bad

-----------------------------------------------------------------------------
(* What comments and documents of the repository say.                      *)

\* e is what answers for a project that both e and f recognise.
Beats(e, f) == FirstMatch(detectors, {e, f}) = e

(* yaml.go: "the last dir passed has lowest YAML priority", and types.go:  *)
(* "Priority controls detection order; higher values win".  Both say that  *)
(* of two definitions the one from an earlier directory that also has the  *)
(* higher priority is the one that answers.                                *)
DocumentedPriority ==
    outcome = "ok" /\ calls = 1 /\ Len(args) = 2 =>
        \A f, g \in Files :
            LET e == disk[args[1]][f]
                h == disk[args[2]][g]
            IN  Given(args[1], f) /\ Given(args[2], g) /\ Priority[e] > Priority[h]
                  => Beats(e, h)
=============================================================================
