-------------------------- MODULE FrameworkInstall --------------------------
(***************************************************************************)
(* Framework definitions that come from the registry: InstallFramework of  *)
(* registry/registry.go and the three callers of it, which are different   *)
(* processes sharing ~/.docksmith/frameworks without a lock:               *)
(*   "install"    docksmith registry install      (execInstall)            *)
(*   "auto"       docksmith detect --auto-install (maybeRegistryInstall)   *)
(*   "autofetch"  DetectWithOptions with the callback of NewAutoFetch      *)
(* The project detected is one no built-in but "static" recognises; a      *)
(* definition recognises it iff its name is in Hits.                       *)
(***************************************************************************)
EXTENDS Naturals

CONSTANTS Procs, Names,
          Position,    \* of each name's file in what ReadDir lists
          Hits,
          Kinds,       \* the calls made in an instance
          AtFirst,     \* what the directory may hold at first
          Refused,     \* the published files that LoadFrameworkDefs refuses
          MaxVersion, MaxEdits,
          Mine, Bad,   \* a file the user wrote: a definition, a broken one
          Altered,     \* bytes that are no version of the framework
          Torn, Missing, NoEntry

Versions == 1..MaxVersion
Whole == Versions \cup {Mine}
FileContents == Whole \cup {Bad, Altered, Torn, Missing}
IndexEntries == [name : Names, sha : Versions]

ASSUME InstallAssumption ==
    /\ MaxVersion \in Nat \ {0} /\ MaxEdits \in Nat
    /\ Position \in [Names -> Nat] /\ Hits \subseteq Names
    /\ \A n \in Names : \A m \in Names \ {n} : Position[n] # Position[m]
    /\ Kinds \subseteq {"install", "auto", "autofetch"}
    /\ AtFirst \subseteq [Names -> {Mine, Bad, Missing}]
    /\ Refused \subseteq IndexEntries

ASSUME SentinelAssumption ==
    /\ {Bad, Altered, Torn, Missing} \cap Whole = {} /\ Mine \notin Versions
    /\ Names \cap {"none", "static", "nothing", "installed", "already", "error"} = {}

VARIABLES
    files,    \* ~/.docksmith/frameworks/<name>.yaml
    server,   \* the version of each framework its URL serves
    edits,    \* how often the user changed the directory
    spoilt,   \* history: the names a refused file has been installed under
    pc,
    call,     \* the call of each process
    entry,    \* the index entry it installs
    tmp,      \* the verified download, then in a temporary file
    left,     \* the names of the files LoadFrameworkDefs has still to read
    loaded,   \* the names of the definitions it has read
    errs,     \* a file could not be read or parsed
    result

vars == <<files, server, edits, spoilt, pc, call, entry, tmp, left, loaded, errs, result>>
world == <<server, edits, spoilt>>
loading == <<left, loaded, errs>>

\* History: the directory held no broken file when the call began (`sound`),
\* and the call installed a definition of the project (`installed`).
Calls == [kind : {"install", "auto", "autofetch"}, force : BOOLEAN,
          sound : BOOLEAN, installed : BOOLEAN]
NoCall == [kind |-> "install", force |-> FALSE, sound |-> FALSE, installed |-> FALSE]

\* A call ends with a framework's name, with "static" (the CLI), "nothing"
\* (nil, nil of the callback), "installed", "already" or "error".
Answers == Names \cup {"none", "static", "nothing", "installed", "already", "error"}

Init ==
    /\ files \in AtFirst
    /\ server = [n \in Names |-> 1]
    /\ edits = 0 /\ spoilt = {}
    /\ pc = [p \in Procs |-> "idle"]
    /\ call = [p \in Procs |-> NoCall]
    /\ entry = [p \in Procs |-> NoEntry]
    /\ tmp = [p \in Procs |-> Missing]
    /\ left = [p \in Procs |-> {}]
    /\ loaded = [p \in Procs |-> {}]
    /\ errs = [p \in Procs |-> FALSE]
    /\ result = [p \in Procs |-> "none"]

Goto(p, from, to) == pc[p] = from /\ pc' = [pc EXCEPT ![p] = to]

Return(p, answer) ==
    /\ pc' = [pc EXCEPT ![p] = "idle"]
    /\ result' = [result EXCEPT ![p] = answer]
    /\ entry' = [entry EXCEPT ![p] = NoEntry]
    /\ left' = [left EXCEPT ![p] = {}]
    /\ loaded' = [loaded EXCEPT ![p] = {}]
    /\ errs' = [errs EXCEPT ![p] = FALSE]

\* What each caller makes of a registry that does not help.
GiveUp(p) ==
    Return(p, CASE call[p].kind = "install" -> "error"
                [] call[p].kind = "auto" -> "static"
                [] OTHER -> "nothing")

-----------------------------------------------------------------------------
Call(p, kind, force) ==
    /\ Goto(p, "idle", "index")
    /\ call' = [call EXCEPT ![p] = [kind |-> kind, force |-> force,
                                    sound |-> \A n \in Names : files[n] # Bad, installed |-> FALSE]]
    /\ result' = [result EXCEPT ![p] = "none"]
    /\ UNCHANGED <<files, world, entry, tmp, loading>>

\* FetchIndex and Search, or findEntry.  The index may be a cached one, so
\* its checksum may be that of an older version than the URL now serves.
FindEntry(p, e) ==
    /\ Goto(p, "index", IF call[p].kind = "autofetch"
                           \/ (call[p].kind = "install" /\ ~call[p].force)
                        THEN "check" ELSE "fetch")
    /\ e.sha <= server[e.name]
    /\ entry' = [entry EXCEPT ![p] = e]
    /\ UNCHANGED <<files, world, call, tmp, loading, result>>

\* No index, or no entry that fits.
NoMatch(p) ==
    /\ pc[p] = "index"
    /\ GiveUp(p)
    /\ UNCHANGED <<files, world, call, tmp>>

Dest(p) == entry[p].name

\* alreadyInstalled, and the Stat of execInstall.
CheckInstalled(p) ==
    /\ pc[p] = "check"
    /\ \/ /\ files[Dest(p)] # Missing
          /\ Return(p, IF call[p].kind = "install" THEN "already" ELSE "nothing")
       \/ /\ files[Dest(p)] = Missing
          /\ Goto(p, "check", IF call[p].kind = "install" THEN "fetch" ELSE "confirm")
          /\ UNCHANGED <<entry, loading, result>>
    /\ UNCHANGED <<files, world, call, tmp>>

\* ConfirmInstall, when interactive.
Confirm(p) ==
    /\ pc[p] = "confirm"
    /\ \/ GiveUp(p)
       \/ Goto(p, "confirm", "fetch") /\ UNCHANGED <<entry, loading, result>>
    /\ UNCHANGED <<files, world, call, tmp>>

-----------------------------------------------------------------------------
(* InstallFramework.                                                       *)

\* Mutant of Verified: the checksum is not compared.
MutVerified(p, data) == TRUE

Verified(p, data) == data = entry[p].sha

\* The body is the version served now, or altered on its way.
Fetch(p, data) ==
    /\ pc[p] = "fetch"
    /\ data \in {server[Dest(p)], Altered}
    /\ Verified(p, data)
    /\ Goto(p, "fetch", "write")
    /\ tmp' = [tmp EXCEPT ![p] = data]
    /\ UNCHANGED <<files, world, call, entry, loading, result>>

\* No answer, or a checksum that does not match.
FetchFails(p) ==
    /\ pc[p] = "fetch"
    /\ GiveUp(p)
    /\ UNCHANGED <<files, world, call, tmp>>

\* Mutant of WriteTemp: the destination itself is opened and then written.
MutWriteTemp(p) ==
    /\ Goto(p, "write", "rename")
    /\ files' = [files EXCEPT ![Dest(p)] = Torn]
    /\ UNCHANGED <<world, call, entry, tmp, loading, result>>

\* CreateTemp, Write and Close.  The name .tmp-* is not that of a YAML
\* file, so no LoadFrameworkDefs reads it.
WriteTemp(p) ==
    /\ Goto(p, "write", "rename")
    /\ UNCHANGED <<files, world, call, entry, tmp, loading, result>>

\* What was verified is put in place, whether or not it can be loaded.
Rename(p) ==
    /\ pc[p] = "rename"
    /\ files' = [files EXCEPT ![Dest(p)] = tmp[p]]
    /\ spoilt' = spoilt \cup {n \in {Dest(p)} : [name |-> n, sha |-> tmp[p]] \in Refused}
    /\ tmp' = [tmp EXCEPT ![p] = Missing]
    /\ call' = [call EXCEPT ![p].installed = Dest(p) \in Hits]
    /\ \/ call[p].kind = "install" /\ Return(p, "installed")
       \/ call[p].kind # "install" /\ Goto(p, "rename", "list") /\ UNCHANGED <<entry, loading, result>>
    /\ UNCHANGED <<server, edits>>

WriteFails(p) ==
    /\ pc[p] \in {"write", "rename"}
    /\ tmp' = [tmp EXCEPT ![p] = Missing]
    /\ GiveUp(p)
    /\ UNCHANGED <<files, world, call>>

-----------------------------------------------------------------------------
(* LoadFrameworkDefs on the whole directory, and the second detection.     *)

List(p) ==
    /\ Goto(p, "list", "read")
    /\ left' = [left EXCEPT ![p] = {n \in Names : files[n] # Missing}]
    /\ loaded' = [loaded EXCEPT ![p] = {}]
    /\ errs' = [errs EXCEPT ![p] = FALSE]
    /\ UNCHANGED <<files, world, call, entry, tmp, result>>

FirstListed(n, names) == n \in names /\ \A m \in names : Position[n] <= Position[m]
LastListed(n, names) == n \in names /\ \A m \in names : Position[m] <= Position[n]

\* The file parses and names a framework.
Loads(n) == files[n] \in Whole /\ [name |-> n, sha |-> files[n]] \notin Refused

Read(p) ==
    /\ pc[p] = "read"
    /\ \E n \in left[p] :
        /\ FirstListed(n, left[p])
        /\ left' = [left EXCEPT ![p] = @ \ {n}]
        /\ \/ /\ Loads(n)
              /\ loaded' = [loaded EXCEPT ![p] = @ \cup {n}]
              /\ errs' = errs
           \/ /\ ~Loads(n)
              /\ errs' = [errs EXCEPT ![p] = TRUE]
              /\ loaded' = loaded
    /\ UNCHANGED <<files, world, pc, call, entry, tmp, result>>

Matching(p) == loaded[p] \cap Hits

\* Mutant of Redetect: the answer is a detector's name, which begins with "yaml:".
MutRedetect(p) ==
    /\ pc[p] = "read" /\ left[p] = {} /\ call[p].kind = "auto"
    /\ Return(p, IF Matching(p) = {} THEN "static" ELSE "yaml:")
    /\ UNCHANGED <<files, world, call, tmp>>

\* maybeRegistryInstall: errors are only warned about.  Every definition is
\* registered by prepending, so the last one listed is asked first.
Redetect(p) ==
    /\ pc[p] = "read" /\ left[p] = {} /\ call[p].kind = "auto"
    /\ \/ Matching(p) = {} /\ Return(p, "static")
       \/ \E n \in Names : LastListed(n, Matching(p)) /\ Return(p, n)
    /\ UNCHANGED <<files, world, call, tmp>>

\* Mutant of Evaluate: only the first definition loaded is evaluated.
MutEvaluate(p) ==
    /\ pc[p] = "read" /\ left[p] = {} /\ call[p].kind = "autofetch"
    /\ \/ errs[p] /\ Return(p, "error")
       \/ ~errs[p] /\ loaded[p] = {} /\ Return(p, "nothing")
       \/ ~errs[p] /\ \E n \in Names : FirstListed(n, loaded[p])
                       /\ Return(p, IF n \in Hits THEN n ELSE "nothing")
    /\ UNCHANGED <<files, world, call, tmp>>

\* loadInstalledAndDetect: any error ends it; else the first match listed.
Evaluate(p) ==
    /\ pc[p] = "read" /\ left[p] = {} /\ call[p].kind = "autofetch"
    /\ \/ errs[p] /\ Return(p, "error")
       \/ ~errs[p] /\ Matching(p) = {} /\ Return(p, "nothing")
       \/ ~errs[p] /\ \E n \in Names : FirstListed(n, Matching(p)) /\ Return(p, n)
    /\ UNCHANGED <<files, world, call, tmp>>

-----------------------------------------------------------------------------
(* The world around the processes.                                         *)

\* The process is killed.  The temporary file stays in the directory, where
\* neither a loader nor another process ever reads it.
Crash(p) ==
    /\ pc[p] # "idle"
    /\ Return(p, "none")
    /\ tmp' = [tmp EXCEPT ![p] = Missing]
    /\ UNCHANGED <<files, world, call>>

Publish(n) ==
    /\ server[n] < MaxVersion
    /\ server' = [server EXCEPT ![n] = @ + 1]
    /\ UNCHANGED <<files, edits, spoilt, pc, call, entry, tmp, loading, result>>

\* The user writes, breaks or removes a file of the directory.
Edit(n, content) ==
    /\ edits < MaxEdits /\ content # files[n]
    /\ edits' = edits + 1
    /\ files' = [files EXCEPT ![n] = content]
    /\ UNCHANGED <<server, spoilt, pc, call, entry, tmp, loading, result>>

Step(p) ==
    \/ NoMatch(p) \/ CheckInstalled(p) \/ Confirm(p)
    \/ \E e \in IndexEntries : FindEntry(p, e)
    \/ \E data \in Versions \cup {Altered} : Fetch(p, data)
    \/ FetchFails(p) \/ WriteTemp(p) \/ Rename(p) \/ WriteFails(p)
    \/ List(p) \/ Read(p) \/ Redetect(p) \/ Evaluate(p)

Next ==
    \/ \E p \in Procs : Step(p) \/ Crash(p)
    \/ \E p \in Procs, kind \in Kinds : Call(p, kind, FALSE)
    \/ \E p \in Procs : "install" \in Kinds /\ Call(p, "install", TRUE)
    \/ \E n \in Names : Publish(n)
    \/ \E n \in Names, content \in {Mine, Bad, Missing} : Edit(n, content)

Spec == Init /\ [][Next]_vars

-----------------------------------------------------------------------------
(* Properties.                                                             *)

TypeOK ==
    /\ files \in [Names -> FileContents]
    /\ server \in [Names -> Versions]
    /\ edits \in 0..MaxEdits
    /\ spoilt \in SUBSET Names
    /\ pc \in [Procs -> {"idle", "index", "check", "confirm", "fetch",
                         "write", "rename", "list", "read"}]
    /\ call \in [Procs -> Calls]
    /\ entry \in [Procs -> IndexEntries \cup {NoEntry}]
    /\ tmp \in [Procs -> FileContents]
    /\ left \in [Procs -> SUBSET Names]
    /\ loaded \in [Procs -> SUBSET Names]
    /\ errs \in [Procs -> BOOLEAN]
    /\ result \in [Procs -> Answers]

(* A framework file is the user's or, whole, a version that was published  *)
(* for that name: a partial or an altered download is never in place, no   *)
(* matter how stale the index is, who else installs, or who crashes.       *)
OnlyVerifiedInPlace ==
    \A n \in Names : files[n] \in {Mine, Bad, Missing} \cup 1..server[n]

(* autofetch.go: the callback "returns (nil, nil) on miss or network       *)
(* failure".  A download that fails, is altered or is in progress, its own *)
(* or another process's, is never an error: that takes a file the user has *)
(* broken or changed, or one the registry published broken, which is put   *)
(* in place unparsed and fails every callback that loads the directory.    *)
AutoFetchFailsSoft ==
    edits = 0 /\ spoilt = {} => \A p \in Procs :
        call[p].kind = "autofetch" /\ call[p].sound => result[p] # "error"

(* A call that has just installed a definition of the project, and ends,   *)
(* reports a framework for it, whatever other processes install meanwhile. *)
(* The CLI does so past any broken file that is not itself a definition of *)
(* the project; the callback, if every file in the directory can be loaded. *)
InstalledIsDetected ==
    edits = 0 => \A p \in Procs :
        /\ call[p].installed
        /\ \/ call[p].kind = "auto" /\ spoilt \cap Hits = {}
           \/ call[p].sound /\ spoilt = {}
        => result[p] \in Names \cup {"none", "installed"}
=============================================================================
