----------------------- MODULE FrameworkInstall_proofs -----------------------
(***************************************************************************)
(* What holds of framework installation for any number of processes, any   *)
(* registry, any directory to begin with and any number of edits.          *)
(***************************************************************************)
EXTENDS FrameworkInstall, TLAPS

-----------------------------------------------------------------------------
(* The inductive invariant.                                                *)

\* Past findEntry a call has an index entry, whose checksum is that of a
\* version published before; what waits to be renamed has that checksum.
EntryInv == \A p \in Procs :
    /\ pc[p] \notin {"idle", "index"} =>
          entry[p] \in IndexEntries /\ entry[p].sha <= server[Dest(p)]
    /\ pc[p] \in {"write", "rename"} => tmp[p] = entry[p].sha

\* A call under way has returned nothing, and has installed a definition
\* of the project only when it is past the rename.
CallInv == \A p \in Procs :
    /\ pc[p] # "idle" => result[p] = "none"
    /\ call[p].installed => pc[p] \in {"idle", "list", "read"}
    /\ call[p].installed /\ pc[p] # "idle" => Dest(p) \in Hits

\* A file in place that a loader refuses although it was published has
\* spoilt its name.
LoadInv == \A n \in Names : [name |-> n, sha |-> files[n]] \in Refused => n \in spoilt

\* As long as the user leaves the directory alone, no file goes away and
\* none turns bad: what a call installed or listed is there to be read, and
\* it can be loaded unless its name is spoilt.
KeptInv == edits = 0 => \A p \in Procs :
    /\ call[p].sound => \A n \in Names : files[n] # Bad
    /\ call[p].installed /\ pc[p] # "idle" => files[Dest(p)] \in Versions
    /\ \A n \in left[p] : files[n] # Missing
    /\ call[p].sound /\ spoilt = {} /\ pc[p] = "read" => ~errs[p]
    /\ call[p].installed /\ pc[p] = "read" =>
          Dest(p) \in left[p] \cup loaded[p] \cup spoilt

IInv == /\ TypeOK /\ EntryInv /\ CallInv /\ LoadInv /\ KeptInv
        /\ OnlyVerifiedInPlace /\ AutoFetchFailsSoft /\ InstalledIsDetected

-----------------------------------------------------------------------------
(* Types, and the initial state.                                           *)

\* What is no version of a framework is nothing the registry published.
LEMMA OnlyVersionsRefused ==
    ASSUME NEW n \in Names, NEW content, content \notin Versions
    PROVE  [name |-> n, sha |-> content] \notin Refused
BY InstallAssumption DEF IndexEntries

LEMMA UsersFiles == {Mine, Bad, Missing} \cap Versions = {}
BY SentinelAssumption DEF Whole

LEMMA InitIInv == Init => IInv
<1> SUFFICES ASSUME Init PROVE IInv
  OBVIOUS
<1>1. files \in [Names -> {Mine, Bad, Missing}]
  BY InstallAssumption DEF Init
<1>2. 1 \in Versions /\ 0 \in 0..MaxEdits
  BY InstallAssumption DEF Versions
<1>3. NoCall \in Calls /\ ~NoCall.sound /\ ~NoCall.installed
  BY DEF NoCall, Calls
<1>4. TypeOK
  BY <1>1, <1>2, <1>3 DEF Init, TypeOK, FileContents, Whole, Answers
<1>5. EntryInv /\ CallInv /\ KeptInv
  BY <1>3 DEF Init, EntryInv, CallInv, KeptInv
<1>51. LoadInv
  BY <1>1, UsersFiles, OnlyVersionsRefused DEF LoadInv
<1>6. OnlyVerifiedInPlace /\ AutoFetchFailsSoft /\ InstalledIsDetected
  BY <1>1, <1>3 DEF Init, OnlyVerifiedInPlace, AutoFetchFailsSoft, InstalledIsDetected
<1> QED
  BY <1>4, <1>5, <1>51, <1>6 DEF IInv

LEMMA ReturnType ==
    ASSUME TypeOK, NEW p \in Procs, NEW answer \in Answers, Return(p, answer)
    PROVE  /\ pc' \in [Procs -> {"idle", "index", "check", "confirm", "fetch",
                                 "write", "rename", "list", "read"}]
           /\ entry' \in [Procs -> IndexEntries \cup {NoEntry}]
           /\ left' \in [Procs -> SUBSET Names]
           /\ loaded' \in [Procs -> SUBSET Names]
           /\ errs' \in [Procs -> BOOLEAN]
           /\ result' \in [Procs -> Answers]
BY DEF Return, TypeOK

\* A caller that gives up returns one of three answers; only the install
\* command calls it an error.
LEMMA GivesUp ==
    ASSUME NEW p \in Procs, TypeOK, GiveUp(p)
    PROVE  \E answer \in {"error", "static", "nothing"} :
              /\ Return(p, answer)
              /\ call[p].kind = "autofetch" => answer # "error"
<1>1. CASE call[p].kind = "install"
  BY <1>1 DEF GiveUp
<1>2. CASE call[p].kind = "auto"
  BY <1>2 DEF GiveUp
<1>3. CASE call[p].kind = "autofetch"
  BY <1>3 DEF GiveUp
<1> QED
  BY <1>1, <1>2, <1>3 DEF TypeOK, Calls

LEMMA InstalledField ==
    ASSUME NEW c \in Calls, NEW b \in BOOLEAN
    PROVE  /\ [c EXCEPT !.installed = b] \in Calls
           /\ [c EXCEPT !.installed = b].kind = c.kind
           /\ [c EXCEPT !.installed = b].sound = c.sound
           /\ [c EXCEPT !.installed = b].installed = b
BY DEF Calls

LEMMA RenameRecords ==
    ASSUME TypeOK, NEW p \in Procs, Rename(p)
    PROVE  /\ call' \in [Procs -> Calls]
           /\ \A q \in Procs :
                /\ call'[q].kind = call[q].kind /\ call'[q].sound = call[q].sound
                /\ q # p => call'[q].installed = call[q].installed
           /\ call'[p].installed = (Dest(p) \in Hits)
<1> DEFINE b == Dest(p) \in Hits
<1> DEFINE new == [call[p] EXCEPT !.installed = b]
<1>0. b \in BOOLEAN
  OBVIOUS
<1> HIDE DEF b
<1>1. /\ new \in Calls /\ new.kind = call[p].kind /\ new.sound = call[p].sound
      /\ new.installed = b
  BY <1>0, InstalledField DEF TypeOK
<1>2. call' = [call EXCEPT ![p] = new]
  BY DEF Rename, b
<1> HIDE DEF new
<1> QED
  BY <1>1, <1>2 DEF TypeOK, b

LEMMA TypeStep ==
    ASSUME IInv, [Next]_vars
    PROVE  TypeOK'
<1> USE DEF IInv, TypeOK
<1>1. CASE UNCHANGED vars
  BY <1>1 DEF vars
<1>2. ASSUME NEW p \in Procs, NEW kind \in Kinds \cup {"install"}, NEW force \in BOOLEAN,
             Call(p, kind, force)
      PROVE  TypeOK'
  <2>1. kind \in {"install", "auto", "autofetch"}
    BY InstallAssumption
  <2>2. [kind |-> kind, force |-> force, sound |-> \A n \in Names : files[n] # Bad,
         installed |-> FALSE] \in Calls
    BY <2>1 DEF Calls
  <2> QED
    BY <1>2, <2>2 DEF Call, Goto, world, loading, Answers
<1>3. ASSUME NEW p \in Procs, NEW e \in IndexEntries, FindEntry(p, e)
      PROVE  TypeOK'
  BY <1>3 DEF FindEntry, Goto, world, loading
<1>4. ASSUME NEW p \in Procs, NEW data \in Versions \cup {Altered}, Fetch(p, data)
      PROVE  TypeOK'
  BY <1>4 DEF Fetch, Goto, world, loading, FileContents, Whole, Versions
<1>5. ASSUME NEW p \in Procs, NoMatch(p) PROVE TypeOK'
  BY <1>5, GivesUp, ReturnType DEF NoMatch, world, Answers
<1>6. ASSUME NEW p \in Procs, CheckInstalled(p) PROVE TypeOK'
  <2>1. CASE Return(p, IF call[p].kind = "install" THEN "already" ELSE "nothing")
    BY <1>6, <2>1, ReturnType DEF CheckInstalled, world, Answers
  <2>2. CASE Goto(p, "check", IF call[p].kind = "install" THEN "fetch" ELSE "confirm")
             /\ UNCHANGED <<entry, loading, result>>
    BY <1>6, <2>2 DEF CheckInstalled, Goto, world, loading
  <2> QED
    BY <1>6, <2>1, <2>2 DEF CheckInstalled
<1>7. ASSUME NEW p \in Procs, Confirm(p) PROVE TypeOK'
  <2>1. CASE GiveUp(p)
    BY <1>7, <2>1, GivesUp, ReturnType DEF Confirm, world, Answers
  <2>2. CASE Goto(p, "confirm", "fetch") /\ UNCHANGED <<entry, loading, result>>
    BY <1>7, <2>2 DEF Confirm, Goto, world, loading
  <2> QED
    BY <1>7, <2>1, <2>2 DEF Confirm
<1>8. ASSUME NEW p \in Procs, FetchFails(p) PROVE TypeOK'
  BY <1>8, GivesUp, ReturnType DEF FetchFails, world, Answers
<1>9. ASSUME NEW p \in Procs, WriteTemp(p) PROVE TypeOK'
  BY <1>9 DEF WriteTemp, world, Goto, loading
<1>10. ASSUME NEW p \in Procs, Rename(p) PROVE TypeOK'
  <2>1. files' \in [Names -> FileContents] /\ tmp' \in [Procs -> FileContents]
    BY <1>10 DEF Rename, FileContents
  <2>2. call' \in [Procs -> Calls] /\ spoilt' \in SUBSET Names
    <3>1. Dest(p) \in Names
      BY <1>10 DEF Rename, EntryInv, IndexEntries, Dest
    <3> QED
      BY <1>10, <3>1, RenameRecords DEF Rename
  <2>3. CASE Return(p, "installed")
    BY <1>10, <2>1, <2>2, <2>3, ReturnType DEF Rename, world, Answers
  <2>4. CASE Goto(p, "rename", "list") /\ UNCHANGED <<entry, loading, result>>
    BY <1>10, <2>1, <2>2, <2>4 DEF Rename, Goto, world, loading
  <2> QED
    BY <1>10, <2>3, <2>4 DEF Rename
<1>11. ASSUME NEW p \in Procs, WriteFails(p) PROVE TypeOK'
  BY <1>11, GivesUp, ReturnType DEF WriteFails, world, Answers, FileContents
<1>12. ASSUME NEW p \in Procs, List(p) PROVE TypeOK'
  BY <1>12 DEF List, world, Goto
<1>13. ASSUME NEW p \in Procs, Read(p) PROVE TypeOK'
  <2>1. PICK n \in left[p] : left' = [left EXCEPT ![p] = left[p] \ {n}]
                             /\ \/ loaded' = [loaded EXCEPT ![p] = loaded[p] \cup {n}] /\ errs' = errs
                                \/ errs' = [errs EXCEPT ![p] = TRUE] /\ loaded' = loaded
    BY <1>13 DEF Read
  <2>2. left' \in [Procs -> SUBSET Names] /\ loaded' \in [Procs -> SUBSET Names]
    BY <2>1
  <2>3. errs' \in [Procs -> BOOLEAN]
    BY <2>1
  <2> QED
    BY <1>13, <2>2, <2>3 DEF Read, world
<1>14. ASSUME NEW p \in Procs, Redetect(p) PROVE TypeOK'
  <2>1. \E answer \in Names \cup {"static"} : Return(p, answer)
    BY <1>14 DEF Redetect
  <2> QED
    BY <1>14, <2>1, ReturnType DEF Redetect, world, Answers
<1>15. ASSUME NEW p \in Procs, Evaluate(p) PROVE TypeOK'
  <2>1. \E answer \in Names \cup {"error", "nothing"} : Return(p, answer)
    BY <1>15 DEF Evaluate
  <2> QED
    BY <1>15, <2>1, ReturnType DEF Evaluate, world, Answers
<1>16. ASSUME NEW p \in Procs, Crash(p) PROVE TypeOK'
  BY <1>16, ReturnType DEF Crash, world, Answers, FileContents
<1>17. ASSUME NEW n \in Names, Publish(n) PROVE TypeOK'
  BY <1>17, InstallAssumption DEF Publish, loading, Versions
<1>18. ASSUME NEW n \in Names, NEW content \in {Mine, Bad, Missing}, Edit(n, content)
      PROVE  TypeOK'
  BY <1>18, InstallAssumption DEF Edit, loading, FileContents, Whole
<1> HIDE DEF IInv, TypeOK
<1> QED
  BY <1>1, <1>2, <1>3, <1>4, <1>5, <1>6, <1>7, <1>8, <1>9, <1>10, <1>11, <1>12,
     <1>13, <1>14, <1>15, <1>16, <1>17, <1>18 DEF Next, Step

-----------------------------------------------------------------------------
(* The parts of the invariant that no property states.                     *)

LEMMA EntryStep ==
    ASSUME IInv, [Next]_vars
    PROVE  EntryInv'
<1> USE DEF IInv, TypeOK, EntryInv, Dest, IndexEntries, Versions
<1>1. CASE UNCHANGED vars
  BY <1>1 DEF vars
<1>2. ASSUME NEW p \in Procs, NEW kind \in Kinds \cup {"install"}, NEW force \in BOOLEAN,
             Call(p, kind, force)
      PROVE  EntryInv'
  BY <1>2 DEF Call, Goto, world, loading
<1>3. ASSUME NEW p \in Procs, NEW e \in IndexEntries, FindEntry(p, e)
      PROVE  EntryInv'
  BY <1>3 DEF FindEntry, Goto, world, loading
<1>4. ASSUME NEW p \in Procs, NEW data \in Versions \cup {Altered}, Fetch(p, data)
      PROVE  EntryInv'
  BY <1>4 DEF Fetch, Verified, Goto, world, loading
<1>5. ASSUME NEW p \in Procs, NoMatch(p) PROVE EntryInv'
  BY <1>5, GivesUp DEF NoMatch, world, Return
<1>6. ASSUME NEW p \in Procs, CheckInstalled(p) PROVE EntryInv'
  BY <1>6 DEF CheckInstalled, world, Return, Goto, loading
<1>7. ASSUME NEW p \in Procs, Confirm(p) PROVE EntryInv'
  BY <1>7, GivesUp DEF Confirm, world, Return, Goto, loading
<1>8. ASSUME NEW p \in Procs, FetchFails(p) PROVE EntryInv'
  BY <1>8, GivesUp DEF FetchFails, world, Return
<1>9. ASSUME NEW p \in Procs, WriteTemp(p) PROVE EntryInv'
  BY <1>9 DEF WriteTemp, world, Goto, loading
<1>10. ASSUME NEW p \in Procs, Rename(p) PROVE EntryInv'
  BY <1>10 DEF Rename, world, Return, Goto, loading
<1>11. ASSUME NEW p \in Procs, WriteFails(p) PROVE EntryInv'
  BY <1>11, GivesUp DEF WriteFails, world, Return
<1>12. ASSUME NEW p \in Procs, List(p) PROVE EntryInv'
  BY <1>12 DEF List, world, Goto
<1>13. ASSUME NEW p \in Procs, Read(p) PROVE EntryInv'
  BY <1>13 DEF Read, world
<1>14. ASSUME NEW p \in Procs, Redetect(p) PROVE EntryInv'
  BY <1>14 DEF Redetect, world, Return
<1>15. ASSUME NEW p \in Procs, Evaluate(p) PROVE EntryInv'
  BY <1>15 DEF Evaluate, world, Return
<1>16. ASSUME NEW p \in Procs, Crash(p) PROVE EntryInv'
  BY <1>16 DEF Crash, world, Return
<1>17. ASSUME NEW n \in Names, Publish(n) PROVE EntryInv'
  BY <1>17 DEF Publish, loading
<1>18. ASSUME NEW n \in Names, NEW content \in {Mine, Bad, Missing}, Edit(n, content)
      PROVE  EntryInv'
  BY <1>18 DEF Edit, loading
<1> HIDE DEF IInv, TypeOK, EntryInv, Dest, IndexEntries, Versions
<1> QED
  BY <1>1, <1>2, <1>3, <1>4, <1>5, <1>6, <1>7, <1>8, <1>9, <1>10, <1>11, <1>12,
     <1>13, <1>14, <1>15, <1>16, <1>17, <1>18 DEF Next, Step

LEMMA CallStep ==
    ASSUME IInv, [Next]_vars
    PROVE  CallInv'
<1> USE DEF IInv, TypeOK, CallInv, Dest
<1>1. CASE UNCHANGED vars
  BY <1>1 DEF vars
<1>2. ASSUME NEW p \in Procs, NEW kind \in Kinds \cup {"install"}, NEW force \in BOOLEAN,
             Call(p, kind, force)
      PROVE  CallInv'
  BY <1>2 DEF Call, Goto, world, loading
<1>3. ASSUME NEW p \in Procs, NEW e \in IndexEntries, FindEntry(p, e)
      PROVE  CallInv'
  BY <1>3 DEF FindEntry, Goto, world, loading
<1>4. ASSUME NEW p \in Procs, NEW data \in Versions \cup {Altered}, Fetch(p, data)
      PROVE  CallInv'
  BY <1>4 DEF Fetch, Verified, Goto, world, loading
<1>5. ASSUME NEW p \in Procs, NoMatch(p) PROVE CallInv'
  BY <1>5, GivesUp DEF NoMatch, world, Return
<1>6. ASSUME NEW p \in Procs, CheckInstalled(p) PROVE CallInv'
  BY <1>6 DEF CheckInstalled, world, Return, Goto, loading
<1>7. ASSUME NEW p \in Procs, Confirm(p) PROVE CallInv'
  BY <1>7, GivesUp DEF Confirm, world, Return, Goto, loading
<1>8. ASSUME NEW p \in Procs, FetchFails(p) PROVE CallInv'
  BY <1>8, GivesUp DEF FetchFails, world, Return
<1>9. ASSUME NEW p \in Procs, WriteTemp(p) PROVE CallInv'
  BY <1>9 DEF WriteTemp, world, Goto, loading
<1>10. ASSUME NEW p \in Procs, Rename(p) PROVE CallInv'
  <2>1. \A q \in Procs : (q # p => call'[q].installed = call[q].installed)
    BY <1>10, RenameRecords
  <2>2. call'[p].installed = (Dest(p) \in Hits)
    BY <1>10, RenameRecords
  <2>3. CASE Return(p, "installed")
    BY <1>10, <2>1, <2>3 DEF Rename, Return
  <2>4. CASE Goto(p, "rename", "list") /\ UNCHANGED <<entry, loading, result>>
    BY <1>10, <2>1, <2>2, <2>4 DEF Rename, Goto
  <2> QED
    BY <1>10, <2>3, <2>4 DEF Rename
<1>11. ASSUME NEW p \in Procs, WriteFails(p) PROVE CallInv'
  BY <1>11, GivesUp DEF WriteFails, world, Return
<1>12. ASSUME NEW p \in Procs, List(p) PROVE CallInv'
  BY <1>12 DEF List, world, Goto
<1>13. ASSUME NEW p \in Procs, Read(p) PROVE CallInv'
  BY <1>13 DEF Read, world
<1>14. ASSUME NEW p \in Procs, Redetect(p) PROVE CallInv'
  BY <1>14 DEF Redetect, world, Return
<1>15. ASSUME NEW p \in Procs, Evaluate(p) PROVE CallInv'
  BY <1>15 DEF Evaluate, world, Return
<1>16. ASSUME NEW p \in Procs, Crash(p) PROVE CallInv'
  BY <1>16 DEF Crash, world, Return
<1>17. ASSUME NEW n \in Names, Publish(n) PROVE CallInv'
  BY <1>17 DEF Publish, loading
<1>18. ASSUME NEW n \in Names, NEW content \in {Mine, Bad, Missing}, Edit(n, content)
      PROVE  CallInv'
  BY <1>18 DEF Edit, loading
<1> HIDE DEF IInv, TypeOK, CallInv, Dest
<1> QED
  BY <1>1, <1>2, <1>3, <1>4, <1>5, <1>6, <1>7, <1>8, <1>9, <1>10, <1>11, <1>12,
     <1>13, <1>14, <1>15, <1>16, <1>17, <1>18 DEF Next, Step

LEMMA LoadStep ==
    ASSUME IInv, [Next]_vars
    PROVE  LoadInv'
<1> USE DEF IInv, TypeOK, LoadInv
<1>1. ASSUME NEW p \in Procs, Rename(p) PROVE LoadInv'
  <2>1. Dest(p) \in Names
    BY <1>1 DEF Rename, EntryInv, IndexEntries, Dest
  <2> QED
    BY <1>1, <2>1 DEF Rename
<1>2. ASSUME NEW n \in Names, NEW content \in {Mine, Bad, Missing}, Edit(n, content)
      PROVE  LoadInv'
  BY <1>2, UsersFiles, OnlyVersionsRefused DEF Edit
<1>3. CASE UNCHANGED <<files, spoilt>>
  BY <1>3
<1> HIDE DEF IInv, TypeOK, LoadInv
<1>4. ASSUME NEW p \in Procs, Step(p) \/ Crash(p)
      PROVE  UNCHANGED <<files, spoilt>> \/ Rename(p)
  BY <1>4 DEF Step, world, FindEntry, NoMatch, CheckInstalled, Confirm, Fetch, FetchFails,
              WriteTemp, WriteFails, List, Read, Redetect, Evaluate, Crash
<1>5. ASSUME NEW p \in Procs, NEW kind, NEW force, Call(p, kind, force)
      PROVE  UNCHANGED <<files, spoilt>>
  BY <1>5 DEF Call, world
<1>6. ASSUME NEW n \in Names, Publish(n) PROVE UNCHANGED <<files, spoilt>>
  BY <1>6 DEF Publish
<1>7. UNCHANGED vars => UNCHANGED <<files, spoilt>>
  BY DEF vars
<1> QED
  BY <1>1, <1>2, <1>3, <1>4, <1>5, <1>6, <1>7 DEF Next

LEMMA KeptStep ==
    ASSUME IInv, [Next]_vars
    PROVE  KeptInv'
<1> USE DEF IInv, TypeOK, KeptInv, CallInv, Dest
<1>1. CASE UNCHANGED vars
  BY <1>1 DEF vars
<1>2. ASSUME NEW p \in Procs, NEW kind \in Kinds \cup {"install"}, NEW force \in BOOLEAN,
             Call(p, kind, force)
      PROVE  KeptInv'
  BY <1>2 DEF Call, Goto, world, loading
<1>3. ASSUME NEW p \in Procs, NEW e \in IndexEntries, FindEntry(p, e)
      PROVE  KeptInv'
  BY <1>3 DEF FindEntry, Goto, world, loading
<1>4. ASSUME NEW p \in Procs, NEW data \in Versions \cup {Altered}, Fetch(p, data)
      PROVE  KeptInv'
  BY <1>4 DEF Fetch, Verified, Goto, world, loading
<1>5. ASSUME NEW p \in Procs, NoMatch(p) PROVE KeptInv'
  BY <1>5, GivesUp DEF NoMatch, world, Return
<1>6. ASSUME NEW p \in Procs, CheckInstalled(p) PROVE KeptInv'
  BY <1>6 DEF CheckInstalled, world, Return, Goto, loading
<1>7. ASSUME NEW p \in Procs, Confirm(p) PROVE KeptInv'
  BY <1>7, GivesUp DEF Confirm, world, Return, Goto, loading
<1>8. ASSUME NEW p \in Procs, FetchFails(p) PROVE KeptInv'
  BY <1>8, GivesUp DEF FetchFails, world, Return
<1>9. ASSUME NEW p \in Procs, WriteTemp(p) PROVE KeptInv'
  BY <1>9 DEF WriteTemp, world, Goto, loading
<1>10. ASSUME NEW p \in Procs, Rename(p) PROVE KeptInv'
  <2>1. \A q \in Procs : /\ call'[q].sound = call[q].sound
                         /\ q # p => call'[q].installed = call[q].installed
    BY <1>10, RenameRecords
  <2>2. tmp[p] \in Versions /\ tmp[p] # Bad /\ tmp[p] # Missing
    BY <1>10, UsersFiles DEF Rename, EntryInv, IndexEntries
  <2>3. files' = [files EXCEPT ![Dest(p)] = tmp[p]] /\ Dest(p) \in Names
    BY <1>10 DEF Rename, EntryInv, IndexEntries
  <2>4. /\ spoilt \subseteq spoilt' /\ edits' = edits
        /\ pc'[p] \in {"idle", "list"} /\ left'[p] \subseteq left[p]
        /\ pc'[p] # "idle" => entry'[p] = entry[p]
        /\ \A q \in Procs \ {p} :
              /\ pc'[q] = pc[q] /\ entry'[q] = entry[q] /\ left'[q] = left[q]
              /\ loaded'[q] = loaded[q] /\ errs'[q] = errs[q]
    BY <1>10 DEF Rename, Return, Goto, loading
  <2> QED
    BY <2>1, <2>2, <2>3, <2>4
<1>11. ASSUME NEW p \in Procs, WriteFails(p) PROVE KeptInv'
  BY <1>11, GivesUp DEF WriteFails, world, Return
<1>12. ASSUME NEW p \in Procs, List(p) PROVE KeptInv'
  <2>1. Dest(p) \in Names /\ Missing \notin Versions
    BY <1>12, UsersFiles DEF List, Goto, EntryInv, IndexEntries
  <2> QED
    BY <1>12, <2>1 DEF List, world, Goto
<1>13. ASSUME NEW p \in Procs, Read(p) PROVE KeptInv'
  <2>1. PICK n \in left[p] :
          /\ left' = [left EXCEPT ![p] = left[p] \ {n}]
          /\ \/ loaded' = [loaded EXCEPT ![p] = loaded[p] \cup {n}] /\ errs' = errs
             \/ ~Loads(n) /\ errs' = [errs EXCEPT ![p] = TRUE] /\ loaded' = loaded
    BY <1>13 DEF Read
  <2>2. n \in Names /\ 1..server[n] \subseteq Versions
    BY <2>1, InstallAssumption DEF Versions
  <2>3. edits = 0 /\ call[p].sound /\ spoilt = {} => Loads(n)
    BY <2>1, <2>2 DEF OnlyVerifiedInPlace, Whole, LoadInv, Loads
  <2>4. edits = 0 /\ call[p].installed /\ n = Dest(p) => Loads(n) \/ n \in spoilt
    BY <1>13, <2>2 DEF Read, Whole, LoadInv, Loads
  <2> QED
    BY <1>13, <2>1, <2>3, <2>4 DEF Read, world
<1>14. ASSUME NEW p \in Procs, Redetect(p) PROVE KeptInv'
  BY <1>14 DEF Redetect, world, Return
<1>15. ASSUME NEW p \in Procs, Evaluate(p) PROVE KeptInv'
  BY <1>15 DEF Evaluate, world, Return
<1>16. ASSUME NEW p \in Procs, Crash(p) PROVE KeptInv'
  BY <1>16 DEF Crash, world, Return
<1>17. ASSUME NEW n \in Names, Publish(n) PROVE KeptInv'
  BY <1>17 DEF Publish, loading
<1>18. ASSUME NEW n \in Names, NEW content \in {Mine, Bad, Missing}, Edit(n, content)
      PROVE  KeptInv'
  BY <1>18 DEF Edit, loading
<1> HIDE DEF IInv, TypeOK, KeptInv, CallInv, Dest
<1> QED
  BY <1>1, <1>2, <1>3, <1>4, <1>5, <1>6, <1>7, <1>8, <1>9, <1>10, <1>11, <1>12,
     <1>13, <1>14, <1>15, <1>16, <1>17, <1>18 DEF Next, Step

-----------------------------------------------------------------------------
(* The three properties, each by the parts of the invariant it needs.      *)

LEMMA VerifiedStep ==
    ASSUME IInv, [Next]_vars
    PROVE  OnlyVerifiedInPlace'
<1> USE DEF IInv, TypeOK, OnlyVerifiedInPlace
<1>1. ASSUME NEW p \in Procs, Rename(p) PROVE OnlyVerifiedInPlace'
  <2>1. tmp[p] \in 1..server[Dest(p)] /\ Dest(p) \in Names
    BY <1>1, InstallAssumption DEF Rename, EntryInv, Dest, IndexEntries, Versions
  <2> QED
    BY <1>1, <2>1 DEF Rename
<1>2. ASSUME NEW n \in Names, Publish(n) PROVE OnlyVerifiedInPlace'
  BY <1>2 DEF Publish, Versions
<1>3. ASSUME NEW n \in Names, NEW content \in {Mine, Bad, Missing}, Edit(n, content)
      PROVE  OnlyVerifiedInPlace'
  BY <1>3 DEF Edit
<1>4. CASE UNCHANGED <<files, server>>
  BY <1>4
<1> HIDE DEF IInv, TypeOK, OnlyVerifiedInPlace
<1>5. ASSUME NEW p \in Procs, Step(p) \/ Crash(p)
      PROVE  UNCHANGED <<files, server>> \/ Rename(p)
  BY <1>5 DEF Step, world, FindEntry, NoMatch, CheckInstalled, Confirm, Fetch, FetchFails,
              WriteTemp, WriteFails, List, Read, Redetect, Evaluate, Crash
<1>6. ASSUME NEW p \in Procs, NEW kind, NEW force, Call(p, kind, force)
      PROVE  UNCHANGED <<files, server>>
  BY <1>6 DEF Call, world
<1>7. UNCHANGED vars => UNCHANGED <<files, server>>
  BY DEF vars
<1> QED
  BY <1>1, <1>2, <1>3, <1>4, <1>5, <1>6, <1>7 DEF Next

LEMMA SoftStep ==
    ASSUME IInv, [Next]_vars
    PROVE  AutoFetchFailsSoft'
<1> USE DEF IInv, TypeOK, AutoFetchFailsSoft
<1>1. CASE UNCHANGED vars
  BY <1>1 DEF vars
<1>2. ASSUME NEW p \in Procs, NEW kind \in Kinds \cup {"install"}, NEW force \in BOOLEAN,
             Call(p, kind, force)
      PROVE  AutoFetchFailsSoft'
  BY <1>2 DEF Call, Goto, world, loading
<1>3. ASSUME NEW p \in Procs, NEW e \in IndexEntries, FindEntry(p, e)
      PROVE  AutoFetchFailsSoft'
  BY <1>3 DEF FindEntry, Goto, world, loading
<1>4. ASSUME NEW p \in Procs, NEW data \in Versions \cup {Altered}, Fetch(p, data)
      PROVE  AutoFetchFailsSoft'
  BY <1>4 DEF Fetch, Verified, Goto, world, loading
<1>5. ASSUME NEW p \in Procs, NoMatch(p) PROVE AutoFetchFailsSoft'
  BY <1>5, GivesUp DEF NoMatch, world, Return
<1>6. ASSUME NEW p \in Procs, CheckInstalled(p) PROVE AutoFetchFailsSoft'
  BY <1>6 DEF CheckInstalled, world, Return, Goto, loading
<1>7. ASSUME NEW p \in Procs, Confirm(p) PROVE AutoFetchFailsSoft'
  BY <1>7, GivesUp DEF Confirm, world, Return, Goto, loading
<1>8. ASSUME NEW p \in Procs, FetchFails(p) PROVE AutoFetchFailsSoft'
  BY <1>8, GivesUp DEF FetchFails, world, Return
<1>9. ASSUME NEW p \in Procs, WriteTemp(p) PROVE AutoFetchFailsSoft'
  BY <1>9 DEF WriteTemp, world, Goto, loading
<1>10. ASSUME NEW p \in Procs, Rename(p) PROVE AutoFetchFailsSoft'
  <2>1. \A q \in Procs : call'[q].kind = call[q].kind /\ call'[q].sound = call[q].sound
    BY <1>10, RenameRecords
  <2>2. spoilt' = {} => spoilt = {}
    BY <1>10 DEF Rename
  <2> QED
    BY <1>10, <2>1, <2>2 DEF Rename, Return, Goto, loading
<1>11. ASSUME NEW p \in Procs, WriteFails(p) PROVE AutoFetchFailsSoft'
  BY <1>11, GivesUp DEF WriteFails, world, Return
<1>12. ASSUME NEW p \in Procs, List(p) PROVE AutoFetchFailsSoft'
  BY <1>12 DEF List, world, Goto
<1>13. ASSUME NEW p \in Procs, Read(p) PROVE AutoFetchFailsSoft'
  BY <1>13 DEF Read, world
<1>14. ASSUME NEW p \in Procs, Redetect(p) PROVE AutoFetchFailsSoft'
  BY <1>14 DEF Redetect, world, Return
<1>15. ASSUME NEW p \in Procs, Evaluate(p) PROVE AutoFetchFailsSoft'
  <2>1. edits = 0 /\ call[p].sound /\ spoilt = {} => ~errs[p]
    BY <1>15 DEF Evaluate, KeptInv
  <2> QED
    BY <1>15, <2>1, SentinelAssumption DEF Evaluate, world, Return
<1>16. ASSUME NEW p \in Procs, Crash(p) PROVE AutoFetchFailsSoft'
  BY <1>16 DEF Crash, world, Return
<1>17. ASSUME NEW n \in Names, Publish(n) PROVE AutoFetchFailsSoft'
  BY <1>17 DEF Publish, loading
<1>18. ASSUME NEW n \in Names, NEW content \in {Mine, Bad, Missing}, Edit(n, content)
      PROVE  AutoFetchFailsSoft'
  BY <1>18 DEF Edit, loading
<1> HIDE DEF IInv, TypeOK, AutoFetchFailsSoft
<1> QED
  BY <1>1, <1>2, <1>3, <1>4, <1>5, <1>6, <1>7, <1>8, <1>9, <1>10, <1>11, <1>12,
     <1>13, <1>14, <1>15, <1>16, <1>17, <1>18 DEF Next, Step

LEMMA DetectedStep ==
    ASSUME IInv, [Next]_vars
    PROVE  InstalledIsDetected'
<1> USE DEF IInv, TypeOK, InstalledIsDetected, CallInv, KeptInv
<1>1. CASE UNCHANGED vars
  BY <1>1 DEF vars
<1>2. ASSUME NEW p \in Procs, NEW kind \in Kinds \cup {"install"}, NEW force \in BOOLEAN,
             Call(p, kind, force)
      PROVE  InstalledIsDetected'
  BY <1>2 DEF Call, Goto, world, loading
<1>3. ASSUME NEW p \in Procs, NEW e \in IndexEntries, FindEntry(p, e)
      PROVE  InstalledIsDetected'
  BY <1>3 DEF FindEntry, Goto, world, loading
<1>4. ASSUME NEW p \in Procs, NEW data \in Versions \cup {Altered}, Fetch(p, data)
      PROVE  InstalledIsDetected'
  BY <1>4 DEF Fetch, Verified, Goto, world, loading
<1>5. ASSUME NEW p \in Procs, NoMatch(p) PROVE InstalledIsDetected'
  BY <1>5, GivesUp DEF NoMatch, world, Return
<1>6. ASSUME NEW p \in Procs, CheckInstalled(p) PROVE InstalledIsDetected'
  BY <1>6 DEF CheckInstalled, world, Return, Goto, loading
<1>7. ASSUME NEW p \in Procs, Confirm(p) PROVE InstalledIsDetected'
  BY <1>7, GivesUp DEF Confirm, world, Return, Goto, loading
<1>8. ASSUME NEW p \in Procs, FetchFails(p) PROVE InstalledIsDetected'
  BY <1>8, GivesUp DEF FetchFails, world, Return
<1>9. ASSUME NEW p \in Procs, WriteTemp(p) PROVE InstalledIsDetected'
  BY <1>9 DEF WriteTemp, world, Goto, loading
<1>10. ASSUME NEW p \in Procs, Rename(p) PROVE InstalledIsDetected'
  <2>1. /\ \A q \in Procs : call'[q].kind = call[q].kind /\ call'[q].sound = call[q].sound
        /\ \A q \in Procs \ {p} : call'[q].installed = call[q].installed
    BY <1>10, RenameRecords
  <2>2. (spoilt' = {} => spoilt = {}) /\ (spoilt' \cap Hits = {} => spoilt \cap Hits = {})
    BY <1>10 DEF Rename
  <2>3. /\ result'[p] \in {"none", "installed"}
        /\ \A q \in Procs \ {p} : result'[q] = result[q]
    BY <1>10 DEF Rename, Return, Goto
  <2> QED
    BY <1>10, <2>1, <2>2, <2>3 DEF Rename
<1>11. ASSUME NEW p \in Procs, WriteFails(p) PROVE InstalledIsDetected'
  BY <1>11, GivesUp DEF WriteFails, world, Return
<1>12. ASSUME NEW p \in Procs, List(p) PROVE InstalledIsDetected'
  BY <1>12 DEF List, world, Goto
<1>13. ASSUME NEW p \in Procs, Read(p) PROVE InstalledIsDetected'
  BY <1>13 DEF Read, world
<1>14. ASSUME NEW p \in Procs, Redetect(p) PROVE InstalledIsDetected'
  <2>1. edits = 0 /\ call[p].installed /\ spoilt \cap Hits = {} => Dest(p) \in Matching(p)
    BY <1>14 DEF Redetect, Matching
  <2>2. spoilt = {} => spoilt \cap Hits = {}
    OBVIOUS
  <2> QED
    BY <1>14, <2>1, <2>2, SentinelAssumption DEF Redetect, world, Return
<1>15. ASSUME NEW p \in Procs, Evaluate(p) PROVE InstalledIsDetected'
  <2>1. edits = 0 /\ call[p].installed /\ call[p].sound /\ spoilt = {} =>
          Dest(p) \in Matching(p) /\ ~errs[p]
    BY <1>15 DEF Evaluate, Matching
  <2>2. call[p].kind # "auto"
    BY <1>15 DEF Evaluate
  <2> QED
    BY <1>15, <2>1, <2>2, SentinelAssumption DEF Evaluate, world, Return
<1>16. ASSUME NEW p \in Procs, Crash(p) PROVE InstalledIsDetected'
  BY <1>16 DEF Crash, world, Return
<1>17. ASSUME NEW n \in Names, Publish(n) PROVE InstalledIsDetected'
  BY <1>17 DEF Publish, loading
<1>18. ASSUME NEW n \in Names, NEW content \in {Mine, Bad, Missing}, Edit(n, content)
      PROVE  InstalledIsDetected'
  BY <1>18 DEF Edit, loading
<1> HIDE DEF IInv, TypeOK, InstalledIsDetected, CallInv, KeptInv
<1> QED
  BY <1>1, <1>2, <1>3, <1>4, <1>5, <1>6, <1>7, <1>8, <1>9, <1>10, <1>11, <1>12,
     <1>13, <1>14, <1>15, <1>16, <1>17, <1>18 DEF Next, Step

-----------------------------------------------------------------------------
(* The theorems.                                                           *)

(* The invariant above is one.                                             *)
THEOREM Inductive == Spec => []IInv
<1>1. IInv /\ [Next]_vars => IInv'
  BY TypeStep, EntryStep, CallStep, LoadStep, KeptStep, VerifiedStep, SoftStep, DetectedStep DEF IInv
<1> QED
  BY InitIInv, <1>1, PTL DEF Spec

(* Every variable has its type, so whatever detect and the callback return *)
(* is the name of a framework or one of the answers that are none.         *)
THEOREM TypeCorrect == Spec => []TypeOK
<1>1. IInv => TypeOK
  BY DEF IInv
<1> QED
  BY <1>1, Inductive, PTL

(* InstallFramework puts nothing in place but a published version, whole,  *)
(* however old the index entry is that it verifies the download with.      *)
THEOREM VerifiedInPlace == Spec => []OnlyVerifiedInPlace
<1>1. IInv => OnlyVerifiedInPlace
  BY DEF IInv
<1> QED
  BY <1>1, Inductive, PTL

(* The callback of NewAutoFetch returns no error over a directory that was *)
(* sound and that only docksmith processes, however many, write to: until  *)
(* one of them installs a published file that the loader refuses.          *)
THEOREM FailsSoft == Spec => []AutoFetchFailsSoft
<1>1. IInv => AutoFetchFailsSoft
  BY DEF IInv
<1> QED
  BY <1>1, Inductive, PTL

(* What a call installed for the project it finds on its second detection, *)
(* whatever other processes install while it reads the directory: the CLI  *)
(* unless a published definition of the project is refused by the loader,  *)
(* the callback as long as every file can be loaded.                       *)
THEOREM Detected == Spec => []InstalledIsDetected
<1>1. IInv => InstalledIsDetected
  BY DEF IInv
<1> QED
  BY <1>1, Inductive, PTL
=============================================================================
