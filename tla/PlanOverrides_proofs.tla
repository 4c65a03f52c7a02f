------------------------- MODULE PlanOverrides_proofs -------------------------
(***************************************************************************)
(* What holds of a plan after the overrides, and of the Dockerfile written *)
(* for it, for every set of configurations.  Inv says of a plan between    *)
(* two overrides that it is well formed, so that each can do its work;     *)
(* KeptInv, that what the ones before it were to leave is still there.     *)
(***************************************************************************)
EXTENDS PlanOverrides, Listing_proofs

\* The words the steps are made of.
Ops == {"CMD", "COPY", "COPYFROM", "ENTRYPOINT", "ENV", "EXPOSE", "FETCHTOOL", "HEALTHCHECK",
        "RUN", "USER", "WORKDIR"}
Whats == {"app", "appuser", "artifact", "assets", "binaries", "binary", "build", "bun", "composer",
          "corepack", "create-named-user", "create-user", "default", "deno", "deps", "first",
          "go-build", "go-build-binaries", "install", "manifests", "manifests-and-go.work", "mix",
          "nginx", "node", "nonroot", "packages", "prepare", "runtime-deps", "script", "second",
          "sources", "system-deps", "tini", "tool", "user", "user-build", "user-install",
          "www-data"}
Names == {"none", "build", "builder", "deps", "runtime"}
Froms == Images \cup {"deps"}
Tools == {"any", "alpine", "debian"}
Flags == {"none", "shell", "timed", "--chmod", "--chown", "-X", "path"}

Steps == [op : Ops, what : Whats, stage : Names, tool : Tools, cache : BOOLEAN,
          secrets : SUBSET {"config", "registry"}, flag : Flags]
Stages == [name : Names, from : Froms, steps : Seq(Steps)]

-----------------------------------------------------------------------------
(* Edits of a list of steps.                                               *)

\* A position of a list that something is true of, where a search looks for it.
LEMMA IndexOfFirst ==
    ASSUME NEW s \in Seq(Steps), NEW ops
    PROVE  LET k == IndexOf(s, ops) IN
           /\ k = 0 => \A i \in DOMAIN s : s[i].op \notin ops
           /\ k # 0 => /\ k \in DOMAIN s /\ s[k].op \in ops
                       /\ \A i \in DOMAIN s : s[i].op \in ops => k <= i
<1> DEFINE I == {i \in 1 .. Len(s) : s[i].op \in ops}
           k == IndexOf(s, ops)
<1>1. k = IF I # {} THEN Min(I) ELSE 0
  BY DEF IndexOf, SelectInSeq
<1>2. I # {} => Min(I) \in I /\ \A i \in I : Min(I) <= i
  <2>1. I \in SUBSET Nat
    OBVIOUS
  <2> HIDE DEF I
  <2> QED
    BY <2>1, MinOfNaturals
<1>3. DOMAIN s = 1 .. Len(s) /\ \A i \in I : i # 0
  OBVIOUS
<1> HIDE DEF k
<1>4. CASE I = {}
  BY <1>1, <1>3, <1>4 DEF k
<1>5. CASE I # {}
  <2>1. k \in I /\ \A i \in I : k <= i
    BY <1>1, <1>2, <1>5
  <2> QED
    BY <1>3, <2>1 DEF k
<1> QED
  BY <1>4, <1>5

\* t is s with e put at position p.
Inserted(t, s, p, e) ==
    /\ t \in Seq(Steps) /\ Len(t) = Len(s) + 1 /\ p \in 1 .. Len(s) + 1
    /\ \A x \in 1 .. Len(s) + 1 : t[x] = IF x = p THEN e ELSE IF x < p THEN s[x] ELSE s[x - 1]

LEMMA InsertAtInserts ==
    ASSUME NEW s \in Seq(Steps), NEW p \in 1 .. Len(s) + 1, NEW e \in Steps
    PROVE  Inserted(InsertAt(s, p, e), s, p, e)
<1> DEFINE t == InsertAt(s, p, e)
<1>1. t \in Seq(Steps) /\ Len(t) = Len(s) + 1
  BY InsertAtShape
<1>2. \A x \in 1 .. Len(s) + 1 : t[x] = IF x = p THEN e ELSE IF x < p THEN s[x] ELSE s[x - 1]
  BY InsertAtAt
<1> QED
  BY <1>1, <1>2 DEF Inserted

LEMMA AppendInserts ==
    ASSUME NEW s \in Seq(Steps), NEW e \in Steps
    PROVE  Inserted(Append(s, e), s, Len(s) + 1, e)
<1>1. Append(s, e) \in Seq(Steps) /\ Len(Append(s, e)) = Len(s) + 1
  OBVIOUS
<1>2. Len(s) \in Nat
  OBVIOUS
<1>3. \A x \in 1 .. Len(s) + 1 : Append(s, e)[x] = IF x = Len(s) + 1 THEN e ELSE s[x]
  OBVIOUS
<1> QED
  BY <1>1, <1>2, <1>3 DEF Inserted

LEMMA ConcatAppends ==
    ASSUME NEW s \in Seq(Steps), NEW e \in Steps, NEW f \in Steps
    PROVE  s \o <<e>> = Append(s, e) /\ s \o <<e, f>> = Append(Append(s, e), f)
OBVIOUS

\* t has no step that s has not, but for what RUN, EXPOSE and COPY steps say,
\* and those of s in the same order.
Added == {"system-deps", "runtime-deps", "create-named-user"}
Watched == {"create-user", "assets"} \cup Added
Like(a, b) ==
    /\ a.op = b.op /\ (Form(a) = Form(b) \/ Form(a) # "shell")
    /\ a.what \in Watched => a.what = b.what /\ a.tool = b.tool
Derived(t, s) ==
    /\ t \in Seq(Steps)
    /\ \E pos \in [DOMAIN t -> DOMAIN s] :
          /\ \A i, j \in DOMAIN t : i < j => pos[i] < pos[j]
          /\ \A i \in DOMAIN t : Like(t[i], s[pos[i]])

\* Removing the steps of a kind leaves the others as they are.
LEMMA RemovedSteps ==
    ASSUME NEW s \in Seq(Steps), NEW op
    PROVE  LET t == removeSteps(s, op) IN
           /\ Derived(t, s)
           /\ \A i \in DOMAIN t : t[i].op # op /\ \E j \in DOMAIN s : t[i] = s[j]
           /\ \A i \in DOMAIN s : s[i].op # op => \E j \in DOMAIN t : t[j] = s[i]
<1> DEFINE I == {i \in DOMAIN s : s[i].op # op}
           t == removeSteps(s, op)
<1>1. t = At(s, I)
  BY DEF removeSteps
<1>2. t \in Seq(Steps)
  BY <1>1, AtTakes
<1>3. /\ \E pos \in [DOMAIN t -> I] :
            /\ \A k \in DOMAIN t : t[k] = s[pos[k]]
            /\ \A k, l \in DOMAIN t : k < l => pos[k] < pos[l]
      /\ \A i \in I : \E k \in DOMAIN t : t[k] = s[i]
  <2>1. I \in SUBSET (DOMAIN s)
    OBVIOUS
  <2> HIDE DEF I, t
  <2> QED
    BY <1>1, <2>1, AtInOrder
<1> HIDE DEF t
<1>4. PICK pos \in [DOMAIN t -> I] :
         /\ \A k \in DOMAIN t : t[k] = s[pos[k]]
         /\ \A k, l \in DOMAIN t : k < l => pos[k] < pos[l]
  BY <1>3
<1>5. pos \in [DOMAIN t -> DOMAIN s] /\ \A i \in DOMAIN t : Like(t[i], s[pos[i]])
  BY <1>4 DEF Like
<1>6. Derived(t, s)
  BY <1>2, <1>4, <1>5 DEF Derived
<1>7. \A i \in DOMAIN t : t[i].op # op /\ \E j \in DOMAIN s : t[i] = s[j]
  BY <1>4
<1> QED
  BY <1>3, <1>6, <1>7 DEF t

\* What changes steps in place.
LEMMA InPlace ==
    ASSUME NEW s \in Seq(Steps), NEW t \in Seq(Steps), DOMAIN t = DOMAIN s,
           \A i \in DOMAIN s : Like(t[i], s[i])
    PROVE  Derived(t, s)
<1> DEFINE pos == [i \in DOMAIN t |-> i]
<1>1. pos \in [DOMAIN t -> DOMAIN s] /\ \A i \in DOMAIN t : pos[i] = i
  OBVIOUS
<1> HIDE DEF pos
<1> QED
  BY <1>1 DEF Derived

-----------------------------------------------------------------------------
(* What is true of the steps of the final stage, whichever overrides have  *)
(* been applied: accounts are created before USER, and so is everything    *)
(* else that needs root (strict), unless a builder tool is appended there. *)

Creation == {"create-user", "create-named-user"}
NeedsRoot == {"RUN", "FETCHTOOL"}
HasUser(s) == \E i \in DOMAIN s : s[i].op = "USER"

Neat(s, strict) ==
    /\ \A i \in DOMAIN s : s[i].what \in Creation => s[i].op = "RUN"
    /\ \A i, j \in DOMAIN s : s[i].op = "USER" /\ s[j].what \in Creation => j < i
    /\ strict => \A i, j \in DOMAIN s : s[i].op = "USER" /\ s[j].op \in NeedsRoot => j < i
    /\ HasUser(s) => \A i, j \in DOMAIN s : s[i].what = "assets" /\ s[j].what \in Creation => j < i

LEMMA DerivedNeat ==
    ASSUME NEW s \in Seq(Steps), NEW t, Derived(t, s), NEW strict \in BOOLEAN, Neat(s, strict)
    PROVE  Neat(t, strict)
<1>1. PICK pos \in [DOMAIN t -> DOMAIN s] :
         /\ \A i, j \in DOMAIN t : i < j => pos[i] < pos[j]
         /\ \A i \in DOMAIN t : Like(t[i], s[pos[i]])
  BY DEF Derived
<1>2. ASSUME NEW i \in DOMAIN t, NEW j \in DOMAIN t, pos[j] < pos[i]
      PROVE  j < i
  <2>1. i \in Nat /\ j \in Nat /\ pos[i] \in Nat /\ pos[j] \in Nat
    BY <1>1 DEF Derived
  <2> QED
    BY <1>1, <1>2, <2>1
<1>3. \A i \in DOMAIN t : pos[i] \in DOMAIN s /\ t[i].op = s[pos[i]].op
  BY <1>1 DEF Like
<1>4. \A i \in DOMAIN t : t[i].what \in Watched => t[i].what = s[pos[i]].what
  BY <1>1 DEF Like
<1>5. Creation \subseteq Watched /\ "assets" \in Watched
  BY DEF Creation, Watched, Added
<1> HIDE DEF Creation, NeedsRoot
<1>6. \A i \in DOMAIN t : t[i].what \in Creation => t[i].op = "RUN"
  BY <1>3, <1>4, <1>5 DEF Neat
<1>7. \A i, j \in DOMAIN t : t[i].op = "USER" /\ t[j].what \in Creation => j < i
  BY <1>2, <1>3, <1>4, <1>5 DEF Neat
<1>8. strict => \A i, j \in DOMAIN t : t[i].op = "USER" /\ t[j].op \in NeedsRoot => j < i
  BY <1>2, <1>3 DEF Neat
<1>9. HasUser(t) => HasUser(s)
  BY <1>3 DEF HasUser
<1>10. HasUser(t) => \A i, j \in DOMAIN t : t[i].what = "assets" /\ t[j].what \in Creation => j < i
  BY <1>2, <1>3, <1>4, <1>5, <1>9 DEF Neat
<1> QED
  BY <1>6, <1>7, <1>8, <1>10 DEF Neat

\* Where a step may be put: a USER behind all that needs root and with no
\* assets there, something that needs root before USER, an account there only
\* without assets or USER, assets behind the accounts.
Fits(s, p, e, strict) ==
    /\ e.op = "USER" =>
          /\ \A j \in DOMAIN s : s[j].what \in Creation \/ s[j].op \in NeedsRoot => j < p
          /\ \A j \in DOMAIN s : s[j].what # "assets"
    /\ strict /\ e.op \in NeedsRoot => \A i \in DOMAIN s : s[i].op = "USER" => p <= i
    /\ e.what \in Creation =>
          /\ e.op = "RUN"
          /\ \A i \in DOMAIN s : s[i].op # "USER" /\ s[i].what # "assets"
    /\ e.what = "assets" =>
          /\ e.op # "USER"
          /\ HasUser(s) => \A j \in DOMAIN s : s[j].what \in Creation => j < p

LEMMA InsertedNeat ==
    ASSUME NEW s \in Seq(Steps), NEW t, NEW p, NEW e \in Steps, Inserted(t, s, p, e),
           NEW strict \in BOOLEAN, Neat(s, strict), Fits(s, p, e, strict)
    PROVE  Neat(t, strict)
<1> DEFINE from(x) == IF x < p THEN x ELSE x - 1
<1>1. /\ DOMAIN s = 1 .. Len(s) /\ Len(s) \in Nat /\ p \in Nat
      /\ DOMAIN t = 1 .. Len(s) + 1 /\ p \in DOMAIN t /\ t[p] = e
  BY DEF Inserted
<1>2. ASSUME NEW x \in DOMAIN t, x # p
      PROVE  /\ from(x) \in DOMAIN s /\ t[x] = s[from(x)]
             /\ from(x) < p <=> x < p
             /\ p <= from(x) <=> p < x
  BY <1>1, <1>2 DEF Inserted
<1>3. ASSUME NEW x \in DOMAIN t, NEW y \in DOMAIN t, x # p, y # p, from(x) < from(y)
      PROVE  x < y
  BY <1>1, <1>3
<1> HIDE DEF from, Creation, NeedsRoot
<1>4. e.op = "USER" => e.op \notin NeedsRoot /\ e.op # "RUN"
  BY DEF NeedsRoot
<1>5. "assets" \notin Creation
  BY DEF Creation
<1>6. \A i \in DOMAIN t : t[i].what \in Creation => t[i].op = "RUN"
  BY <1>1, <1>2 DEF Neat, Fits
<1>7. ASSUME NEW i \in DOMAIN t, NEW j \in DOMAIN t, t[i].op = "USER", t[j].what \in Creation
      PROVE  j < i
  <2>1. CASE i # p /\ j # p
    BY <1>2, <1>3, <1>7, <2>1 DEF Neat
  <2>2. CASE i = p /\ j # p
    BY <1>1, <1>2, <1>7, <2>2 DEF Fits
  <2>3. CASE i # p /\ j = p
    BY <1>1, <1>2, <1>7, <2>3 DEF Fits
  <2>4. CASE i = p /\ j = p
    BY <1>1, <1>4, <1>6, <1>7, <2>4
  <2> QED
    BY <2>1, <2>2, <2>3, <2>4
<1>8. ASSUME strict, NEW i \in DOMAIN t, NEW j \in DOMAIN t,
             t[i].op = "USER", t[j].op \in NeedsRoot
      PROVE  j < i
  <2>1. CASE i # p /\ j # p
    BY <1>2, <1>3, <1>8, <2>1 DEF Neat
  <2>2. CASE i = p /\ j # p
    BY <1>1, <1>2, <1>8, <2>2 DEF Fits
  <2>3. CASE i # p /\ j = p
    BY <1>1, <1>2, <1>8, <2>3 DEF Fits
  <2>4. CASE i = p /\ j = p
    BY <1>1, <1>4, <1>8, <2>4
  <2> QED
    BY <2>1, <2>2, <2>3, <2>4
<1>9. ASSUME HasUser(t), NEW i \in DOMAIN t, NEW j \in DOMAIN t,
             t[i].what = "assets", t[j].what \in Creation
      PROVE  j < i
  <2>1. CASE i # p /\ j # p
    <3>1. e.op # "USER"
      BY <1>2, <1>9, <2>1 DEF Fits
    <3>2. HasUser(s)
      BY <1>1, <1>2, <1>9, <3>1 DEF HasUser
    <3> QED
      BY <1>2, <1>3, <1>9, <2>1, <3>2 DEF Neat
  <2>2. CASE i = p /\ j # p
    <3>1. HasUser(s)
      <4>1. e.op # "USER"
        BY <1>1, <1>9, <2>2 DEF Fits
      <4> QED
        BY <1>1, <1>2, <1>9, <4>1 DEF HasUser
    <3> QED
      BY <1>1, <1>2, <1>9, <2>2, <3>1 DEF Fits
  <2>3. CASE i # p /\ j = p
    BY <1>1, <1>2, <1>9, <2>3 DEF Fits
  <2>4. CASE i = p /\ j = p
    BY <1>1, <1>5, <1>9, <2>4
  <2> QED
    BY <2>1, <2>2, <2>3, <2>4
<1> QED
  BY <1>6, <1>7, <1>8, <1>9 DEF Neat

\* There is one step of each of these kinds.
Singles == {"CMD", "ENTRYPOINT", "USER", "HEALTHCHECK", "EXPOSE"}
Once(s) ==
    \A i, j \in DOMAIN s : s[i].op \in Singles /\ s[i].op = s[j].op => i = j

LEMMA DerivedOnce ==
    ASSUME NEW s \in Seq(Steps), NEW t, Derived(t, s), Once(s)
    PROVE  Once(t)
<1>1. PICK pos \in [DOMAIN t -> DOMAIN s] :
         /\ \A i, j \in DOMAIN t : i < j => pos[i] < pos[j]
         /\ \A i \in DOMAIN t : Like(t[i], s[pos[i]])
  BY DEF Derived
<1>2. \A i \in DOMAIN t : i \in Nat /\ pos[i] \in Nat
  BY <1>1 DEF Derived
<1>3. \A i, j \in DOMAIN t : pos[i] = pos[j] => i = j
  BY <1>1, <1>2
<1>4. \A i \in DOMAIN t : pos[i] \in DOMAIN s /\ t[i].op = s[pos[i]].op
  BY <1>1 DEF Like
<1> QED
  BY <1>3, <1>4 DEF Once

LEMMA InsertedOnce ==
    ASSUME NEW s \in Seq(Steps), NEW t, NEW p, NEW e \in Steps, Inserted(t, s, p, e), Once(s),
           e.op \in Singles => \A i \in DOMAIN s : s[i].op # e.op
    PROVE  Once(t)
<1> DEFINE from(x) == IF x < p THEN x ELSE x - 1
<1>1. /\ DOMAIN s = 1 .. Len(s) /\ Len(s) \in Nat /\ p \in Nat
      /\ DOMAIN t = 1 .. Len(s) + 1 /\ p \in DOMAIN t /\ t[p] = e
  BY DEF Inserted
<1>2. ASSUME NEW x \in DOMAIN t, x # p
      PROVE  from(x) \in DOMAIN s /\ t[x] = s[from(x)]
  BY <1>1, <1>2 DEF Inserted
<1>3. ASSUME NEW x \in DOMAIN t, NEW y \in DOMAIN t, x # p, y # p, from(x) = from(y)
      PROVE  x = y
  BY <1>1, <1>3
<1> HIDE DEF from, Singles
<1> SUFFICES ASSUME NEW i \in DOMAIN t, NEW j \in DOMAIN t, t[i].op \in Singles, t[i].op = t[j].op
             PROVE  i = j
  BY DEF Once
<1>4. CASE i # p /\ j # p
  BY <1>2, <1>3, <1>4 DEF Once
<1>5. CASE i = p /\ j # p
  BY <1>1, <1>2, <1>5
<1>6. CASE i # p /\ j = p
  BY <1>1, <1>2, <1>6
<1> QED
  BY <1>4, <1>5, <1>6

-----------------------------------------------------------------------------
(* Edits of a plan.                                                        *)

IsPlan(p) == p \in Seq(Stages) /\ p # <<>> /\ p[Len(p)].name = "runtime"
LastOf(p) == p[Len(p)]

\* The plan has the stages it had, with their names.
SameStages(q, p) ==
    /\ IsPlan(q) /\ Len(q) = Len(p)
    /\ \A i \in DOMAIN p : q[i].name = p[i].name

LEMMA StageSet ==
    ASSUME NEW p, IsPlan(p), NEW k \in DOMAIN p, NEW s \in Seq(Steps)
    PROVE  LET q == [p EXCEPT ![k].steps = s] IN
           /\ SameStages(q, p)
           /\ q[k].steps = s /\ \A i \in DOMAIN p : q[i].from = p[i].from
           /\ \A i \in DOMAIN p : i # k => q[i] = p[i]
<1> DEFINE q == [p EXCEPT ![k].steps = s]
<1>1. p \in Seq(Stages) /\ Len(p) \in DOMAIN p
  BY DEF IsPlan
<1>2. /\ DOMAIN q = DOMAIN p /\ Len(q) = Len(p)
      /\ \A i \in DOMAIN p : q[i] = IF i = k THEN [p[k] EXCEPT !.steps = s] ELSE p[i]
  BY <1>1
<1>3. \A i \in DOMAIN p : p[i] \in Stages
  BY <1>1
<1>4. [p[k] EXCEPT !.steps = s] \in Stages
  BY <1>3 DEF Stages
<1>5. /\ [p[k] EXCEPT !.steps = s].name = p[k].name /\ [p[k] EXCEPT !.steps = s].from = p[k].from
      /\ [p[k] EXCEPT !.steps = s].steps = s
  BY <1>3 DEF Stages
<1> HIDE DEF q
<1>6. q \in Seq(Stages)
  <2> DEFINE r == [p[k] EXCEPT !.steps = s]
  <2>1. q = [p EXCEPT ![k] = r]
    BY DEF q
  <2>2. r \in Stages
    BY <1>4
  <2> HIDE DEF r
  <2> QED
    BY <1>1, <2>1, <2>2
<1>7. \A i \in DOMAIN p : q[i].name = p[i].name /\ q[i].from = p[i].from
  BY <1>2, <1>5
<1>8. IsPlan(q)
  BY <1>1, <1>2, <1>6, <1>7 DEF IsPlan
<1> QED
  BY <1>2, <1>5, <1>7, <1>8 DEF SameStages, q

LEMMA ImageSet ==
    ASSUME NEW p, IsPlan(p), NEW k \in DOMAIN p, NEW from \in Froms
    PROVE  LET q == [p EXCEPT ![k].from = from] IN
           /\ SameStages(q, p)
           /\ q[k].from = from /\ \A i \in DOMAIN p : q[i].steps = p[i].steps
           /\ \A i \in DOMAIN p : i # k => q[i] = p[i]
<1> DEFINE q == [p EXCEPT ![k].from = from]
<1>1. p \in Seq(Stages) /\ Len(p) \in DOMAIN p
  BY DEF IsPlan
<1>2. /\ DOMAIN q = DOMAIN p /\ Len(q) = Len(p)
      /\ \A i \in DOMAIN p : q[i] = IF i = k THEN [p[k] EXCEPT !.from = from] ELSE p[i]
  BY <1>1
<1>3. \A i \in DOMAIN p : p[i] \in Stages
  BY <1>1
<1>4. [p[k] EXCEPT !.from = from] \in Stages
  BY <1>3 DEF Stages
<1>5. /\ [p[k] EXCEPT !.from = from].name = p[k].name /\ [p[k] EXCEPT !.from = from].from = from
      /\ [p[k] EXCEPT !.from = from].steps = p[k].steps
  BY <1>3 DEF Stages
<1> HIDE DEF q
<1>6. q \in Seq(Stages)
  <2> DEFINE r == [p[k] EXCEPT !.from = from]
  <2>1. q = [p EXCEPT ![k] = r]
    BY DEF q
  <2>2. r \in Stages
    BY <1>4
  <2> HIDE DEF r
  <2> QED
    BY <1>1, <2>1, <2>2
<1>7. \A i \in DOMAIN p : q[i].name = p[i].name /\ q[i].steps = p[i].steps
  BY <1>2, <1>5
<1>8. IsPlan(q)
  BY <1>1, <1>2, <1>6, <1>7 DEF IsPlan
<1> QED
  BY <1>2, <1>5, <1>7, <1>8 DEF SameStages, q

LEMMA SamePlan ==
    ASSUME NEW p, IsPlan(p), NEW q, SameStages(q, p)
    PROVE  /\ IsPlan(q) /\ DOMAIN q = DOMAIN p /\ Len(q) = Len(p) /\ Len(p) \in DOMAIN p
           /\ \A i \in DOMAIN p : q[i].name = p[i].name
BY DEF IsPlan, SameStages

-----------------------------------------------------------------------------
(* The overrides take turns.                                               *)

Turn ==
    [BaseImage |-> 1, RuntimeImage |-> 2, SystemDeps |-> 3, InstallCmd |-> 4, BuildCmd |-> 5,
     StartCmd |-> 6, NoBuildCache |-> 7, Expose |-> 8, User |-> 9, Healthcheck |-> 10,
     HealthcheckOpts |-> 11, EntrypointScript |-> 12, Entrypoint |-> 13, ExtraEnv |-> 14,
     Secrets |-> 15, Binaries |-> 16, LdFlags |-> 17, RuntimeAssets |-> 18, ExternalTools |-> 19,
     UseGoWork |-> 20, RuntimeSystemDeps |-> 21, ContextRoot |-> 22, PrivateRegistry |-> 23]

LEMMA HasTurn ==
    /\ Turn["BaseImage"] = 1 /\ Turn["RuntimeImage"] = 2 /\ Turn["SystemDeps"] = 3
    /\ Turn["InstallCmd"] = 4 /\ Turn["BuildCmd"] = 5 /\ Turn["StartCmd"] = 6
    /\ Turn["NoBuildCache"] = 7 /\ Turn["Expose"] = 8 /\ Turn["User"] = 9
    /\ Turn["Healthcheck"] = 10 /\ Turn["HealthcheckOpts"] = 11 /\ Turn["EntrypointScript"] = 12
    /\ Turn["Entrypoint"] = 13 /\ Turn["ExtraEnv"] = 14 /\ Turn["Secrets"] = 15
    /\ Turn["Binaries"] = 16 /\ Turn["LdFlags"] = 17 /\ Turn["RuntimeAssets"] = 18
    /\ Turn["ExternalTools"] = 19 /\ Turn["UseGoWork"] = 20 /\ Turn["RuntimeSystemDeps"] = 21
    /\ Turn["ContextRoot"] = 22 /\ Turn["PrivateRegistry"] = 23
BY DEF Turn

Fields == ToSet(Order)

\* The fields, one by one.
LEMMA OrderIs ==
    /\ Len(Order) = 23 /\ DOMAIN Order = 1 .. 23
    /\ \A k \in 1 .. 23 :
          \/ k = 1 \/ k = 2 \/ k = 3 \/ k = 4 \/ k = 5 \/ k = 6 \/ k = 7 \/ k = 8
          \/ k = 9 \/ k = 10 \/ k = 11 \/ k = 12 \/ k = 13 \/ k = 14 \/ k = 15 \/ k = 16
          \/ k = 17 \/ k = 18 \/ k = 19 \/ k = 20 \/ k = 21 \/ k = 22 \/ k = 23
    /\ Order[1] = "BaseImage" /\ Order[2] = "RuntimeImage" /\ Order[3] = "SystemDeps"
    /\ Order[4] = "InstallCmd" /\ Order[5] = "BuildCmd" /\ Order[6] = "StartCmd"
    /\ Order[7] = "NoBuildCache" /\ Order[8] = "Expose" /\ Order[9] = "User"
    /\ Order[10] = "Healthcheck" /\ Order[11] = "HealthcheckOpts"
    /\ Order[12] = "EntrypointScript" /\ Order[13] = "Entrypoint" /\ Order[14] = "ExtraEnv"
    /\ Order[15] = "Secrets" /\ Order[16] = "Binaries" /\ Order[17] = "LdFlags"
    /\ Order[18] = "RuntimeAssets" /\ Order[19] = "ExternalTools" /\ Order[20] = "UseGoWork"
    /\ Order[21] = "RuntimeSystemDeps" /\ Order[22] = "ContextRoot"
    /\ Order[23] = "PrivateRegistry"
<1>1. \A k \in 1 .. 23 :
         \/ k = 1 \/ k = 2 \/ k = 3 \/ k = 4 \/ k = 5 \/ k = 6 \/ k = 7 \/ k = 8
         \/ k = 9 \/ k = 10 \/ k = 11 \/ k = 12 \/ k = 13 \/ k = 14 \/ k = 15 \/ k = 16
         \/ k = 17 \/ k = 18 \/ k = 19 \/ k = 20 \/ k = 21 \/ k = 22 \/ k = 23
  OBVIOUS
<1> QED
  BY <1>1 DEF Order

LEMMA FieldNames ==
    {"BaseImage", "RuntimeImage", "SystemDeps", "InstallCmd", "BuildCmd", "StartCmd",
     "NoBuildCache", "Expose", "User", "Healthcheck", "HealthcheckOpts", "EntrypointScript",
     "Entrypoint", "ExtraEnv", "Secrets", "Binaries", "LdFlags", "RuntimeAssets", "ExternalTools",
     "UseGoWork", "RuntimeSystemDeps", "ContextRoot", "PrivateRegistry"} = Fields
BY OrderIs DEF Fields, ToSet

LEMMA TurnInOrder == Order \in Seq(Fields) /\ \A k \in DOMAIN Order : Turn[Order[k]] = k
<1>1. DOMAIN Order = 1 .. 23
  BY OrderIs
<1>2. \A k \in DOMAIN Order : Turn[Order[k]] = k
  BY OrderIs, HasTurn
<1>3. \A k \in DOMAIN Order : Order[k] \in Fields
  BY DEF Fields, ToSet
<1>4. Order = [k \in 1 .. 23 |-> Order[k]]
  BY <1>1 DEF Order
<1>5. \E n \in Nat : DOMAIN Order = 1 .. n /\ Order = [k \in 1 .. n |-> Order[k]]
  BY <1>1, <1>4
<1>6. Order \in Seq(Fields)
  BY <1>3, <1>5
<1> QED
  BY <1>2, <1>6

\* What is still to be applied is set, and in its turn; and it is all that is
\* set and has not had its turn.
TodoInv ==
    /\ todo \in Seq(Fields)
    /\ todo # <<>> => status = "planning"
    /\ \A i \in DOMAIN todo : Has(todo[i])
    /\ \A i, j \in DOMAIN todo : i < j => Turn[todo[i]] < Turn[todo[j]]
Waits(field) == field \in ToSet(todo)

LEMMA OverridesWait ==
    ASSUME NEW c
    PROVE  /\ Overrides(c) \in Seq(Fields)
           /\ ToSet(Overrides(c)) = DOMAIN c \cap ToSet(Order)
           /\ \A i, j \in DOMAIN Overrides(c) :
                 i < j => Turn[Overrides(c)[i]] < Turn[Overrides(c)[j]]
<1> DEFINE I == {i \in DOMAIN Order : Order[i] \in DOMAIN c}
           t == Overrides(c)
<1>1. t = At(Order, I) /\ I \in SUBSET (DOMAIN Order)
  BY DEF Overrides
<1>2. ToSet(Order) = {Order[i] : i \in DOMAIN Order}
  BY DEF ToSet
<1>3. {Order[i] : i \in I} = DOMAIN c \cap ToSet(Order)
  BY <1>2
<1> HIDE DEF I, t
<1>4. t \in Seq(Fields) /\ ToSet(t) = {Order[i] : i \in I}
  BY <1>1, TurnInOrder, AtTakes
<1>5. PICK pos \in [DOMAIN t -> I] :
         /\ \A k \in DOMAIN t : t[k] = Order[pos[k]]
         /\ \A k, l \in DOMAIN t : k < l => pos[k] < pos[l]
  BY <1>1, TurnInOrder, AtInOrder
<1>6. \A k \in DOMAIN t : Turn[t[k]] = pos[k]
  BY <1>1, <1>5, TurnInOrder
<1> QED
  BY <1>3, <1>4, <1>5, <1>6 DEF t

LEMMA NextTurn ==
    ASSUME TodoInv, todo # <<>>, todo' = Tail(todo)
    PROVE  /\ todo' \in Seq(Fields)
           /\ ToSet(todo) = {Head(todo)} \cup ToSet(todo')
           /\ \A f \in ToSet(todo') : Turn[Head(todo)] < Turn[f]
           /\ \A i, j \in DOMAIN todo' : i < j => Turn[todo'[i]] < Turn[todo'[j]]
<1>1. /\ todo \in Seq(Fields) /\ Len(todo) \in Nat /\ Len(todo) # 0 /\ Head(todo) = todo[1]
      /\ todo' \in Seq(Fields) /\ Len(todo') = Len(todo) - 1
      /\ \A i \in 1 .. Len(todo) - 1 : todo'[i] = todo[i + 1]
  BY HeadTailProperties DEF TodoInv
<1>2. DOMAIN todo = 1 .. Len(todo) /\ DOMAIN todo' = 1 .. Len(todo) - 1
  BY <1>1
<1>3. ASSUME NEW i \in DOMAIN todo'
      PROVE  i + 1 \in DOMAIN todo /\ todo'[i] = todo[i + 1] /\ Turn[todo[1]] < Turn[todo[i + 1]]
  <2>1. i + 1 \in DOMAIN todo /\ 1 \in DOMAIN todo /\ 1 < i + 1
    BY <1>1, <1>2
  <2> QED
    BY <1>1, <1>2, <2>1 DEF TodoInv
<1>4. \A f \in ToSet(todo') : \E i \in DOMAIN todo' : f = todo'[i]
  BY DEF ToSet
<1>5. \A f \in ToSet(todo') : Turn[Head(todo)] < Turn[f] /\ f \in ToSet(todo)
  BY <1>1, <1>3, <1>4 DEF ToSet
<1>6. \A i, j \in DOMAIN todo' : i < j => Turn[todo'[i]] < Turn[todo'[j]]
  <2> SUFFICES ASSUME NEW i \in DOMAIN todo', NEW j \in DOMAIN todo', i < j
               PROVE  Turn[todo'[i]] < Turn[todo'[j]]
    OBVIOUS
  <2>1. i + 1 < j + 1
    BY <1>2
  <2> QED
    BY <1>3, <2>1 DEF TodoInv
<1>7. ASSUME NEW i \in DOMAIN todo
      PROVE  todo[i] \in {Head(todo)} \cup ToSet(todo')
  <2>1. CASE i = 1
    BY <1>1, <2>1
  <2>2. CASE i # 1
    <3>1. i - 1 \in DOMAIN todo' /\ (i - 1) + 1 = i
      BY <1>1, <1>2, <2>2
    <3>2. todo'[i - 1] = todo[i]
      BY <1>3, <3>1
    <3> QED
      BY <3>1, <3>2 DEF ToSet
  <2> QED
    BY <2>1, <2>2
<1>8. Head(todo) \in ToSet(todo)
  BY <1>1, <1>2 DEF ToSet
<1>9. ToSet(todo) \subseteq {Head(todo)} \cup ToSet(todo')
  BY <1>7 DEF ToSet
<1> QED
  BY <1>1, <1>5, <1>6, <1>8, <1>9

-----------------------------------------------------------------------------
(* What the planners make.                                                 *)

\* A step of a planner: it has nothing an override adds.
PlainSteps ==
    {e \in Steps : /\ e.op # "FETCHTOOL" /\ e.what \notin Added \cup {"assets"}
                   /\ e.what \in Creation => e.op = "RUN"}
PlainStages == [name : Names, from : Froms, steps : Seq(PlainSteps)]
PlainWhats == Whats \ Watched

LEMMA StepMade ==
    ASSUME NEW op \in Ops, NEW what \in Whats
    PROVE  /\ Step(op, what) \in Steps
           /\ Step(op, what).op = op /\ Step(op, what).what = what /\ Step(op, what).tool = "any"
           /\ Step(op, what).flag = "none" /\ Step(op, what).stage = "none"
BY DEF Step, Steps, Names, Tools, Flags

LEMMA PlainStep ==
    ASSUME NEW op \in Ops \ {"FETCHTOOL"}, NEW what \in PlainWhats
    PROVE  Step(op, what) \in PlainSteps
BY StepMade DEF PlainSteps, PlainWhats, Creation, Watched, Added

LEMMA PlainForImage ==
    ASSUME NEW e \in PlainSteps, NEW from
    PROVE  ForImage(e, from) \in PlainSteps
<1>1. Tool(from) \in Tools
  BY DEF Tool, Tools
<1>2. ForImage(e, from) \in Steps /\ ForImage(e, from).op = e.op /\ ForImage(e, from).what = e.what
  BY <1>1 DEF ForImage, PlainSteps, Steps
<1> QED
  BY <1>2 DEF PlainSteps

LEMMA PlainParts ==
    /\ Workdir \in PlainSteps /\ Manifests \in PlainSteps /\ Sources \in PlainSteps
    /\ Env \in PlainSteps /\ Expose \in PlainSteps /\ Start \in PlainSteps
    /\ Healthcheck \in PlainSteps /\ InShell(Start) \in PlainSteps
<1>1. {"WORKDIR", "COPY", "ENV", "EXPOSE", "CMD", "HEALTHCHECK"} \subseteq Ops \ {"FETCHTOOL"}
  BY DEF Ops
<1>2. {"app", "manifests", "sources", "default"} \subseteq PlainWhats
  BY DEF PlainWhats, Whats, Watched, Added
<1>3. /\ Workdir \in PlainSteps /\ Manifests \in PlainSteps /\ Sources \in PlainSteps
      /\ Env \in PlainSteps /\ Expose \in PlainSteps /\ Start \in PlainSteps
      /\ Healthcheck \in PlainSteps
  BY <1>1, <1>2, PlainStep DEF Workdir, Manifests, Sources, Env, Expose, Start, Healthcheck
<1>4. InShell(Start) \in PlainSteps
  BY <1>3 DEF InShell, PlainSteps, Steps, Flags
<1> QED
  BY <1>3, <1>4

LEMMA PlainCommands ==
    ASSUME NEW what \in PlainWhats, NEW stage \in Names, NEW from
    PROVE  /\ Run(what) \in PlainSteps /\ Cached(what) \in PlainSteps
           /\ User(what) \in PlainSteps /\ Step("ENTRYPOINT", what) \in PlainSteps
           /\ CopyFrom(stage, what) \in PlainSteps
           /\ ForImage(Run(what), from) \in PlainSteps
<1>1. {"RUN", "USER", "ENTRYPOINT", "COPYFROM"} \subseteq Ops \ {"FETCHTOOL"}
  BY DEF Ops
<1>2. /\ Run(what) \in PlainSteps /\ User(what) \in PlainSteps
      /\ Step("ENTRYPOINT", what) \in PlainSteps /\ Step("COPYFROM", what) \in PlainSteps
  BY <1>1, PlainStep DEF Run, User
<1>3. Cached(what) \in PlainSteps
  BY <1>2 DEF Cached, PlainSteps, Steps
<1>4. CopyFrom(stage, what) \in PlainSteps
  BY <1>2 DEF CopyFrom, PlainSteps, Steps
<1> QED
  BY <1>2, <1>3, <1>4, PlainForImage

LEMMA PlainAccount ==
    ASSUME NEW from
    PROVE  CreateUser(from) \in PlainSteps
<1>1. "RUN" \in Ops /\ "create-user" \in Whats
  BY DEF Ops, Whats
<1>2. /\ Run("create-user") \in Steps
      /\ Run("create-user").op = "RUN" /\ Run("create-user").what = "create-user"
  BY <1>1, StepMade DEF Run
<1>3. "create-user" \notin Added \cup {"assets"}
  BY DEF Added
<1>4. Run("create-user") \in PlainSteps
  BY <1>2, <1>3 DEF PlainSteps
<1> QED
  BY <1>4, PlainForImage DEF CreateUser

LEMMA PlainWords ==
    /\ {"packages", "install", "build", "go-build", "tini", "corepack", "composer", "prepare",
        "mix", "deps", "app", "artifact", "appuser", "node", "bun", "deno", "nginx", "nonroot",
        "www-data", "default"} \subseteq PlainWhats
    /\ {"deps", "build", "builder"} \subseteq Names
BY DEF PlainWhats, Whats, Watched, Added, Names

LEMMA Kinds ==
    /\ Workdir.op = "WORKDIR" /\ Manifests.op = "COPY" /\ Sources.op = "COPY" /\ Env.op = "ENV"
    /\ Expose.op = "EXPOSE" /\ Start.op = "CMD" /\ InShell(Start).op = "CMD"
    /\ Healthcheck.op = "HEALTHCHECK" /\ Sources.what = "sources" /\ Start.flag = "none"
    /\ \A what : Run(what).op = "RUN" /\ Run(what).what = what
    /\ \A what : Cached(what).op = "RUN" /\ Cached(what).what = what
    /\ \A what : User(what).op = "USER"
    /\ \A what : Step("ENTRYPOINT", what).op = "ENTRYPOINT"
    /\ \A from : CreateUser(from).op = "RUN"
    /\ \A from : Packages(from).op = "RUN"
    /\ \A what, from : /\ ForImage(Run(what), from).op = "RUN"
                       /\ ForImage(Run(what), from).what = what
    /\ \A stage, what :
          /\ CopyFrom(stage, what).op = "COPYFROM"
          /\ CopyFrom(stage, what).stage = stage /\ CopyFrom(stage, what).what = what
BY DEF Workdir, Manifests, Sources, Env, Expose, Start, InShell, Healthcheck, Run, ForImage, Cached,
       Packages, CreateUser, User, CopyFrom, Step

\* The step makes w, and is of a kind that no later override takes away.
Leaves(e, w) == Makes(e) = w /\ e.op \in {"RUN", "COPY"} /\ e.what # "manifests"

\* Every COPY --from finds what it copies in an earlier stage.
CopiesFound(p) ==
    \A i \in DOMAIN p : \A j \in DOMAIN p[i].steps :
        LET s == p[i].steps[j] IN
        s.op = "COPYFROM" =>
            \E k \in 1 .. i - 1 : /\ p[k].name = s.stage
                                  /\ \E l \in DOMAIN p[k].steps : Leaves(p[k].steps[l], s.what)

\* Where the steps of which there is one are, and that all commands come
\* before USER.
Laid(s, cmd, entrypoint, user, healthcheck, expose) ==
    \A i \in DOMAIN s :
        /\ s[i].op = "CMD" => i = cmd
        /\ s[i].op = "ENTRYPOINT" => i = entrypoint
        /\ s[i].op = "USER" => i = user
        /\ s[i].op = "HEALTHCHECK" => i = healthcheck
        /\ s[i].op = "EXPOSE" => i = expose
        /\ s[i].op = "RUN" => i < user

Tidy(s) == Neat(s, TRUE) /\ Once(s)

LEMMA LaidOut ==
    ASSUME NEW s \in Seq(PlainSteps), NEW cmd, NEW entrypoint, NEW user, NEW healthcheck,
           NEW expose, Laid(s, cmd, entrypoint, user, healthcheck, expose)
    PROVE  Tidy(s)
<1>1. \A i \in DOMAIN s : s[i] \in PlainSteps
  OBVIOUS
<1>2. \A i \in DOMAIN s :
         /\ s[i].op # "FETCHTOOL" /\ s[i].what # "assets"
         /\ s[i].what \in Creation => s[i].op = "RUN"
  BY <1>1 DEF PlainSteps
<1>3. \A i, j \in DOMAIN s : s[i].op = "USER" /\ s[j].op = "RUN" => j < i
  BY DEF Laid
<1>4. Neat(s, TRUE)
  <2>1. \A i, j \in DOMAIN s : s[i].op = "USER" /\ s[j].what \in Creation => j < i
    BY <1>2, <1>3
  <2>2. \A i, j \in DOMAIN s : s[i].op = "USER" /\ s[j].op \in NeedsRoot => j < i
    BY <1>2, <1>3 DEF NeedsRoot
  <2> QED
    BY <1>2, <2>1, <2>2 DEF Neat
<1>5. Once(s)
  BY DEF Once, Laid, Singles
<1> QED
  BY <1>4, <1>5 DEF Tidy

\* What is true of a plan before the first override.
Shell(steps) == \E j \in DOMAIN steps : Form(steps[j]) = "shell"
NoCopies(s) == \A j \in DOMAIN s : s[j].op # "COPYFROM"
Bare(s) == \A j \in DOMAIN s : s[j].op \notin {"COPYFROM", "HEALTHCHECK"}
RootlessCommands(s) == HasUser(s) => \E j \in DOMAIN s : s[j].op = "RUN"
Sound(p) ==
    /\ p \in Seq(PlainStages) /\ p # <<>> /\ p[Len(p)].name = "runtime"
    /\ Tidy(LastOf(p).steps)
    /\ Len(p) = 1 => RootlessCommands(p[1].steps)
    /\ \A i \in DOMAIN p : p[i].from = "distroless" => i # 1 /\ i = Len(p) /\ ~Shell(p[i].steps)
    /\ CopiesFound(p)
    /\ \A i \in DOMAIN p : i # Len(p) => Bare(p[i].steps)

Copies(s, name, whats) ==
    \A j \in DOMAIN s : s[j].op = "COPYFROM" => s[j].stage = name /\ s[j].what \in whats
MakesAll(s, whats) == \A w \in whats : \E l \in DOMAIN s : Leaves(s[l], w)

LEMMA Pair ==
    ASSUME NEW T, NEW a \in T, NEW b \in T
    PROVE  <<a, b>> \in Seq(T) /\ DOMAIN <<a, b>> = 1 .. 2
OBVIOUS

LEMMA Triple ==
    ASSUME NEW T, NEW a \in T, NEW b \in T, NEW c \in T
    PROVE  <<a, b, c>> \in Seq(T) /\ DOMAIN <<a, b, c>> = 1 .. 3
OBVIOUS

\* The stage at position i.
StageAt(p, i, name, from, steps) == p[i].name = name /\ p[i].from = from /\ p[i].steps = steps

LEMMA OneStageListed ==
    ASSUME NEW from \in Froms, NEW F \in Seq(PlainSteps)
    PROVE  LET p == <<Stage("runtime", from, F)>> IN
           p \in Seq(PlainStages) /\ Len(p) = 1 /\ StageAt(p, 1, "runtime", from, F)
<1>1. Stage("runtime", from, F) \in PlainStages
  BY DEF PlainStages, Stage, Names
<1> QED
  BY <1>1 DEF StageAt, Stage

LEMMA TwoStagesListed ==
    ASSUME NEW name \in Names, NEW from \in Froms, NEW B \in Seq(PlainSteps),
           NEW image \in Froms, NEW F \in Seq(PlainSteps)
    PROVE  LET p == <<Stage(name, from, B), Stage("runtime", image, F)>> IN
           /\ p \in Seq(PlainStages) /\ Len(p) = 2
           /\ StageAt(p, 1, name, from, B) /\ StageAt(p, 2, "runtime", image, F)
<1> DEFINE b == Stage(name, from, B)
           r == Stage("runtime", image, F)
<1>1. b \in PlainStages /\ r \in PlainStages
  BY DEF PlainStages, Stage, Names
<1>2. <<b, r>> \in Seq(PlainStages) /\ Len(<<b, r>>) = 2
  <2> HIDE DEF b, r
  <2> QED
    BY <1>1, Pair
<1> QED
  BY <1>2 DEF StageAt, Stage

LEMMA ThreeStagesListed ==
    ASSUME NEW from \in Froms, NEW A \in Seq(PlainSteps), NEW B \in Seq(PlainSteps),
           NEW image \in Froms, NEW F \in Seq(PlainSteps)
    PROVE  LET p == <<Stage("deps", from, A), Stage("build", "deps", B),
                      Stage("runtime", image, F)>> IN
           /\ p \in Seq(PlainStages) /\ Len(p) = 3
           /\ StageAt(p, 1, "deps", from, A) /\ StageAt(p, 2, "build", "deps", B)
           /\ StageAt(p, 3, "runtime", image, F)
<1> DEFINE a == Stage("deps", from, A)
           b == Stage("build", "deps", B)
           r == Stage("runtime", image, F)
<1>1. a \in PlainStages /\ b \in PlainStages /\ r \in PlainStages
  BY DEF PlainStages, Stage, Names, Froms
<1>2. <<a, b, r>> \in Seq(PlainStages) /\ Len(<<a, b, r>>) = 3
  <2> HIDE DEF a, b, r
  <2> QED
    BY <1>1, Triple
<1> QED
  BY <1>2 DEF StageAt, Stage

LEMMA OneStage ==
    ASSUME NEW from, from # "distroless", NEW F, Tidy(F),
           RootlessCommands(F), NoCopies(F),
           NEW p \in Seq(PlainStages), Len(p) = 1, StageAt(p, 1, "runtime", from, F)
    PROVE  Sound(p)
<1>1. DOMAIN p = 1 .. 1
  OBVIOUS
<1>2. \A i \in DOMAIN p : i = 1
  BY <1>1
<1>3. CopiesFound(p)
  BY <1>2 DEF CopiesFound, NoCopies, StageAt
<1>4. p # <<>> /\ p[Len(p)].name = "runtime" /\ LastOf(p).steps = F
  <2>1. p # <<>>
    <3>1. Len(p) # 0
      OBVIOUS
    <3> QED
      BY <3>1, EmptySeq
  <2> QED
    BY <2>1 DEF LastOf, StageAt
<1>5. Tidy(LastOf(p).steps)
  BY <1>4
<1>6. RootlessCommands(p[1].steps) /\ p[1].from # "distroless"
  BY DEF StageAt
<1>7. \A i \in DOMAIN p : i = Len(p)
  BY <1>2
<1> QED
  BY <1>2, <1>3, <1>4, <1>5, <1>6, <1>7 DEF Sound

LEMMA CopiesFound2 ==
    ASSUME NEW name, NEW from, NEW B, NEW image, NEW F, NEW whats,
           Bare(B), Copies(F, name, whats), MakesAll(B, whats),
           NEW p, DOMAIN p = 1 .. 2, StageAt(p, 1, name, from, B),
           StageAt(p, 2, "runtime", image, F)
    PROVE  CopiesFound(p)
<1>1. ASSUME NEW j \in DOMAIN F, F[j].op = "COPYFROM"
      PROVE  \E k \in 1 .. 1 : /\ p[k].name = F[j].stage
                               /\ \E l \in DOMAIN p[k].steps : Leaves(p[k].steps[l], F[j].what)
  <2>1. F[j].stage = name /\ \E l \in DOMAIN B : Leaves(B[l], F[j].what)
    BY <1>1 DEF Copies, MakesAll
  <2>2. p[1].name = F[j].stage /\ \E l \in DOMAIN p[1].steps : Leaves(p[1].steps[l], F[j].what)
    BY <2>1 DEF StageAt
  <2> QED
    BY <2>2
<1>2. \A j \in DOMAIN B : B[j].op # "COPYFROM"
  BY DEF Bare
<1>3. p[1].steps = B /\ p[2].steps = F /\ 2 - 1 = 1
  BY DEF StageAt
<1>4. \A i \in DOMAIN p : i = 1 \/ i = 2
  OBVIOUS
<1> QED
  BY <1>1, <1>2, <1>3, <1>4 DEF CopiesFound

LEMMA TwoStages ==
    ASSUME NEW name, NEW from, from # "distroless", NEW B, NEW image, NEW F,
           Tidy(F), image = "distroless" => ~Shell(F),
           NEW whats, Bare(B), Copies(F, name, whats), MakesAll(B, whats),
           NEW p \in Seq(PlainStages), Len(p) = 2,
           StageAt(p, 1, name, from, B),
           StageAt(p, 2, "runtime", image, F)
    PROVE  Sound(p)
<1>1. DOMAIN p = 1 .. 2
  OBVIOUS
<1>2. CopiesFound(p)
  BY <1>1, CopiesFound2
<1>3. p # <<>> /\ p[Len(p)].name = "runtime" /\ LastOf(p).steps = F
  <2>1. p # <<>>
    OBVIOUS
  <2> QED
    BY <2>1 DEF LastOf, StageAt
<1>5. Tidy(LastOf(p).steps)
  BY <1>3
<1>6. Len(p) # 1
  OBVIOUS
<1>4. \A i \in DOMAIN p : p[i].from = "distroless" => i # 1 /\ i = Len(p) /\ ~Shell(p[i].steps)
  BY <1>1 DEF StageAt
<1>7. \A i \in DOMAIN p : i # Len(p) => Bare(p[i].steps)
  BY <1>1 DEF StageAt
<1> QED
  BY <1>2, <1>3, <1>4, <1>5, <1>6, <1>7 DEF Sound

LEMMA CopiesFound3 ==
    ASSUME NEW from, NEW A, NEW B, NEW image, NEW F, NEW made, NEW built,
           Bare(A), Bare(B),
           \A j \in DOMAIN F : F[j].op = "COPYFROM" =>
              \/ F[j].stage = "deps" /\ F[j].what \in made
              \/ F[j].stage = "build" /\ F[j].what \in built,
           MakesAll(A, made), MakesAll(B, built),
           NEW p, DOMAIN p = 1 .. 3, StageAt(p, 1, "deps", from, A),
           StageAt(p, 2, "build", "deps", B), StageAt(p, 3, "runtime", image, F)
    PROVE  CopiesFound(p)
<1>1. ASSUME NEW j \in DOMAIN F, F[j].op = "COPYFROM"
      PROVE  \E k \in 1 .. 2 : /\ p[k].name = F[j].stage
                               /\ \E l \in DOMAIN p[k].steps : Leaves(p[k].steps[l], F[j].what)
  <2>1. CASE F[j].stage = "deps" /\ F[j].what \in made
    <3>1. p[1].name = F[j].stage /\ \E l \in DOMAIN p[1].steps : Leaves(p[1].steps[l], F[j].what)
      BY <2>1 DEF MakesAll, StageAt
    <3> QED
      BY <3>1
  <2>2. CASE F[j].stage = "build" /\ F[j].what \in built
    <3>1. p[2].name = F[j].stage /\ \E l \in DOMAIN p[2].steps : Leaves(p[2].steps[l], F[j].what)
      BY <2>2 DEF MakesAll, StageAt
    <3> QED
      BY <3>1
  <2> QED
    BY <1>1, <2>1, <2>2
<1>2. /\ \A j \in DOMAIN A : A[j].op # "COPYFROM"
      /\ \A j \in DOMAIN B : B[j].op # "COPYFROM"
  BY DEF Bare
<1>3. p[1].steps = A /\ p[2].steps = B /\ p[3].steps = F /\ 3 - 1 = 2
  BY DEF StageAt
<1>4. \A i \in DOMAIN p : i = 1 \/ i = 2 \/ i = 3
  OBVIOUS
<1> QED
  BY <1>1, <1>2, <1>3, <1>4 DEF CopiesFound

LEMMA ThreeStages ==
    ASSUME NEW from, from # "distroless", NEW A, NEW B, NEW image, image # "distroless",
           NEW F, Tidy(F),
           NEW made, NEW built, Bare(A), Bare(B),
           \A j \in DOMAIN F : F[j].op = "COPYFROM" =>
              \/ F[j].stage = "deps" /\ F[j].what \in made
              \/ F[j].stage = "build" /\ F[j].what \in built,
           MakesAll(A, made), MakesAll(B, built),
           NEW p \in Seq(PlainStages), Len(p) = 3, StageAt(p, 1, "deps", from, A),
           StageAt(p, 2, "build", "deps", B), StageAt(p, 3, "runtime", image, F)
    PROVE  Sound(p)
<1>1. DOMAIN p = 1 .. 3
  OBVIOUS
<1>2. CopiesFound(p)
  BY <1>1, CopiesFound3
<1>3. p # <<>> /\ p[Len(p)].name = "runtime" /\ LastOf(p).steps = F
  <2>1. p # <<>>
    OBVIOUS
  <2> QED
    BY <2>1 DEF LastOf, StageAt
<1>5. Tidy(LastOf(p).steps)
  BY <1>3
<1>6. Len(p) # 1
  OBVIOUS
<1>4. \A i \in DOMAIN p : p[i].from # "distroless"
  BY <1>1 DEF StageAt
<1>7. \A i \in DOMAIN p : i # Len(p) => Bare(p[i].steps)
  BY <1>1 DEF StageAt
<1> QED
  BY <1>2, <1>3, <1>4, <1>5, <1>6, <1>7 DEF Sound

-----------------------------------------------------------------------------
(* Each planner.                                                           *)

LEMMA NodeStages ==
    ASSUME NEW image, NEW setup, NEW user
    PROVE  LET p == planNode(image, setup, user) IN
           p = <<Stage("deps", image, p[1].steps), Stage("build", "deps", p[2].steps),
                 Stage("runtime", image, p[3].steps)>>
<1>1. [NodeDeps(image, setup) EXCEPT !.steps = @ \o TiniBuild(image)] =
         Stage("deps", image, NodeDeps(image, setup).steps \o TiniBuild(image))
  <2> SUFFICES ASSUME NEW steps, NEW more
               PROVE  [Stage("deps", image, steps) EXCEPT !.steps = more] =
                         Stage("deps", image, more)
    BY DEF NodeDeps, Stage
  <2> DEFINE d == Stage("deps", image, steps)
             r == [d EXCEPT !.steps = more]
  <2>1. d \in [name : {"deps"}, from : {image}, steps : {steps, more}]
    BY DEF Stage
  <2>2. r \in [name : {"deps"}, from : {image}, steps : {steps, more}] /\ r.steps = more
    BY <2>1
  <2> QED
    BY <2>2 DEF Stage
<1>2. NodeBuild = Stage("build", "deps", NodeBuild.steps)
  BY DEF NodeBuild, Stage
<1>3. \A steps : Stage("deps", image, steps).steps = steps
                 /\ Stage("runtime", image, steps).steps = steps
  BY DEF Stage
<1> QED
  BY <1>1, <1>2, <1>3 DEF planNode

LEMMA NodeSound ==
    Sound(planNode("alpine", <<>>, "node"))
<1>0. SUFFICES ASSUME NEW p, NEW A, NEW B, NEW F, NEW WA, NEW WB,
                      p = planNode("alpine", <<>>, "node"),
                      A = p[1].steps, B = p[2].steps, F = p[3].steps,
                      WA = {"tini"}, WB = {"app"}
               PROVE  Sound(p)
  OBVIOUS
<1>1. p = <<Stage("deps", "alpine", A), Stage("build", "deps", B), Stage("runtime", "alpine", F)>>
  BY <1>0, NodeStages
<1>2. A = <<Workdir, Manifests, Cached("install"), ForImage(Run("tini"), "alpine")>>
  BY <1>0 DEF planNode, NodeDeps, NodeBuild, TiniBuild, TiniStart, Stage
<1>3. B = <<Sources, Run("build")>>
  BY <1>0 DEF planNode, NodeDeps, NodeBuild, TiniBuild, TiniStart, Stage
<1>4. F = <<Workdir, CopyFrom("build", "app"), Start, CopyFrom("deps", "tini"),
            Step("ENTRYPOINT", "tini"), User("node"), Healthcheck>>
  BY <1>0 DEF planNode, NodeDeps, NodeBuild, TiniBuild, TiniStart, Stage
<1>5. A \in Seq(PlainSteps)
  BY <1>2, PlainParts, PlainCommands, PlainWords
<1>6. B \in Seq(PlainSteps)
  BY <1>3, PlainParts, PlainCommands, PlainWords
<1>7. F \in Seq(PlainSteps)
  BY <1>4, PlainParts, PlainCommands, PlainWords
<1>8. Laid(F, 3, 5, 6, 7, 0)
  BY <1>4, Kinds DEF Laid
<1>9. Tidy(F)
  BY <1>7, <1>8, LaidOut
<1>10. Bare(A)
  BY <1>2, Kinds DEF Bare
<1>11. MakesAll(A, WA)
  BY <1>0, <1>2, Kinds DEF MakesAll, Leaves, Makes
<1>12. Bare(B)
  BY <1>3, Kinds DEF Bare
<1>13. MakesAll(B, WB)
  BY <1>0, <1>3, Kinds DEF MakesAll, Leaves, Makes
<1>14. \A j \in DOMAIN F : F[j].op = "COPYFROM" =>
         \/ F[j].stage = "deps" /\ F[j].what \in WA
         \/ F[j].stage = "build" /\ F[j].what \in WB
  BY <1>0, <1>4, Kinds
<1>15. /\ p \in Seq(PlainStages) /\ Len(p) = 3 /\ StageAt(p, 1, "deps", "alpine", A)
       /\ StageAt(p, 2, "build", "deps", B) /\ StageAt(p, 3, "runtime", "alpine", F)
  BY <1>1, <1>5, <1>6, <1>7, ThreeStagesListed, PlainWords DEF Froms, Images
<1> QED
  BY <1>9, <1>10, <1>11, <1>12, <1>13, <1>14, <1>15, ThreeStages

LEMMA NodeCorepackSound ==
    Sound(planNode("alpine", <<Run("corepack")>>, "node"))
<1>0. SUFFICES ASSUME NEW p, NEW A, NEW B, NEW F, NEW WA, NEW WB,
                      p = planNode("alpine", <<Run("corepack")>>, "node"),
                      A = p[1].steps, B = p[2].steps, F = p[3].steps,
                      WA = {"tini"}, WB = {"app"}
               PROVE  Sound(p)
  OBVIOUS
<1>1. p = <<Stage("deps", "alpine", A), Stage("build", "deps", B), Stage("runtime", "alpine", F)>>
  BY <1>0, NodeStages
<1>2. A = <<Workdir, Run("corepack"), Manifests, Cached("install"),
            ForImage(Run("tini"), "alpine")>>
  BY <1>0 DEF planNode, NodeDeps, NodeBuild, TiniBuild, TiniStart, Stage
<1>3. B = <<Sources, Run("build")>>
  BY <1>0 DEF planNode, NodeDeps, NodeBuild, TiniBuild, TiniStart, Stage
<1>4. F = <<Workdir, CopyFrom("build", "app"), Start, CopyFrom("deps", "tini"),
            Step("ENTRYPOINT", "tini"), User("node"), Healthcheck>>
  BY <1>0 DEF planNode, NodeDeps, NodeBuild, TiniBuild, TiniStart, Stage
<1>5. A \in Seq(PlainSteps)
  BY <1>2, PlainParts, PlainCommands, PlainWords
<1>6. B \in Seq(PlainSteps)
  BY <1>3, PlainParts, PlainCommands, PlainWords
<1>7. F \in Seq(PlainSteps)
  BY <1>4, PlainParts, PlainCommands, PlainWords
<1>8. Laid(F, 3, 5, 6, 7, 0)
  BY <1>4, Kinds DEF Laid
<1>9. Tidy(F)
  BY <1>7, <1>8, LaidOut
<1>10. Bare(A)
  BY <1>2, Kinds DEF Bare
<1>11. MakesAll(A, WA)
  BY <1>0, <1>2, Kinds DEF MakesAll, Leaves, Makes
<1>12. Bare(B)
  BY <1>3, Kinds DEF Bare
<1>13. MakesAll(B, WB)
  BY <1>0, <1>3, Kinds DEF MakesAll, Leaves, Makes
<1>14. \A j \in DOMAIN F : F[j].op = "COPYFROM" =>
         \/ F[j].stage = "deps" /\ F[j].what \in WA
         \/ F[j].stage = "build" /\ F[j].what \in WB
  BY <1>0, <1>4, Kinds
<1>15. /\ p \in Seq(PlainStages) /\ Len(p) = 3 /\ StageAt(p, 1, "deps", "alpine", A)
       /\ StageAt(p, 2, "build", "deps", B) /\ StageAt(p, 3, "runtime", "alpine", F)
  BY <1>1, <1>5, <1>6, <1>7, ThreeStagesListed, PlainWords DEF Froms, Images
<1> QED
  BY <1>9, <1>10, <1>11, <1>12, <1>13, <1>14, <1>15, ThreeStages

LEMMA NodeOnBunSound ==
    Sound(planNode("debian", <<>>, "bun"))
<1>0. SUFFICES ASSUME NEW p, NEW A, NEW B, NEW F, NEW WA, NEW WB,
                      p = planNode("debian", <<>>, "bun"),
                      A = p[1].steps, B = p[2].steps, F = p[3].steps,
                      WA = {"tini"}, WB = {"app"}
               PROVE  Sound(p)
  OBVIOUS
<1>1. p = <<Stage("deps", "debian", A), Stage("build", "deps", B), Stage("runtime", "debian", F)>>
  BY <1>0, NodeStages
<1>2. A = <<Workdir, Manifests, Cached("install"), ForImage(Run("tini"), "debian")>>
  BY <1>0 DEF planNode, NodeDeps, NodeBuild, TiniBuild, TiniStart, Stage
<1>3. B = <<Sources, Run("build")>>
  BY <1>0 DEF planNode, NodeDeps, NodeBuild, TiniBuild, TiniStart, Stage
<1>4. F = <<Workdir, CopyFrom("build", "app"), Start, CopyFrom("deps", "tini"),
            Step("ENTRYPOINT", "tini"), User("bun"), Healthcheck>>
  BY <1>0 DEF planNode, NodeDeps, NodeBuild, TiniBuild, TiniStart, Stage
<1>5. A \in Seq(PlainSteps)
  BY <1>2, PlainParts, PlainCommands, PlainWords
<1>6. B \in Seq(PlainSteps)
  BY <1>3, PlainParts, PlainCommands, PlainWords
<1>7. F \in Seq(PlainSteps)
  BY <1>4, PlainParts, PlainCommands, PlainWords
<1>8. Laid(F, 3, 5, 6, 7, 0)
  BY <1>4, Kinds DEF Laid
<1>9. Tidy(F)
  BY <1>7, <1>8, LaidOut
<1>10. Bare(A)
  BY <1>2, Kinds DEF Bare
<1>11. MakesAll(A, WA)
  BY <1>0, <1>2, Kinds DEF MakesAll, Leaves, Makes
<1>12. Bare(B)
  BY <1>3, Kinds DEF Bare
<1>13. MakesAll(B, WB)
  BY <1>0, <1>3, Kinds DEF MakesAll, Leaves, Makes
<1>14. \A j \in DOMAIN F : F[j].op = "COPYFROM" =>
         \/ F[j].stage = "deps" /\ F[j].what \in WA
         \/ F[j].stage = "build" /\ F[j].what \in WB
  BY <1>0, <1>4, Kinds
<1>15. /\ p \in Seq(PlainStages) /\ Len(p) = 3 /\ StageAt(p, 1, "deps", "debian", A)
       /\ StageAt(p, 2, "build", "deps", B) /\ StageAt(p, 3, "runtime", "debian", F)
  BY <1>1, <1>5, <1>6, <1>7, ThreeStagesListed, PlainWords DEF Froms, Images
<1> QED
  BY <1>9, <1>10, <1>11, <1>12, <1>13, <1>14, <1>15, ThreeStages

LEMMA NodeStaticSound ==
    Sound(planNodeStatic)
<1>0. SUFFICES ASSUME NEW p, NEW A, NEW B, NEW F, NEW WA, NEW WB,
                      p = planNodeStatic, A = p[1].steps, B = p[2].steps, F = p[3].steps,
                      WA = {}, WB = {"artifact"}
               PROVE  Sound(p)
  OBVIOUS
<1>1. p = <<Stage("deps", "alpine", A), Stage("build", "deps", B), Stage("runtime", "alpine", F)>>
  BY <1>0 DEF planNodeStatic, NodeDeps, NodeBuild, NginxUser, Stage
<1>2. A = <<Workdir, Manifests, Cached("install")>>
  BY <1>0 DEF planNodeStatic, NodeDeps, NodeBuild, NginxUser, Stage
<1>3. B = <<Sources, Run("build")>>
  BY <1>0 DEF planNodeStatic, NodeDeps, NodeBuild, NginxUser, Stage
<1>4. F = <<CopyFrom("build", "artifact"), Run("prepare"), User("nginx"), Healthcheck>>
  BY <1>0 DEF planNodeStatic, NodeDeps, NodeBuild, NginxUser, Stage
<1>5. A \in Seq(PlainSteps)
  BY <1>2, PlainParts, PlainCommands, PlainWords
<1>6. B \in Seq(PlainSteps)
  BY <1>3, PlainParts, PlainCommands, PlainWords
<1>7. F \in Seq(PlainSteps)
  BY <1>4, PlainParts, PlainCommands, PlainWords
<1>8. Laid(F, 0, 0, 3, 4, 0)
  BY <1>4, Kinds DEF Laid
<1>9. Tidy(F)
  BY <1>7, <1>8, LaidOut
<1>10. Bare(A)
  BY <1>2, Kinds DEF Bare
<1>11. MakesAll(A, WA)
  BY <1>0, <1>2, Kinds DEF MakesAll, Leaves, Makes
<1>12. Bare(B)
  BY <1>3, Kinds DEF Bare
<1>13. MakesAll(B, WB)
  BY <1>0, <1>3, Kinds DEF MakesAll, Leaves, Makes
<1>14. \A j \in DOMAIN F : F[j].op = "COPYFROM" =>
         \/ F[j].stage = "deps" /\ F[j].what \in WA
         \/ F[j].stage = "build" /\ F[j].what \in WB
  BY <1>0, <1>4, Kinds
<1>15. /\ p \in Seq(PlainStages) /\ Len(p) = 3 /\ StageAt(p, 1, "deps", "alpine", A)
       /\ StageAt(p, 2, "build", "deps", B) /\ StageAt(p, 3, "runtime", "alpine", F)
  BY <1>1, <1>5, <1>6, <1>7, ThreeStagesListed, PlainWords DEF Froms, Images
<1> QED
  BY <1>9, <1>10, <1>11, <1>12, <1>13, <1>14, <1>15, ThreeStages

LEMMA BunSound ==
    Sound(planBun(<<>>))
<1>0. SUFFICES ASSUME NEW p, NEW B, NEW F, NEW W,
                      p = planBun(<<>>), B = p[1].steps, F = p[2].steps,
                      W = {"app"}
               PROVE  Sound(p)
  OBVIOUS
<1>1. p = <<Stage("build", "debian", B), Stage("runtime", "debian", F)>>
  BY <1>0 DEF planBun, Stage
<1>2. B = <<Workdir, Manifests, Run("install"), Sources>>
  BY <1>0 DEF planBun, Stage
<1>3. F = <<Workdir, CopyFrom("build", "app"), Start, User("bun"), Healthcheck>>
  BY <1>0 DEF planBun, Stage
<1>4. B \in Seq(PlainSteps)
  BY <1>2, PlainParts, PlainCommands, PlainWords
<1>5. F \in Seq(PlainSteps)
  BY <1>3, PlainParts, PlainCommands, PlainWords
<1>6. Laid(F, 3, 0, 4, 5, 0)
  BY <1>3, Kinds DEF Laid
<1>7. Tidy(F)
  BY <1>5, <1>6, LaidOut
<1>8. Bare(B)
  BY <1>2, Kinds DEF Bare
<1>9. MakesAll(B, W)
  BY <1>0, <1>2, Kinds DEF MakesAll, Leaves, Makes
<1>10. Copies(F, "build", W)
  BY <1>0, <1>3, Kinds DEF Copies
<1>11. /\ p \in Seq(PlainStages) /\ Len(p) = 2 /\ StageAt(p, 1, "build", "debian", B)
       /\ StageAt(p, 2, "runtime", "debian", F)
  BY <1>1, <1>4, <1>5, TwoStagesListed, PlainWords DEF Froms, Images
<1> QED
  BY <1>7, <1>8, <1>9, <1>10, <1>11, TwoStages

LEMMA BunBuiltSound ==
    Sound(planBun(<<Run("build")>>))
<1>0. SUFFICES ASSUME NEW p, NEW B, NEW F, NEW W,
                      p = planBun(<<Run("build")>>), B = p[1].steps, F = p[2].steps,
                      W = {"app"}
               PROVE  Sound(p)
  OBVIOUS
<1>1. p = <<Stage("build", "debian", B), Stage("runtime", "debian", F)>>
  BY <1>0 DEF planBun, Stage
<1>2. B = <<Workdir, Manifests, Run("install"), Sources, Run("build")>>
  BY <1>0 DEF planBun, Stage
<1>3. F = <<Workdir, CopyFrom("build", "app"), Start, User("bun"), Healthcheck>>
  BY <1>0 DEF planBun, Stage
<1>4. B \in Seq(PlainSteps)
  BY <1>2, PlainParts, PlainCommands, PlainWords
<1>5. F \in Seq(PlainSteps)
  BY <1>3, PlainParts, PlainCommands, PlainWords
<1>6. Laid(F, 3, 0, 4, 5, 0)
  BY <1>3, Kinds DEF Laid
<1>7. Tidy(F)
  BY <1>5, <1>6, LaidOut
<1>8. Bare(B)
  BY <1>2, Kinds DEF Bare
<1>9. MakesAll(B, W)
  BY <1>0, <1>2, Kinds DEF MakesAll, Leaves, Makes
<1>10. Copies(F, "build", W)
  BY <1>0, <1>3, Kinds DEF Copies
<1>11. /\ p \in Seq(PlainStages) /\ Len(p) = 2 /\ StageAt(p, 1, "build", "debian", B)
       /\ StageAt(p, 2, "runtime", "debian", F)
  BY <1>1, <1>4, <1>5, TwoStagesListed, PlainWords DEF Froms, Images
<1> QED
  BY <1>7, <1>8, <1>9, <1>10, <1>11, TwoStages

LEMMA DenoSound ==
    Sound(planDeno)
<1>0. SUFFICES ASSUME NEW p, NEW B, NEW F, NEW W,
                      p = planDeno, B = p[1].steps, F = p[2].steps,
                      W = {"app"}
               PROVE  Sound(p)
  OBVIOUS
<1>1. p = <<Stage("build", "debian", B), Stage("runtime", "debian", F)>>
  BY <1>0 DEF planDeno, Stage
<1>2. B = <<Workdir, Env, Sources, Run("install")>>
  BY <1>0 DEF planDeno, Stage
<1>3. F = <<Workdir, CopyFrom("build", "app"), Start, User("deno"), Healthcheck>>
  BY <1>0 DEF planDeno, Stage
<1>4. B \in Seq(PlainSteps)
  BY <1>2, PlainParts, PlainCommands, PlainWords
<1>5. F \in Seq(PlainSteps)
  BY <1>3, PlainParts, PlainCommands, PlainWords
<1>6. Laid(F, 3, 0, 4, 5, 0)
  BY <1>3, Kinds DEF Laid
<1>7. Tidy(F)
  BY <1>5, <1>6, LaidOut
<1>8. Bare(B)
  BY <1>2, Kinds DEF Bare
<1>9. MakesAll(B, W)
  BY <1>0, <1>2, Kinds DEF MakesAll, Leaves, Makes
<1>10. Copies(F, "build", W)
  BY <1>0, <1>3, Kinds DEF Copies
<1>11. /\ p \in Seq(PlainStages) /\ Len(p) = 2 /\ StageAt(p, 1, "build", "debian", B)
       /\ StageAt(p, 2, "runtime", "debian", F)
  BY <1>1, <1>4, <1>5, TwoStagesListed, PlainWords DEF Froms, Images
<1> QED
  BY <1>7, <1>8, <1>9, <1>10, <1>11, TwoStages

LEMMA PythonSound ==
    Sound(planPython)
<1>0. SUFFICES ASSUME NEW p, NEW B, NEW F, NEW W,
                      p = planPython, B = p[1].steps, F = p[2].steps,
                      W = {"deps", "app", "tini"}
               PROVE  Sound(p)
  OBVIOUS
<1>1. p = <<Stage("builder", "debian", B), Stage("runtime", "debian", F)>>
  BY <1>0 DEF planPython, TiniBuild, TiniStart, NonRoot, Stage
<1>2. B = <<Workdir, Packages("debian"), Manifests, Cached("install"), Sources,
            ForImage(Run("tini"), "debian")>>
  BY <1>0 DEF planPython, TiniBuild, TiniStart, NonRoot, Stage
<1>3. F = <<Workdir, Packages("debian"), CopyFrom("builder", "deps"), CopyFrom("builder", "app"),
            Env, Env, Expose, InShell(Start), CopyFrom("builder", "tini"),
            Step("ENTRYPOINT", "tini"), CreateUser("debian"), User("appuser"), Healthcheck>>
  BY <1>0 DEF planPython, TiniBuild, TiniStart, NonRoot, Stage
<1>4. B \in Seq(PlainSteps)
  BY <1>2, PlainParts, PlainCommands, PlainWords DEF Packages
<1>5. F \in Seq(PlainSteps)
  BY <1>3, PlainParts, PlainCommands, PlainWords, PlainAccount DEF Packages
<1>6. Laid(F, 8, 10, 12, 13, 7)
  BY <1>3, Kinds DEF Laid
<1>7. Tidy(F)
  BY <1>5, <1>6, LaidOut
<1>8. Bare(B)
  BY <1>2, Kinds DEF Bare
<1>9. MakesAll(B, W)
  BY <1>0, <1>2, Kinds DEF MakesAll, Leaves, Makes
<1>10. Copies(F, "builder", W)
  BY <1>0, <1>3, Kinds DEF Copies
<1>11. /\ p \in Seq(PlainStages) /\ Len(p) = 2 /\ StageAt(p, 1, "builder", "debian", B)
       /\ StageAt(p, 2, "runtime", "debian", F)
  BY <1>1, <1>4, <1>5, TwoStagesListed, PlainWords DEF Froms, Images
<1> QED
  BY <1>7, <1>8, <1>9, <1>10, <1>11, TwoStages

LEMMA GoSound ==
    Sound(planGo)
<1>0. SUFFICES ASSUME NEW p, NEW B, NEW F, NEW W,
                      p = planGo, B = p[1].steps, F = p[2].steps,
                      W = {"artifact"}
               PROVE  Sound(p)
  OBVIOUS
<1>1. p = <<Stage("builder", "alpine", B), Stage("runtime", "distroless", F)>>
  BY <1>0 DEF planGo, Stage
<1>2. B = <<Workdir, Manifests, Cached("install"), Sources, Run("go-build")>>
  BY <1>0 DEF planGo, Stage
<1>3. F = <<Workdir, CopyFrom("builder", "artifact"), User("nonroot"), Expose, Start>>
  BY <1>0 DEF planGo, Stage
<1>4. B \in Seq(PlainSteps)
  BY <1>2, PlainParts, PlainCommands, PlainWords
<1>5. F \in Seq(PlainSteps)
  BY <1>3, PlainParts, PlainCommands, PlainWords
<1>6. Laid(F, 5, 0, 3, 0, 4)
  BY <1>3, Kinds DEF Laid
<1>7. Tidy(F)
  BY <1>5, <1>6, LaidOut
<1>8. Bare(B)
  BY <1>2, Kinds DEF Bare
<1>9. MakesAll(B, W)
  BY <1>0, <1>2, Kinds DEF MakesAll, Leaves, Makes
<1>10. Copies(F, "builder", W)
  BY <1>0, <1>3, Kinds DEF Copies
<1>11. /\ p \in Seq(PlainStages) /\ Len(p) = 2 /\ StageAt(p, 1, "builder", "alpine", B)
       /\ StageAt(p, 2, "runtime", "distroless", F)
  BY <1>1, <1>4, <1>5, TwoStagesListed, PlainWords DEF Froms, Images
<1>12. ~Shell(F)
  <2>1. F[5].flag = "none"
    BY <1>3, Kinds
  <2> QED
    BY <1>3, Kinds, <2>1 DEF Shell, Form
<1> QED
  BY <1>7, <1>8, <1>9, <1>10, <1>11, <1>12, TwoStages

LEMMA RailsSound ==
    Sound(planRuby(<<Run("build")>>))
<1>0. SUFFICES ASSUME NEW p, NEW B, NEW F, NEW W,
                      p = planRuby(<<Run("build")>>), B = p[1].steps, F = p[2].steps,
                      W = {"deps", "app"}
               PROVE  Sound(p)
  OBVIOUS
<1>1. p = <<Stage("builder", "debian", B), Stage("runtime", "debian", F)>>
  BY <1>0 DEF planRuby, NonRoot, Stage
<1>2. B = <<Packages("debian"), Workdir, Manifests, Run("install"), Sources, Run("build")>>
  BY <1>0 DEF planRuby, NonRoot, Stage
<1>3. F = <<Packages("debian"), Workdir, CopyFrom("builder", "deps"), CopyFrom("builder", "app"),
            Env, Env, Env, Expose, Start, CreateUser("debian"), User("appuser"), Healthcheck>>
  BY <1>0 DEF planRuby, NonRoot, Stage
<1>4. B \in Seq(PlainSteps)
  BY <1>2, PlainParts, PlainCommands, PlainWords DEF Packages
<1>5. F \in Seq(PlainSteps)
  BY <1>3, PlainParts, PlainCommands, PlainWords, PlainAccount DEF Packages
<1>6. Laid(F, 9, 0, 11, 12, 8)
  BY <1>3, Kinds DEF Laid
<1>7. Tidy(F)
  BY <1>5, <1>6, LaidOut
<1>8. Bare(B)
  BY <1>2, Kinds DEF Bare
<1>9. MakesAll(B, W)
  BY <1>0, <1>2, Kinds DEF MakesAll, Leaves, Makes
<1>10. Copies(F, "builder", W)
  BY <1>0, <1>3, Kinds DEF Copies
<1>11. /\ p \in Seq(PlainStages) /\ Len(p) = 2 /\ StageAt(p, 1, "builder", "debian", B)
       /\ StageAt(p, 2, "runtime", "debian", F)
  BY <1>1, <1>4, <1>5, TwoStagesListed, PlainWords DEF Froms, Images
<1> QED
  BY <1>7, <1>8, <1>9, <1>10, <1>11, TwoStages

LEMMA SinatraSound ==
    Sound(planRuby(<<>>))
<1>0. SUFFICES ASSUME NEW p, NEW B, NEW F, NEW W,
                      p = planRuby(<<>>), B = p[1].steps, F = p[2].steps,
                      W = {"deps", "app"}
               PROVE  Sound(p)
  OBVIOUS
<1>1. p = <<Stage("builder", "debian", B), Stage("runtime", "debian", F)>>
  BY <1>0 DEF planRuby, NonRoot, Stage
<1>2. B = <<Packages("debian"), Workdir, Manifests, Run("install"), Sources>>
  BY <1>0 DEF planRuby, NonRoot, Stage
<1>3. F = <<Packages("debian"), Workdir, CopyFrom("builder", "deps"), CopyFrom("builder", "app"),
            Env, Env, Env, Expose, Start, CreateUser("debian"), User("appuser"), Healthcheck>>
  BY <1>0 DEF planRuby, NonRoot, Stage
<1>4. B \in Seq(PlainSteps)
  BY <1>2, PlainParts, PlainCommands, PlainWords DEF Packages
<1>5. F \in Seq(PlainSteps)
  BY <1>3, PlainParts, PlainCommands, PlainWords, PlainAccount DEF Packages
<1>6. Laid(F, 9, 0, 11, 12, 8)
  BY <1>3, Kinds DEF Laid
<1>7. Tidy(F)
  BY <1>5, <1>6, LaidOut
<1>8. Bare(B)
  BY <1>2, Kinds DEF Bare
<1>9. MakesAll(B, W)
  BY <1>0, <1>2, Kinds DEF MakesAll, Leaves, Makes
<1>10. Copies(F, "builder", W)
  BY <1>0, <1>3, Kinds DEF Copies
<1>11. /\ p \in Seq(PlainStages) /\ Len(p) = 2 /\ StageAt(p, 1, "builder", "debian", B)
       /\ StageAt(p, 2, "runtime", "debian", F)
  BY <1>1, <1>4, <1>5, TwoStagesListed, PlainWords DEF Froms, Images
<1> QED
  BY <1>7, <1>8, <1>9, <1>10, <1>11, TwoStages

LEMMA WordPressSound ==
    Sound(planPHPWordPress)
<1>0. SUFFICES ASSUME NEW p, NEW F,
                      p = planPHPWordPress, F = p[1].steps
               PROVE  Sound(p)
  OBVIOUS
<1>1. p = <<Stage("runtime", "debian", F)>>
  BY <1>0 DEF planPHPWordPress, Stage
<1>2. F = <<Sources, Expose, Start>>
  BY <1>0 DEF planPHPWordPress, Stage
<1>3. F \in Seq(PlainSteps)
  BY <1>2, PlainParts
<1>4. Laid(F, 3, 0, 4, 0, 2)
  BY <1>2, Kinds DEF Laid
<1>5. Tidy(F)
  BY <1>3, <1>4, LaidOut
<1>6. NoCopies(F) /\ RootlessCommands(F)
  BY <1>2, Kinds DEF NoCopies, RootlessCommands, HasUser
<1>7. /\ p \in Seq(PlainStages) /\ Len(p) = 1 /\ StageAt(p, 1, "runtime", "debian", F)
  BY <1>1, <1>3, OneStageListed, PlainWords DEF Froms, Images
<1> QED
  BY <1>5, <1>6, <1>7, OneStage

LEMMA LaravelSound ==
    Sound(planPHPLaravel)
<1>0. SUFFICES ASSUME NEW p, NEW B, NEW F, NEW W,
                      p = planPHPLaravel, B = p[1].steps, F = p[2].steps,
                      W = {"app"}
               PROVE  Sound(p)
  OBVIOUS
<1>1. p = <<Stage("builder", "alpine", B), Stage("runtime", "alpine", F)>>
  BY <1>0 DEF planPHPLaravel, Stage
<1>2. B = <<Packages("alpine"), Run("composer"), Workdir, Manifests, Cached("install"), Sources,
            Run("build")>>
  BY <1>0 DEF planPHPLaravel, Stage
<1>3. F = <<Packages("alpine"), Workdir, CopyFrom("builder", "app"), Expose, Start, Run("prepare"),
            User("www-data"), Healthcheck>>
  BY <1>0 DEF planPHPLaravel, Stage
<1>4. B \in Seq(PlainSteps)
  BY <1>2, PlainParts, PlainCommands, PlainWords DEF Packages
<1>5. F \in Seq(PlainSteps)
  BY <1>3, PlainParts, PlainCommands, PlainWords DEF Packages
<1>6. Laid(F, 5, 0, 7, 8, 4)
  BY <1>3, Kinds DEF Laid
<1>7. Tidy(F)
  BY <1>5, <1>6, LaidOut
<1>8. Bare(B)
  BY <1>2, Kinds DEF Bare
<1>9. MakesAll(B, W)
  BY <1>0, <1>2, Kinds DEF MakesAll, Leaves, Makes
<1>10. Copies(F, "builder", W)
  BY <1>0, <1>3, Kinds DEF Copies
<1>11. /\ p \in Seq(PlainStages) /\ Len(p) = 2 /\ StageAt(p, 1, "builder", "alpine", B)
       /\ StageAt(p, 2, "runtime", "alpine", F)
  BY <1>1, <1>4, <1>5, TwoStagesListed, PlainWords DEF Froms, Images
<1> QED
  BY <1>7, <1>8, <1>9, <1>10, <1>11, TwoStages

LEMMA SymfonySound ==
    Sound(planPHPComposer(ComposerInstall))
<1>0. SUFFICES ASSUME NEW p, NEW F,
                      p = planPHPComposer(ComposerInstall), F = p[1].steps
               PROVE  Sound(p)
  OBVIOUS
<1>1. p = <<Stage("runtime", "debian", F)>>
  BY <1>0 DEF planPHPComposer, ComposerInstall, Stage
<1>2. F = <<Packages("debian"), Run("composer"), Workdir, Manifests, Cached("install"), Sources,
            Run("build"), Run("prepare"), Expose, Start>>
  BY <1>0 DEF planPHPComposer, ComposerInstall, Stage
<1>3. F \in Seq(PlainSteps)
  BY <1>2, PlainParts, PlainCommands, PlainWords DEF Packages
<1>4. Laid(F, 10, 0, 11, 0, 9)
  BY <1>2, Kinds DEF Laid
<1>5. Tidy(F)
  BY <1>3, <1>4, LaidOut
<1>6. NoCopies(F) /\ RootlessCommands(F)
  BY <1>2, Kinds DEF NoCopies, RootlessCommands, HasUser
<1>7. /\ p \in Seq(PlainStages) /\ Len(p) = 1 /\ StageAt(p, 1, "runtime", "debian", F)
  BY <1>1, <1>3, OneStageListed, PlainWords DEF Froms, Images
<1> QED
  BY <1>5, <1>6, <1>7, OneStage

LEMMA PhpSound ==
    Sound(planPHPComposer(<<Workdir, Sources>>))
<1>0. SUFFICES ASSUME NEW p, NEW F,
                      p = planPHPComposer(<<Workdir, Sources>>), F = p[1].steps
               PROVE  Sound(p)
  OBVIOUS
<1>1. p = <<Stage("runtime", "debian", F)>>
  BY <1>0 DEF planPHPComposer, Stage
<1>2. F = <<Packages("debian"), Workdir, Sources, Run("prepare"), Expose, Start>>
  BY <1>0 DEF planPHPComposer, Stage
<1>3. F \in Seq(PlainSteps)
  BY <1>2, PlainParts, PlainCommands, PlainWords DEF Packages
<1>4. Laid(F, 6, 0, 7, 0, 5)
  BY <1>2, Kinds DEF Laid
<1>5. Tidy(F)
  BY <1>3, <1>4, LaidOut
<1>6. NoCopies(F) /\ RootlessCommands(F)
  BY <1>2, Kinds DEF NoCopies, RootlessCommands, HasUser
<1>7. /\ p \in Seq(PlainStages) /\ Len(p) = 1 /\ StageAt(p, 1, "runtime", "debian", F)
  BY <1>1, <1>3, OneStageListed, PlainWords DEF Froms, Images
<1> QED
  BY <1>5, <1>6, <1>7, OneStage

LEMMA JavaSound ==
    Sound(planJava)
<1>0. SUFFICES ASSUME NEW p, NEW B, NEW F, NEW W,
                      p = planJava, B = p[1].steps, F = p[2].steps,
                      W = {"artifact"}
               PROVE  Sound(p)
  OBVIOUS
<1>1. p = <<Stage("builder", "debian", B), Stage("runtime", "alpine", F)>>
  BY <1>0 DEF planJava, NonRoot, Stage
<1>2. B = <<Workdir, Manifests, Cached("install"), Sources, Run("build")>>
  BY <1>0 DEF planJava, NonRoot, Stage
<1>3. F = <<Workdir, CopyFrom("builder", "artifact"), Expose, Start, CreateUser("alpine"),
            User("appuser"), Healthcheck>>
  BY <1>0 DEF planJava, NonRoot, Stage
<1>4. B \in Seq(PlainSteps)
  BY <1>2, PlainParts, PlainCommands, PlainWords
<1>5. F \in Seq(PlainSteps)
  BY <1>3, PlainParts, PlainCommands, PlainWords, PlainAccount
<1>6. Laid(F, 4, 0, 6, 7, 3)
  BY <1>3, Kinds DEF Laid
<1>7. Tidy(F)
  BY <1>5, <1>6, LaidOut
<1>8. Bare(B)
  BY <1>2, Kinds DEF Bare
<1>9. MakesAll(B, W)
  BY <1>0, <1>2, Kinds DEF MakesAll, Leaves, Makes
<1>10. Copies(F, "builder", W)
  BY <1>0, <1>3, Kinds DEF Copies
<1>11. /\ p \in Seq(PlainStages) /\ Len(p) = 2 /\ StageAt(p, 1, "builder", "debian", B)
       /\ StageAt(p, 2, "runtime", "alpine", F)
  BY <1>1, <1>4, <1>5, TwoStagesListed, PlainWords DEF Froms, Images
<1> QED
  BY <1>7, <1>8, <1>9, <1>10, <1>11, TwoStages

LEMMA WorkerSound ==
    Sound(planDotnet(<<>>))
<1>0. SUFFICES ASSUME NEW p, NEW B, NEW F, NEW W,
                      p = planDotnet(<<>>), B = p[1].steps, F = p[2].steps,
                      W = {"artifact"}
               PROVE  Sound(p)
  OBVIOUS
<1>1. p = <<Stage("builder", "debian", B), Stage("runtime", "debian", F)>>
  BY <1>0 DEF planDotnet, Stage
<1>2. B = <<Workdir, Manifests, Cached("install"), Sources, Run("build")>>
  BY <1>0 DEF planDotnet, Stage
<1>3. F = <<Workdir, CopyFrom("builder", "artifact"), Step("ENTRYPOINT", "default"), User("app"),
            Healthcheck>>
  BY <1>0 DEF planDotnet, Stage
<1>4. B \in Seq(PlainSteps)
  BY <1>2, PlainParts, PlainCommands, PlainWords
<1>5. F \in Seq(PlainSteps)
  BY <1>3, PlainParts, PlainCommands, PlainWords
<1>6. Laid(F, 0, 3, 4, 5, 0)
  BY <1>3, Kinds DEF Laid
<1>7. Tidy(F)
  BY <1>5, <1>6, LaidOut
<1>8. Bare(B)
  BY <1>2, Kinds DEF Bare
<1>9. MakesAll(B, W)
  BY <1>0, <1>2, Kinds DEF MakesAll, Leaves, Makes
<1>10. Copies(F, "builder", W)
  BY <1>0, <1>3, Kinds DEF Copies
<1>11. /\ p \in Seq(PlainStages) /\ Len(p) = 2 /\ StageAt(p, 1, "builder", "debian", B)
       /\ StageAt(p, 2, "runtime", "debian", F)
  BY <1>1, <1>4, <1>5, TwoStagesListed, PlainWords DEF Froms, Images
<1> QED
  BY <1>7, <1>8, <1>9, <1>10, <1>11, TwoStages

LEMMA AspnetSound ==
    Sound(planDotnet(<<Env, Expose>>))
<1>0. SUFFICES ASSUME NEW p, NEW B, NEW F, NEW W,
                      p = planDotnet(<<Env, Expose>>), B = p[1].steps, F = p[2].steps,
                      W = {"artifact"}
               PROVE  Sound(p)
  OBVIOUS
<1>1. p = <<Stage("builder", "debian", B), Stage("runtime", "debian", F)>>
  BY <1>0 DEF planDotnet, Stage
<1>2. B = <<Workdir, Manifests, Cached("install"), Sources, Run("build")>>
  BY <1>0 DEF planDotnet, Stage
<1>3. F = <<Workdir, CopyFrom("builder", "artifact"), Env, Expose, Step("ENTRYPOINT", "default"),
            User("app"), Healthcheck>>
  BY <1>0 DEF planDotnet, Stage
<1>4. B \in Seq(PlainSteps)
  BY <1>2, PlainParts, PlainCommands, PlainWords
<1>5. F \in Seq(PlainSteps)
  BY <1>3, PlainParts, PlainCommands, PlainWords
<1>6. Laid(F, 0, 5, 6, 7, 4)
  BY <1>3, Kinds DEF Laid
<1>7. Tidy(F)
  BY <1>5, <1>6, LaidOut
<1>8. Bare(B)
  BY <1>2, Kinds DEF Bare
<1>9. MakesAll(B, W)
  BY <1>0, <1>2, Kinds DEF MakesAll, Leaves, Makes
<1>10. Copies(F, "builder", W)
  BY <1>0, <1>3, Kinds DEF Copies
<1>11. /\ p \in Seq(PlainStages) /\ Len(p) = 2 /\ StageAt(p, 1, "builder", "debian", B)
       /\ StageAt(p, 2, "runtime", "debian", F)
  BY <1>1, <1>4, <1>5, TwoStagesListed, PlainWords DEF Froms, Images
<1> QED
  BY <1>7, <1>8, <1>9, <1>10, <1>11, TwoStages

LEMMA RustSound ==
    Sound(planRust)
<1>0. SUFFICES ASSUME NEW p, NEW B, NEW F, NEW W,
                      p = planRust, B = p[1].steps, F = p[2].steps,
                      W = {"artifact"}
               PROVE  Sound(p)
  OBVIOUS
<1>1. p = <<Stage("builder", "alpine", B), Stage("runtime", "distroless", F)>>
  BY <1>0 DEF planRust, Stage
<1>2. B = <<Packages("alpine"), Workdir, Manifests, Cached("install"), Sources, Run("build")>>
  BY <1>0 DEF planRust, Stage
<1>3. F = <<Workdir, CopyFrom("builder", "artifact"), User("nonroot"), Expose, Start>>
  BY <1>0 DEF planRust, Stage
<1>4. B \in Seq(PlainSteps)
  BY <1>2, PlainParts, PlainCommands, PlainWords DEF Packages
<1>5. F \in Seq(PlainSteps)
  BY <1>3, PlainParts, PlainCommands, PlainWords
<1>6. Laid(F, 5, 0, 3, 0, 4)
  BY <1>3, Kinds DEF Laid
<1>7. Tidy(F)
  BY <1>5, <1>6, LaidOut
<1>8. Bare(B)
  BY <1>2, Kinds DEF Bare
<1>9. MakesAll(B, W)
  BY <1>0, <1>2, Kinds DEF MakesAll, Leaves, Makes
<1>10. Copies(F, "builder", W)
  BY <1>0, <1>3, Kinds DEF Copies
<1>11. /\ p \in Seq(PlainStages) /\ Len(p) = 2 /\ StageAt(p, 1, "builder", "alpine", B)
       /\ StageAt(p, 2, "runtime", "distroless", F)
  BY <1>1, <1>4, <1>5, TwoStagesListed, PlainWords DEF Froms, Images
<1>12. ~Shell(F)
  <2>1. F[5].flag = "none"
    BY <1>3, Kinds
  <2> QED
    BY <1>3, Kinds, <2>1 DEF Shell, Form
<1> QED
  BY <1>7, <1>8, <1>9, <1>10, <1>11, <1>12, TwoStages

LEMMA ElixirSound ==
    Sound(planElixir)
<1>0. SUFFICES ASSUME NEW p, NEW B, NEW F, NEW W,
                      p = planElixir, B = p[1].steps, F = p[2].steps,
                      W = {"artifact"}
               PROVE  Sound(p)
  OBVIOUS
<1>1. p = <<Stage("builder", "alpine", B), Stage("runtime", "alpine", F)>>
  BY <1>0 DEF planElixir, NonRoot, Stage
<1>2. B = <<Packages("alpine"), Workdir, Env, Run("mix"), Manifests, Cached("install"), Sources,
            Run("build")>>
  BY <1>0 DEF planElixir, NonRoot, Stage
<1>3. F = <<Packages("alpine"), Workdir, CopyFrom("builder", "artifact"), Env, Expose, Start,
            CreateUser("alpine"), User("appuser"), Healthcheck>>
  BY <1>0 DEF planElixir, NonRoot, Stage
<1>4. B \in Seq(PlainSteps)
  BY <1>2, PlainParts, PlainCommands, PlainWords DEF Packages
<1>5. F \in Seq(PlainSteps)
  BY <1>3, PlainParts, PlainCommands, PlainWords, PlainAccount DEF Packages
<1>6. Laid(F, 6, 0, 8, 9, 5)
  BY <1>3, Kinds DEF Laid
<1>7. Tidy(F)
  BY <1>5, <1>6, LaidOut
<1>8. Bare(B)
  BY <1>2, Kinds DEF Bare
<1>9. MakesAll(B, W)
  BY <1>0, <1>2, Kinds DEF MakesAll, Leaves, Makes
<1>10. Copies(F, "builder", W)
  BY <1>0, <1>3, Kinds DEF Copies
<1>11. /\ p \in Seq(PlainStages) /\ Len(p) = 2 /\ StageAt(p, 1, "builder", "alpine", B)
       /\ StageAt(p, 2, "runtime", "alpine", F)
  BY <1>1, <1>4, <1>5, TwoStagesListed, PlainWords DEF Froms, Images
<1> QED
  BY <1>7, <1>8, <1>9, <1>10, <1>11, TwoStages

LEMMA StaticSound ==
    Sound(planStatic)
<1>0. SUFFICES ASSUME NEW p, NEW F,
                      p = planStatic, F = p[1].steps
               PROVE  Sound(p)
  OBVIOUS
<1>1. p = <<Stage("runtime", "alpine", F)>>
  BY <1>0 DEF planStatic, NginxUser, Stage
<1>2. F = <<Sources, Expose, Start, Run("prepare"), User("nginx"), Healthcheck>>
  BY <1>0 DEF planStatic, NginxUser, Stage
<1>3. F \in Seq(PlainSteps)
  BY <1>2, PlainParts, PlainCommands, PlainWords
<1>4. Laid(F, 3, 0, 5, 6, 2)
  BY <1>2, Kinds DEF Laid
<1>5. Tidy(F)
  BY <1>3, <1>4, LaidOut
<1>6. NoCopies(F) /\ RootlessCommands(F)
  BY <1>2, Kinds DEF NoCopies, RootlessCommands, HasUser
<1>7. /\ p \in Seq(PlainStages) /\ Len(p) = 1 /\ StageAt(p, 1, "runtime", "alpine", F)
  BY <1>1, <1>3, OneStageListed, PlainWords DEF Froms, Images
<1> QED
  BY <1>5, <1>6, <1>7, OneStage

LEMMA PlannedSound ==
    \A f \in Frameworks : Sound(Planned[f])
<1>1. /\ Planned["node"] = planNode("alpine", <<>>, "node")
      /\ Planned["nodeCorepack"] = planNode("alpine", <<Run("corepack")>>, "node")
      /\ Planned["nodeOnBun"] = planNode("debian", <<>>, "bun")
      /\ Planned["nodeStatic"] = planNodeStatic
      /\ Planned["bun"] = planBun(<<>>)
      /\ Planned["bunBuilt"] = planBun(<<Run("build")>>)
      /\ Planned["deno"] = planDeno
      /\ Planned["python"] = planPython
      /\ Planned["go"] = planGo
      /\ Planned["rails"] = planRuby(<<Run("build")>>)
      /\ Planned["sinatra"] = planRuby(<<>>)
      /\ Planned["wordpress"] = planPHPWordPress
      /\ Planned["laravel"] = planPHPLaravel
      /\ Planned["symfony"] = planPHPComposer(ComposerInstall)
      /\ Planned["php"] = planPHPComposer(<<Workdir, Sources>>)
      /\ Planned["java"] = planJava
      /\ Planned["worker"] = planDotnet(<<>>)
      /\ Planned["aspnet"] = planDotnet(<<Env, Expose>>)
      /\ Planned["rust"] = planRust
      /\ Planned["elixir"] = planElixir
      /\ Planned["static"] = planStatic
  BY DEF Planned
<1>2. Frameworks =
        {"node", "nodeCorepack", "nodeOnBun", "nodeStatic", "bun", "bunBuilt", "deno", "python",
         "go", "rails", "sinatra", "wordpress", "laravel", "symfony", "php", "java", "worker",
         "aspnet", "rust", "elixir", "static"}
  BY DEF Frameworks, Planned
<1> QED
  BY <1>1, <1>2, NodeSound, NodeCorepackSound, NodeOnBunSound, NodeStaticSound, BunSound,
     BunBuiltSound, DenoSound, PythonSound, GoSound, RailsSound, SinatraSound, WordPressSound,
     LaravelSound, SymfonySound, PhpSound, JavaSound, WorkerSound, AspnetSound, RustSound,
     ElixirSound, StaticSound

-----------------------------------------------------------------------------
(* What holds of a plan between two overrides.                             *)

\* A builder tool has been, or will be, appended to the only one of n stages.
Lenient(n) == n = 1 /\ Has("ExternalTools") /\ cfg["ExternalTools"] = "builder"
Settled(n, s) == Neat(s, ~Lenient(n)) /\ Once(s)

\* What the overrides have added to a stage calls the tools of its image.
Fitting(s, from) ==
    /\ \A j \in DOMAIN s : s[j].what \in Added => s[j].tool = Tool(from)
    /\ from = "distroless" =>
          \A j \in DOMAIN s :
              Form(s[j]) = "shell" => ChosenByUser # {} /\ s[j].what # "create-named-user"

\* The steps of stage k of n.
StepsHold(n, k, from, s) == s \in Seq(Steps) /\ Fitting(s, from) /\ (k = n => Settled(n, s))

Holds(p) ==
    /\ IsPlan(p)
    /\ \A i \in DOMAIN p : StepsHold(Len(p), i, p[i].from, p[i].steps)
    /\ \A i \in DOMAIN p :
          p[i].from = "distroless" => i = Len(p) /\ (i = 1 => ChosenByUser # {})

\* What an override does not add before its turn.
Absent(s, words) == \A j \in DOMAIN s : s[j].what \notin words

LEMMA DerivedHolds ==
    ASSUME NEW n, NEW k, NEW from, NEW s, StepsHold(n, k, from, s), NEW t, Derived(t, s)
    PROVE  StepsHold(n, k, from, t)
<1>1. PICK pos \in [DOMAIN t -> DOMAIN s] : \A i \in DOMAIN t : Like(t[i], s[pos[i]])
  BY DEF Derived
<1>2. t \in Seq(Steps) /\ s \in Seq(Steps)
  BY DEF Derived, StepsHold
<1>3. \A i \in DOMAIN t : /\ pos[i] \in DOMAIN s
                          /\ t[i].what \in Watched =>
                                t[i].what = s[pos[i]].what /\ t[i].tool = s[pos[i]].tool
                          /\ Form(t[i]) = "shell" => Form(s[pos[i]]) = "shell"
  BY <1>1 DEF Like
<1>4. Added \subseteq Watched /\ "create-named-user" \in Watched
  BY DEF Watched, Added
<1> HIDE DEF Watched, Added
<1>5. Fitting(t, from)
  BY <1>3, <1>4 DEF Fitting, StepsHold
<1>6. k = n => Settled(n, t)
  <2>1. (~Lenient(n)) \in BOOLEAN
    BY DEF Lenient
  <2> QED
    BY <1>2, <2>1, DerivedNeat, DerivedOnce DEF Settled, StepsHold
<1> QED
  BY <1>2, <1>5, <1>6 DEF StepsHold

FitsImage(e, from) ==
    /\ e.what \in Added => e.tool = Tool(from)
    /\ from = "distroless" /\ Form(e) = "shell" => ChosenByUser # {} /\ e.what # "create-named-user"
FitsIn(n, s, p, e) ==
    /\ Fits(s, p, e, ~Lenient(n))
    /\ e.op \in Singles => \A i \in DOMAIN s : s[i].op # e.op

LEMMA InsertedHolds ==
    ASSUME NEW n, NEW k, NEW from, NEW s, StepsHold(n, k, from, s), NEW t, NEW p, NEW e \in Steps,
           Inserted(t, s, p, e), FitsImage(e, from), k = n => FitsIn(n, s, p, e)
    PROVE  StepsHold(n, k, from, t)
<1>1. s \in Seq(Steps) /\ t \in Seq(Steps)
  BY DEF StepsHold, Inserted
<1>2. \A x \in DOMAIN t : t[x] = e \/ \E y \in DOMAIN s : t[x] = s[y]
  <2>1. DOMAIN s = 1 .. Len(s) /\ Len(s) \in Nat /\ DOMAIN t = 1 .. Len(s) + 1 /\ p \in Nat
    BY <1>1 DEF Inserted
  <2> SUFFICES ASSUME NEW x \in DOMAIN t, t[x] # e
               PROVE  \E y \in DOMAIN s : t[x] = s[y]
    OBVIOUS
  <2>2. CASE x < p
    BY <2>1, <2>2 DEF Inserted
  <2>3. CASE p < x
    BY <2>1, <2>3 DEF Inserted
  <2> QED
    BY <2>1, <2>2, <2>3 DEF Inserted
<1>3. Fitting(t, from)
  BY <1>2 DEF Fitting, FitsImage, StepsHold
<1>4. k = n => Settled(n, t)
  <2>1. (~Lenient(n)) \in BOOLEAN
    BY DEF Lenient
  <2> QED
    BY <1>1, <2>1, InsertedNeat, InsertedOnce DEF Settled, StepsHold, FitsIn
<1> QED
  BY <1>1, <1>3, <1>4 DEF StepsHold

LEMMA StepsOf ==
    ASSUME NEW p, IsPlan(p), NEW i \in DOMAIN p
    PROVE  /\ p[i] \in Stages /\ p[i].steps \in Seq(Steps)
           /\ p[i].from \in Froms /\ p[i].name \in Names
<1>1. p[i] \in Stages
  BY DEF IsPlan
<1> QED
  BY <1>1 DEF Stages

LEMMA MappedHolds ==
    ASSUME NEW p, Holds(p), NEW q, SameStages(q, p),
           \A i \in DOMAIN p : q[i].from = p[i].from /\ Derived(q[i].steps, p[i].steps)
    PROVE  Holds(q)
<1>1. DOMAIN q = DOMAIN p /\ Len(q) = Len(p) /\ IsPlan(q) /\ IsPlan(p)
  BY DEF Holds, IsPlan, SameStages
<1>2. \A i \in DOMAIN q : StepsHold(Len(q), i, q[i].from, q[i].steps)
  BY <1>1, DerivedHolds DEF Holds
<1> QED
  BY <1>1, <1>2 DEF Holds

LEMMA EditedHolds ==
    ASSUME NEW p, Holds(p), NEW k \in DOMAIN p, NEW s, StepsHold(Len(p), k, p[k].from, s)
    PROVE  LET q == [p EXCEPT ![k].steps = s] IN
           /\ Holds(q) /\ SameStages(q, p) /\ Len(q) = Len(p) /\ q[k].steps = s
           /\ \A i \in DOMAIN p : i # k => q[i] = p[i]
<1>1. IsPlan(p) /\ s \in Seq(Steps)
  BY DEF Holds, StepsHold
<1> DEFINE q == [p EXCEPT ![k].steps = s]
<1>2. /\ SameStages(q, p)
      /\ q[k].steps = s /\ \A i \in DOMAIN p : q[i].from = p[i].from
      /\ \A i \in DOMAIN p : i # k => q[i] = p[i]
  BY <1>1, StageSet
<1> HIDE DEF q
<1>3. DOMAIN q = DOMAIN p /\ Len(q) = Len(p) /\ IsPlan(q)
  BY <1>1, <1>2 DEF IsPlan, SameStages
<1>4. \A i \in DOMAIN q : StepsHold(Len(q), i, q[i].from, q[i].steps)
  BY <1>2, <1>3 DEF Holds
<1>5. Holds(q)
  BY <1>2, <1>3, <1>4 DEF Holds
<1> QED
  BY <1>2, <1>3, <1>5 DEF q
\* The last RUN becomes another command; without one, the command is added.
LEMMA ReplacedLastRun ==
    ASSUME NEW s \in Seq(Steps), NEW what \in PlainWhats
    PROVE  LET t == replaceLastRun(s, what) IN
           \/ Derived(t, s)
           \/ t = Append(s, Run(what)) /\ \A i \in DOMAIN s : s[i].op # "RUN"
<1> DEFINE I == {i \in 1 .. Len(s) : s[i].op = "RUN"}
           k == SelectLastInSeq(s, LAMBDA e : e.op = "RUN")
<1>1. k = IF I # {} THEN Max(I) ELSE 0
  BY DEF SelectLastInSeq
<1>2. I # {} => Max(I) \in I
  <2>1. I \in SUBSET (1 .. Len(s)) /\ Len(s) \in Nat
    OBVIOUS
  <2> HIDE DEF I
  <2>2. I # {} => \E m \in I : \A i \in I : i <= m
    BY <2>1, Greatest
  <2> QED
    BY <2>1, <2>2 DEF Max
<1>3. DOMAIN s = 1 .. Len(s) /\ \A i \in I : i # 0
  OBVIOUS
<1>4. replaceLastRun(s, what) =
         IF k = 0 THEN Append(s, Run(what)) ELSE [s EXCEPT ![k].what = what, ![k].tool = "any"]
  BY DEF replaceLastRun
<1> HIDE DEF k
<1>5. CASE I = {}
  <2>1. k = 0 /\ \A i \in DOMAIN s : s[i].op # "RUN"
    BY <1>1, <1>3, <1>5
  <2> QED
    BY <1>4, <2>1
<1>6. CASE I # {}
  <2>1. k \in DOMAIN s /\ k # 0 /\ s[k].op = "RUN" /\ s[k] \in Steps
    BY <1>1, <1>2, <1>3, <1>6
  <2> DEFINE e == [s[k] EXCEPT !.what = what, !.tool = "any"]
             t == [s EXCEPT ![k] = e]
  <2>2. what \in Whats /\ what \notin Watched
    BY DEF PlainWhats
  <2>3. e \in Steps /\ e.op = s[k].op /\ e.flag = s[k].flag /\ e.what = what
    BY <2>1, <2>2 DEF Steps, Tools
  <2>4. Like(e, s[k])
    BY <2>1, <2>2, <2>3 DEF Like, Form
  <2>5. replaceLastRun(s, what) = t
    BY <1>4, <2>1
  <2> HIDE DEF e
  <2>6. t \in Seq(Steps) /\ DOMAIN t = DOMAIN s
    BY <2>1, <2>3
  <2>7. \A i \in DOMAIN s : Like(t[i], s[i])
    <3>1. \A i \in DOMAIN s : t[i] = IF i = k THEN e ELSE s[i]
      OBVIOUS
    <3> QED
      BY <2>4, <3>1 DEF Like
  <2> QED
    BY <2>5, <2>6, <2>7, InPlace
<1> QED
  BY <1>5, <1>6

-----------------------------------------------------------------------------
(* One override after the other.                                           *)

CfgInv == \A field \in DOMAIN cfg : field \in DOMAIN Values /\ cfg[field] \in Values[field]

\* What waits for its turn has left nothing yet, and a plan of one stage has a
\* command to replace before USER.
PlanInv ==
    status \in {"planning", "done"} =>
       /\ Holds(stages)
       /\ Waits("User") => Absent(Final.steps, {"assets"})
       /\ Waits("BaseImage") \/ Waits("RuntimeImage") =>
             \A i \in DOMAIN stages : Absent(stages[i].steps, Added)
       /\ SingleStage /\ Waits("InstallCmd") => RootlessCommands(First.steps)

\* The plan an override finds.
LEMMA Found ==
    ASSUME TodoInv, CfgInv, PlanInv, NEW field, NEW q, Override(field, q)
    PROVE  /\ Has(field) /\ cfg[field] \in Values[field] /\ Waits(field) /\ status = "planning"
           /\ IsPlan(stages) /\ Holds(stages)
           /\ Len(stages) \in DOMAIN stages /\ 1 \in DOMAIN stages
           /\ \A i \in DOMAIN stages : StepsHold(Len(stages), i, stages[i].from, stages[i].steps)
           /\ First.steps \in Seq(Steps) /\ First.from \in Froms
           /\ Final.steps \in Seq(Steps) /\ Final.from \in Froms
           /\ StepsHold(Len(stages), Len(stages), Final.from, Final.steps)
<1>1. todo # <<>> /\ Head(todo) = field /\ todo \in Seq(Fields)
  BY DEF Override, TodoInv
<1>2. 1 \in DOMAIN todo /\ todo[1] = field
  BY <1>1
<1>3. Has(field) /\ Waits(field) /\ status = "planning"
  BY <1>1, <1>2 DEF TodoInv, Waits, ToSet
<1>4. Holds(stages)
  BY <1>3 DEF PlanInv
<1>5. IsPlan(stages) /\ Len(stages) \in DOMAIN stages /\ 1 \in DOMAIN stages
  BY <1>4 DEF Holds, IsPlan
<1>6. cfg[field] \in Values[field]
  BY <1>3 DEF CfgInv, Has
<1> QED
  BY <1>3, <1>4, <1>5, <1>6, StepsOf DEF Holds, First, Final

\* An override after the images are chosen leaves what holds of the plan, and
\* before its turn what the later ones need.
LEMMA Taken ==
    ASSUME TodoInv, PlanInv, NEW field, NEW q, Override(field, q), Holds(q),
           Turn[field] \in Nat, Turn[field] >= 2,
           Turn[field] < 9 /\ Waits("User") => Absent(LastOf(q).steps, {"assets"}),
           Turn[field] < 4 /\ Len(q) = 1 /\ Waits("InstallCmd") => RootlessCommands(q[1].steps)
    PROVE  PlanInv'
<1>1. /\ todo # <<>> /\ Head(todo) = field /\ stages' = q /\ todo' = Tail(todo)
      /\ UNCHANGED <<framework, cfg, dockerfile, status>>
  BY DEF Override
<1>2. \A f : Waits(f)' => Waits(f) /\ Turn[field] < Turn[f]
  BY <1>1, NextTurn DEF Waits
<1>3. Holds(q)'
  BY <1>1 DEF Holds, StepsHold, Fitting, Settled, Lenient, Has, ChosenByUser
<1>4. Waits("User")' => Absent(LastOf(q).steps, {"assets"})
  BY <1>2, HasTurn
<1>5. ~Waits("BaseImage")' /\ ~Waits("RuntimeImage")'
  BY <1>2, HasTurn
<1>6. Waits("InstallCmd")' /\ Len(q) = 1 => RootlessCommands(q[1].steps)
  BY <1>2, HasTurn
<1> QED
  BY <1>1, <1>3, <1>4, <1>5, <1>6 DEF PlanInv, Final, First, SingleStage, LastOf

LEMMA DerivedAbsent ==
    ASSUME NEW s, NEW t, Derived(t, s), NEW words \in SUBSET Watched, Absent(s, words)
    PROVE  Absent(t, words)
<1>1. PICK pos \in [DOMAIN t -> DOMAIN s] : \A i \in DOMAIN t : Like(t[i], s[pos[i]])
  BY DEF Derived
<1>2. \A i \in DOMAIN t : /\ pos[i] \in DOMAIN s
                          /\ t[i].what \in Watched => t[i].what = s[pos[i]].what
  BY <1>1 DEF Like
<1> HIDE DEF Watched
<1> QED
  BY <1>2 DEF Absent
\* An override that edits the final stage, after the first install command.
LEMMA FinalTaken ==
    ASSUME TodoInv, CfgInv, PlanInv, NEW field, NEW t, Override(field, InFinal(t)),
           StepsHold(Len(stages), Len(stages), Final.from, t),
           Turn[field] \in Nat, Turn[field] >= 4,
           Turn[field] < 9 /\ Waits("User") => Absent(t, {"assets"})
    PROVE  PlanInv'
<1> DEFINE q == InFinal(t)
<1>1. Holds(stages) /\ Len(stages) \in DOMAIN stages
  BY Found
<1>2. Holds(q) /\ Len(q) = Len(stages) /\ q[Len(stages)].steps = t
  BY <1>1, EditedHolds DEF InFinal, Final
<1> HIDE DEF q
<1>3. LastOf(q).steps = t
  BY <1>2 DEF LastOf
<1>4. Override(field, q)
  BY DEF q
<1>5. Turn[field] >= 2 /\ ~(Turn[field] < 4)
  OBVIOUS
<1> QED
  BY <1>2, <1>3, <1>4, <1>5, Taken

\* One that edits steps in place, or takes some away, in any stages.
LEMMA DerivedTaken ==
    ASSUME TodoInv, CfgInv, PlanInv, NEW field, NEW q, Override(field, q),
           SameStages(q, stages),
           \A i \in DOMAIN stages :
              q[i].from = stages[i].from /\ Derived(q[i].steps, stages[i].steps),
           Turn[field] \in Nat, Turn[field] >= 4
    PROVE  PlanInv'
<1>1. /\ Holds(stages) /\ Len(stages) \in DOMAIN stages
      /\ Waits(field) /\ Head(todo) = field /\ todo # <<>>
      /\ status = "planning" /\ todo' = Tail(todo)
  BY Found DEF Override
<1>2. Holds(q) /\ Len(q) = Len(stages)
  BY <1>1, MappedHolds DEF SameStages
<1>3. Derived(LastOf(q).steps, Final.steps)
  BY <1>1, <1>2 DEF LastOf, Final
<1>4. Waits("User") => Absent(LastOf(q).steps, {"assets"})
  <2>1. Waits("User") => Absent(Final.steps, {"assets"})
    BY <1>1 DEF PlanInv
  <2>2. {"assets"} \in SUBSET Watched
    BY DEF Watched
  <2> QED
    BY <1>1, <1>3, <2>1, <2>2, DerivedAbsent, Found
<1>5. Turn[field] >= 2 /\ ~(Turn[field] < 4)
  OBVIOUS
<1> QED
  BY <1>2, <1>4, <1>5, Taken
\* The steps of the stages in S become what F makes of them.
Mapped(q, p, S, F) ==
    /\ SameStages(q, p)
    /\ \A i \in DOMAIN p :
          /\ q[i].from = p[i].from /\ DOMAIN q[i].steps = DOMAIN p[i].steps
          /\ q[i].steps \in Seq(Steps)
          /\ \A j \in DOMAIN p[i].steps :
                q[i].steps[j] = IF i \in S THEN F[p[i].steps[j]] ELSE p[i].steps[j]

LEMMA MapsSteps ==
    ASSUME NEW p, IsPlan(p), NEW S, NEW F \in [Steps -> Steps],
           NEW q, q = [i \in DOMAIN p |-> q[i]],
           \A i \in DOMAIN p :
              IF i \notin S THEN q[i] = p[i]
              ELSE \E t : /\ q[i] = [p[i] EXCEPT !.steps = t]
                          /\ t = [j \in DOMAIN p[i].steps |-> t[j]]
                          /\ \A j \in DOMAIN p[i].steps : t[j] = F[p[i].steps[j]]
    PROVE  Mapped(q, p, S, F)
<1>1. p \in Seq(Stages) /\ DOMAIN p = 1 .. Len(p) /\ Len(p) \in DOMAIN p
  BY DEF IsPlan
<1>2. ASSUME NEW i \in DOMAIN p
      PROVE  /\ q[i] \in Stages /\ q[i].name = p[i].name /\ q[i].from = p[i].from
             /\ q[i].steps \in Seq(Steps) /\ DOMAIN q[i].steps = DOMAIN p[i].steps
             /\ \A j \in DOMAIN p[i].steps :
                   q[i].steps[j] = IF i \in S THEN F[p[i].steps[j]] ELSE p[i].steps[j]
  <2>1. p[i] \in Stages /\ p[i].steps \in Seq(Steps)
    BY StepsOf
  <2>2. CASE i \notin S
    BY <2>1, <2>2
  <2>3. CASE i \in S
    <3>1. PICK t : /\ q[i] = [p[i] EXCEPT !.steps = t] /\ t = [j \in DOMAIN p[i].steps |-> t[j]]
                   /\ \A j \in DOMAIN p[i].steps : t[j] = F[p[i].steps[j]]
      BY <2>3
    <3>2. \A j \in DOMAIN p[i].steps : t[j] \in Steps
      <4>1. \A j \in DOMAIN p[i].steps : p[i].steps[j] \in Steps
        BY <2>1
      <4>2. \A s \in Steps : F[s] \in Steps
        OBVIOUS
      <4> HIDE DEF Steps
      <4> QED
        BY <3>1, <4>1, <4>2
    <3>3. t \in Seq(Steps) /\ DOMAIN t = DOMAIN p[i].steps
      <4> DEFINE n == Len(p[i].steps)
      <4>1. n \in Nat /\ DOMAIN p[i].steps = 1 .. n
        BY <2>1
      <4> HIDE DEF Steps, n
      <4>2. t \in [1 .. n -> Steps]
        BY <3>1, <3>2, <4>1
      <4> QED
        BY <4>1, <4>2
    <3>4. q[i] \in Stages /\ q[i].name = p[i].name /\ q[i].from = p[i].from /\ q[i].steps = t
      BY <2>1, <3>1, <3>3 DEF Stages
    <3> QED
      BY <2>3, <3>1, <3>3, <3>4
  <2> QED
    BY <2>2, <2>3
<1>3. q \in Seq(Stages) /\ Len(q) = Len(p)
  <2>1. \A i \in DOMAIN p : q[i] \in Stages
    BY <1>2
  <2> HIDE DEF Stages
  <2> QED
    BY <1>1, <2>1
<1>4. IsPlan(q)
  BY <1>1, <1>2, <1>3 DEF IsPlan
<1> QED
  BY <1>2, <1>3, <1>4 DEF SameStages, Mapped

LEMMA MappedDerived ==
    ASSUME NEW p, IsPlan(p), NEW q, NEW S, NEW F, Mapped(q, p, S, F), \A s \in Steps : Like(F[s], s)
    PROVE  \A i \in DOMAIN p : Derived(q[i].steps, p[i].steps)
<1> SUFFICES ASSUME NEW i \in DOMAIN p
             PROVE  Derived(q[i].steps, p[i].steps)
  OBVIOUS
<1>1. p[i].steps \in Seq(Steps) /\ \A j \in DOMAIN p[i].steps : p[i].steps[j] \in Steps
  BY StepsOf
<1>2. q[i].steps \in Seq(Steps) /\ DOMAIN q[i].steps = DOMAIN p[i].steps
  BY DEF Mapped
<1>3. \A j \in DOMAIN p[i].steps : Like(q[i].steps[j], p[i].steps[j])
  <2>1. \A s : Like(s, s)
    BY DEF Like
  <2> QED
    BY <1>1, <2>1 DEF Mapped
<1> QED
  BY <1>1, <1>2, <1>3, InPlace

\* An override that edits steps in place, wherever they are.
LEMMA MappedTaken ==
    ASSUME TodoInv, CfgInv, PlanInv, NEW field, NEW q, Override(field, q),
           NEW S, NEW F, Mapped(q, stages, S, F), \A s \in Steps : Like(F[s], s),
           Turn[field] \in Nat, Turn[field] >= 4
    PROVE  PlanInv'
<1>1. IsPlan(stages)
  BY Found
<1>2. \A i \in DOMAIN stages :
         q[i].from = stages[i].from /\ Derived(q[i].steps, stages[i].steps)
  BY <1>1, MappedDerived DEF Mapped
<1>3. SameStages(q, stages)
  BY DEF Mapped
<1> QED
  BY <1>2, <1>3, DerivedTaken

-----------------------------------------------------------------------------
(* The overrides that edit in place: what they make of a step, and where.  *)

SecretStages == IF SingleStage THEN {1} ELSE 1 .. Len(stages) - 1
NoBuildCacheStep == [s \in Steps |-> [s EXCEPT !.cache = FALSE]]
applySecretsStep == [s \in Steps |-> IF s.op # "RUN" THEN s
                                     ELSE [s EXCEPT !.secrets = @ \cup {"config"}]]
applyLdFlagsStep == [s \in Steps |-> IF IsBuild(s) THEN [s EXCEPT !.flag = "-X"] ELSE s]
applyGoWorkStep == [s \in Steps |-> IF framework = "go" /\ s.what = "manifests"
                                    THEN [s EXCEPT !.what = "manifests-and-go.work"] ELSE s]
applyContextRootStep == [s \in Steps |-> IF s.op # "COPY" \/ s.flag = "none" THEN s
                                         ELSE [s EXCEPT !.flag = "path"]]

LEMMA NoBuildCacheMaps ==
    ASSUME IsPlan(stages), NoBuildCache
    PROVE  \E q : Override("NoBuildCache", q) /\ Mapped(q, stages, DOMAIN stages, NoBuildCacheStep)
<1> DEFINE S == DOMAIN stages
           q == MapSteps(S, LAMBDA s : [s EXCEPT !.cache = FALSE])
           F == NoBuildCacheStep
<1>1. Override("NoBuildCache", q)
  BY DEF NoBuildCache
<1>2. F \in [Steps -> Steps]
  BY DEF NoBuildCacheStep, Steps
<1>3. ASSUME NEW i \in DOMAIN stages
      PROVE  IF i \notin S THEN q[i] = stages[i]
             ELSE \E t : /\ q[i] = [stages[i] EXCEPT !.steps = t]
                         /\ t = [j \in DOMAIN stages[i].steps |-> t[j]]
                         /\ \A j \in DOMAIN stages[i].steps : t[j] = F[stages[i].steps[j]]
  <2> DEFINE t == [j \in DOMAIN stages[i].steps |->
                     [stages[i].steps[j] EXCEPT !.cache = FALSE]]
  <2>1. IF i \notin S THEN q[i] = stages[i] ELSE q[i] = [stages[i] EXCEPT !.steps = t]
    BY DEF MapSteps
  <2>2. \A j \in DOMAIN stages[i].steps : t[j] = F[stages[i].steps[j]]
    <3>1. \A j \in DOMAIN stages[i].steps : stages[i].steps[j] \in Steps
      BY StepsOf
    <3> HIDE DEF Steps
    <3> QED
      BY <3>1 DEF NoBuildCacheStep
  <2> HIDE DEF S, F, q
  <2>3. t = [j \in DOMAIN stages[i].steps |-> t[j]]
    OBVIOUS
  <2> HIDE DEF t
  <2> QED
    BY <2>1, <2>2, <2>3
<1>4. q = [i \in DOMAIN stages |-> q[i]]
  BY DEF MapSteps
<1> HIDE DEF q, S, F
<1>5. Mapped(q, stages, S, F)
  BY <1>2, <1>3, <1>4, MapsSteps
<1> QED
  BY <1>1, <1>5 DEF S, F

LEMMA NoBuildCacheKeeps ==
    ASSUME TodoInv, CfgInv, PlanInv, NoBuildCache
    PROVE  PlanInv'
<1>1. Turn["NoBuildCache"] \in Nat /\ Turn["NoBuildCache"] >= 4
  BY HasTurn
<1>2. IsPlan(stages)
  BY Found DEF NoBuildCache
<1>3. PICK q : Override("NoBuildCache", q) /\ Mapped(q, stages, DOMAIN stages, NoBuildCacheStep)
  BY <1>2, NoBuildCacheMaps
<1>4. \A s \in Steps : Like(NoBuildCacheStep[s], s)
  BY DEF NoBuildCacheStep, Steps, Like, Form
<1> QED
  BY <1>1, <1>3, <1>4, MappedTaken

LEMMA applySecretsMaps ==
    ASSUME IsPlan(stages), applySecrets
    PROVE  \E q : Override("Secrets", q) /\ Mapped(q, stages, SecretStages, applySecretsStep)
<1> DEFINE S == SecretStages
           q == MapSteps(S, LAMBDA s : IF s.op # "RUN" THEN s
                                       ELSE [s EXCEPT !.secrets = @ \cup {"config"}])
           F == applySecretsStep
<1>1. Override("Secrets", q)
  BY DEF applySecrets, SecretStages
<1>2. F \in [Steps -> Steps]
  BY DEF applySecretsStep, Steps
<1>3. ASSUME NEW i \in DOMAIN stages
      PROVE  IF i \notin S THEN q[i] = stages[i]
             ELSE \E t : /\ q[i] = [stages[i] EXCEPT !.steps = t]
                         /\ t = [j \in DOMAIN stages[i].steps |-> t[j]]
                         /\ \A j \in DOMAIN stages[i].steps : t[j] = F[stages[i].steps[j]]
  <2> DEFINE t == [j \in DOMAIN stages[i].steps |->
                     IF stages[i].steps[j].op # "RUN"
                     THEN stages[i].steps[j]
                     ELSE [stages[i].steps[j] EXCEPT !.secrets = @ \cup {"config"}]]
  <2>1. IF i \notin S THEN q[i] = stages[i] ELSE q[i] = [stages[i] EXCEPT !.steps = t]
    BY DEF MapSteps
  <2>2. \A j \in DOMAIN stages[i].steps : t[j] = F[stages[i].steps[j]]
    <3>1. \A j \in DOMAIN stages[i].steps : stages[i].steps[j] \in Steps
      BY StepsOf
    <3> HIDE DEF Steps
    <3> QED
      BY <3>1 DEF applySecretsStep
  <2> HIDE DEF S, F, q
  <2>3. t = [j \in DOMAIN stages[i].steps |-> t[j]]
    OBVIOUS
  <2> HIDE DEF t
  <2> QED
    BY <2>1, <2>2, <2>3
<1>4. q = [i \in DOMAIN stages |-> q[i]]
  BY DEF MapSteps
<1> HIDE DEF q, S, F
<1>5. Mapped(q, stages, S, F)
  BY <1>2, <1>3, <1>4, MapsSteps
<1> QED
  BY <1>1, <1>5 DEF S, F

LEMMA applySecretsKeeps ==
    ASSUME TodoInv, CfgInv, PlanInv, applySecrets
    PROVE  PlanInv'
<1>1. Turn["Secrets"] \in Nat /\ Turn["Secrets"] >= 4
  BY HasTurn
<1>2. IsPlan(stages)
  BY Found DEF applySecrets
<1>3. PICK q : Override("Secrets", q) /\ Mapped(q, stages, SecretStages, applySecretsStep)
  BY <1>2, applySecretsMaps
<1>4. \A s \in Steps : Like(applySecretsStep[s], s)
  BY DEF applySecretsStep, Steps, Like, Form
<1> QED
  BY <1>1, <1>3, <1>4, MappedTaken

LEMMA applyLdFlagsMaps ==
    ASSUME IsPlan(stages), applyLdFlags
    PROVE  \E q : Override("LdFlags", q) /\ Mapped(q, stages, DOMAIN stages, applyLdFlagsStep)
<1> DEFINE S == DOMAIN stages
           q == MapSteps(S, LAMBDA s : IF IsBuild(s) THEN [s EXCEPT !.flag = "-X"] ELSE s)
           F == applyLdFlagsStep
<1>1. Override("LdFlags", q)
  BY DEF applyLdFlags
<1>2. F \in [Steps -> Steps]
  BY DEF applyLdFlagsStep, Steps, Flags
<1>3. ASSUME NEW i \in DOMAIN stages
      PROVE  IF i \notin S THEN q[i] = stages[i]
             ELSE \E t : /\ q[i] = [stages[i] EXCEPT !.steps = t]
                         /\ t = [j \in DOMAIN stages[i].steps |-> t[j]]
                         /\ \A j \in DOMAIN stages[i].steps : t[j] = F[stages[i].steps[j]]
  <2> DEFINE t == [j \in DOMAIN stages[i].steps |->
                     IF IsBuild(stages[i].steps[j])
                     THEN [stages[i].steps[j] EXCEPT !.flag = "-X"]
                     ELSE stages[i].steps[j]]
  <2>1. IF i \notin S THEN q[i] = stages[i] ELSE q[i] = [stages[i] EXCEPT !.steps = t]
    BY DEF MapSteps
  <2>2. \A j \in DOMAIN stages[i].steps : t[j] = F[stages[i].steps[j]]
    <3>1. \A j \in DOMAIN stages[i].steps : stages[i].steps[j] \in Steps
      BY StepsOf
    <3> HIDE DEF Steps
    <3> QED
      BY <3>1 DEF applyLdFlagsStep
  <2> HIDE DEF S, F, q
  <2>3. t = [j \in DOMAIN stages[i].steps |-> t[j]]
    OBVIOUS
  <2> HIDE DEF t
  <2> QED
    BY <2>1, <2>2, <2>3
<1>4. q = [i \in DOMAIN stages |-> q[i]]
  BY DEF MapSteps
<1> HIDE DEF q, S, F
<1>5. Mapped(q, stages, S, F)
  BY <1>2, <1>3, <1>4, MapsSteps
<1> QED
  BY <1>1, <1>5 DEF S, F

LEMMA applyLdFlagsKeeps ==
    ASSUME TodoInv, CfgInv, PlanInv, applyLdFlags
    PROVE  PlanInv'
<1>1. Turn["LdFlags"] \in Nat /\ Turn["LdFlags"] >= 4
  BY HasTurn
<1>2. IsPlan(stages)
  BY Found DEF applyLdFlags
<1>3. PICK q : Override("LdFlags", q) /\ Mapped(q, stages, DOMAIN stages, applyLdFlagsStep)
  BY <1>2, applyLdFlagsMaps
<1>4. \A s \in Steps : Like(applyLdFlagsStep[s], s)
  BY DEF applyLdFlagsStep, Steps, Like, Form
<1> QED
  BY <1>1, <1>3, <1>4, MappedTaken

LEMMA applyGoWorkMaps ==
    ASSUME IsPlan(stages), applyGoWork
    PROVE  \E q : /\ Override("UseGoWork", q)
                  /\ Mapped(q, stages, StagesNamed("builder"), applyGoWorkStep)
<1> DEFINE S == StagesNamed("builder")
           q == MapSteps(S, LAMBDA s : IF framework = "go" /\ s.what = "manifests"
                                       THEN [s EXCEPT !.what = "manifests-and-go.work"] ELSE s)
           F == applyGoWorkStep
<1>1. Override("UseGoWork", q)
  BY DEF applyGoWork
<1>2. F \in [Steps -> Steps]
  BY DEF applyGoWorkStep, Steps, Whats
<1>3. ASSUME NEW i \in DOMAIN stages
      PROVE  IF i \notin S THEN q[i] = stages[i]
             ELSE \E t : /\ q[i] = [stages[i] EXCEPT !.steps = t]
                         /\ t = [j \in DOMAIN stages[i].steps |-> t[j]]
                         /\ \A j \in DOMAIN stages[i].steps : t[j] = F[stages[i].steps[j]]
  <2> DEFINE t == [j \in DOMAIN stages[i].steps |->
                     IF framework = "go" /\ stages[i].steps[j].what = "manifests"
                     THEN [stages[i].steps[j] EXCEPT !.what = "manifests-and-go.work"]
                     ELSE stages[i].steps[j]]
  <2>1. IF i \notin S THEN q[i] = stages[i] ELSE q[i] = [stages[i] EXCEPT !.steps = t]
    BY DEF MapSteps
  <2>2. \A j \in DOMAIN stages[i].steps : t[j] = F[stages[i].steps[j]]
    <3>1. \A j \in DOMAIN stages[i].steps : stages[i].steps[j] \in Steps
      BY StepsOf
    <3> HIDE DEF Steps
    <3> QED
      BY <3>1 DEF applyGoWorkStep
  <2> HIDE DEF S, F, q
  <2>3. t = [j \in DOMAIN stages[i].steps |-> t[j]]
    OBVIOUS
  <2> HIDE DEF t
  <2> QED
    BY <2>1, <2>2, <2>3
<1>4. q = [i \in DOMAIN stages |-> q[i]]
  BY DEF MapSteps
<1> HIDE DEF q, S, F
<1>5. Mapped(q, stages, S, F)
  BY <1>2, <1>3, <1>4, MapsSteps
<1> QED
  BY <1>1, <1>5 DEF S, F

LEMMA applyGoWorkKeeps ==
    ASSUME TodoInv, CfgInv, PlanInv, applyGoWork
    PROVE  PlanInv'
<1>1. Turn["UseGoWork"] \in Nat /\ Turn["UseGoWork"] >= 4
  BY HasTurn
<1>2. IsPlan(stages)
  BY Found DEF applyGoWork
<1>3. PICK q : /\ Override("UseGoWork", q)
                 /\ Mapped(q, stages, StagesNamed("builder"), applyGoWorkStep)
  BY <1>2, applyGoWorkMaps
<1>4. \A s \in Steps : Like(applyGoWorkStep[s], s)
  BY DEF applyGoWorkStep, Steps, Like, Form, Watched, Added
<1> QED
  BY <1>1, <1>3, <1>4, MappedTaken

LEMMA applyContextRootMaps ==
    ASSUME IsPlan(stages), applyContextRoot
    PROVE  \E q : /\ Override("ContextRoot", q)
                  /\ Mapped(q, stages, DOMAIN stages, applyContextRootStep)
<1> DEFINE S == DOMAIN stages
           q == MapSteps(S, LAMBDA s : IF s.op # "COPY" \/ s.flag = "none" THEN s
                                       ELSE [s EXCEPT !.flag = "path"])
           F == applyContextRootStep
<1>1. Override("ContextRoot", q)
  BY DEF applyContextRoot
<1>2. F \in [Steps -> Steps]
  BY DEF applyContextRootStep, Steps, Flags
<1>3. ASSUME NEW i \in DOMAIN stages
      PROVE  IF i \notin S THEN q[i] = stages[i]
             ELSE \E t : /\ q[i] = [stages[i] EXCEPT !.steps = t]
                         /\ t = [j \in DOMAIN stages[i].steps |-> t[j]]
                         /\ \A j \in DOMAIN stages[i].steps : t[j] = F[stages[i].steps[j]]
  <2> DEFINE t == [j \in DOMAIN stages[i].steps |->
                     IF stages[i].steps[j].op # "COPY" \/ stages[i].steps[j].flag = "none"
                     THEN stages[i].steps[j]
                     ELSE [stages[i].steps[j] EXCEPT !.flag = "path"]]
  <2>1. IF i \notin S THEN q[i] = stages[i] ELSE q[i] = [stages[i] EXCEPT !.steps = t]
    BY DEF MapSteps
  <2>2. \A j \in DOMAIN stages[i].steps : t[j] = F[stages[i].steps[j]]
    <3>1. \A j \in DOMAIN stages[i].steps : stages[i].steps[j] \in Steps
      BY StepsOf
    <3> HIDE DEF Steps
    <3> QED
      BY <3>1 DEF applyContextRootStep
  <2> HIDE DEF S, F, q
  <2>3. t = [j \in DOMAIN stages[i].steps |-> t[j]]
    OBVIOUS
  <2> HIDE DEF t
  <2> QED
    BY <2>1, <2>2, <2>3
<1>4. q = [i \in DOMAIN stages |-> q[i]]
  BY DEF MapSteps
<1> HIDE DEF q, S, F
<1>5. Mapped(q, stages, S, F)
  BY <1>2, <1>3, <1>4, MapsSteps
<1> QED
  BY <1>1, <1>5 DEF S, F

LEMMA applyContextRootKeeps ==
    ASSUME TodoInv, CfgInv, PlanInv, applyContextRoot
    PROVE  PlanInv'
<1>1. Turn["ContextRoot"] \in Nat /\ Turn["ContextRoot"] >= 4
  BY HasTurn
<1>2. IsPlan(stages)
  BY Found DEF applyContextRoot
<1>3. PICK q : Override("ContextRoot", q) /\ Mapped(q, stages, DOMAIN stages, applyContextRootStep)
  BY <1>2, applyContextRootMaps
<1>4. \A s \in Steps : Like(applyContextRootStep[s], s)
  BY DEF applyContextRootStep, Steps, Like, Form
<1> QED
  BY <1>1, <1>3, <1>4, MappedTaken

\* A step that needs no root, and a shell only where the user has chosen it.
LEMMA Appended ==
    ASSUME NEW n, NEW k, NEW from, NEW s, StepsHold(n, k, from, s), NEW e \in Steps,
           e.op \notin NeedsRoot \cup {"USER"}, e.what \notin Watched,
           Form(e) = "shell" => from # "distroless" \/ ChosenByUser # {},
           e.op \in Singles => \A i \in DOMAIN s : s[i].op # e.op
    PROVE  /\ StepsHold(n, k, from, Append(s, e))
           /\ Absent(s, {"assets"}) => Absent(Append(s, e), {"assets"})
<1>1. s \in Seq(Steps)
  BY DEF StepsHold
<1>2. Inserted(Append(s, e), s, Len(s) + 1, e)
  BY <1>1, AppendInserts
<1>3. /\ e.what \notin Creation /\ e.what \notin Added /\ e.what # "assets"
      /\ e.what # "create-named-user"
  BY DEF Creation, Watched, Added
<1>4. FitsIn(n, s, Len(s) + 1, e)
  BY <1>3 DEF FitsIn, Fits
<1>5. FitsImage(e, from)
  BY <1>3 DEF FitsImage
<1>6. Absent(s, {"assets"}) => Absent(Append(s, e), {"assets"})
  <2>1. /\ Append(s, e) \in Seq(Steps) /\ Len(Append(s, e)) = Len(s) + 1
        /\ \A x \in 1 .. Len(s) + 1 : Append(s, e)[x] = IF x = Len(s) + 1 THEN e ELSE s[x]
    BY <1>1
  <2>2. \A x \in DOMAIN Append(s, e) :
           Append(s, e)[x] = e \/ \E y \in DOMAIN s : Append(s, e)[x] = s[y]
    BY <1>1, <2>1
  <2> QED
    BY <1>3, <2>2 DEF Absent
<1> QED
  BY <1>2, <1>4, <1>5, <1>6, InsertedHolds

LEMMA OneReplaced ==
    ASSUME NEW s \in Seq(Steps), NEW i \in DOMAIN s, NEW e \in Steps, Like(e, s[i])
    PROVE  Derived([s EXCEPT ![i] = e], s)
<1> DEFINE t == [s EXCEPT ![i] = e]
<1>1. t \in Seq(Steps) /\ DOMAIN t = DOMAIN s
  OBVIOUS
<1>2. \A j \in DOMAIN s : Like(t[j], s[j])
  <2>1. \A j \in DOMAIN s : t[j] = IF j = i THEN e ELSE s[j]
    OBVIOUS
  <2> QED
    BY <2>1 DEF Like
<1> QED
  BY <1>1, <1>2, InPlace

\* The steps without those of a kind, and one of that kind that needs no root
\* after them.
LEMMA Exchanged ==
    ASSUME NEW n, NEW k, NEW from, NEW s, StepsHold(n, k, from, s), NEW e \in Steps,
           e.op \notin NeedsRoot \cup {"USER"}, e.what \notin Watched,
           Form(e) = "shell" => from # "distroless" \/ ChosenByUser # {}
    PROVE  LET r == removeSteps(s, e.op) IN
           /\ StepsHold(n, k, from, r) /\ StepsHold(n, k, from, Append(r, e))
           /\ Absent(s, {"assets"}) => Absent(r, {"assets"}) /\ Absent(Append(r, e), {"assets"})
<1> DEFINE r == removeSteps(s, e.op)
<1>1. s \in Seq(Steps)
  BY DEF StepsHold
<1>2. Derived(r, s) /\ \A i \in DOMAIN r : r[i].op # e.op
  BY <1>1, RemovedSteps
<1> HIDE DEF r
<1>3. StepsHold(n, k, from, r)
  BY <1>2, DerivedHolds
<1>4. Absent(s, {"assets"}) => Absent(r, {"assets"})
  <2>1. {"assets"} \in SUBSET Watched
    BY DEF Watched
  <2> QED
    BY <1>1, <1>2, <2>1, DerivedAbsent
<1>5. /\ StepsHold(n, k, from, Append(r, e))
      /\ Absent(r, {"assets"}) => Absent(Append(r, e), {"assets"})
  BY <1>2, <1>3, Appended
<1> QED
  BY <1>3, <1>4, <1>5 DEF r

\* The steps that the overrides add to the end.
LEMMA Ends ==
    /\ \A what \in {"user", "binary"} :
          /\ Step("CMD", what) \in Steps /\ Step("CMD", what).op = "CMD"
          /\ Step("CMD", what).what = what /\ Form(Step("CMD", what)) = "exec"
    /\ \A what \in {"script", "user"} :
          /\ Step("ENTRYPOINT", what) \in Steps /\ Step("ENTRYPOINT", what).op = "ENTRYPOINT"
          /\ Step("ENTRYPOINT", what).what = what /\ Form(Step("ENTRYPOINT", what)) = "exec"
    /\ Step("EXPOSE", "user") \in Steps /\ Step("EXPOSE", "user").op = "EXPOSE"
    /\ Step("EXPOSE", "user").what = "user" /\ Form(Step("EXPOSE", "user")) = "none"
    /\ \A what \in {"first", "second"} :
          /\ Step("ENV", what) \in Steps /\ Step("ENV", what).op = "ENV"
          /\ Step("ENV", what).what = what /\ Form(Step("ENV", what)) = "none"
    /\ \A flag \in {"timed", "none"} :
          LET e == [Step("HEALTHCHECK", "user") EXCEPT !.flag = flag] IN
          e \in Steps /\ e.op = "HEALTHCHECK" /\ e.what = "user"
    /\ LET e == [Step("COPY", "script") EXCEPT !.flag = "--chmod"] IN
       e \in Steps /\ e.op = "COPY" /\ e.what = "script" /\ Form(e) = "none"
<1>1. {"CMD", "ENTRYPOINT", "EXPOSE", "ENV", "HEALTHCHECK", "COPY"} \subseteq Ops
      /\ {"user", "binary", "script", "first", "second"} \subseteq Whats
  BY DEF Ops, Whats
<1>2. \A what \in {"user", "binary"} :
         /\ Step("CMD", what) \in Steps /\ Step("CMD", what).op = "CMD"
         /\ Step("CMD", what).what = what /\ Form(Step("CMD", what)) = "exec"
  BY <1>1, StepMade DEF Form
<1>3. \A what \in {"script", "user"} :
         /\ Step("ENTRYPOINT", what) \in Steps /\ Step("ENTRYPOINT", what).op = "ENTRYPOINT"
         /\ Step("ENTRYPOINT", what).what = what /\ Form(Step("ENTRYPOINT", what)) = "exec"
  BY <1>1, StepMade DEF Form
<1>4. /\ Step("EXPOSE", "user") \in Steps /\ Step("EXPOSE", "user").op = "EXPOSE"
      /\ Step("EXPOSE", "user").what = "user" /\ Form(Step("EXPOSE", "user")) = "none"
  BY <1>1, StepMade DEF Form
<1>5. \A what \in {"first", "second"} :
         /\ Step("ENV", what) \in Steps /\ Step("ENV", what).op = "ENV"
         /\ Step("ENV", what).what = what /\ Form(Step("ENV", what)) = "none"
  BY <1>1, StepMade DEF Form
<1>6. ASSUME NEW flag \in Flags, NEW e \in Steps
      PROVE  LET f == [e EXCEPT !.flag = flag] IN
             f \in Steps /\ f.op = e.op /\ f.what = e.what
  BY DEF Steps
<1>7. \A flag \in {"timed", "none"} :
         LET e == [Step("HEALTHCHECK", "user") EXCEPT !.flag = flag] IN
         e \in Steps /\ e.op = "HEALTHCHECK" /\ e.what = "user"
  <2>1. {"timed", "none"} \subseteq Flags
    BY DEF Flags
  <2> QED
    BY <1>1, <1>6, <2>1, StepMade
<1>8. LET e == [Step("COPY", "script") EXCEPT !.flag = "--chmod"] IN
      e \in Steps /\ e.op = "COPY" /\ e.what = "script" /\ Form(e) = "none"
  <2>1. "--chmod" \in Flags
    BY DEF Flags
  <2> QED
    BY <1>1, <1>6, <2>1, StepMade DEF Form
<1> QED
  BY <1>2, <1>3, <1>4, <1>5, <1>7, <1>8

LEMMA EndsHarmless ==
    /\ {"CMD", "ENTRYPOINT", "EXPOSE", "ENV", "HEALTHCHECK", "COPY"}
          \cap (NeedsRoot \cup {"USER"}) = {}
    /\ {"user", "binary", "script", "first", "second", "tool"} \cap Watched = {}
    /\ "ENV" \notin Singles /\ "COPY" \notin Singles
BY DEF NeedsRoot, Watched, Added, Singles

LEMMA StartCmdKeeps ==
    ASSUME TodoInv, CfgInv, PlanInv, StartCmd
    PROVE  PlanInv'
<1> DEFINE e == Step("CMD", "user")
           t == Append(removeSteps(Final.steps, "CMD"), e)
<1>0. Turn["StartCmd"] \in Nat /\ Turn["StartCmd"] >= 4
  BY HasTurn
<1>1. Override("StartCmd", InFinal(t))
  BY DEF StartCmd
<1>2. /\ StepsHold(Len(stages), Len(stages), Final.from, Final.steps) /\ status = "planning"
      /\ Waits("User") => Absent(Final.steps, {"assets"})
  BY <1>1, Found DEF PlanInv
<1>3. /\ e \in Steps /\ e.op = "CMD" /\ Form(e) # "shell"
      /\ e.op \notin NeedsRoot \cup {"USER"} /\ e.what \notin Watched
  BY Ends, EndsHarmless
<1> HIDE DEF e
<1>4. /\ StepsHold(Len(stages), Len(stages), Final.from, t)
      /\ Absent(Final.steps, {"assets"}) => Absent(t, {"assets"})
  BY <1>2, <1>3, Exchanged
<1> HIDE DEF t
<1> QED
  BY <1>0, <1>1, <1>2, <1>4, FinalTaken

LEMMA ReplaceOrAddExposeKeeps ==
    ASSUME TodoInv, CfgInv, PlanInv, ReplaceOrAddExpose
    PROVE  PlanInv'
<1> DEFINE i == IndexOf(Final.steps, {"EXPOSE"})
           e == [Final.steps[i] EXCEPT !.what = "user"]
           t == IF i = 0 THEN Append(Final.steps, Step("EXPOSE", "user"))
                ELSE [Final.steps EXCEPT ![i].what = "user"]
<1>0. Turn["Expose"] \in Nat /\ Turn["Expose"] >= 4
  BY HasTurn
<1>1. Override("Expose", InFinal(t))
  BY DEF ReplaceOrAddExpose
<1>2. /\ StepsHold(Len(stages), Len(stages), Final.from, Final.steps) /\ status = "planning"
      /\ Final.steps \in Seq(Steps)
      /\ Waits("User") => Absent(Final.steps, {"assets"})
  BY <1>1, Found DEF PlanInv
<1>3. /\ i = 0 => \A j \in DOMAIN Final.steps : Final.steps[j].op # "EXPOSE"
      /\ i # 0 => i \in DOMAIN Final.steps /\ Final.steps[i].op = "EXPOSE"
  BY <1>2, IndexOfFirst
<1> HIDE DEF i
<1>4. CASE i = 0
  <2>1. t = Append(Final.steps, Step("EXPOSE", "user"))
    BY <1>4
  <2>2. /\ StepsHold(Len(stages), Len(stages), Final.from,
                     Append(Final.steps, Step("EXPOSE", "user")))
        /\ Absent(Final.steps, {"assets"}) =>
              Absent(Append(Final.steps, Step("EXPOSE", "user")), {"assets"})
    BY <1>2, <1>3, <1>4, Ends, EndsHarmless, Appended
  <2> HIDE DEF t
  <2>3. /\ StepsHold(Len(stages), Len(stages), Final.from, t)
        /\ Waits("User") => Absent(t, {"assets"})
    BY <1>2, <2>1, <2>2
  <2> QED
    BY <1>0, <1>1, <2>3, FinalTaken
<1>5. CASE i # 0
  <2>1. i \in DOMAIN Final.steps /\ Final.steps[i] \in Steps /\ Final.steps[i].op = "EXPOSE"
    BY <1>2, <1>3, <1>5
  <2>2. "user" \in Whats /\ "user" \notin Watched
    BY DEF Whats, Watched, Added
  <2>3. e \in Steps /\ Like(e, Final.steps[i])
    BY <2>1, <2>2 DEF Steps, Like, Form
  <2>4. t = [Final.steps EXCEPT ![i] = e]
    BY <1>5
  <2> HIDE DEF e, t
  <2>5. Derived(t, Final.steps)
    BY <1>2, <2>1, <2>3, <2>4, OneReplaced
  <2>6. StepsHold(Len(stages), Len(stages), Final.from, t)
    BY <1>2, <2>5, DerivedHolds
  <2>7. {"assets"} \in SUBSET Watched
    BY DEF Watched
  <2>8. Waits("User") => Absent(t, {"assets"})
    BY <1>2, <2>5, <2>7, DerivedAbsent
  <2> QED
    BY <1>0, <1>1, <2>6, <2>8, FinalTaken
<1> QED
  BY <1>4, <1>5

LEMMA SetHealthcheckKeeps ==
    ASSUME TodoInv, CfgInv, PlanInv, SetHealthcheck
    PROVE  PlanInv'
<1> DEFINE e == [Step("HEALTHCHECK", "user") EXCEPT
                    !.flag = IF Has("HealthcheckOpts") THEN "timed" ELSE "none"]
           r == removeSteps(Final.steps, "HEALTHCHECK")
           t == IF cfg["Healthcheck"] = "none" THEN r ELSE Append(r, e)
<1>0. /\ Turn["Healthcheck"] \in Nat /\ Turn["Healthcheck"] >= 4
      /\ ~(Turn["Healthcheck"] < 9) /\ ~(Turn["Healthcheck"] < 4)
  BY HasTurn
<1>1. Override("Healthcheck", InFinal(t))
  BY DEF SetHealthcheck
<1>2. StepsHold(Len(stages), Len(stages), Final.from, Final.steps) /\ Has("Healthcheck")
  BY <1>1, Found
<1>3. ChosenByUser # {}
  BY <1>2 DEF ChosenByUser, Has
<1>4. e \in Steps /\ e.op = "HEALTHCHECK" /\ e.what = "user"
  BY Ends
<1> HIDE DEF e
<1>5. StepsHold(Len(stages), Len(stages), Final.from, r)
      /\ StepsHold(Len(stages), Len(stages), Final.from, Append(r, e))
  BY <1>2, <1>3, <1>4, EndsHarmless, Exchanged
<1> HIDE DEF r
<1>6. StepsHold(Len(stages), Len(stages), Final.from, t)
  BY <1>5
<1> HIDE DEF t
<1> QED
  BY <1>0, <1>1, <1>6, FinalTaken

\* The plan as it is.
LEMMA UnchangedTaken ==
    ASSUME TodoInv, CfgInv, PlanInv, NEW field, Override(field, stages),
           Turn[field] \in Nat, Turn[field] >= 4
    PROVE  PlanInv'
<1>1. IsPlan(stages)
  BY Found
<1>2. \A i \in DOMAIN stages : Derived(stages[i].steps, stages[i].steps)
  BY <1>1, StepsOf, InPlace DEF Like
<1> QED
  BY <1>1, <1>2, DerivedTaken DEF SameStages

LEMMA SetHealthcheckOptsKeeps ==
    ASSUME TodoInv, CfgInv, PlanInv, SetHealthcheckOpts
    PROVE  PlanInv'
<1> DEFINE i == IndexOf(Final.steps, {"HEALTHCHECK"})
           e == [Final.steps[i] EXCEPT !.flag = "timed"]
           t == [Final.steps EXCEPT ![i].flag = "timed"]
<1>0. /\ Turn["HealthcheckOpts"] \in Nat
      /\ Turn["HealthcheckOpts"] >= 4 /\ Turn["HealthcheckOpts"] >= 2
      /\ ~(Turn["HealthcheckOpts"] < 9) /\ ~(Turn["HealthcheckOpts"] < 4)
  BY HasTurn
<1>1. Override("HealthcheckOpts", IF Has("Healthcheck") \/ i = 0 THEN stages ELSE InFinal(t))
  BY DEF SetHealthcheckOpts
<1>2. /\ StepsHold(Len(stages), Len(stages), Final.from, Final.steps)
      /\ Final.steps \in Seq(Steps)
  BY <1>1, Found
<1>3. i # 0 => i \in DOMAIN Final.steps /\ Final.steps[i].op = "HEALTHCHECK"
  BY <1>2, IndexOfFirst
<1> HIDE DEF i
<1>4. CASE Has("Healthcheck") \/ i = 0
  BY <1>0, <1>1, <1>4, UnchangedTaken
<1>5. CASE ~Has("Healthcheck") /\ i # 0
  <2>1. i \in DOMAIN Final.steps /\ Final.steps[i] \in Steps /\ Final.steps[i].op = "HEALTHCHECK"
    BY <1>2, <1>3, <1>5
  <2>2. e \in Steps /\ Like(e, Final.steps[i])
    BY <2>1 DEF Steps, Flags, Like, Form
  <2>3. t = [Final.steps EXCEPT ![i] = e]
    OBVIOUS
  <2> HIDE DEF e, t
  <2>4. StepsHold(Len(stages), Len(stages), Final.from, t)
    BY <1>2, <2>1, <2>2, <2>3, OneReplaced, DerivedHolds
  <2> QED
    BY <1>0, <1>1, <1>5, <2>4, FinalTaken
<1> QED
  BY <1>4, <1>5

LEMMA EntrypointScriptKeeps ==
    ASSUME TodoInv, CfgInv, PlanInv, EntrypointScript
    PROVE  PlanInv'
<1> DEFINE c == [Step("COPY", "script") EXCEPT !.flag = "--chmod"]
           e == Step("ENTRYPOINT", "script")
           r == removeSteps(Final.steps, "ENTRYPOINT")
           t == r \o <<c, e>>
<1>0. /\ Turn["EntrypointScript"] \in Nat /\ Turn["EntrypointScript"] >= 4
      /\ ~(Turn["EntrypointScript"] < 9) /\ ~(Turn["EntrypointScript"] < 4)
  BY HasTurn
<1>1. Override("EntrypointScript", InFinal(t))
  BY DEF EntrypointScript
<1>2. /\ StepsHold(Len(stages), Len(stages), Final.from, Final.steps)
      /\ Final.steps \in Seq(Steps)
  BY <1>1, Found
<1>3. /\ c \in Steps /\ c.op = "COPY" /\ c.what = "script" /\ Form(c) = "none"
      /\ e \in Steps /\ e.op = "ENTRYPOINT" /\ e.what = "script" /\ Form(e) = "exec"
  BY Ends
<1> HIDE DEF c, e
<1>4. Derived(r, Final.steps) /\ \A i \in DOMAIN r : r[i].op # "ENTRYPOINT"
  BY <1>2, RemovedSteps
<1> HIDE DEF r
<1>5. r \in Seq(Steps) /\ StepsHold(Len(stages), Len(stages), Final.from, r)
  BY <1>2, <1>4, DerivedHolds DEF Derived
<1>6. StepsHold(Len(stages), Len(stages), Final.from, Append(r, c))
  BY <1>3, <1>5, EndsHarmless, Appended
<1>7. \A i \in DOMAIN Append(r, c) : Append(r, c)[i].op # "ENTRYPOINT"
  <2>1. \A i \in DOMAIN Append(r, c) :
           Append(r, c)[i] = c \/ (i \in DOMAIN r /\ Append(r, c)[i] = r[i])
    BY <1>3, <1>5
  <2> QED
    BY <1>3, <1>4, <2>1
<1>8. StepsHold(Len(stages), Len(stages), Final.from, Append(Append(r, c), e))
  BY <1>3, <1>6, <1>7, EndsHarmless, Appended
<1>9. t = Append(Append(r, c), e)
  BY <1>3, <1>5, ConcatAppends
<1> HIDE DEF t
<1>10. StepsHold(Len(stages), Len(stages), Final.from, t)
  BY <1>8, <1>9
<1> QED
  BY <1>0, <1>1, <1>10, FinalTaken

LEMMA EntrypointKeeps ==
    ASSUME TodoInv, CfgInv, PlanInv, Entrypoint
    PROVE  PlanInv'
<1> DEFINE e == Step("ENTRYPOINT", "user")
           t == Append(removeSteps(Final.steps, "ENTRYPOINT"), e)
<1>0. /\ Turn["Entrypoint"] \in Nat /\ Turn["Entrypoint"] >= 4 /\ Turn["Entrypoint"] >= 2
      /\ ~(Turn["Entrypoint"] < 9) /\ ~(Turn["Entrypoint"] < 4)
  BY HasTurn
<1>1. Override("Entrypoint", IF Has("EntrypointScript") THEN stages ELSE InFinal(t))
  BY DEF Entrypoint
<1>2. StepsHold(Len(stages), Len(stages), Final.from, Final.steps)
  BY <1>1, Found
<1>3. e \in Steps /\ e.op = "ENTRYPOINT" /\ e.what = "user" /\ Form(e) = "exec"
  BY Ends
<1> HIDE DEF e
<1>4. StepsHold(Len(stages), Len(stages), Final.from, t)
  BY <1>2, <1>3, EndsHarmless, Exchanged
<1> HIDE DEF t
<1>5. CASE Has("EntrypointScript")
  BY <1>0, <1>1, <1>5, UnchangedTaken
<1>6. CASE ~Has("EntrypointScript")
  BY <1>0, <1>1, <1>4, <1>6, FinalTaken
<1> QED
  BY <1>5, <1>6

LEMMA ExtraEnvKeeps ==
    ASSUME TodoInv, CfgInv, PlanInv, ExtraEnv
    PROVE  PlanInv'
<1> DEFINE s == Final.steps
           c == Step("ENV", "first")
           e == Step("ENV", "second")
           t == s \o <<c, e>>
<1>0. /\ Turn["ExtraEnv"] \in Nat /\ Turn["ExtraEnv"] >= 4
      /\ ~(Turn["ExtraEnv"] < 9) /\ ~(Turn["ExtraEnv"] < 4)
  BY HasTurn
<1>1. Override("ExtraEnv", InFinal(t))
  BY DEF ExtraEnv
<1>2. /\ StepsHold(Len(stages), Len(stages), Final.from, s)
      /\ s \in Seq(Steps)
  BY <1>1, Found
<1>3. /\ c \in Steps /\ c.op = "ENV" /\ c.what = "first" /\ Form(c) = "none"
      /\ e \in Steps /\ e.op = "ENV" /\ e.what = "second" /\ Form(e) = "none"
  BY Ends
<1> HIDE DEF c, e, s
<1>4. StepsHold(Len(stages), Len(stages), Final.from, Append(s, c))
  BY <1>2, <1>3, EndsHarmless, Appended
<1>5. StepsHold(Len(stages), Len(stages), Final.from, Append(Append(s, c), e))
  BY <1>3, <1>4, EndsHarmless, Appended
<1>6. t = Append(Append(s, c), e)
  BY <1>2, <1>3, ConcatAppends
<1> HIDE DEF t
<1>7. StepsHold(Len(stages), Len(stages), Final.from, t)
  BY <1>5, <1>6
<1> QED
  BY <1>0, <1>1, <1>7, FinalTaken

LEMMA ValuesOf ==
    /\ Values["BaseImage"] = {"alpine", "debian"} /\ Values["RuntimeImage"] = Images
    /\ Values["RuntimeAssets"] = {"none", "--chown"}
    /\ Values["ExternalTools"] = {"builder", "runtime"}
<1>1. {"BaseImage", "RuntimeImage", "RuntimeAssets", "ExternalTools"} \subseteq Fields
  BY FieldNames
<1> QED
  BY <1>1 DEF Values, Fields

LEMMA ForImageMade ==
    ASSUME NEW what \in Whats, NEW from
    PROVE  LET e == ForImage(Run(what), from) IN
           e \in Steps /\ e.op = "RUN" /\ e.what = what /\ e.tool = Tool(from) /\ Form(e) = "shell"
<1>1. "RUN" \in Ops /\ Tool(from) \in Tools
  BY DEF Ops, Tool, Tools
<1>2. Run(what) \in Steps /\ Run(what).op = "RUN" /\ Run(what).what = what
  BY <1>1, StepMade DEF Run
<1> QED
  BY <1>1, <1>2 DEF ForImage, Steps, Form

LEMMA SetUserKeeps ==
    ASSUME TodoInv, CfgInv, PlanInv, SetUser
    PROVE  PlanInv'
<1> DEFINE n == Len(stages)
           rest == removeSteps(Final.steps, "USER")
           e == ForImage(Run("create-named-user"), Final.from)
           u == User("user")
           creation == IF cfg["User"] = "named" THEN createNamedUser(Final.from) ELSE <<>>
           t == IF cfg["User"] = "none" THEN rest ELSE rest \o creation \o <<u>>
<1>0. /\ Turn["User"] \in Nat /\ Turn["User"] >= 4
      /\ ~(Turn["User"] < 9) /\ ~(Turn["User"] < 4)
  BY HasTurn
<1>1. Override("User", InFinal(t))
  BY DEF SetUser
<1>2. /\ StepsHold(n, n, Final.from, Final.steps) /\ Final.steps \in Seq(Steps)
      /\ Absent(Final.steps, {"assets"})
  BY <1>1, Found DEF PlanInv
<1>3. Derived(rest, Final.steps) /\ \A i \in DOMAIN rest : rest[i].op # "USER"
  BY <1>2, RemovedSteps
<1> HIDE DEF rest
<1>4. rest \in Seq(Steps) /\ StepsHold(n, n, Final.from, rest)
  BY <1>2, <1>3, DerivedHolds DEF Derived
<1>5. \A i \in DOMAIN rest : rest[i].what # "assets"
  <2>1. {"assets"} \in SUBSET Watched
    BY DEF Watched
  <2>2. Absent(rest, {"assets"})
    BY <1>2, <1>3, <2>1, DerivedAbsent
  <2> QED
    BY <2>2 DEF Absent
<1>6. /\ e \in Steps /\ e.op = "RUN" /\ e.what = "create-named-user" /\ e.tool = Tool(Final.from)
      /\ u \in Steps /\ u.op = "USER" /\ u.what = "user" /\ Form(u) = "none"
  <2>1. "create-named-user" \in Whats /\ "user" \in Whats /\ "USER" \in Ops
    BY DEF Whats, Ops
  <2> QED
    BY <2>1, ForImageMade, StepMade DEF User, Form
<1>7. /\ "create-named-user" \in Creation /\ "create-named-user" # "assets"
      /\ "user" \notin Creation /\ "user" \notin Added /\ "user" # "assets"
      /\ "RUN" \in NeedsRoot /\ "USER" \notin NeedsRoot /\ "RUN" \notin Singles
  BY DEF Creation, Added, NeedsRoot, Singles
<1> HIDE DEF e, u, n
\* The USER step closes whatever has no USER and no assets.
<1>8. ASSUME NEW r \in Seq(Steps), StepsHold(n, n, Final.from, r),
             \A i \in DOMAIN r : r[i].op # "USER" /\ r[i].what # "assets"
      PROVE  StepsHold(n, n, Final.from, Append(r, u))
  <2>1. Inserted(Append(r, u), r, Len(r) + 1, u)
    BY <1>6, AppendInserts
  <2>2. \A j \in DOMAIN r : j < Len(r) + 1
    OBVIOUS
  <2>3. FitsIn(n, r, Len(r) + 1, u)
    BY <1>6, <1>7, <1>8, <2>2 DEF FitsIn, Fits
  <2>4. FitsImage(u, Final.from)
    BY <1>6, <1>7 DEF FitsImage
  <2> QED
    BY <1>6, <1>8, <2>1, <2>3, <2>4, InsertedHolds
<1>9. StepsHold(n, n, Final.from, Append(rest, u))
  BY <1>3, <1>4, <1>5, <1>8
<1>10. Final.from # "distroless" => StepsHold(n, n, Final.from, Append(Append(rest, e), u))
  <2> SUFFICES ASSUME Final.from # "distroless"
               PROVE  StepsHold(n, n, Final.from, Append(Append(rest, e), u))
    OBVIOUS
  <2>1. Inserted(Append(rest, e), rest, Len(rest) + 1, e)
    BY <1>4, <1>6, AppendInserts
  <2>2. FitsIn(n, rest, Len(rest) + 1, e)
    BY <1>3, <1>5, <1>6, <1>7 DEF FitsIn, Fits
  <2>3. FitsImage(e, Final.from)
    BY <1>6 DEF FitsImage
  <2>4. StepsHold(n, n, Final.from, Append(rest, e))
    BY <1>4, <1>6, <2>1, <2>2, <2>3, InsertedHolds
  <2>5. Append(rest, e) \in Seq(Steps)
        /\ \A i \in DOMAIN Append(rest, e) :
              Append(rest, e)[i] = e \/ (i \in DOMAIN rest /\ Append(rest, e)[i] = rest[i])
    BY <1>4, <1>6
  <2>6. \A i \in DOMAIN Append(rest, e) :
           Append(rest, e)[i].op # "USER" /\ Append(rest, e)[i].what # "assets"
    BY <1>3, <1>5, <1>6, <2>5
  <2> QED
    BY <1>8, <2>4, <2>5, <2>6
<1>11. /\ rest \o <<>> \o <<u>> = Append(rest, u)
       /\ rest \o <<e>> \o <<u>> = Append(Append(rest, e), u)
  BY <1>4, <1>6
<1>12. creation = <<>> \/ (creation = <<e>> /\ Final.from # "distroless")
  <2>1. createNamedUser(Final.from) = IF Final.from = "distroless" THEN <<>> ELSE <<e>>
    BY DEF createNamedUser, e
  <2> QED
    BY <2>1
<1> HIDE DEF creation
<1>13. StepsHold(n, n, Final.from, rest \o creation \o <<u>>)
  BY <1>9, <1>10, <1>11, <1>12
<1>14. StepsHold(n, n, Final.from, t)
  BY <1>4, <1>13
<1> HIDE DEF t
<1> QED
  BY <1>0, <1>1, <1>14, FinalTaken DEF n

\* Where InsertBeforeUser puts a step.
LEMMA InsertedBeforeUser ==
    ASSUME NEW s \in Seq(Steps), NEW ops, NEW e \in Steps
    PROVE  \E p \in 1 .. Len(s) + 1 :
              /\ Inserted(InsertBeforeUser(s, ops, e), s, p, e)
              /\ HasUser(s) => p \in DOMAIN s /\ s[p].op = "USER"
              /\ \A i \in DOMAIN s : s[i].op = "USER" => p <= i
<1> DEFINE user == IndexOf(s, {"USER"})
           other == IndexOf(s, ops)
           p == IF user # 0 THEN user ELSE IF other # 0 THEN other ELSE Len(s) + 1
<1>1. /\ user = 0 => \A i \in DOMAIN s : s[i].op # "USER"
      /\ user # 0 => /\ user \in DOMAIN s /\ s[user].op = "USER"
                     /\ \A i \in DOMAIN s : s[i].op = "USER" => user <= i
      /\ other # 0 => other \in DOMAIN s
  BY IndexOfFirst
<1>2. InsertBeforeUser(s, ops, e) = InsertAt(s, p, e)
  BY DEF InsertBeforeUser
<1>3. DOMAIN s = 1 .. Len(s) /\ Len(s) \in Nat
  OBVIOUS
<1> HIDE DEF user, other
<1>4. p \in 1 .. Len(s) + 1
  BY <1>1, <1>3
<1>5. Inserted(InsertBeforeUser(s, ops, e), s, p, e)
  BY <1>2, <1>4, InsertAtInserts
<1>6. HasUser(s) => user # 0
  BY <1>1 DEF HasUser
<1>7. HasUser(s) => p \in DOMAIN s /\ s[p].op = "USER"
  BY <1>1, <1>6
<1>8. \A i \in DOMAIN s : s[i].op = "USER" => p <= i
  BY <1>1
<1> HIDE DEF p
<1> QED
  BY <1>4, <1>5, <1>7, <1>8

LEMMA applyRuntimeAssetsKeeps ==
    ASSUME TodoInv, CfgInv, PlanInv, applyRuntimeAssets
    PROVE  PlanInv'
<1> DEFINE n == Len(stages)
           s == Final.steps
           ops == {"CMD", "ENTRYPOINT"}
           e == [Step("COPY", "assets") EXCEPT !.flag = cfg["RuntimeAssets"]]
           t == InsertBeforeUser(s, ops, e)
<1>0. /\ Turn["RuntimeAssets"] \in Nat /\ Turn["RuntimeAssets"] >= 4
      /\ ~(Turn["RuntimeAssets"] < 9) /\ ~(Turn["RuntimeAssets"] < 4)
  BY HasTurn
<1>1. Override("RuntimeAssets", InFinal(t))
  BY DEF applyRuntimeAssets
<1>2. /\ StepsHold(n, n, Final.from, s) /\ s \in Seq(Steps)
      /\ cfg["RuntimeAssets"] \in {"none", "--chown"}
  <2>1. Values["RuntimeAssets"] = {"none", "--chown"}
    BY ValuesOf
  <2> QED
    BY <1>1, <2>1, Found
<1>3. /\ e \in Steps /\ e.op = "COPY" /\ e.what = "assets" /\ Form(e) = "none"
  <2>1. "COPY" \in Ops /\ "assets" \in Whats /\ cfg["RuntimeAssets"] \in Flags
    BY <1>2 DEF Ops, Whats, Flags
  <2>2. Step("COPY", "assets") \in Steps /\ Step("COPY", "assets").op = "COPY"
        /\ Step("COPY", "assets").what = "assets"
    BY <2>1, StepMade
  <2> QED
    BY <2>1, <2>2 DEF Steps, Form
<1> HIDE DEF e, s, n, ops
<1>4. StepsHold(n, n, Final.from, t)
  <2>1. PICK p \in 1 .. Len(s) + 1 :
           /\ Inserted(t, s, p, e)
           /\ HasUser(s) => p \in DOMAIN s /\ s[p].op = "USER"
    BY <1>2, <1>3, InsertedBeforeUser
  <2> HIDE DEF t
  <2>2. FitsIn(n, s, p, e)
    <3>1. HasUser(s) => \A j \in DOMAIN s : s[j].what \in Creation => j < p
      BY <1>2, <2>1 DEF StepsHold, Settled, Neat
    <3>2. "COPY" \notin NeedsRoot /\ "COPY" \notin Singles /\ "assets" \notin Creation
      BY DEF NeedsRoot, Singles, Creation
    <3> QED
      BY <1>3, <3>1, <3>2 DEF FitsIn, Fits
  <2>3. FitsImage(e, Final.from)
    BY <1>3 DEF FitsImage, Added
  <2> QED
    BY <1>2, <1>3, <2>1, <2>2, <2>3, InsertedHolds
<1> HIDE DEF t
<1> QED
  BY <1>0, <1>1, <1>4, FinalTaken DEF n

LEMMA InsertedAbsent ==
    ASSUME NEW s \in Seq(Steps), NEW t, NEW p, NEW e, Inserted(t, s, p, e), NEW words,
           Absent(s, words), e.what \notin words
    PROVE  Absent(t, words)
<1>1. DOMAIN s = 1 .. Len(s) /\ Len(s) \in Nat /\ DOMAIN t = 1 .. Len(s) + 1 /\ p \in Nat
  BY DEF Inserted
<1> SUFFICES ASSUME NEW x \in DOMAIN t
             PROVE  t[x].what \notin words
  BY DEF Absent
<1>2. CASE x = p
  BY <1>1, <1>2 DEF Inserted
<1>3. CASE x < p
  BY <1>1, <1>3 DEF Inserted, Absent
<1>4. CASE p < x
  BY <1>1, <1>4 DEF Inserted, Absent
<1> QED
  BY <1>1, <1>2, <1>3, <1>4

\* An override that edits the first stage.
LEMMA FirstTaken ==
    ASSUME TodoInv, CfgInv, PlanInv, NEW field, NEW t, Override(field, InFirst(t)),
           StepsHold(Len(stages), 1, First.from, t), Turn[field] \in Nat, Turn[field] >= 2,
           Len(stages) = 1 /\ Turn[field] < 9 /\ Waits("User") => Absent(t, {"assets"}),
           Len(stages) = 1 /\ Turn[field] < 4 /\ Waits("InstallCmd") => RootlessCommands(t)
    PROVE  PlanInv'
<1> DEFINE q == InFirst(t)
<1>1. /\ Holds(stages) /\ 1 \in DOMAIN stages /\ Len(stages) \in DOMAIN stages
      /\ Waits("User") => Absent(Final.steps, {"assets"})
  BY Found DEF PlanInv
<1>2. /\ Holds(q) /\ Len(q) = Len(stages) /\ q[1].steps = t
      /\ \A i \in DOMAIN stages : i # 1 => q[i] = stages[i]
  BY <1>1, EditedHolds DEF InFirst, First
<1>3. Override(field, q)
  OBVIOUS
<1> HIDE DEF q
<1>4. Len(stages) = 1 => LastOf(q).steps = t
  BY <1>2 DEF LastOf
<1>5. Len(stages) # 1 => LastOf(q).steps = Final.steps
  BY <1>1, <1>2 DEF LastOf, Final
<1>6. Turn[field] < 9 /\ Waits("User") => Absent(LastOf(q).steps, {"assets"})
  BY <1>1, <1>4, <1>5
<1>7. Turn[field] < 4 /\ Len(q) = 1 /\ Waits("InstallCmd") => RootlessCommands(q[1].steps)
  BY <1>2
<1> QED
  BY <1>2, <1>3, <1>6, <1>7, Taken

\* A tool from the outside: it may be put where no user waits behind it.
LEMMA FetchTool ==
    LET e == Step("FETCHTOOL", "tool") IN
    /\ e \in Steps /\ e.op = "FETCHTOOL" /\ e.what = "tool"
    /\ \A from : ChosenByUser # {} => FitsImage(e, from)
    /\ \A n, s, p :
          Lenient(n) \/ (\A i \in DOMAIN s : s[i].op = "USER" => p <= i) => FitsIn(n, s, p, e)
<1> DEFINE e == Step("FETCHTOOL", "tool")
<1>1. "FETCHTOOL" \in Ops /\ "tool" \in Whats
  BY DEF Ops, Whats
<1>2. e \in Steps /\ e.op = "FETCHTOOL" /\ e.what = "tool"
  BY <1>1, StepMade
<1>3. "tool" \notin Added /\ "tool" \notin Creation /\ "FETCHTOOL" \notin Singles
  BY DEF Added, Creation, Singles
<1> HIDE DEF e
<1>4. \A from : ChosenByUser # {} => FitsImage(e, from)
  BY <1>2, <1>3 DEF FitsImage
<1>5. \A n, s, p :
         Lenient(n) \/ (\A i \in DOMAIN s : s[i].op = "USER" => p <= i) => FitsIn(n, s, p, e)
  BY <1>2, <1>3 DEF FitsIn, Fits
<1> QED
  BY <1>2, <1>4, <1>5 DEF e

LEMMA applyExternalToolsKeeps ==
    ASSUME TodoInv, CfgInv, PlanInv, applyExternalTools
    PROVE  PlanInv'
<1> DEFINE e == Step("FETCHTOOL", "tool")
           a == Append(First.steps, e)
           t == InsertBeforeUser(Final.steps, {}, e)
<1>0. /\ Turn["ExternalTools"] \in Nat /\ Turn["ExternalTools"] >= 4 /\ Turn["ExternalTools"] >= 2
      /\ ~(Turn["ExternalTools"] < 9) /\ ~(Turn["ExternalTools"] < 4)
  BY HasTurn
<1>1. Override("ExternalTools",
         IF cfg["ExternalTools"] = "builder" THEN InFirst(a) ELSE InFinal(t))
  BY DEF applyExternalTools
<1>2. /\ Has("ExternalTools")
      /\ First.steps \in Seq(Steps) /\ StepsHold(Len(stages), 1, First.from, First.steps)
      /\ Final.steps \in Seq(Steps) /\ StepsHold(Len(stages), Len(stages), Final.from, Final.steps)
  BY <1>1, Found DEF First
<1>3. ChosenByUser # {}
  BY <1>2 DEF ChosenByUser, Has
<1>4. e \in Steps /\ FitsImage(e, First.from) /\ FitsImage(e, Final.from)
  BY <1>3, FetchTool
<1>5. ASSUME cfg["ExternalTools"] = "builder"
      PROVE  StepsHold(Len(stages), 1, First.from, a)
  <2>1. Inserted(a, First.steps, Len(First.steps) + 1, e)
    BY <1>2, <1>4, AppendInserts
  <2>2. 1 = Len(stages) => FitsIn(Len(stages), First.steps, Len(First.steps) + 1, e)
    BY <1>2, <1>5, FetchTool DEF Lenient
  <2> HIDE DEF e, a
  <2> QED
    BY <1>2, <1>4, <2>1, <2>2, InsertedHolds
<1>6. StepsHold(Len(stages), Len(stages), Final.from, t)
  <2>1. PICK p \in 1 .. Len(Final.steps) + 1 :
           /\ Inserted(t, Final.steps, p, e)
           /\ \A i \in DOMAIN Final.steps : Final.steps[i].op = "USER" => p <= i
    BY <1>2, <1>4, InsertedBeforeUser
  <2>2. FitsIn(Len(stages), Final.steps, p, e)
    BY <2>1, FetchTool
  <2> HIDE DEF e, t
  <2> QED
    BY <1>2, <1>4, <2>1, <2>2, InsertedHolds
<1> HIDE DEF a, t
<1>7. CASE cfg["ExternalTools"] = "builder"
  BY <1>0, <1>1, <1>5, <1>7, FirstTaken
<1>8. CASE cfg["ExternalTools"] # "builder"
  BY <1>0, <1>1, <1>6, <1>8, FinalTaken
<1> QED
  BY <1>7, <1>8

\* Where InsertAfterLeading puts a step: before USER, which leads nothing.
LEMMA InsertedAfterLeading ==
    ASSUME NEW s \in Seq(Steps), NEW ops, "USER" \notin ops, NEW e \in Steps
    PROVE  \E p \in 1 .. Len(s) + 1 :
              /\ Inserted(InsertAfterLeading(s, ops, e), s, p, e)
              /\ \A i \in DOMAIN s : s[i].op = "USER" => p <= i
<1> DEFINE I == {i \in 1 .. Len(s) : s[i].op \notin ops}
           k == SelectInSeq(s, LAMBDA x : x.op \notin ops)
           p == IF k = 0 THEN Len(s) + 1 ELSE k
<1>1. k = IF I # {} THEN Min(I) ELSE 0
  BY DEF SelectInSeq
<1>2. I # {} => Min(I) \in I /\ \A i \in I : Min(I) <= i
  <2>1. I \in SUBSET Nat
    OBVIOUS
  <2> HIDE DEF I
  <2> QED
    BY <2>1, MinOfNaturals
<1>3. DOMAIN s = 1 .. Len(s) /\ Len(s) \in Nat /\ \A i \in I : i # 0
  OBVIOUS
<1>4. InsertAfterLeading(s, ops, e) = InsertAt(s, p, e)
  BY DEF InsertAfterLeading
<1> HIDE DEF k
<1>5. p \in 1 .. Len(s) + 1 /\ \A i \in I : p <= i
  <2>1. CASE I = {}
    BY <1>1, <1>3, <2>1
  <2>2. CASE I # {}
    <3>1. k \in I /\ k # 0 /\ \A i \in I : k <= i
      BY <1>1, <1>2, <1>3, <2>2
    <3> QED
      BY <1>3, <3>1
  <2> QED
    BY <2>1, <2>2
<1>6. Inserted(InsertAfterLeading(s, ops, e), s, p, e)
  BY <1>4, <1>5, InsertAtInserts
<1>7. \A i \in DOMAIN s : s[i].op = "USER" => i \in I
  BY <1>3
<1> HIDE DEF p, I
<1> QED
  BY <1>5, <1>6, <1>7

\* A package install of an override.
LEMMA PackagesFit ==
    ASSUME NEW what \in {"system-deps", "runtime-deps"}, NEW from, NEW e,
           e = ForImage(Run(what), from)
    PROVE  /\ e \in Steps /\ e.op = "RUN" /\ e.what = what
           /\ from # "distroless" \/ ChosenByUser # {} => FitsImage(e, from)
           /\ \A n, s, p : (\A i \in DOMAIN s : s[i].op = "USER" => p <= i) => FitsIn(n, s, p, e)
<1>1. what \in Whats
  BY DEF Whats
<1>2. e \in Steps /\ e.op = "RUN" /\ e.what = what /\ e.tool = Tool(from)
  BY <1>1, ForImageMade
<1>3. what \notin Creation /\ what # "assets" /\ what # "create-named-user" /\ "RUN" \notin Singles
  BY DEF Creation, Singles
<1>4. from # "distroless" \/ ChosenByUser # {} => FitsImage(e, from)
  BY <1>2, <1>3 DEF FitsImage
<1>5. \A n, s, p : (\A i \in DOMAIN s : s[i].op = "USER" => p <= i) => FitsIn(n, s, p, e)
  BY <1>2, <1>3 DEF FitsIn, Fits
<1> QED
  BY <1>2, <1>4, <1>5

LEMMA applyRuntimeSystemDepsKeeps ==
    ASSUME TodoInv, CfgInv, PlanInv, applyRuntimeSystemDeps
    PROVE  PlanInv'
<1> DEFINE e == ForImage(Run("runtime-deps"), Final.from)
           s == Final.steps
           t == InsertAfterLeading(s, {"ENV", "ARG"}, e)
<1>1. Override("RuntimeSystemDeps", InFinal(t)) /\ Final.from # "distroless"
  BY DEF applyRuntimeSystemDeps
<1>2. s \in Seq(Steps) /\ StepsHold(Len(stages), Len(stages), Final.from, s)
  BY <1>1, Found
<1>3. e \in Steps /\ FitsImage(e, Final.from)
      /\ \A n, r, p : (\A i \in DOMAIN r : r[i].op = "USER" => p <= i) => FitsIn(n, r, p, e)
  BY <1>1, PackagesFit
<1> HIDE DEF e, s
<1>4. StepsHold(Len(stages), Len(stages), Final.from, t)
  <2>1. "USER" \notin {"ENV", "ARG"}
    OBVIOUS
  <2>2. PICK p \in 1 .. Len(s) + 1 :
           Inserted(t, s, p, e) /\ \A i \in DOMAIN s : s[i].op = "USER" => p <= i
    BY <1>2, <1>3, <2>1, InsertedAfterLeading
  <2>3. FitsIn(Len(stages), s, p, e)
    BY <1>3, <2>2
  <2> HIDE DEF t
  <2> QED
    BY <1>2, <1>3, <2>2, <2>3, InsertedHolds
<1> HIDE DEF t
<1>5. Override("RuntimeSystemDeps", InFinal(t))
  BY <1>1
<1>6. /\ Turn["RuntimeSystemDeps"] \in Nat /\ Turn["RuntimeSystemDeps"] >= 4
      /\ ~(Turn["RuntimeSystemDeps"] < 9)
  BY HasTurn
<1> QED
  BY <1>4, <1>5, <1>6, FinalTaken

LEMMA insertSystemDepsStepKeeps ==
    ASSUME TodoInv, CfgInv, PlanInv, insertSystemDepsStep
    PROVE  PlanInv'
<1> DEFINE e == ForImage(Run("system-deps"), First.from)
           s == First.steps
           t == InsertAfterLeading(s, {"WORKDIR"}, e)
<1>1. Override("SystemDeps", InFirst(t))
  BY DEF insertSystemDepsStep
<1>2. /\ s \in Seq(Steps) /\ StepsHold(Len(stages), 1, First.from, s)
      /\ First.from = "distroless" => ChosenByUser # {}
      /\ Len(stages) = 1 /\ Waits("User") => Absent(s, {"assets"})
  BY <1>1, Found DEF First, Final, Holds, PlanInv
<1>3. /\ e \in Steps /\ e.op = "RUN" /\ e.what = "system-deps" /\ FitsImage(e, First.from)
      /\ \A n, r, p : (\A i \in DOMAIN r : r[i].op = "USER" => p <= i) => FitsIn(n, r, p, e)
  BY <1>2, PackagesFit
<1> HIDE DEF e, s
<1>4. /\ StepsHold(Len(stages), 1, First.from, t) /\ RootlessCommands(t)
      /\ Absent(s, {"assets"}) => Absent(t, {"assets"})
  <2>1. "USER" \notin {"WORKDIR"}
    OBVIOUS
  <2>2. PICK p \in 1 .. Len(s) + 1 :
           Inserted(t, s, p, e) /\ \A i \in DOMAIN s : s[i].op = "USER" => p <= i
    BY <1>2, <1>3, <2>1, InsertedAfterLeading
  <2>3. FitsIn(Len(stages), s, p, e)
    BY <1>3, <2>2
  <2> HIDE DEF t
  <2>4. StepsHold(Len(stages), 1, First.from, t)
    BY <1>2, <1>3, <2>2, <2>3, InsertedHolds
  <2>5. p \in DOMAIN t /\ t[p] = e
    BY <1>2, <2>2 DEF Inserted
  <2>6. RootlessCommands(t)
    BY <1>3, <2>5 DEF RootlessCommands
  <2>7. Absent(s, {"assets"}) => Absent(t, {"assets"})
    BY <1>2, <1>3, <2>2, InsertedAbsent
  <2> QED
    BY <2>4, <2>6, <2>7
<1> HIDE DEF t
<1>5. Len(stages) = 1 /\ Waits("User") => Absent(t, {"assets"})
  BY <1>2, <1>4
<1>6. Turn["SystemDeps"] \in Nat /\ Turn["SystemDeps"] >= 2
  BY HasTurn
<1> QED
  BY <1>1, <1>4, <1>5, <1>6, FirstTaken
\* A command of the user in the place of a planned one, or behind no other.
LEMMA UserCommand ==
    ASSUME NEW n, NEW k, NEW from, NEW s, StepsHold(n, k, from, s),
           from = "distroless" => ChosenByUser # {}, k = n => RootlessCommands(s),
           NEW what \in {"user-install", "user-build"}
    PROVE  /\ StepsHold(n, k, from, replaceLastRun(s, what))
           /\ Absent(s, {"assets"}) => Absent(replaceLastRun(s, what), {"assets"})
<1> DEFINE t == replaceLastRun(s, what)
           e == Run(what)
<1>1. what \in PlainWhats /\ what \in Whats
  BY DEF PlainWhats, Whats, Watched, Added
<1>2. s \in Seq(Steps)
  BY DEF StepsHold
<1>3. Derived(t, s) \/ (t = Append(s, e) /\ \A i \in DOMAIN s : s[i].op # "RUN")
  BY <1>1, <1>2, ReplacedLastRun
<1>4. e \in Steps /\ e.op = "RUN" /\ e.what = what
  <2>1. "RUN" \in Ops
    BY DEF Ops
  <2> QED
    BY <1>1, <2>1, StepMade DEF Run
<1> HIDE DEF t, e
<1>5. CASE Derived(t, s)
  <2>1. {"assets"} \in SUBSET Watched
    BY DEF Watched
  <2>2. Absent(s, {"assets"}) => Absent(t, {"assets"})
    BY <1>2, <1>5, <2>1, DerivedAbsent
  <2> QED
    BY <1>5, <2>2, DerivedHolds DEF t
<1>6. CASE t = Append(s, e) /\ \A i \in DOMAIN s : s[i].op # "RUN"
  <2>1. Inserted(t, s, Len(s) + 1, e)
    BY <1>2, <1>4, <1>6, AppendInserts
  <2>2. what \notin Creation /\ what \notin Added /\ what # "assets" /\ what # "create-named-user"
        /\ "RUN" \notin Singles
    BY DEF Creation, Added, Singles
  <2>3. FitsImage(e, from)
    BY <1>4, <2>2 DEF FitsImage
  <2>4. k = n => FitsIn(n, s, Len(s) + 1, e)
    <3>1. k = n => \A i \in DOMAIN s : s[i].op # "USER"
      BY <1>6 DEF RootlessCommands, HasUser
    <3> QED
      BY <1>4, <2>2, <3>1 DEF FitsIn, Fits
  <2>5. StepsHold(n, k, from, t)
    BY <1>4, <2>1, <2>3, <2>4, InsertedHolds
  <2>6. Absent(s, {"assets"}) => Absent(t, {"assets"})
    BY <1>2, <1>4, <2>1, <2>2, InsertedAbsent
  <2> QED
    BY <2>5, <2>6 DEF t
<1> QED
  BY <1>3, <1>5, <1>6

LEMMA InstallCmdKeeps ==
    ASSUME TodoInv, CfgInv, PlanInv, InstallCmd
    PROVE  PlanInv'
<1> DEFINE t == replaceLastRun(First.steps, "user-install")
<1>1. Override("InstallCmd", InFirst(t))
  BY DEF InstallCmd
<1>2. /\ StepsHold(Len(stages), 1, First.from, First.steps)
      /\ First.from = "distroless" => ChosenByUser # {}
      /\ Len(stages) = 1 /\ Waits("User") => Absent(First.steps, {"assets"})
      /\ 1 = Len(stages) => RootlessCommands(First.steps)
  BY <1>1, Found DEF First, Final, SingleStage, Holds, PlanInv
<1>3. /\ StepsHold(Len(stages), 1, First.from, t)
      /\ Absent(First.steps, {"assets"}) => Absent(t, {"assets"})
  BY <1>2, UserCommand
<1> HIDE DEF t
<1>4. Len(stages) = 1 /\ Waits("User") => Absent(t, {"assets"})
  BY <1>2, <1>3
<1>5. Turn["InstallCmd"] \in Nat /\ Turn["InstallCmd"] >= 2 /\ ~(Turn["InstallCmd"] < 4)
  BY HasTurn
<1> QED
  BY <1>1, <1>3, <1>4, <1>5, FirstTaken

LEMMA BuildStageIs ==
    ASSUME IsPlan(stages)
    PROVE  BuildStage \in 0 .. Len(stages) - 1
<1>1. /\ Len(stages) \in Nat /\ DOMAIN stages = 1 .. Len(stages) /\ Len(stages) \in DOMAIN stages
      /\ stages[Len(stages)].name = "runtime"
  BY DEF IsPlan
<1>2. CASE StagesNamed("build") # {}
  <2>1. BuildStage \in StagesNamed("build")
    BY <1>2 DEF BuildStage
  <2>2. BuildStage \in DOMAIN stages /\ stages[BuildStage].name = "build"
    BY <2>1 DEF StagesNamed
  <2>3. BuildStage # Len(stages)
    BY <1>1, <2>2
  <2> QED
    BY <1>1, <2>2, <2>3
<1>3. CASE StagesNamed("build") = {}
  BY <1>1, <1>3 DEF BuildStage
<1> QED
  BY <1>2, <1>3

LEMMA BuildCmdKeeps ==
    ASSUME TodoInv, CfgInv, PlanInv, BuildCmd
    PROVE  PlanInv'
<1> DEFINE k == BuildStage
           t == replaceLastRun(stages[k].steps, "user-build")
           q == [stages EXCEPT ![k].steps = t]
<1>0. Turn["BuildCmd"] \in Nat /\ Turn["BuildCmd"] >= 4 /\ Turn["BuildCmd"] >= 2
  BY HasTurn
<1>1. Override("BuildCmd", IF k = 0 THEN stages ELSE q)
  BY DEF BuildCmd
<1>2. /\ Holds(stages) /\ IsPlan(stages) /\ Len(stages) \in DOMAIN stages /\ Len(stages) \in Nat
      /\ Waits("User") => Absent(Final.steps, {"assets"})
  BY <1>1, Found DEF PlanInv, IsPlan
<1>3. k \in 0 .. Len(stages) - 1 /\ Len(stages) \in Nat /\ DOMAIN stages = 1 .. Len(stages)
  BY <1>2, BuildStageIs DEF IsPlan
<1> HIDE DEF k
<1>4. CASE k = 0
  BY <1>0, <1>1, <1>4, UnchangedTaken
<1>5. CASE k # 0
  <2>1. k \in DOMAIN stages /\ k # Len(stages)
    <3>1. k \in Int /\ 0 <= k /\ k <= Len(stages) - 1
      BY <1>3
    <3>2. k \in 1 .. Len(stages) /\ k # Len(stages)
      BY <1>2, <1>5, <3>1
    <3> QED
      BY <1>3, <3>2
  <2>2. StepsHold(Len(stages), k, stages[k].from, t)
    <3>1. /\ stages[k].from # "distroless"
          /\ StepsHold(Len(stages), k, stages[k].from, stages[k].steps)
      BY <1>2, <2>1 DEF Holds
    <3> QED
      BY <2>1, <3>1, UserCommand
  <2> HIDE DEF t
  <2>3. /\ Holds(q) /\ Len(q) = Len(stages)
        /\ \A i \in DOMAIN stages : i # k => q[i] = stages[i]
    BY <1>2, <2>1, <2>2, EditedHolds
  <2> HIDE DEF q
  <2>4. Override("BuildCmd", q)
    BY <1>1, <1>5
  <2>5. LastOf(q).steps = Final.steps
    BY <1>2, <2>1, <2>3 DEF LastOf, Final
  <2>6. Turn["BuildCmd"] \in Nat /\ Turn["BuildCmd"] >= 2 /\ ~(Turn["BuildCmd"] < 4)
    BY HasTurn
  <2> QED
    BY <1>2, <2>3, <2>4, <2>5, <2>6, Taken
<1> QED
  BY <1>4, <1>5

LEMMA ApplySecretMountsKeeps ==
    ASSUME TodoInv, CfgInv, PlanInv, ApplySecretMounts
    PROVE  PlanInv'
<1> DEFINE I == {j \in 1 .. Len(First.steps) :
                    /\ First.steps[j].op = "RUN"
                    /\ First.steps[j].what \in {"install", "user-install"}}
           i == SelectInSeq(First.steps,
                    LAMBDA s : s.op = "RUN" /\ s.what \in {"install", "user-install"})
           e == [First.steps[i] EXCEPT !.secrets = @ \cup {"registry"}]
           t == [First.steps EXCEPT ![i] = e]
<1>0. /\ Turn["PrivateRegistry"] \in Nat
      /\ Turn["PrivateRegistry"] >= 4 /\ Turn["PrivateRegistry"] >= 2
      /\ ~(Turn["PrivateRegistry"] < 9) /\ ~(Turn["PrivateRegistry"] < 4)
  BY HasTurn
<1>1. Override("PrivateRegistry",
         IF i = 0 \/ framework \notin SecretsDetected THEN stages
         ELSE [stages EXCEPT ![1].steps[i].secrets = @ \cup {"registry"}])
  BY DEF ApplySecretMounts
<1>2. /\ StepsHold(Len(stages), 1, First.from, First.steps) /\ First.steps \in Seq(Steps)
      /\ IsPlan(stages) /\ 1 \in DOMAIN stages
  BY <1>1, Found DEF First
<1>3. i # 0 => i \in DOMAIN First.steps
  <2>1. i = IF I # {} THEN Min(I) ELSE 0
    BY DEF SelectInSeq
  <2>2. I \in SUBSET Nat /\ I \subseteq DOMAIN First.steps
    BY <1>2
  <2> HIDE DEF I, i
  <2>3. I # {} => Min(I) \in I
    BY <2>2, MinOfNaturals
  <2> QED
    BY <2>1, <2>2, <2>3
<1> HIDE DEF i
<1>4. CASE i = 0 \/ framework \notin SecretsDetected
  BY <1>0, <1>1, <1>4, UnchangedTaken
<1>5. CASE ~(i = 0 \/ framework \notin SecretsDetected)
  <2>1. i \in DOMAIN First.steps /\ First.steps[i] \in Steps
    BY <1>2, <1>3, <1>5
  <2>2. e \in Steps /\ Like(e, First.steps[i])
    BY <2>1 DEF Steps, Like, Form
  <2>3. [stages EXCEPT ![1].steps[i].secrets = @ \cup {"registry"}] = InFirst(t)
    BY DEF InFirst, First
  <2>4. Override("PrivateRegistry", InFirst(t))
    BY <1>1, <1>5, <2>3
  <2> HIDE DEF e
  <2>5. StepsHold(Len(stages), 1, First.from, t)
    BY <1>2, <2>1, <2>2, OneReplaced, DerivedHolds
  <2> HIDE DEF t
  <2> QED
    BY <1>0, <2>4, <2>5, FirstTaken
<1> QED
  BY <1>4, <1>5
\* The build steps of Binaries, and what it makes of the copies.
BinariesStep == [s \in Steps |-> IF IsBuild(s) THEN Run("go-build-binaries") ELSE s]
BinariesCopy == [s \in Steps |-> IF s.op = "COPYFROM" /\ s.stage = "builder"
                                 THEN CopyFrom("builder", "binaries") ELSE s]

LEMMA BinariesParts ==
    /\ Run("go-build-binaries") \in Steps /\ Run("go-build-binaries").op = "RUN"
    /\ Run("go-build-binaries").what = "go-build-binaries" /\ ~Run("go-build-binaries").cache
    /\ CopyFrom("builder", "binaries") \in Steps /\ CopyFrom("builder", "binaries").op = "COPYFROM"
    /\ CopyFrom("builder", "binaries").what = "binaries"
    /\ CopyFrom("builder", "binaries").stage = "builder"
<1>1. "RUN" \in Ops /\ "COPYFROM" \in Ops /\ "go-build-binaries" \in Whats /\ "binaries" \in Whats
      /\ "builder" \in Names
  BY DEF Ops, Whats, Names
<1>2. /\ Run("go-build-binaries") \in Steps /\ Run("go-build-binaries").op = "RUN"
      /\ Run("go-build-binaries").what = "go-build-binaries"
  BY <1>1, StepMade DEF Run
<1>3. ~Run("go-build-binaries").cache
  BY DEF Run, Step
<1>4. Step("COPYFROM", "binaries") \in Steps /\ Step("COPYFROM", "binaries").op = "COPYFROM"
      /\ Step("COPYFROM", "binaries").what = "binaries"
  BY <1>1, StepMade
<1> QED
  BY <1>1, <1>2, <1>3, <1>4 DEF CopyFrom, Steps

\* t is s with each step replaced by what F makes of it.
EachBy(t, s, F) ==
    /\ t \in Seq(Steps) /\ DOMAIN t = DOMAIN s /\ \A j \in DOMAIN s : t[j] = F[s[j]]

LEMMA BinariesMade ==
    ASSUME IsPlan(stages), applyBinaries
    PROVE  \E b, c, t :
              /\ Mapped(b, stages, StagesNamed("builder"), BinariesStep)
              /\ EachBy(c, Final.steps, BinariesCopy)
              /\ t = IF Has("StartCmd") THEN c
                     ELSE Append(removeSteps(c, "CMD"), Step("CMD", "binary"))
              /\ Override("Binaries", IF StagesNamed("builder") = {} THEN stages
                                      ELSE [b EXCEPT ![Len(stages)].steps = t])
<1> DEFINE s == Final.steps
           S == StagesNamed("builder")
           F == BinariesStep
           b == MapSteps(S, LAMBDA x : IF IsBuild(x) THEN Run("go-build-binaries") ELSE x)
           c == [j \in DOMAIN s |->
                    IF s[j].op = "COPYFROM" /\ s[j].stage = "builder"
                    THEN CopyFrom("builder", "binaries") ELSE s[j]]
           t == IF Has("StartCmd") THEN c
                ELSE Append(removeSteps(c, "CMD"), Step("CMD", "binary"))
<1>1. Override("Binaries", IF S = {} THEN stages ELSE [b EXCEPT ![Len(stages)].steps = t])
  BY DEF applyBinaries
<1>2. Mapped(b, stages, S, F)
  <2>1. F \in [Steps -> Steps]
    BY BinariesParts DEF BinariesStep
  <2>2. ASSUME NEW i \in DOMAIN stages
        PROVE  IF i \notin S THEN b[i] = stages[i]
               ELSE \E u : /\ b[i] = [stages[i] EXCEPT !.steps = u]
                           /\ u = [j \in DOMAIN stages[i].steps |-> u[j]]
                           /\ \A j \in DOMAIN stages[i].steps : u[j] = F[stages[i].steps[j]]
    <3> DEFINE u == [j \in DOMAIN stages[i].steps |->
                       IF IsBuild(stages[i].steps[j]) THEN Run("go-build-binaries")
                       ELSE stages[i].steps[j]]
    <3>1. IF i \notin S THEN b[i] = stages[i] ELSE b[i] = [stages[i] EXCEPT !.steps = u]
      BY DEF MapSteps
    <3>2. \A j \in DOMAIN stages[i].steps : u[j] = F[stages[i].steps[j]]
      <4>1. \A j \in DOMAIN stages[i].steps : stages[i].steps[j] \in Steps
        BY StepsOf
      <4> HIDE DEF Steps
      <4> QED
        BY <4>1 DEF BinariesStep
    <3> HIDE DEF S, F, b
    <3>3. u = [j \in DOMAIN stages[i].steps |-> u[j]]
      OBVIOUS
    <3> HIDE DEF u
    <3> QED
      BY <3>1, <3>2, <3>3
  <2>3. b = [i \in DOMAIN stages |-> b[i]]
    BY DEF MapSteps
  <2> HIDE DEF b, S, F
  <2> QED
    BY <2>1, <2>2, <2>3, MapsSteps
<1>3. EachBy(c, s, BinariesCopy)
  <2>1. s \in Seq(Steps)
    <3>1. Len(stages) \in DOMAIN stages
      BY DEF IsPlan
    <3> QED
      BY <3>1, StepsOf DEF Final
  <2>2. \A j \in DOMAIN s : s[j] \in Steps
    BY <2>1
  <2>3. \A j \in DOMAIN s : c[j] = BinariesCopy[s[j]]
    <3> HIDE DEF Steps, s
    <3> QED
      BY <2>2 DEF BinariesCopy
  <2>4. BinariesCopy \in [Steps -> Steps]
    BY BinariesParts DEF BinariesCopy
  <2>5. c = [j \in 1 .. Len(s) |-> c[j]] /\ Len(s) \in Nat /\ DOMAIN s = 1 .. Len(s)
    BY <2>1
  <2> HIDE DEF c, s
  <2>6. \A j \in 1 .. Len(s) : c[j] \in Steps
    <3> HIDE DEF Steps
    <3> QED
      BY <2>2, <2>3, <2>4, <2>5
  <2>7. c \in Seq(Steps) /\ DOMAIN c = 1 .. Len(s)
    <3> DEFINE m == Len(s)
    <3>1. m \in Nat /\ c \in [1 .. m -> Steps]
      BY <2>5, <2>6
    <3> HIDE DEF Steps, m
    <3>2. c \in Seq(Steps) /\ DOMAIN c = 1 .. m
      BY <3>1
    <3> QED
      BY <3>2 DEF m
  <2> QED
    BY <2>3, <2>5, <2>7 DEF EachBy
<1>4. t = IF Has("StartCmd") THEN c
          ELSE Append(removeSteps(c, "CMD"), Step("CMD", "binary"))
  OBVIOUS
<1> HIDE DEF b, c, t, S, F
<1> QED
  BY <1>1, <1>2, <1>3, <1>4 DEF s, S, F

LEMMA applyBinariesKeeps ==
    ASSUME TodoInv, CfgInv, PlanInv, applyBinaries
    PROVE  PlanInv'
<1> DEFINE n == Len(stages)
           s == Final.steps
           S == StagesNamed("builder")
<1>1. /\ Turn["Binaries"] \in Nat /\ Turn["Binaries"] >= 2
      /\ ~(Turn["Binaries"] < 9) /\ ~(Turn["Binaries"] < 4) /\ Turn["Binaries"] >= 4
  BY HasTurn
<1>2. /\ Holds(stages) /\ IsPlan(stages) /\ n \in DOMAIN stages /\ s \in Seq(Steps)
      /\ StepsHold(n, n, Final.from, s)
  BY Found DEF applyBinaries
<1>3. PICK b, c, t :
         /\ Mapped(b, stages, S, BinariesStep) /\ EachBy(c, s, BinariesCopy)
         /\ t = IF Has("StartCmd") THEN c ELSE Append(removeSteps(c, "CMD"), Step("CMD", "binary"))
         /\ Override("Binaries", IF S = {} THEN stages ELSE [b EXCEPT ![n].steps = t])
  BY <1>2, BinariesMade
<1> DEFINE q == [b EXCEPT ![n].steps = t]
<1> HIDE DEF S
<1>4. Holds(b) /\ Len(b) = n /\ n \in DOMAIN b /\ b[n].from = Final.from
  <2>1. \A x \in Steps : Like(BinariesStep[x], x)
    <3>1. "go-build-binaries" \notin Watched
      BY DEF Watched, Added
    <3> HIDE DEF Steps
    <3> QED
      BY <3>1, BinariesParts DEF BinariesStep, IsBuild, Like, Form
  <2>2. \A i \in DOMAIN stages : b[i].from = stages[i].from /\ Derived(b[i].steps, stages[i].steps)
    BY <1>2, <1>3, <2>1, MappedDerived DEF Mapped
  <2>3. Holds(b)
    BY <1>2, <1>3, <2>2, MappedHolds DEF Mapped
  <2>4. SameStages(b, stages)
    BY <1>3 DEF Mapped
  <2> QED
    BY <1>2, <2>2, <2>3, <2>4, SamePlan DEF Final
<1>5. StepsHold(n, n, Final.from, c)
  <2>1. \A x \in Steps : Like(BinariesCopy[x], x)
    <3>1. "binaries" \notin Watched
      BY DEF Watched, Added
    <3> HIDE DEF Steps
    <3> QED
      BY <3>1, BinariesParts DEF BinariesCopy, Like, Form
  <2>2. \A j \in DOMAIN s : s[j] \in Steps
    BY <1>2
  <2> HIDE DEF s
  <2>3. Derived(c, s)
    <3>1. c \in Seq(Steps) /\ DOMAIN c = DOMAIN s
      BY <1>3 DEF EachBy
    <3>2. \A j \in DOMAIN s : Like(c[j], s[j])
      BY <1>3, <2>1, <2>2 DEF EachBy
    <3> QED
      BY <1>2, <3>1, <3>2, InPlace
  <2> QED
    BY <1>2, <2>3, DerivedHolds
<1>6. StepsHold(n, n, Final.from, t)
  <2>1. Step("CMD", "binary") \in Steps /\ Step("CMD", "binary").op = "CMD"
        /\ Step("CMD", "binary").what = "binary" /\ Form(Step("CMD", "binary")) = "exec"
    BY Ends
  <2>2. StepsHold(n, n, Final.from, Append(removeSteps(c, "CMD"), Step("CMD", "binary")))
    BY <1>5, <2>1, EndsHarmless, Exchanged
  <2> QED
    BY <1>3, <1>5, <2>2
<1>7. Holds(q) /\ Len(q) = n
  BY <1>4, <1>6, EditedHolds
<1> HIDE DEF q
<1>8. CASE S = {}
  BY <1>1, <1>3, <1>8, UnchangedTaken
<1>9. CASE S # {}
  <2>1. Override("Binaries", q)
    BY <1>3, <1>9 DEF q
  <2> QED
    BY <1>1, <1>7, <2>1, Taken DEF n
<1> QED
  BY <1>8, <1>9

\* Another image, for a stage in which no override has put anything yet.
LEMMA ImageHolds ==
    ASSUME NEW p, Holds(p), NEW k \in DOMAIN p, Absent(p[k].steps, Added), NEW from \in Froms,
           from = "distroless" => k = Len(p) /\ ChosenByUser # {}
    PROVE  LET q == [p EXCEPT ![k].from = from] IN
           /\ Holds(q) /\ Len(q) = Len(p) /\ \A i \in DOMAIN p : q[i].steps = p[i].steps
<1> DEFINE q == [p EXCEPT ![k].from = from]
<1>1. IsPlan(p)
  BY DEF Holds
<1>2. /\ SameStages(q, p) /\ q[k].from = from
      /\ \A i \in DOMAIN p : q[i].steps = p[i].steps
      /\ \A i \in DOMAIN p : i # k => q[i] = p[i]
  BY <1>1, ImageSet
<1> HIDE DEF q
<1>3. DOMAIN q = DOMAIN p /\ Len(q) = Len(p) /\ IsPlan(q)
  BY <1>1, <1>2 DEF IsPlan, SameStages
<1>4. StepsHold(Len(p), k, from, p[k].steps)
  <2>1. StepsHold(Len(p), k, p[k].from, p[k].steps)
    BY DEF Holds
  <2>2. "create-named-user" \in Added
    BY DEF Added
  <2>3. Fitting(p[k].steps, from)
    BY <2>2 DEF Fitting, Absent
  <2> QED
    BY <2>1, <2>3 DEF StepsHold
<1>5. \A i \in DOMAIN q : StepsHold(Len(q), i, q[i].from, q[i].steps)
  BY <1>2, <1>3, <1>4 DEF Holds
<1>6. \A i \in DOMAIN q :
         q[i].from = "distroless" => i = Len(q) /\ (i = 1 => ChosenByUser # {})
  BY <1>2, <1>3 DEF Holds
<1>7. Holds(q)
  BY <1>3, <1>5, <1>6 DEF Holds
<1> QED
  BY <1>2, <1>3, <1>7 DEF q

\* The images come first: nothing has been added yet.
LEMMA ImageTaken ==
    ASSUME TodoInv, PlanInv, NEW field, NEW q, Override(field, q), Holds(q), Len(q) = Len(stages),
           \A i \in DOMAIN q : Absent(q[i].steps, Added),
           LastOf(q).steps = Final.steps, q[1].steps = First.steps
    PROVE  PlanInv'
<1>1. /\ todo # <<>> /\ Head(todo) = field /\ stages' = q /\ todo' = Tail(todo)
      /\ UNCHANGED <<framework, cfg, dockerfile, status>>
  BY DEF Override
<1>2. \A f : Waits(f)' => Waits(f)
  BY <1>1, NextTurn DEF Waits
<1>3. Holds(q)'
  BY <1>1 DEF Holds, StepsHold, Fitting, Settled, Lenient, Has, ChosenByUser
<1>4. /\ Waits("User") => Absent(Final.steps, {"assets"})
      /\ SingleStage /\ Waits("InstallCmd") => RootlessCommands(First.steps)
  BY <1>1 DEF PlanInv, TodoInv
<1>5. Waits("User")' => Absent(LastOf(q).steps, {"assets"})
  BY <1>2, <1>4
<1>6. Len(q) = 1 /\ Waits("InstallCmd")' => RootlessCommands(q[1].steps)
  BY <1>2, <1>4 DEF SingleStage
<1> QED
  BY <1>1, <1>3, <1>5, <1>6 DEF PlanInv, Final, First, SingleStage, LastOf

LEMMA BaseImageKeeps ==
    ASSUME TodoInv, CfgInv, PlanInv, BaseImage
    PROVE  PlanInv'
<1> DEFINE q == [stages EXCEPT ![1].from = cfg["BaseImage"]]
<1>1. Override("BaseImage", q)
  BY DEF BaseImage
<1>2. /\ Holds(stages) /\ IsPlan(stages) /\ 1 \in DOMAIN stages /\ Len(stages) \in DOMAIN stages
      /\ cfg["BaseImage"] \in {"alpine", "debian"}
      /\ \A i \in DOMAIN stages : Absent(stages[i].steps, Added)
  BY <1>1, Found, ValuesOf DEF PlanInv
<1>3. cfg["BaseImage"] \in Froms /\ cfg["BaseImage"] # "distroless"
  BY <1>2 DEF Froms, Images
<1>4. Holds(q) /\ Len(q) = Len(stages) /\ \A i \in DOMAIN stages : q[i].steps = stages[i].steps
  BY <1>2, <1>3, ImageHolds
<1>5. DOMAIN q = DOMAIN stages
  OBVIOUS
<1> HIDE DEF q
<1>6. LastOf(q).steps = Final.steps /\ q[1].steps = First.steps
  BY <1>2, <1>4 DEF LastOf, Final, First
<1>7. \A i \in DOMAIN q : Absent(q[i].steps, Added)
  BY <1>2, <1>4, <1>5
<1> QED
  BY <1>1, <1>4, <1>6, <1>7, ImageTaken

LEMMA RuntimeImageKeeps ==
    ASSUME TodoInv, CfgInv, PlanInv, RuntimeImage
    PROVE  PlanInv'
<1> DEFINE q == IF SingleStage /\ Has("BaseImage") THEN stages
                ELSE [stages EXCEPT ![Len(stages)].from = cfg["RuntimeImage"]]
<1>1. Override("RuntimeImage", q)
  BY DEF RuntimeImage
<1>2. /\ Holds(stages) /\ IsPlan(stages) /\ 1 \in DOMAIN stages /\ Len(stages) \in DOMAIN stages
      /\ Has("RuntimeImage") /\ cfg["RuntimeImage"] \in Images
      /\ \A i \in DOMAIN stages : Absent(stages[i].steps, Added)
      /\ Waits("User") => Absent(Final.steps, {"assets"})
      /\ SingleStage /\ Waits("InstallCmd") => RootlessCommands(First.steps)
  BY <1>1, Found, ValuesOf DEF PlanInv
<1>3. cfg["RuntimeImage"] \in Froms /\ ChosenByUser # {}
  BY <1>2 DEF Froms, ChosenByUser, Has
<1>4. Holds(q) /\ Len(q) = Len(stages) /\ \A i \in DOMAIN stages : q[i].steps = stages[i].steps
  BY <1>2, <1>3, ImageHolds
<1> HIDE DEF q
<1>5. LastOf(q).steps = Final.steps /\ q[1].steps = First.steps
  BY <1>2, <1>4 DEF LastOf, Final, First
<1>6. Waits("User") => Absent(LastOf(q).steps, {"assets"})
  BY <1>2, <1>5
<1>7. Len(q) = 1 /\ Waits("InstallCmd") => RootlessCommands(q[1].steps)
  BY <1>2, <1>4, <1>5 DEF SingleStage
<1>8. Turn["RuntimeImage"] \in Nat /\ Turn["RuntimeImage"] >= 2
  BY HasTurn
<1> QED
  BY <1>1, <1>4, <1>6, <1>7, <1>8, Taken
\* Before the first override the plan is as its planner made it.
LEMMA SoundHolds ==
    ASSUME NEW p, Sound(p)
    PROVE  /\ Holds(p)' /\ Absent(LastOf(p).steps, {"assets"})
           /\ \A i \in DOMAIN p : Absent(p[i].steps, Added)
           /\ Len(p) = 1 => RootlessCommands(p[1].steps)
<1>1. /\ p \in Seq(PlainStages) /\ p # <<>> /\ p[Len(p)].name = "runtime"
      /\ Tidy(LastOf(p).steps) /\ Len(p) \in DOMAIN p /\ DOMAIN p = 1 .. Len(p) /\ Len(p) \in Nat
  BY DEF Sound
<1>2. ASSUME NEW i \in DOMAIN p
      PROVE  /\ p[i] \in Stages /\ p[i].steps \in Seq(Steps)
             /\ \A j \in DOMAIN p[i].steps : p[i].steps[j].what \notin Added \cup {"assets"}
  <2>1. p[i] \in PlainStages
    BY <1>1
  <2>2. /\ p[i] = [name |-> p[i].name, from |-> p[i].from, steps |-> p[i].steps]
        /\ p[i].name \in Names /\ p[i].from \in Froms /\ p[i].steps \in Seq(PlainSteps)
    BY <2>1 DEF PlainStages
  <2>3. \A e \in PlainSteps : e \in Steps /\ e.what \notin Added \cup {"assets"}
    BY DEF PlainSteps
  <2> HIDE DEF PlainSteps, Steps
  <2>4. p[i].steps \in Seq(Steps)
    BY <2>2, <2>3
  <2>5. \A j \in DOMAIN p[i].steps : p[i].steps[j] \in PlainSteps
    BY <2>2
  <2> QED
    BY <2>2, <2>3, <2>4, <2>5 DEF Stages
<1>3. IsPlan(p)
  <2>1. \A i \in DOMAIN p : p[i] \in Stages
    BY <1>2
  <2> HIDE DEF Stages, PlainStages
  <2>2. p \in Seq(Stages)
    BY <1>1, <2>1
  <2> QED
    BY <1>1, <2>2 DEF IsPlan
<1>4. \A i \in DOMAIN p : Absent(p[i].steps, Added)
  BY <1>2 DEF Absent
<1>5. Absent(LastOf(p).steps, {"assets"})
  BY <1>1, <1>2 DEF Absent, LastOf
<1>6. Settled(Len(p), LastOf(p).steps)'
  BY <1>1 DEF Tidy, Settled, Neat
<1>7. \A i \in DOMAIN p :
         p[i].from = "distroless" => i # 1 /\ i = Len(p) /\ ~Shell(p[i].steps)
  BY DEF Sound
<1>8. ASSUME NEW i \in DOMAIN p
      PROVE  StepsHold(Len(p), i, p[i].from, p[i].steps)'
  <2>1. Fitting(p[i].steps, p[i].from)'
    BY <1>4, <1>7 DEF Fitting, Absent, Shell
  <2> QED
    BY <1>2, <1>6, <2>1 DEF StepsHold, LastOf
<1>9. Holds(p)'
  BY <1>3, <1>7, <1>8 DEF Holds
<1> QED
  BY <1>4, <1>5, <1>9 DEF Sound

LEMMA FamilyTyped ==
    ASSUME NEW c \in Configs
    PROVE  LET d == IF "RuntimeImage" \in DOMAIN c THEN c ELSE WithFamily(c) IN
           \A field \in DOMAIN d : field \in DOMAIN Values /\ d[field] \in Values[field]
<1>1. \A field \in DOMAIN c : field \in DOMAIN Values /\ c[field] \in Values[field]
  BY ConfigsAssumption
<1>2. CASE "RuntimeImage" \in DOMAIN c \/ "ImageFamily" \notin DOMAIN c
  BY <1>1, <1>2 DEF WithFamily
<1>3. CASE "RuntimeImage" \notin DOMAIN c /\ "ImageFamily" \in DOMAIN c
  <2> DEFINE d == [field \in DOMAIN c \cup {"RuntimeImage"} |->
                      IF field = "RuntimeImage" THEN c["ImageFamily"] ELSE c[field]]
  <2>1. WithFamily(c) = d
    BY <1>3 DEF WithFamily
  <2>2. DOMAIN d = {"RuntimeImage"} \cup DOMAIN c
        /\ \A x \in DOMAIN d : d[x] = IF x = "RuntimeImage" THEN c["ImageFamily"] ELSE c[x]
    OBVIOUS
  <2>3. Values["ImageFamily"] = Images /\ Values["RuntimeImage"] = Images
        /\ "RuntimeImage" \in DOMAIN Values
    BY FieldNames, ValuesOf DEF Values, Fields
  <2> HIDE DEF d
  <2>4. c["ImageFamily"] \in Images
    BY <1>1, <1>3, <2>3
  <2>5. \A field \in DOMAIN d : field \in DOMAIN Values /\ d[field] \in Values[field]
    BY <1>1, <2>2, <2>3, <2>4
  <2> QED
    BY <1>3, <2>1, <2>5
<1> QED
  BY <1>2, <1>3

\* The instructions are those of the plan, once there are any.
WrittenInv == status = "done" => dockerfile = Hint \o EmitDockerfile(stages)

Inv == TodoInv /\ CfgInv /\ PlanInv /\ WrittenInv

LEMMA PlanKeeps ==
    ASSUME Inv, status = "idle", NEW f \in Frameworks, NEW c \in Configs, Plan(f, c)
    PROVE  Inv'
<1>1. todo = <<>>
  BY DEF Inv, TodoInv
<1>2. CASE status' = "error"
  <2>1. UNCHANGED <<cfg, todo>>
    BY <1>2 DEF Plan
  <2> QED
    BY <1>1, <1>2, <2>1 DEF Inv, TodoInv, CfgInv, PlanInv, WrittenInv, Has
<1>3. CASE status' # "error"
  <2>1. /\ cfg' = IF "RuntimeImage" \in DOMAIN c THEN c ELSE WithFamily(c)
        /\ stages' = Planned[f] /\ todo' = Overrides(cfg') /\ status' = "planning"
    BY <1>3 DEF Plan
  <2>2. CfgInv'
    BY <2>1, FamilyTyped DEF CfgInv
  <2>3. /\ todo' \in Seq(Fields) /\ ToSet(todo') \subseteq DOMAIN cfg'
        /\ \A i, j \in DOMAIN todo' : i < j => Turn[todo'[i]] < Turn[todo'[j]]
    BY <2>1, OverridesWait
  <2>4. \A i \in DOMAIN todo' : todo'[i] \in DOMAIN cfg'
    BY <2>3 DEF ToSet
  <2>5. TodoInv'
    BY <2>1, <2>3, <2>4 DEF TodoInv, Has
  <2>6. ASSUME NEW p, p = stages', Sound(p)
        PROVE  PlanInv'
    <3>1. /\ Holds(p)' /\ Absent(LastOf(p).steps, {"assets"})
          /\ \A i \in DOMAIN p : Absent(p[i].steps, Added)
          /\ Len(p) = 1 => RootlessCommands(p[1].steps)
      BY <2>6, SoundHolds
    <3> QED
      BY <2>6, <3>1 DEF PlanInv, Final, First, SingleStage, LastOf
  <2>7. PlanInv'
    BY <2>1, <2>6, PlannedSound
  <2> QED
    BY <2>1, <2>2, <2>5, <2>7 DEF Inv, WrittenInv
<1> QED
  BY <1>2, <1>3
\* An override leaves the order of the others, and the settings, as they are.
LEMMA OverrideKeeps ==
    ASSUME Inv, NEW field, NEW q, Override(field, q)
    PROVE  TodoInv' /\ CfgInv' /\ WrittenInv'
<1>1. /\ TodoInv /\ CfgInv /\ PlanInv /\ todo # <<>> /\ todo' = Tail(todo)
      /\ UNCHANGED <<framework, cfg, dockerfile, status>>
  BY DEF Inv, Override
<1>2. status = "planning"
  BY <1>1 DEF TodoInv
<1>3. /\ todo' \in Seq(Fields) /\ ToSet(todo') \subseteq ToSet(todo)
      /\ \A i, j \in DOMAIN todo' : i < j => Turn[todo'[i]] < Turn[todo'[j]]
  BY <1>1, NextTurn
<1>4. \A f \in ToSet(todo) : Has(f)
  BY <1>1 DEF TodoInv, ToSet
<1>5. \A i \in DOMAIN todo' : todo'[i] \in DOMAIN cfg'
  <2>1. \A i \in DOMAIN todo' : todo'[i] \in ToSet(todo')
    BY DEF ToSet
  <2> QED
    BY <1>1, <1>3, <1>4, <2>1 DEF Has
<1>6. TodoInv'
  BY <1>1, <1>2, <1>3, <1>5 DEF TodoInv, Has
<1> QED
  BY <1>1, <1>2, <1>6 DEF CfgInv, WrittenInv

LEMMA InitHolds == Init => Inv
BY DEF Init, Inv, TodoInv, CfgInv, PlanInv, WrittenInv

LEMMA StepKeeps == Inv /\ [Next]_vars => Inv'
<1> SUFFICES ASSUME Inv, [Next]_vars
             PROVE  Inv'
  OBVIOUS
<1> USE DEF Inv
<1>1. ASSUME status = "idle", NEW f \in Frameworks, NEW c \in Configs, Plan(f, c)
      PROVE  Inv'
  BY <1>1, PlanKeeps
<1>2. CASE BaseImage
  BY <1>2, BaseImageKeeps, OverrideKeeps DEF BaseImage
<1>3. CASE RuntimeImage
  BY <1>3, RuntimeImageKeeps, OverrideKeeps DEF RuntimeImage
<1>4. CASE insertSystemDepsStep
  BY <1>4, insertSystemDepsStepKeeps, OverrideKeeps DEF insertSystemDepsStep
<1>5. CASE InstallCmd
  BY <1>5, InstallCmdKeeps, OverrideKeeps DEF InstallCmd
<1>6. CASE BuildCmd
  BY <1>6, BuildCmdKeeps, OverrideKeeps DEF BuildCmd
<1>7. CASE StartCmd
  BY <1>7, StartCmdKeeps, OverrideKeeps DEF StartCmd
<1>8. CASE NoBuildCache
  BY <1>8, NoBuildCacheKeeps, OverrideKeeps DEF NoBuildCache
<1>9. CASE ReplaceOrAddExpose
  BY <1>9, ReplaceOrAddExposeKeeps, OverrideKeeps DEF ReplaceOrAddExpose
<1>10. CASE SetUser
  BY <1>10, SetUserKeeps, OverrideKeeps DEF SetUser
<1>11. CASE SetHealthcheck
  BY <1>11, SetHealthcheckKeeps, OverrideKeeps DEF SetHealthcheck
<1>12. CASE SetHealthcheckOpts
  BY <1>12, SetHealthcheckOptsKeeps, OverrideKeeps DEF SetHealthcheckOpts
<1>13. CASE EntrypointScript
  BY <1>13, EntrypointScriptKeeps, OverrideKeeps DEF EntrypointScript
<1>14. CASE Entrypoint
  BY <1>14, EntrypointKeeps, OverrideKeeps DEF Entrypoint
<1>15. CASE ExtraEnv
  BY <1>15, ExtraEnvKeeps, OverrideKeeps DEF ExtraEnv
<1>16. CASE applySecrets
  BY <1>16, applySecretsKeeps, OverrideKeeps DEF applySecrets
<1>17. CASE applyBinaries
  BY <1>17, applyBinariesKeeps, OverrideKeeps DEF applyBinaries
<1>18. CASE applyLdFlags
  BY <1>18, applyLdFlagsKeeps, OverrideKeeps DEF applyLdFlags
<1>19. CASE applyRuntimeAssets
  BY <1>19, applyRuntimeAssetsKeeps, OverrideKeeps DEF applyRuntimeAssets
<1>20. CASE applyExternalTools
  BY <1>20, applyExternalToolsKeeps, OverrideKeeps DEF applyExternalTools
<1>21. CASE applyGoWork
  BY <1>21, applyGoWorkKeeps, OverrideKeeps DEF applyGoWork
<1>22. CASE applyRuntimeSystemDeps
  BY <1>22, applyRuntimeSystemDepsKeeps, OverrideKeeps DEF applyRuntimeSystemDeps
<1>23. CASE NoPackageManager
  <2>1. status' = "error" /\ todo' = <<>> /\ cfg' = cfg
    BY <1>23 DEF NoPackageManager
  <2> QED
    BY <2>1 DEF TodoInv, CfgInv, PlanInv, WrittenInv
<1>24. CASE applyContextRoot
  BY <1>24, applyContextRootKeeps, OverrideKeeps DEF applyContextRoot
<1>25. CASE ApplySecretMounts
  BY <1>25, ApplySecretMountsKeeps, OverrideKeeps DEF ApplySecretMounts
<1>26. CASE Dockerfile
  <2>1. /\ status = "planning" /\ todo = <<>> /\ status' = "done"
        /\ UNCHANGED <<framework, cfg, stages, todo>>
        /\ dockerfile' = Hint \o EmitDockerfile(stages)
    BY <1>26 DEF Dockerfile
  <2>2. PlanInv'
    BY <2>1 DEF PlanInv, Holds, StepsHold, Fitting, Settled, Lenient, ChosenByUser, Has, Waits,
                Final, First, SingleStage
  <2>3. Hint' = Hint
    BY <2>1 DEF Hint, Has
  <2> QED
    BY <2>1, <2>2, <2>3 DEF TodoInv, CfgInv, WrittenInv, Has
<1>27. CASE Return
  <2>1. status' = "idle" /\ todo' = <<>> /\ cfg' = <<>>
    BY <1>27 DEF Return
  <2> QED
    BY <2>1 DEF TodoInv, CfgInv, PlanInv, WrittenInv
<1>28. CASE UNCHANGED vars
  <2>1. UNCHANGED <<framework, cfg, stages, todo, dockerfile, status>>
    BY <1>28 DEF vars
  <2>2. PlanInv'
    BY <2>1 DEF PlanInv, Holds, StepsHold, Fitting, Settled, Lenient, ChosenByUser, Has, Waits,
                Final, First, SingleStage
  <2>3. Hint' = Hint
    BY <2>1 DEF Hint, Has
  <2> QED
    BY <2>1, <2>2, <2>3 DEF TodoInv, CfgInv, WrittenInv, Has
<1> QED
  BY <1>1, <1>2, <1>3, <1>4, <1>5, <1>6, <1>7, <1>8, <1>9, <1>10, <1>11, <1>12, <1>13, <1>14,
     <1>15, <1>16, <1>17, <1>18, <1>19, <1>20, <1>21, <1>22, <1>23, <1>24, <1>25, <1>26, <1>27,
     <1>28 DEF Next

\* Between any two overrides the plan is sound, and the Dockerfile is written
\* for what they leave.
THEOREM Invariant == Spec => []Inv
<1>1. Init => Inv
  BY InitHolds
<1>2. Inv /\ [Next]_vars => Inv'
  BY StepKeeps
<1> QED
  BY <1>1, <1>2, PTL DEF Spec

-----------------------------------------------------------------------------
(* What is written for a plan.                                             *)

Instructions ==
    [instr : Ops \cup {"FROM", "hint", "syntax"}, part : Nat,
     what : Whats \cup Froms \cup {"directive", "secrets"}, form : {"none", "exec", "shell"},
     from : Names, mounts : SUBSET {"cache", "config", "registry"}, flag : Flags]

\* One that stands for no step.
Framing(d) == d.instr \in {"FROM", "hint", "syntax"} /\ d.form = "none"

LEMMA PlainInstruction ==
    ASSUME NEW instr \in {"FROM", "hint", "syntax"}, NEW part \in Nat,
           NEW what \in Froms \cup {"directive", "secrets"}
    PROVE  /\ Instruction(instr, part, what) \in Instructions
           /\ Framing(Instruction(instr, part, what))
<1>1. "none" \in Names /\ "none" \in Flags
  BY DEF Names, Flags
<1>2. /\ Instruction(instr, part, what).form = "none"
      /\ Instruction(instr, part, what).instr = instr
  BY DEF Instruction
<1> HIDE DEF Ops, Whats, Froms, Names, Flags
<1>3. Instruction(instr, part, what) \in Instructions
  BY <1>1 DEF Instruction, Instructions
<1> QED
  BY <1>2, <1>3 DEF Framing

InstrOf(op) == IF op = "COPYFROM" THEN "COPY" ELSE IF op = "FETCHTOOL" THEN "RUN" ELSE op
WrittenAs(d, e, part) ==
    /\ d.part = part /\ d.what = e.what /\ d.form = Form(e) /\ d.instr = InstrOf(e.op)
    /\ d.flag = e.flag /\ d.mounts = IF e.op = "RUN" THEN writeRun(e) ELSE {}

\* No step is one that is left out.
LEMMA StepWritten ==
    ASSUME NEW e \in Steps, NEW part \in Nat
    PROVE  /\ writeStep(e, part) \in Seq(Instructions)
           /\ \A d \in ToSet(writeStep(e, part)) : WrittenAs(d, e, part)
           /\ \E d \in ToSet(writeStep(e, part)) : WrittenAs(d, e, part)
<1> DEFINE instr == CASE e.op = "COPYFROM" -> "COPY"
                      [] e.op = "FETCHTOOL" -> "RUN"
                      [] OTHER -> e.op
           mounts == IF e.op = "RUN" THEN writeRun(e) ELSE {}
           d == [Instruction(instr, part, e.what)
                 EXCEPT !.form = Form(e), !.from = e.stage, !.flag = e.flag, !.mounts = mounts]
<1>1. /\ e.op \in Ops /\ e.what \in Whats /\ e.stage \in Names /\ e.flag \in Flags
      /\ e.secrets \in SUBSET {"config", "registry"}
  BY DEF Steps
<1>2. instr \in Ops /\ instr = InstrOf(e.op)
  BY <1>1 DEF Ops, InstrOf
<1>3. mounts \in SUBSET {"cache", "config", "registry"}
  BY <1>1 DEF writeRun
<1>4. Form(e) \in {"none", "exec", "shell"}
  BY DEF Form
<1>5. writeStep(e, part) = <<d>>
  BY <1>1 DEF writeStep, Flags
<1>6. mounts = IF e.op = "RUN" THEN writeRun(e) ELSE {}
  OBVIOUS
<1> HIDE DEF instr, mounts
<1>7. d \in Instructions
  <2> HIDE DEF Ops, Whats, Froms, Names, Flags, Steps
  <2> QED
    BY <1>1, <1>2, <1>3, <1>4 DEF Instruction, Instructions
<1>8. /\ d.instr = instr /\ d.part = part /\ d.what = e.what /\ d.form = Form(e)
      /\ d.flag = e.flag /\ d.mounts = mounts
  BY DEF Instruction
<1>9. WrittenAs(d, e, part)
  BY <1>2, <1>6, <1>8 DEF WrittenAs
<1> HIDE DEF d, Instructions
<1>10. ToSet(writeStep(e, part)) = {d} /\ writeStep(e, part) \in Seq(Instructions)
  BY <1>5, <1>7 DEF ToSet
<1> QED
  BY <1>9, <1>10

LEMMA StageWritten ==
    ASSUME NEW stage \in Stages, NEW part \in Nat
    PROVE  /\ writeStage(stage, part) \in Seq(Instructions)
           /\ \A d \in ToSet(writeStage(stage, part)) :
                 \/ Framing(d)
                 \/ \E j \in DOMAIN stage.steps : WrittenAs(d, stage.steps[j], part)
           /\ \A j \in DOMAIN stage.steps :
                 \E d \in ToSet(writeStage(stage, part)) : WrittenAs(d, stage.steps[j], part)
<1> DEFINE seqs == [j \in DOMAIN stage.steps |-> writeStep(stage.steps[j], part)]
           head == <<Instruction("FROM", part, stage.from)>>
           n == Len(stage.steps)
<1>1. stage.steps \in Seq(Steps) /\ stage.from \in Froms
  BY DEF Stages
<1>2. n \in Nat /\ DOMAIN stage.steps = 1 .. n /\ \A j \in 1 .. n : stage.steps[j] \in Steps
  BY <1>1
<1>3. seqs \in [1 .. n -> Seq(Instructions)]
  BY <1>2, StepWritten
<1>4. FlattenSeq(seqs) \in Seq(Instructions)
      /\ ToSet(FlattenSeq(seqs)) = UNION {ToSet(seqs[j]) : j \in 1 .. n}
  <2> HIDE DEF seqs, n
  <2> QED
    BY <1>2, <1>3, FlattenJoins
<1>5. /\ Instruction("FROM", part, stage.from) \in Instructions
      /\ Framing(Instruction("FROM", part, stage.from))
  BY <1>1, PlainInstruction
<1> HIDE DEF Instructions
<1>6. head \in Seq(Instructions) /\ ToSet(head) = {Instruction("FROM", part, stage.from)}
  BY <1>5 DEF ToSet
<1>7. writeStage(stage, part) = head \o FlattenSeq(seqs)
  BY DEF writeStage
<1>8. \A j \in 1 .. n : seqs[j] = writeStep(stage.steps[j], part)
  BY <1>2
<1> HIDE DEF seqs, head, n
<1> DEFINE flat == FlattenSeq(seqs)
<1>9. writeStage(stage, part) \in Seq(Instructions)
      /\ ToSet(writeStage(stage, part)) = ToSet(head) \cup ToSet(flat)
  <2>1. flat \in Seq(Instructions) /\ writeStage(stage, part) = head \o flat
    BY <1>4, <1>7
  <2> HIDE DEF flat
  <2>2. head \in Seq(Instructions) /\ flat \in Seq(Instructions)
    BY <1>6, <2>1
  <2>3. head \o flat \in Seq(Instructions)
    BY <2>2
  <2>4. ToSet(head \o flat) = ToSet(head) \cup ToSet(flat)
    BY <2>2, ConcatenationHolds
  <2> QED
    BY <2>1, <2>3, <2>4
<1>10. ToSet(flat) = UNION {ToSet(writeStep(stage.steps[j], part)) : j \in DOMAIN stage.steps}
  BY <1>2, <1>4, <1>8
<1> HIDE DEF flat
<1>11. ASSUME NEW d \in ToSet(writeStage(stage, part))
       PROVE  Framing(d) \/ \E j \in DOMAIN stage.steps : WrittenAs(d, stage.steps[j], part)
  <2>1. CASE d \in ToSet(head)
    BY <1>5, <1>6, <2>1
  <2>2. CASE d \in ToSet(flat)
    <3>1. PICK j \in DOMAIN stage.steps : d \in ToSet(writeStep(stage.steps[j], part))
      BY <1>10, <2>2
    <3> QED
      BY <1>2, <3>1, StepWritten
  <2> QED
    BY <1>9, <2>1, <2>2
<1>12. ASSUME NEW j \in DOMAIN stage.steps
       PROVE  \E d \in ToSet(writeStage(stage, part)) : WrittenAs(d, stage.steps[j], part)
  <2>1. PICK d \in ToSet(writeStep(stage.steps[j], part)) : WrittenAs(d, stage.steps[j], part)
    BY <1>2, StepWritten
  <2>2. d \in ToSet(writeStage(stage, part))
    BY <1>9, <1>10
  <2> QED
    BY <2>1, <2>2
<1> QED
  BY <1>9, <1>11, <1>12

LEMMA PlanWritten ==
    ASSUME NEW p, IsPlan(p)
    PROVE  /\ EmitDockerfile(p) \in Seq(Instructions)
           /\ \A d \in ToSet(EmitDockerfile(p)) :
                 \/ Framing(d)
                 \/ \E i \in DOMAIN p : \E j \in DOMAIN p[i].steps : WrittenAs(d, p[i].steps[j], i)
           /\ \A i \in DOMAIN p : \A j \in DOMAIN p[i].steps :
                 \E d \in ToSet(EmitDockerfile(p)) : WrittenAs(d, p[i].steps[j], i)
<1> DEFINE seqs == [i \in DOMAIN p |-> writeStage(p[i], i)]
           n == Len(p)
<1>1. n \in Nat /\ DOMAIN p = 1 .. n /\ \A i \in 1 .. n : p[i] \in Stages
  BY DEF IsPlan
<1>2. seqs \in [1 .. n -> Seq(Instructions)]
  BY <1>1, StageWritten
<1>3. FlattenSeq(seqs) \in Seq(Instructions)
      /\ ToSet(FlattenSeq(seqs)) = UNION {ToSet(seqs[i]) : i \in 1 .. n}
  <2> HIDE DEF seqs, n
  <2> QED
    BY <1>1, <1>2, FlattenJoins
<1>4. SyntaxDirective \in Instructions /\ Framing(SyntaxDirective)
  BY PlainInstruction DEF SyntaxDirective
<1> HIDE DEF Instructions
<1>5. <<SyntaxDirective>> \in Seq(Instructions) /\ ToSet(<<SyntaxDirective>>) = {SyntaxDirective}
  BY <1>4 DEF ToSet
<1>6. \A i \in 1 .. n : seqs[i] = writeStage(p[i], i)
  BY <1>1
<1>7. EmitDockerfile(p) = <<SyntaxDirective>> \o FlattenSeq(seqs)
  BY DEF EmitDockerfile
<1> HIDE DEF seqs, n
<1> DEFINE head == <<SyntaxDirective>>
           flat == FlattenSeq(seqs)
<1>8. EmitDockerfile(p) \in Seq(Instructions)
      /\ ToSet(EmitDockerfile(p))
           = {SyntaxDirective} \cup UNION {ToSet(writeStage(p[i], i)) : i \in 1 .. n}
  <2>1. /\ flat \in Seq(Instructions) /\ EmitDockerfile(p) = head \o flat
        /\ head \in Seq(Instructions) /\ ToSet(head) = {SyntaxDirective}
        /\ ToSet(flat) = UNION {ToSet(writeStage(p[i], i)) : i \in 1 .. n}
    BY <1>3, <1>5, <1>6, <1>7
  <2> HIDE DEF flat, head
  <2>2. head \in Seq(Instructions) /\ flat \in Seq(Instructions)
    BY <2>1
  <2>3. head \o flat \in Seq(Instructions)
    BY <2>2
  <2>4. ToSet(head \o flat) = ToSet(head) \cup ToSet(flat)
    BY <2>2, ConcatenationHolds
  <2> QED
    BY <2>1, <2>3, <2>4
<1>9. \A i \in 1 .. n : i \in Nat /\ p[i] \in Stages
  BY <1>1
<1>10. ASSUME NEW d \in ToSet(EmitDockerfile(p))
       PROVE  \/ Framing(d)
              \/ \E i \in DOMAIN p : \E j \in DOMAIN p[i].steps : WrittenAs(d, p[i].steps[j], i)
  <2>1. CASE d = SyntaxDirective
    BY <1>4, <2>1
  <2>2. CASE d # SyntaxDirective
    <3>1. PICK i \in 1 .. n : d \in ToSet(writeStage(p[i], i))
      BY <1>8, <2>2
    <3> QED
      BY <1>1, <1>9, <3>1, StageWritten
  <2> QED
    BY <2>1, <2>2
<1>11. ASSUME NEW i \in DOMAIN p, NEW j \in DOMAIN p[i].steps
       PROVE  \E d \in ToSet(EmitDockerfile(p)) : WrittenAs(d, p[i].steps[j], i)
  <2>1. PICK d \in ToSet(writeStage(p[i], i)) : WrittenAs(d, p[i].steps[j], i)
    BY <1>1, <1>9, StageWritten
  <2>2. d \in ToSet(EmitDockerfile(p))
    BY <1>1, <1>8
  <2> QED
    BY <2>1, <2>2
<1> QED
  BY <1>8, <1>10, <1>11

\* The lines of the Dockerfile that stand for a step, and none is missing.
LEMMA DockerfileWritten ==
    ASSUME Inv, Handed
    PROVE  /\ \A d \in ToSet(dockerfile) :
                 \/ Framing(d)
                 \/ \E i \in DOMAIN stages : \E j \in DOMAIN stages[i].steps :
                       WrittenAs(d, stages[i].steps[j], i)
           /\ \A i \in DOMAIN stages : \A j \in DOMAIN stages[i].steps :
                 \E d \in ToSet(dockerfile) : WrittenAs(d, stages[i].steps[j], i)
<1>1. IsPlan(stages)
  BY DEF Inv, PlanInv, Handed, Holds
<1>2. dockerfile = Hint \o EmitDockerfile(stages)
  BY DEF Inv, WrittenInv, Handed
<1>3. Hint \in Seq(Instructions) /\ \A d \in ToSet(Hint) : Framing(d)
  <2> DEFINE d == Instruction("hint", 0, "secrets")
  <2>1. d \in Instructions /\ Framing(d)
    BY PlainInstruction
  <2>2. Hint = <<d>> \/ Hint = <<>>
    BY DEF Hint
  <2> HIDE DEF d, Instructions
  <2>3. CASE Hint = <<d>>
    BY <2>1, <2>3 DEF ToSet
  <2>4. CASE Hint = <<>>
    <3>1. DOMAIN Hint = {}
      BY <2>4
    <3> QED
      BY <2>4, <3>1 DEF ToSet
  <2> QED
    BY <2>2, <2>3, <2>4
<1>4. EmitDockerfile(stages) \in Seq(Instructions)
  BY <1>1, PlanWritten
<1>5. ToSet(dockerfile) = ToSet(Hint) \cup ToSet(EmitDockerfile(stages))
  BY <1>2, <1>3, <1>4, ConcatenationHolds
<1>6. ASSUME NEW d \in ToSet(dockerfile)
      PROVE  \/ Framing(d)
             \/ \E i \in DOMAIN stages : \E j \in DOMAIN stages[i].steps :
                   WrittenAs(d, stages[i].steps[j], i)
  BY <1>1, <1>3, <1>5, PlanWritten
<1>7. ASSUME NEW i \in DOMAIN stages, NEW j \in DOMAIN stages[i].steps
      PROVE  \E d \in ToSet(dockerfile) : WrittenAs(d, stages[i].steps[j], i)
  <2>1. PICK d \in ToSet(EmitDockerfile(stages)) : WrittenAs(d, stages[i].steps[j], i)
    BY <1>1, PlanWritten
  <2> QED
    BY <1>5, <2>1
<1> QED
  BY <1>6, <1>7

-----------------------------------------------------------------------------
(* What is handed out.                                                     *)

\* Nothing that needs root follows USER, and assets the account they belong to:
\* an override puts what it adds before USER, or waits until after it.
THEOREM RootComesFirst == Spec => []RootStepsBeforeUser
<1>1. Inv => RootStepsBeforeUser
  <2> SUFFICES ASSUME Inv, Handed
               PROVE  RootStepsBeforeUser
    BY DEF RootStepsBeforeUser
  <2>1. Holds(stages) /\ Len(stages) \in DOMAIN stages
    BY DEF Inv, PlanInv, Handed, Holds, IsPlan
  <2>2. Final.steps \in Seq(Steps) /\ Neat(Final.steps, ~Lenient(Len(stages)))
    BY <2>1 DEF Holds, StepsHold, Settled, Final
  <2>3. IndexOf(Final.steps, {"USER"}) # 0 => HasUser(Final.steps)
    BY <2>2, IndexOfFirst DEF HasUser
  <2>4. ~(SingleStage /\ Has("ExternalTools") /\ cfg["ExternalTools"] = "builder")
           => ~Lenient(Len(stages))
    BY DEF SingleStage, Lenient
  <2> QED
    BY <2>2, <2>3, <2>4 DEF RootStepsBeforeUser, Neat, Creation, NeedsRoot
<1> QED
  BY <1>1, Invariant, PTL

\* The commands added are those of the image the stage ends up with, and
\* nothing but what the user chose asks for a shell where there is none.
THEOREM AddedStepsFit == Spec => []AddedStepsFitImage
<1>1. Inv => AddedStepsFitImage
  <2> SUFFICES ASSUME Inv, Handed
               PROVE  AddedStepsFitImage
    BY DEF AddedStepsFitImage
  <2>1. \A i \in DOMAIN stages : Fitting(stages[i].steps, stages[i].from)
    BY DEF Inv, PlanInv, Handed, Holds, StepsHold
  <2>2. ASSUME NEW k \in DOMAIN dockerfile, dockerfile[k].form = "shell",
               stages[dockerfile[k].part].from = "distroless"
        PROVE  ChosenByUser # {} /\ dockerfile[k].what # "create-named-user"
    <3> DEFINE d == dockerfile[k]
    <3>1. d \in ToSet(dockerfile) /\ ~Framing(d)
      BY <2>2 DEF ToSet, Framing
    <3>2. PICK i \in DOMAIN stages : \E j \in DOMAIN stages[i].steps :
             WrittenAs(d, stages[i].steps[j], i)
      BY <3>1, DockerfileWritten
    <3>3. PICK j \in DOMAIN stages[i].steps :
             d.part = i /\ d.what = stages[i].steps[j].what /\ d.form = Form(stages[i].steps[j])
      BY <3>2 DEF WrittenAs
    <3> QED
      BY <2>1, <2>2, <3>3 DEF Fitting
  <2>3. \A i \in DOMAIN stages : \A j \in DOMAIN stages[i].steps :
           stages[i].steps[j].what \in {"system-deps", "runtime-deps", "create-named-user"}
              => stages[i].steps[j].tool = Tool(stages[i].from)
    BY <2>1 DEF Fitting, Added
  <2> QED
    BY <2>2, <2>3 DEF AddedStepsFitImage
<1> QED
  BY <1>1, Invariant, PTL

-----------------------------------------------------------------------------
(* What an override leaves of the plan, and what it puts there.            *)

\* b says what a says; it may have gained secrets and lost its cache, and go
\* with a go.work file.
Same(b, a) ==
    /\ b.op = a.op /\ b.stage = a.stage
    /\ b.what = a.what \/ (a.what = "manifests" /\ b.what = "manifests-and-go.work")
    /\ a.secrets \subseteq b.secrets /\ (b.cache => a.cache)
    /\ \/ b.flag = a.flag \/ a.op = "COPY"
       \/ (a.op = "RUN" /\ b.flag = "-X") \/ (a.op = "HEALTHCHECK" /\ b.flag = "timed")

\* t has the steps of s but those lost, and no other but those that are new.
Changes(t, s, lost, new) ==
    /\ \A j \in DOMAIN s : s[j] \in lost \/ \E l \in DOMAIN t : Same(t[l], s[j])
    /\ \A l \in DOMAIN t : t[l] \in new \/ \E j \in DOMAIN s : Same(t[l], s[j])
ChangesAll(q, p, lost, new) ==
    SameStages(q, p) /\ \A i \in DOMAIN p : Changes(q[i].steps, p[i].steps, lost, new)

LEMMA SameAgain == \A a : Same(a, a)
BY DEF Same

LEMMA NothingChanges == \A s, lost, new : Changes(s, s, lost, new)
BY SameAgain DEF Changes

LEMMA InPlaceChanges ==
    ASSUME NEW s, NEW t, DOMAIN t = DOMAIN s, NEW lost, NEW new,
           \A j \in DOMAIN s : Same(t[j], s[j]) \/ (s[j] \in lost /\ t[j] \in new)
    PROVE  Changes(t, s, lost, new)
BY DEF Changes

LEMMA InsertedChanges ==
    ASSUME NEW r, NEW s \in Seq(Steps), NEW lost, NEW new, Changes(s, r, lost, new),
           NEW t, NEW p, NEW e, Inserted(t, s, p, e)
    PROVE  Changes(t, r, lost, new \cup {e})
<1>1. DOMAIN s = 1 .. Len(s) /\ Len(s) \in Nat /\ DOMAIN t = 1 .. Len(s) + 1 /\ p \in DOMAIN t
  BY DEF Inserted
<1>2. t[p] = e /\ \A x \in DOMAIN t : x < p => x \in DOMAIN s /\ t[x] = s[x]
  BY <1>1 DEF Inserted
<1>3. \A x \in DOMAIN t : p < x => x - 1 \in DOMAIN s /\ t[x] = s[x - 1]
  BY <1>1 DEF Inserted
<1>4. \A x \in DOMAIN t : t[x] = e \/ \E y \in DOMAIN s : t[x] = s[y]
  <2> SUFFICES ASSUME NEW x \in DOMAIN t
               PROVE  t[x] = e \/ \E y \in DOMAIN s : t[x] = s[y]
    OBVIOUS
  <2>1. x < p \/ x = p \/ p < x
    BY <1>1
  <2> QED
    BY <1>2, <1>3, <2>1
<1>5. ASSUME NEW y \in DOMAIN s
      PROVE  \E x \in DOMAIN t : t[x] = s[y]
  <2>1. CASE y < p
    <3>1. y \in DOMAIN t
      BY <1>1
    <3> QED
      BY <1>2, <2>1, <3>1
  <2>2. CASE ~(y < p)
    <3>1. y + 1 \in DOMAIN t /\ p < y + 1 /\ (y + 1) - 1 = y
      BY <1>1, <2>2
    <3>2. t[y + 1] = s[y]
      BY <1>3, <3>1
    <3> QED
      BY <3>1, <3>2
  <2> QED
    BY <2>1, <2>2
<1> QED
  BY <1>4, <1>5 DEF Changes

LEMMA AppendChanges ==
    ASSUME NEW r, NEW s \in Seq(Steps), NEW lost, NEW new, Changes(s, r, lost, new), NEW e \in Steps
    PROVE  /\ Append(s, e) \in Seq(Steps) /\ Changes(Append(s, e), r, lost, new \cup {e})
           /\ \E l \in DOMAIN Append(s, e) : Append(s, e)[l] = e
           /\ \A j \in DOMAIN s : \E l \in DOMAIN Append(s, e) : Append(s, e)[l] = s[j]
<1> DEFINE t == Append(s, e)
<1>1. Inserted(t, s, Len(s) + 1, e)
  BY AppendInserts
<1>2. /\ t \in Seq(Steps) /\ Len(s) + 1 \in DOMAIN t /\ t[Len(s) + 1] = e
      /\ \A j \in DOMAIN s : j \in DOMAIN t /\ t[j] = s[j]
  OBVIOUS
<1> HIDE DEF t
<1>3. Changes(t, r, lost, new \cup {e})
  BY <1>1, InsertedChanges
<1> QED
  BY <1>2, <1>3 DEF t

OfKind(op) == {e \in Steps : e.op = op}

LEMMA RemovedChanges ==
    ASSUME NEW s \in Seq(Steps), NEW op
    PROVE  LET t == removeSteps(s, op) IN
           /\ t \in Seq(Steps) /\ Changes(t, s, OfKind(op), {})
           /\ \A l \in DOMAIN t : t[l].op # op
<1> DEFINE t == removeSteps(s, op)
<1>1. /\ t \in Seq(Steps)
      /\ \A i \in DOMAIN t : t[i].op # op /\ \E j \in DOMAIN s : t[i] = s[j]
      /\ \A i \in DOMAIN s : s[i].op # op => \E j \in DOMAIN t : t[j] = s[i]
  BY RemovedSteps DEF Derived
<1>2. \A i \in DOMAIN s : s[i].op = op => s[i] \in OfKind(op)
  BY DEF OfKind
<1> HIDE DEF t
<1>3. Changes(t, s, OfKind(op), {})
  BY <1>1, <1>2, SameAgain DEF Changes
<1> QED
  BY <1>1, <1>3 DEF t

LEMMA StageChanges ==
    ASSUME NEW p, IsPlan(p), NEW k \in DOMAIN p, NEW t \in Seq(Steps), NEW lost, NEW new,
           Changes(t, p[k].steps, lost, new)
    PROVE  LET q == [p EXCEPT ![k].steps = t] IN
           /\ ChangesAll(q, p, lost, new)
           /\ q[k].steps = t /\ \A i \in DOMAIN p : i # k => q[i] = p[i]
<1> DEFINE q == [p EXCEPT ![k].steps = t]
<1>1. /\ SameStages(q, p) /\ q[k].steps = t
      /\ \A i \in DOMAIN p : i # k => q[i] = p[i]
  BY StageSet
<1> HIDE DEF q
<1>2. \A i \in DOMAIN p : Changes(q[i].steps, p[i].steps, lost, new)
  BY <1>1, NothingChanges
<1> QED
  BY <1>1, <1>2 DEF ChangesAll, q

-----------------------------------------------------------------------------
(* What is there of a field once it has had its turn.                      *)

Mark(f, op, what) ==
    \/ f = "InstallCmd" /\ op = "RUN" /\ what = "user-install"
    \/ f = "BuildCmd" /\ op = "RUN" /\ what = "user-build"
    \/ f = "SystemDeps" /\ op = "RUN" /\ what = "system-deps"
    \/ f = "RuntimeSystemDeps" /\ op = "RUN" /\ what = "runtime-deps"
    \/ f = "StartCmd" /\ op = "CMD" /\ what = "user"
    \/ f = "Expose" /\ op = "EXPOSE" /\ what = "user"
    \/ f = "ExtraEnv" /\ op = "ENV" /\ what \in {"first", "second"}
    \/ f = "EntrypointScript" /\ op \in {"COPY", "ENTRYPOINT"} /\ what = "script"
    \/ f = "Entrypoint" /\ op = "ENTRYPOINT" /\ what = "user"
    \/ f = "RuntimeAssets" /\ op = "COPY" /\ what = "assets"
    \/ f = "ExternalTools" /\ op = "FETCHTOOL" /\ what = "tool"

\* Another field's takes its place.
Replaced(f) == GivesWay(f) \/ (f = "Entrypoint" /\ Has("EntrypointScript"))

Stands(p, op, what) ==
    \E i \in DOMAIN p :
       /\ op \in {"CMD", "ENTRYPOINT"} => i = Len(p)
       /\ \E j \in DOMAIN p[i].steps : p[i].steps[j].op = op /\ p[i].steps[j].what = what

Downloads == {"install", "user-install", "build", "go-build"}
Timed(p) ==
    \A i \in DOMAIN p : \A j \in DOMAIN p[i].steps :
       p[i].steps[j].op = "HEALTHCHECK" => p[i].steps[j].flag = "timed"
Flagged(p) ==
    \A i \in DOMAIN p : \A j \in DOMAIN p[i].steps :
       IsBuild(p[i].steps[j]) => p[i].steps[j].flag = "-X"
Trusted(p) ==
    \A i \in DOMAIN p : \A j \in DOMAIN p[i].steps :
       (Len(p) = 1 \/ i # Len(p)) /\ p[i].steps[j].op = "RUN" /\ p[i].steps[j].what \in Downloads
          => "config" \in p[i].steps[j].secrets
Uncached(p) ==
    \A i \in DOMAIN p : \A j \in DOMAIN p[i].steps :
       p[i].steps[j].op = "RUN" => ~p[i].steps[j].cache

Reached(p, f) ==
    /\ ~Replaced(f) =>
          \A op \in Ops, what \in Whats : Mark(f, op, what) => Stands(p, op, what)
    /\ f = "HealthcheckOpts" \/ (f = "Healthcheck" /\ Has("HealthcheckOpts")) => Timed(p)
    /\ f = "LdFlags" => Flagged(p)
    /\ f = "Secrets" /\ ~Has("Binaries") => Trusted(p)
    /\ f = "NoBuildCache" => Uncached(p)

\* What is so in every plan.
Usual(p) ==
    \A i \in DOMAIN p : \A j \in DOMAIN p[i].steps :
       /\ p[i].steps[j].op = "HEALTHCHECK" => i = Len(p)
       /\ p[i].steps[j].op = "FETCHTOOL" => p[i].steps[j].what = "tool"

\* The copies, where the user's commands are not: Binaries changes the builds
\* of a Go plan, and their copies, which are in the stage after.
OwnCommands == Has("InstallCmd") \/ Has("BuildCmd")
CopiesHold(p) ==
    ~OwnCommands =>
       /\ framework = "go" =>
             /\ Len(p) = 2 /\ p[1].name = "builder"
             /\ \E j \in DOMAIN p[1].steps : IsBuild(p[1].steps[j])
       /\ (Has("Binaries") => framework = "go" \/ \A i \in DOMAIN p : p[i].name # "builder")
             => CopiesFound(p)

KeptInv ==
    status \in {"planning", "done"} =>
       /\ \A f \in Fields : Has(f) /\ ~Waits(f) =>
             Reached(stages, f) /\ \A g \in ToSet(todo) : Turn[f] < Turn[g]
       /\ Usual(stages) /\ CopiesHold(stages)

LEMMA ReachedAfter ==
    ASSUME NEW p, IsPlan(p), NEW q, NEW lost, NEW new, ChangesAll(q, p, lost, new),
           NEW f, Reached(p, f),
           ~Replaced(f) => \A e \in lost : ~Mark(f, e.op, e.what),
           \A e \in new :
              /\ f \in {"Healthcheck", "HealthcheckOpts"} => e.op # "HEALTHCHECK"
              /\ f = "LdFlags" => ~IsBuild(e)
              /\ f = "Secrets" => e.op # "RUN" \/ e.what \notin Downloads
              /\ f = "NoBuildCache" => e.op # "RUN" \/ ~e.cache
    PROVE  Reached(q, f)
<1>1. /\ DOMAIN q = DOMAIN p /\ Len(q) = Len(p)
      /\ \A i \in DOMAIN p : Changes(q[i].steps, p[i].steps, lost, new)
  BY SamePlan DEF ChangesAll
<1>2. \A i \in DOMAIN p :
         /\ \A j \in DOMAIN p[i].steps :
               \/ p[i].steps[j] \in lost
               \/ \E l \in DOMAIN q[i].steps : Same(q[i].steps[l], p[i].steps[j])
         /\ \A l \in DOMAIN q[i].steps :
               \/ q[i].steps[l] \in new
               \/ \E j \in DOMAIN p[i].steps : Same(q[i].steps[l], p[i].steps[j])
  BY <1>1 DEF Changes
<1>3. ASSUME ~Replaced(f), NEW op \in Ops, NEW what \in Whats, Mark(f, op, what)
      PROVE  Stands(q, op, what)
  <2>1. Stands(p, op, what)
    BY <1>3 DEF Reached
  <2>2. PICK i \in DOMAIN p :
           /\ op \in {"CMD", "ENTRYPOINT"} => i = Len(p)
           /\ \E j \in DOMAIN p[i].steps : p[i].steps[j].op = op /\ p[i].steps[j].what = what
    BY <2>1 DEF Stands
  <2>3. PICK j \in DOMAIN p[i].steps : p[i].steps[j].op = op /\ p[i].steps[j].what = what
    BY <2>2
  <2>4. p[i].steps[j] \notin lost
    BY <1>3, <2>3
  <2>5. what # "manifests"
    BY <1>3 DEF Mark
  <2>6. \E l \in DOMAIN q[i].steps : q[i].steps[l].op = op /\ q[i].steps[l].what = what
    BY <1>2, <2>3, <2>4, <2>5 DEF Same
  <2> QED
    BY <1>1, <2>2, <2>6 DEF Stands
<1>4. ASSUME f = "HealthcheckOpts" \/ (f = "Healthcheck" /\ Has("HealthcheckOpts"))
      PROVE  Timed(q)
  <2>1. Timed(p)
    BY <1>4 DEF Reached
  <2> QED
    BY <1>1, <1>2, <1>4, <2>1 DEF Timed, Same
<1>5. ASSUME f = "LdFlags"
      PROVE  Flagged(q)
  <2>1. Flagged(p)
    BY <1>5 DEF Reached
  <2> QED
    BY <1>1, <1>2, <1>5, <2>1 DEF Flagged, Same, IsBuild
<1>6. ASSUME f = "Secrets", ~Has("Binaries")
      PROVE  Trusted(q)
  <2>1. Trusted(p)
    BY <1>6 DEF Reached
  <2>2. "manifests-and-go.work" \notin Downloads
    BY DEF Downloads
  <2> HIDE DEF Downloads
  <2> QED
    BY <1>1, <1>2, <1>6, <2>1, <2>2 DEF Trusted, Same
<1>7. ASSUME f = "NoBuildCache"
      PROVE  Uncached(q)
  <2>1. Uncached(p)
    BY <1>7 DEF Reached
  <2> QED
    BY <1>1, <1>2, <1>7, <2>1 DEF Uncached, Same
<1> QED
  BY <1>3, <1>4, <1>5, <1>6, <1>7 DEF Reached

LEMMA UsualAfter ==
    ASSUME NEW p, IsPlan(p), NEW q, NEW lost, NEW new, ChangesAll(q, p, lost, new), Usual(p),
           \A e \in new :
              /\ e.op = "HEALTHCHECK" => \A i \in DOMAIN p : i # Len(p) => q[i] = p[i]
              /\ e.op = "FETCHTOOL" => e.what = "tool"
    PROVE  Usual(q)
<1>1. /\ DOMAIN q = DOMAIN p /\ Len(q) = Len(p)
      /\ \A i \in DOMAIN p : Changes(q[i].steps, p[i].steps, lost, new)
  BY SamePlan DEF ChangesAll
<1> QED
  BY <1>1 DEF Usual, Changes, Same

\* What the copies copy is kept, unless it is replaced by a command of the user.
LEMMA CopiesAfter ==
    ASSUME NEW p, IsPlan(p), NEW q, NEW lost, NEW new, ChangesAll(q, p, lost, new), CopiesHold(p),
           OwnCommands \/ \A e \in lost : e.op \notin {"RUN", "COPY"},
           \A e \in new : e.op # "COPYFROM"
    PROVE  CopiesHold(q)
<1> SUFFICES ASSUME ~OwnCommands
             PROVE  CopiesHold(q)
  BY DEF CopiesHold
<1>1. /\ DOMAIN q = DOMAIN p /\ Len(q) = Len(p)
      /\ \A i \in DOMAIN p : q[i].name = p[i].name
      /\ \A i \in DOMAIN p : Changes(q[i].steps, p[i].steps, lost, new)
  BY SamePlan DEF ChangesAll
<1>2. \A i \in DOMAIN p :
         /\ \A j \in DOMAIN p[i].steps :
               \/ p[i].steps[j] \in lost
               \/ \E l \in DOMAIN q[i].steps : Same(q[i].steps[l], p[i].steps[j])
         /\ \A l \in DOMAIN q[i].steps :
               \/ q[i].steps[l] \in new
               \/ \E j \in DOMAIN p[i].steps : Same(q[i].steps[l], p[i].steps[j])
  BY <1>1 DEF Changes
<1>3. \A e \in lost : e.op \notin {"RUN", "COPY"}
  OBVIOUS
<1>4. ASSUME NEW i \in DOMAIN p, NEW j \in DOMAIN p[i].steps, NEW w, Leaves(p[i].steps[j], w)
      PROVE  \E l \in DOMAIN q[i].steps : Leaves(q[i].steps[l], w)
  <2>1. p[i].steps[j] \notin lost
    BY <1>3, <1>4 DEF Leaves
  <2>2. PICK l \in DOMAIN q[i].steps : Same(q[i].steps[l], p[i].steps[j])
    BY <1>2, <2>1
  <2>3. q[i].steps[l].op = p[i].steps[j].op /\ q[i].steps[l].what = p[i].steps[j].what
    BY <1>4, <2>2 DEF Same, Leaves
  <2> QED
    BY <1>4, <2>3 DEF Leaves, Makes
<1>5. ASSUME framework = "go"
      PROVE  /\ Len(q) = 2 /\ q[1].name = "builder"
             /\ \E j \in DOMAIN q[1].steps : IsBuild(q[1].steps[j])
  <2>1. Len(p) = 2 /\ p[1].name = "builder" /\ DOMAIN p = 1 .. 2 /\ 1 \in DOMAIN p
    BY <1>5 DEF CopiesHold, IsPlan
  <2>2. PICK j \in DOMAIN p[1].steps : IsBuild(p[1].steps[j])
    BY <1>5 DEF CopiesHold
  <2>3. p[1].steps[j] \notin lost
    BY <1>3, <2>2 DEF IsBuild
  <2>4. \E l \in DOMAIN q[1].steps : IsBuild(q[1].steps[l])
    BY <1>2, <2>1, <2>2, <2>3 DEF Same, IsBuild
  <2> QED
    BY <1>1, <2>1, <2>4
<1>6. ASSUME CopiesFound(p)
      PROVE  CopiesFound(q)
  <2> SUFFICES ASSUME NEW i \in DOMAIN q, NEW j \in DOMAIN q[i].steps,
                      q[i].steps[j].op = "COPYFROM"
               PROVE  \E k \in 1 .. i - 1 :
                         /\ q[k].name = q[i].steps[j].stage
                         /\ \E l \in DOMAIN q[k].steps : Leaves(q[k].steps[l], q[i].steps[j].what)
    BY DEF CopiesFound
  <2>1. PICK m \in DOMAIN p[i].steps : Same(q[i].steps[j], p[i].steps[m])
    BY <1>1, <1>2
  <2>2. p[i].steps[m].op = "COPYFROM" /\ p[i].steps[m].stage = q[i].steps[j].stage
    BY <2>1 DEF Same
  <2>3. p[i].steps[m].what # "manifests"
    <3>1. \A e : ~Leaves(e, "manifests")
      BY DEF Leaves, Makes
    <3> QED
      BY <1>1, <1>6, <2>2, <3>1 DEF CopiesFound
  <2>4. p[i].steps[m].what = q[i].steps[j].what
    BY <2>1, <2>3 DEF Same
  <2>5. PICK k \in 1 .. i - 1 :
           /\ p[k].name = q[i].steps[j].stage
           /\ \E l \in DOMAIN p[k].steps : Leaves(p[k].steps[l], q[i].steps[j].what)
    BY <1>1, <1>6, <2>2, <2>4 DEF CopiesFound
  <2>6. k \in DOMAIN p
    BY <1>1, <2>5 DEF IsPlan
  <2> QED
    BY <1>1, <1>4, <2>5, <2>6
<1> QED
  BY <1>1, <1>5, <1>6 DEF CopiesHold

\* The steps an override takes away, and those it adds, are no concern of the
\* ones before it.
Lost(field, e) ==
    /\ OwnCommands \/ e.op \notin {"RUN", "COPY"}
    /\ \A f \in Fields : Has(f) /\ Turn[f] < Turn[field] /\ Mark(f, e.op, e.what) => Replaced(f)
New(field, e) ==
    /\ e.op = "HEALTHCHECK" => Turn[field] <= 10
    /\ IsBuild(e) => Turn[field] <= 17
    /\ e.op = "RUN" /\ e.what \in Downloads => Turn[field] <= 15
    /\ e.op = "RUN" /\ e.cache => Turn[field] <= 7

LEMMA KeptAfter ==
    ASSUME Inv, KeptInv, NEW field, NEW q, Override(field, q),
           NEW lost, NEW new, ChangesAll(q, stages, lost, new),
           \A e \in lost : \A f \in Fields :
              Has(f) /\ Turn[f] < Turn[field] /\ Mark(f, e.op, e.what) => Replaced(f),
           \A e \in new : New(field, e),
           Reached(q, field), Usual(q), CopiesHold(q)
    PROVE  KeptInv'
<1>1. /\ todo # <<>> /\ Head(todo) = field /\ stages' = q /\ todo' = Tail(todo)
      /\ UNCHANGED <<framework, cfg, dockerfile, status>>
  BY DEF Override
<1>2. /\ status = "planning" /\ IsPlan(stages) /\ Waits(field) /\ field \in Fields
  <2>1. status = "planning" /\ IsPlan(stages) /\ Waits(field) /\ TodoInv
    BY Found DEF Inv
  <2> QED
    BY <2>1 DEF TodoInv, Waits, ToSet
<1>3. /\ ToSet(todo) = {field} \cup ToSet(todo')
      /\ \A f \in ToSet(todo') : Turn[field] < Turn[f]
  BY <1>1, NextTurn DEF Inv
<1>4. Len(q) = Len(stages)
  BY <1>2, SamePlan DEF ChangesAll
<1>5. \A f : Has(f)' = Has(f)
  BY <1>1 DEF Has
<1>6. \A f : (Replaced(f))' = Replaced(f)
  BY <1>1, <1>4 DEF Replaced, GivesWay, SingleStage, Has
<1>7. \A f : (Reached(q, f))' = Reached(q, f)
  <2>1. (Trusted(q))' = Trusted(q) /\ (Timed(q))' = Timed(q) /\ (Flagged(q))' = Flagged(q)
        /\ (Uncached(q))' = Uncached(q)
    BY DEF Trusted, Timed, Flagged, Uncached
  <2> QED
    BY <1>1, <1>6, <2>1 DEF Reached, Has, Stands
<1>8. (Usual(q))' /\ (CopiesHold(q))'
  BY <1>1 DEF Usual, CopiesHold, CopiesFound, OwnCommands, Has
<1>9. ASSUME NEW f \in Fields, Has(f), f \notin ToSet(todo')
      PROVE  Reached(q, f) /\ \A g \in ToSet(todo') : Turn[f] < Turn[g]
  <2>1. CASE f = field
    BY <1>3, <2>1
  <2>2. CASE f # field
    <3>1. ~Waits(f)
      BY <1>3, <1>9, <2>2 DEF Waits
    <3>2. Reached(stages, f) /\ \A g \in ToSet(todo) : Turn[f] < Turn[g]
      BY <1>2, <1>9, <3>1 DEF KeptInv
    <3>3. Turn[f] < Turn[field] /\ \A g \in ToSet(todo') : Turn[f] < Turn[g]
      BY <1>3, <3>2
    <3>4. ~Replaced(f) => \A e \in lost : ~Mark(f, e.op, e.what)
      BY <1>9, <3>3
    <3>5. \A e \in new :
             /\ f \in {"Healthcheck", "HealthcheckOpts"} => e.op # "HEALTHCHECK"
             /\ f = "LdFlags" => ~IsBuild(e)
             /\ f = "Secrets" => e.op # "RUN" \/ e.what \notin Downloads
             /\ f = "NoBuildCache" => e.op # "RUN" \/ ~e.cache
      <4>1. Turn[field] \in Nat
        BY <1>2 DEF Fields, Order, Turn, ToSet
      <4> HIDE DEF Downloads
      <4> QED
        BY <3>3, <4>1, HasTurn DEF New
    <3>6. Reached(q, f)
      BY <1>2, <3>2, <3>4, <3>5, ReachedAfter
    <3> QED
      BY <3>3, <3>6
  <2> QED
    BY <2>1, <2>2
<1> QED
  BY <1>1, <1>5, <1>7, <1>8, <1>9 DEF KeptInv, Waits

LEMMA KeptBy ==
    ASSUME Inv, KeptInv, NEW field, NEW q, Override(field, q),
           NEW lost, NEW new, ChangesAll(q, stages, lost, new),
           \A e \in lost : Lost(field, e),
           \A e \in new :
              /\ New(field, e) /\ e.op # "COPYFROM" /\ (e.op = "FETCHTOOL" => e.what = "tool")
              /\ e.op = "HEALTHCHECK" =>
                    \A i \in DOMAIN stages : i # Len(stages) => q[i] = stages[i],
           Reached(q, field)
    PROVE  KeptInv'
<1>1. IsPlan(stages) /\ Usual(stages) /\ CopiesHold(stages)
  BY Found DEF Inv, KeptInv
<1>2. Usual(q)
  BY <1>1, UsualAfter
<1>3. CopiesHold(q)
  <2>1. OwnCommands \/ \A e \in lost : e.op \notin {"RUN", "COPY"}
    BY DEF Lost
  <2> QED
    BY <1>1, <2>1, CopiesAfter
<1>4. \A e \in lost : \A f \in Fields :
         Has(f) /\ Turn[f] < Turn[field] /\ Mark(f, e.op, e.what) => Replaced(f)
  BY DEF Lost
<1> QED
  BY <1>2, <1>3, <1>4, KeptAfter

\* An override that takes nothing away, and puts nothing there.
LEMMA KeptSteps ==
    ASSUME Inv, KeptInv, NEW field, NEW q, Override(field, q), ChangesAll(q, stages, {}, {}),
           Reached(q, field)
    PROVE  KeptInv'
BY KeptBy

LEMMA KeptStage ==
    ASSUME Inv, KeptInv, NEW field, NEW k \in DOMAIN stages, NEW t \in Seq(Steps),
           Override(field, [stages EXCEPT ![k].steps = t]),
           NEW lost, NEW new, Changes(t, stages[k].steps, lost, new),
           \A e \in lost : Lost(field, e),
           \A e \in new :
              /\ New(field, e) /\ e.op # "COPYFROM" /\ (e.op = "FETCHTOOL" => e.what = "tool")
              /\ e.op = "HEALTHCHECK" => k = Len(stages),
           \A q : /\ SameStages(q, stages) /\ q[k].steps = t
                  /\ \A i \in DOMAIN stages : i # k => q[i] = stages[i]
                  => Reached(q, field)
    PROVE  KeptInv'
<1> DEFINE q == [stages EXCEPT ![k].steps = t]
<1>1. IsPlan(stages)
  BY Found DEF Inv
<1>2. /\ ChangesAll(q, stages, lost, new)
      /\ q[k].steps = t /\ \A i \in DOMAIN stages : i # k => q[i] = stages[i]
  BY <1>1, StageChanges
<1>3. Override(field, q)
  OBVIOUS
<1> HIDE DEF q
<1>4. Reached(q, field)
  BY <1>2 DEF ChangesAll
<1> QED
  BY <1>2, <1>3, <1>4, KeptBy

LEMMA KeptFinal ==
    ASSUME Inv, KeptInv, NEW field, NEW t \in Seq(Steps), Override(field, InFinal(t)),
           NEW lost, NEW new, Changes(t, Final.steps, lost, new),
           \A e \in lost : Lost(field, e),
           \A e \in new :
              New(field, e) /\ e.op # "COPYFROM" /\ (e.op = "FETCHTOOL" => e.what = "tool"),
           \A q : /\ SameStages(q, stages) /\ LastOf(q).steps = t
                  /\ \A i \in DOMAIN stages : i # Len(stages) => q[i] = stages[i]
                  => Reached(q, field)
    PROVE  KeptInv'
<1>1. IsPlan(stages) /\ Len(stages) \in DOMAIN stages
  BY Found DEF Inv
<1>2. \A q : /\ SameStages(q, stages) /\ q[Len(stages)].steps = t
             /\ \A i \in DOMAIN stages : i # Len(stages) => q[i] = stages[i]
             => Reached(q, field)
  BY <1>1, SamePlan DEF LastOf
<1> QED
  BY <1>1, <1>2, KeptStage DEF InFinal, Final

\* What stands in a stage.
LEMMA StandsIn ==
    ASSUME NEW p, NEW q, IsPlan(p), SameStages(q, p), NEW k \in DOMAIN p, NEW op, NEW what,
           op \in {"CMD", "ENTRYPOINT"} => k = Len(p),
           NEW j \in DOMAIN q[k].steps, q[k].steps[j].op = op, q[k].steps[j].what = what
    PROVE  Stands(q, op, what)
<1>1. DOMAIN q = DOMAIN p /\ Len(q) = Len(p)
  BY SamePlan
<1> QED
  BY <1>1 DEF Stands

LEMMA StandsInFinal ==
    ASSUME NEW p, NEW q, IsPlan(p), SameStages(q, p), NEW op, NEW what,
           NEW j \in DOMAIN LastOf(q).steps,
           LastOf(q).steps[j].op = op, LastOf(q).steps[j].what = what
    PROVE  Stands(q, op, what)
<1>1. Len(q) = Len(p) /\ Len(p) \in DOMAIN p
  BY SamePlan
<1> QED
  BY <1>1, StandsIn DEF LastOf

Settings == {"HealthcheckOpts", "Healthcheck", "LdFlags", "Secrets", "NoBuildCache"}

LEMMA ReachedMarks ==
    ASSUME NEW f, f \notin Settings, NEW p,
           \A op \in Ops, what \in Whats : Mark(f, op, what) => Replaced(f) \/ Stands(p, op, what)
    PROVE  Reached(p, f)
BY DEF Reached, Settings

\* What an override of a kind takes away is its own, or that of no other one.
LEMMA LostKinds ==
    /\ \A e \in OfKind("CMD") :
          Lost("StartCmd", e) /\ (~Has("StartCmd") => Lost("Binaries", e))
    /\ \A e \in OfKind("EXPOSE") : Lost("Expose", e)
    /\ \A e \in OfKind("USER") : Lost("User", e)
    /\ \A e \in OfKind("HEALTHCHECK") : Lost("Healthcheck", e)
    /\ \A e \in OfKind("ENTRYPOINT") :
          Lost("EntrypointScript", e) /\ (~Has("EntrypointScript") => Lost("Entrypoint", e))
    /\ Has("InstallCmd") => \A e \in OfKind("RUN") : Lost("InstallCmd", e)
    /\ Has("BuildCmd") => \A e \in OfKind("RUN") : Lost("BuildCmd", e)
<1>1. \A e \in OfKind("CMD") :
         Lost("StartCmd", e) /\ (~Has("StartCmd") => Lost("Binaries", e))
  BY HasTurn DEF OfKind, Lost, Mark
<1>2. /\ \A e \in OfKind("EXPOSE") : Lost("Expose", e)
      /\ \A e \in OfKind("USER") : Lost("User", e)
      /\ \A e \in OfKind("HEALTHCHECK") : Lost("Healthcheck", e)
  BY HasTurn DEF OfKind, Lost, Mark
<1>3. \A e \in OfKind("ENTRYPOINT") :
         Lost("EntrypointScript", e) /\ (~Has("EntrypointScript") => Lost("Entrypoint", e))
  BY HasTurn DEF OfKind, Lost, Mark
<1>4. Has("InstallCmd") => \A e \in OfKind("RUN") : Lost("InstallCmd", e)
  BY HasTurn DEF OfKind, Lost, Mark, OwnCommands, Replaced, GivesWay
<1>5. Has("BuildCmd") => \A e \in OfKind("RUN") : Lost("BuildCmd", e)
  BY HasTurn DEF OfKind, Lost, Mark, OwnCommands, Replaced, GivesWay
<1> QED
  BY <1>1, <1>2, <1>3, <1>4, <1>5

\* What is added is of no kind that a setting is about, unless early.
LEMMA NewSteps ==
    ASSUME NEW field, NEW e \in Steps, e.op \notin {"HEALTHCHECK", "RUN"}
    PROVE  New(field, e)
BY DEF New, IsBuild

LEMMA MadeUncached == \A op, what : ~Step(op, what).cache
BY DEF Step

LEMMA ExchangedChanges ==
    ASSUME NEW s \in Seq(Steps), NEW op, NEW e \in Steps,
           NEW t, t = Append(removeSteps(s, op), e)
    PROVE  t \in Seq(Steps) /\ Changes(t, s, OfKind(op), {e})
<1> DEFINE r == removeSteps(s, op)
           N == {}
<1>1. r \in Seq(Steps) /\ Changes(r, s, OfKind(op), N)
  BY RemovedChanges
<1>2. t = Append(r, e) /\ {e} = N \cup {e}
  OBVIOUS
<1> HIDE DEF r, N
<1> QED
  BY <1>1, <1>2, AppendChanges

LEMMA ExchangedStep ==
    ASSUME NEW s \in Seq(Steps), NEW op, NEW e \in Steps,
           NEW t, t = Append(removeSteps(s, op), e)
    PROVE  \E l \in DOMAIN t : t[l] = e
<1> DEFINE r == removeSteps(s, op)
<1>1. r \in Seq(Steps)
  BY RemovedChanges
<1> HIDE DEF r
<1>2. Len(r) + 1 \in DOMAIN Append(r, e) /\ Append(r, e)[Len(r) + 1] = e
  BY <1>1
<1> QED
  BY <1>2 DEF r

LEMMA StartCmdDone ==
    ASSUME Inv, KeptInv, StartCmd
    PROVE  KeptInv'
<1> DEFINE e == Step("CMD", "user")
           t == Append(removeSteps(Final.steps, "CMD"), e)
<1>1. Override("StartCmd", InFinal(t))
  BY DEF StartCmd
<1>2. Final.steps \in Seq(Steps) /\ IsPlan(stages)
  BY <1>1, Found DEF Inv
<1>3. e \in Steps /\ e.op = "CMD" /\ e.what = "user" /\ ~e.cache
  BY Ends, MadeUncached
<1> HIDE DEF e
<1>9. t = Append(removeSteps(Final.steps, "CMD"), e)
  OBVIOUS
<1> HIDE DEF t
<1>4. t \in Seq(Steps) /\ Changes(t, Final.steps, OfKind("CMD"), {e})
  BY <1>2, <1>3, <1>9, ExchangedChanges
<1>8. \E l \in DOMAIN t : t[l] = e
  BY <1>2, <1>3, <1>9, ExchangedStep
<1>5. ASSUME NEW q, SameStages(q, stages), LastOf(q).steps = t
      PROVE  Reached(q, "StartCmd")
  <2>1. Stands(q, "CMD", "user")
    BY <1>2, <1>3, <1>5, <1>8, StandsInFinal
  <2>2. "StartCmd" \notin Settings
    BY DEF Settings
  <2> QED
    BY <2>1, <2>2, ReachedMarks DEF Mark
<1>6. New("StartCmd", e)
  BY <1>3, NewSteps
<1> QED
  BY <1>1, <1>3, <1>4, <1>5, <1>6, LostKinds, KeptFinal

LEMMA EntrypointDone ==
    ASSUME Inv, KeptInv, Entrypoint
    PROVE  KeptInv'
<1> DEFINE e == Step("ENTRYPOINT", "user")
           t == Append(removeSteps(Final.steps, "ENTRYPOINT"), e)
<1>1. Override("Entrypoint", IF Has("EntrypointScript") THEN stages ELSE InFinal(t))
  BY DEF Entrypoint
<1>2. Final.steps \in Seq(Steps) /\ IsPlan(stages)
  BY <1>1, Found DEF Inv
<1>3. e \in Steps /\ e.op = "ENTRYPOINT" /\ e.what = "user" /\ ~e.cache
  BY Ends, MadeUncached
<1> HIDE DEF e
<1>9. t = Append(removeSteps(Final.steps, "ENTRYPOINT"), e)
  OBVIOUS
<1> HIDE DEF t
<1>4. t \in Seq(Steps) /\ Changes(t, Final.steps, OfKind("ENTRYPOINT"), {e})
  BY <1>2, <1>3, <1>9, ExchangedChanges
<1>8. \E l \in DOMAIN t : t[l] = e
  BY <1>2, <1>3, <1>9, ExchangedStep
<1>5. "Entrypoint" \notin Settings
  BY DEF Settings
<1>6. CASE Has("EntrypointScript")
  <2>1. Reached(stages, "Entrypoint")
    BY <1>5, <1>6, ReachedMarks DEF Replaced
  <2>2. ChangesAll(stages, stages, {}, {})
    BY <1>2, NothingChanges DEF ChangesAll, SameStages, IsPlan
  <2> QED
    BY <1>1, <1>6, <2>1, <2>2, KeptSteps
<1>7. CASE ~Has("EntrypointScript")
  <2>1. ASSUME NEW q, SameStages(q, stages), LastOf(q).steps = t
        PROVE  Reached(q, "Entrypoint")
    <3>1. Stands(q, "ENTRYPOINT", "user")
      BY <1>2, <1>3, <1>8, <2>1, StandsInFinal
    <3> QED
      BY <1>5, <3>1, ReachedMarks DEF Mark
  <2>2. New("Entrypoint", e)
    BY <1>3, NewSteps
  <2>3. Override("Entrypoint", InFinal(t))
    BY <1>1, <1>7
  <2> QED
    BY <1>3, <1>4, <1>7, <2>1, <2>2, <2>3, LostKinds, KeptFinal
<1> QED
  BY <1>6, <1>7

LEMMA WiderChanges ==
    ASSUME NEW s, NEW t, NEW lost, NEW new, NEW more, new \subseteq more, Changes(t, s, lost, new)
    PROVE  Changes(t, s, lost, more)
BY DEF Changes

LEMMA ConcatChanges ==
    ASSUME NEW r, NEW s \in Seq(Steps), NEW u \in Seq(Steps), NEW lost, NEW new,
           Changes(s, r, lost, new), \A j \in DOMAIN u : u[j] \in new, NEW t, t = s \o u
    PROVE  t \in Seq(Steps) /\ Changes(t, r, lost, new)
<1>1. /\ t \in Seq(Steps) /\ DOMAIN t = 1 .. Len(s) + Len(u)
      /\ Len(s) \in Nat /\ Len(u) \in Nat /\ DOMAIN s = 1 .. Len(s) /\ DOMAIN u = 1 .. Len(u)
  <2> HIDE DEF Steps
  <2> QED
    OBVIOUS
<1>2. \A i \in 1 .. Len(s) + Len(u) : t[i] = IF i <= Len(s) THEN s[i] ELSE u[i - Len(s)]
  <2> HIDE DEF Steps
  <2> QED
    OBVIOUS
<1>3. \A i \in DOMAIN t : t[i] \in new \/ (i \in DOMAIN s /\ t[i] = s[i])
  <2> SUFFICES ASSUME NEW i \in DOMAIN t
               PROVE  t[i] \in new \/ (i \in DOMAIN s /\ t[i] = s[i])
    OBVIOUS
  <2>1. CASE i <= Len(s)
    BY <1>1, <1>2, <2>1
  <2>2. CASE ~(i <= Len(s))
    <3>1. i - Len(s) \in DOMAIN u /\ t[i] = u[i - Len(s)]
      BY <1>1, <1>2, <2>2
    <3> QED
      BY <3>1
  <2> QED
    BY <2>1, <2>2
<1>4. \A j \in DOMAIN s : j \in DOMAIN t /\ t[j] = s[j]
  BY <1>1, <1>2
<1> QED
  BY <1>1, <1>3, <1>4 DEF Changes

LEMMA ConcatStep ==
    ASSUME NEW s \in Seq(Steps), NEW u \in Seq(Steps), NEW t, t = s \o u, NEW j \in DOMAIN u
    PROVE  Len(s) + j \in DOMAIN t /\ t[Len(s) + j] = u[j]
<1> HIDE DEF Steps
<1> QED
  OBVIOUS

LEMMA NoneChanges == ASSUME NEW p, IsPlan(p) PROVE ChangesAll(p, p, {}, {})
BY NothingChanges DEF ChangesAll, SameStages

\* Overrides that leave no mark.
Unmarked == {"BaseImage", "RuntimeImage", "User", "UseGoWork", "ContextRoot", "PrivateRegistry"}

LEMMA NoMarks == ASSUME NEW f \in Unmarked, NEW p PROVE Reached(p, f)
<1>1. f \notin Settings /\ \A op, what : ~Mark(f, op, what)
  BY DEF Unmarked, Settings, Mark
<1> QED
  BY <1>1, ReachedMarks

LEMMA ImageChanges ==
    ASSUME NEW p, IsPlan(p), NEW k \in DOMAIN p, NEW from \in Froms
    PROVE  ChangesAll([p EXCEPT ![k].from = from], p, {}, {})
<1> DEFINE q == [p EXCEPT ![k].from = from]
<1>1. SameStages(q, p) /\ \A i \in DOMAIN p : q[i].steps = p[i].steps
  BY ImageSet
<1> HIDE DEF q
<1>2. ChangesAll(q, p, {}, {})
  BY <1>1, NothingChanges DEF ChangesAll
<1> QED
  BY <1>2 DEF q

LEMMA BaseImageDone ==
    ASSUME Inv, KeptInv, BaseImage
    PROVE  KeptInv'
<1> DEFINE q == [stages EXCEPT ![1].from = cfg["BaseImage"]]
<1>1. Override("BaseImage", q)
  BY DEF BaseImage
<1>2. IsPlan(stages) /\ 1 \in DOMAIN stages /\ cfg["BaseImage"] \in {"alpine", "debian"}
  BY <1>1, Found, ValuesOf DEF Inv
<1>3. cfg["BaseImage"] \in Froms
  BY <1>2 DEF Froms, Images
<1>4. ChangesAll(q, stages, {}, {})
  BY <1>2, <1>3, ImageChanges
<1>5. Reached(q, "BaseImage")
  BY NoMarks DEF Unmarked
<1> QED
  BY <1>1, <1>4, <1>5, KeptSteps

LEMMA RuntimeImageDone ==
    ASSUME Inv, KeptInv, RuntimeImage
    PROVE  KeptInv'
<1> DEFINE r == [stages EXCEPT ![Len(stages)].from = cfg["RuntimeImage"]]
           q == IF SingleStage /\ Has("BaseImage") THEN stages ELSE r
<1>1. Override("RuntimeImage", q)
  BY DEF RuntimeImage
<1>2. IsPlan(stages) /\ Len(stages) \in DOMAIN stages /\ cfg["RuntimeImage"] \in Images
  BY <1>1, Found, ValuesOf DEF Inv
<1>3. cfg["RuntimeImage"] \in Froms
  BY <1>2 DEF Froms
<1>4. ChangesAll(r, stages, {}, {}) /\ ChangesAll(stages, stages, {}, {})
  BY <1>2, <1>3, ImageChanges, NoneChanges
<1>5. Reached(r, "RuntimeImage") /\ Reached(stages, "RuntimeImage")
  BY NoMarks DEF Unmarked
<1> HIDE DEF r
<1> QED
  BY <1>1, <1>4, <1>5, KeptSteps

LEMMA SetUserDone ==
    ASSUME Inv, KeptInv, SetUser
    PROVE  KeptInv'
<1> DEFINE rest == removeSteps(Final.steps, "USER")
           e == ForImage(Run("create-named-user"), Final.from)
           u == User("user")
           creation == IF cfg["User"] = "named" THEN createNamedUser(Final.from) ELSE <<>>
           t == IF cfg["User"] = "none" THEN rest ELSE rest \o creation \o <<u>>
           lost == OfKind("USER")
<1>1. Override("User", InFinal(t))
  BY DEF SetUser
<1>2. Final.steps \in Seq(Steps)
  BY <1>1, Found DEF Inv
<1>3. /\ e \in Steps /\ e.op = "RUN" /\ e.what = "create-named-user" /\ ~e.cache
      /\ u \in Steps /\ u.op = "USER" /\ ~u.cache
  <2>1. "create-named-user" \in Whats /\ "user" \in Whats /\ "USER" \in Ops
    BY DEF Whats, Ops
  <2>2. e \in Steps /\ e.op = "RUN" /\ e.what = "create-named-user"
    BY <2>1, ForImageMade
  <2>3. ~e.cache
    BY DEF ForImage, Run, Step
  <2> QED
    BY <2>1, <2>2, <2>3, StepMade, MadeUncached DEF User
<1>4. creation = <<>> \/ creation = <<e>>
  BY DEF createNamedUser
<1> HIDE DEF e, u
<1>5. rest \in Seq(Steps) /\ Changes(rest, Final.steps, lost, {})
  BY <1>2, RemovedChanges
<1> HIDE DEF rest, creation, lost
<1>6. Changes(rest, Final.steps, lost, {e, u})
  BY <1>5, WiderChanges
<1>7. creation \in Seq(Steps) /\ \A j \in DOMAIN creation : creation[j] \in {e, u}
  <2>1. <<e>> \in Seq(Steps) /\ \A j \in DOMAIN <<e>> : <<e>>[j] \in {e, u}
    BY <1>3
  <2>2. <<>> \in Seq(Steps) /\ DOMAIN <<>> = {}
    OBVIOUS
  <2>3. CASE creation = <<>>
    BY <2>2, <2>3
  <2>4. CASE creation = <<e>>
    BY <2>1, <2>4
  <2> QED
    BY <1>4, <2>3, <2>4
<1>8. <<u>> \in Seq(Steps) /\ \A j \in DOMAIN <<u>> : <<u>>[j] \in {e, u}
  BY <1>3
<1>9. rest \o creation \in Seq(Steps) /\ Changes(rest \o creation, Final.steps, lost, {e, u})
  BY <1>5, <1>6, <1>7, ConcatChanges
<1>10. /\ (rest \o creation) \o <<u>> \in Seq(Steps)
       /\ Changes((rest \o creation) \o <<u>>, Final.steps, lost, {e, u})
  <2> DEFINE c == rest \o creation
             d == <<u>>
  <2> HIDE DEF c, d
  <2>1. c \o d \in Seq(Steps) /\ Changes(c \o d, Final.steps, lost, {e, u})
    BY <1>8, <1>9, ConcatChanges DEF c, d
  <2> QED
    BY <2>1 DEF c, d
<1>11. t \in Seq(Steps) /\ Changes(t, Final.steps, lost, {e, u})
  BY <1>5, <1>6, <1>10
<1> HIDE DEF t
<1>12. \A x \in lost : Lost("User", x)
  BY LostKinds DEF lost
<1>13. New("User", e) /\ New("User", u)
  <2>1. "create-named-user" \notin Downloads
    BY DEF Downloads
  <2> QED
    BY <1>3, <2>1, NewSteps DEF New, IsBuild
<1>14. \A q : Reached(q, "User")
  BY NoMarks DEF Unmarked
<1> QED
  BY <1>1, <1>3, <1>11, <1>12, <1>13, <1>14, KeptFinal

LEMMA EntrypointScriptDone ==
    ASSUME Inv, KeptInv, EntrypointScript
    PROVE  KeptInv'
<1> DEFINE c == [Step("COPY", "script") EXCEPT !.flag = "--chmod"]
           e == Step("ENTRYPOINT", "script")
           u == <<c, e>>
           r == removeSteps(Final.steps, "ENTRYPOINT")
           t == r \o u
           lost == OfKind("ENTRYPOINT")
<1>1. Override("EntrypointScript", InFinal(t))
  BY DEF EntrypointScript
<1>2. Final.steps \in Seq(Steps) /\ IsPlan(stages)
  BY <1>1, Found DEF Inv
<1>3. /\ c \in Steps /\ c.op = "COPY" /\ c.what = "script"
      /\ e \in Steps /\ e.op = "ENTRYPOINT" /\ e.what = "script" /\ ~e.cache
  BY Ends, MadeUncached
<1>4. ~c.cache
  BY DEF Step
<1> HIDE DEF c, e
<1>5. r \in Seq(Steps) /\ Changes(r, Final.steps, lost, {})
  BY <1>2, RemovedChanges
<1> HIDE DEF r, lost
<1>6. u \in Seq(Steps) /\ DOMAIN u = 1 .. 2 /\ u[1] = c /\ u[2] = e
  BY <1>3
<1> HIDE DEF u
<1>7. \A j \in DOMAIN u : u[j] \in {c, e}
  BY <1>6
<1>8. Changes(r, Final.steps, lost, {c, e})
  BY <1>5, WiderChanges
<1>9. t = r \o u
  OBVIOUS
<1> HIDE DEF t
<1>10. t \in Seq(Steps) /\ Changes(t, Final.steps, lost, {c, e})
  BY <1>5, <1>6, <1>7, <1>8, <1>9, ConcatChanges
<1>11. (\E l \in DOMAIN t : t[l] = u[1]) /\ (\E l \in DOMAIN t : t[l] = u[2])
  <2>1. 1 \in DOMAIN u /\ 2 \in DOMAIN u
    BY <1>6
  <2>2. Len(r) + 1 \in DOMAIN t /\ t[Len(r) + 1] = u[1]
    BY <1>5, <1>6, <1>9, <2>1, ConcatStep
  <2>3. Len(r) + 2 \in DOMAIN t /\ t[Len(r) + 2] = u[2]
    BY <1>5, <1>6, <1>9, <2>1, ConcatStep
  <2> QED
    BY <2>2, <2>3
<1>12. ASSUME NEW q, SameStages(q, stages), LastOf(q).steps = t
       PROVE  Reached(q, "EntrypointScript")
  <2>1. Stands(q, "COPY", "script")
    BY <1>2, <1>3, <1>6, <1>11, <1>12, StandsInFinal
  <2>2. Stands(q, "ENTRYPOINT", "script")
    BY <1>2, <1>3, <1>6, <1>11, <1>12, StandsInFinal
  <2>3. "EntrypointScript" \notin Settings
    BY DEF Settings
  <2> QED
    BY <2>1, <2>2, <2>3, ReachedMarks DEF Mark
<1>13. New("EntrypointScript", c) /\ New("EntrypointScript", e)
  BY <1>3, <1>4, NewSteps
<1>14. \A x \in lost : Lost("EntrypointScript", x)
  BY LostKinds DEF lost
<1> QED
  BY <1>1, <1>3, <1>10, <1>12, <1>13, <1>14, KeptFinal

LEMMA ExtraEnvDone ==
    ASSUME Inv, KeptInv, ExtraEnv
    PROVE  KeptInv'
<1> DEFINE s == Final.steps
           c == Step("ENV", "first")
           e == Step("ENV", "second")
           u == <<c, e>>
           t == s \o u
<1>1. Override("ExtraEnv", InFinal(t))
  BY DEF ExtraEnv
<1>2. s \in Seq(Steps) /\ IsPlan(stages)
  BY <1>1, Found DEF Inv
<1>3. /\ c \in Steps /\ c.op = "ENV" /\ c.what = "first" /\ ~c.cache
      /\ e \in Steps /\ e.op = "ENV" /\ e.what = "second" /\ ~e.cache
  BY Ends, MadeUncached
<1> HIDE DEF c, e
<1>4. u \in Seq(Steps) /\ DOMAIN u = 1 .. 2 /\ u[1] = c /\ u[2] = e
  BY <1>3
<1> HIDE DEF u, s
<1>5. \A j \in DOMAIN u : u[j] \in {c, e}
  BY <1>4
<1>6. Changes(s, s, {}, {c, e})
  BY NothingChanges
<1>7. t = s \o u
  OBVIOUS
<1> HIDE DEF t
<1>8. t \in Seq(Steps) /\ Changes(t, s, {}, {c, e})
  BY <1>2, <1>4, <1>5, <1>6, <1>7, ConcatChanges
<1>9. (\E l \in DOMAIN t : t[l] = u[1]) /\ (\E l \in DOMAIN t : t[l] = u[2])
  <2>1. 1 \in DOMAIN u /\ 2 \in DOMAIN u
    BY <1>4
  <2>2. Len(s) + 1 \in DOMAIN t /\ t[Len(s) + 1] = u[1]
    BY <1>2, <1>4, <1>7, <2>1, ConcatStep
  <2>3. Len(s) + 2 \in DOMAIN t /\ t[Len(s) + 2] = u[2]
    BY <1>2, <1>4, <1>7, <2>1, ConcatStep
  <2> QED
    BY <2>2, <2>3
<1>10. ASSUME NEW q, SameStages(q, stages), LastOf(q).steps = t
       PROVE  Reached(q, "ExtraEnv")
  <2>1. Stands(q, "ENV", "first")
    BY <1>2, <1>3, <1>4, <1>9, <1>10, StandsInFinal
  <2>2. Stands(q, "ENV", "second")
    BY <1>2, <1>3, <1>4, <1>9, <1>10, StandsInFinal
  <2>3. "ExtraEnv" \notin Settings
    BY DEF Settings
  <2> QED
    BY <2>1, <2>2, <2>3, ReachedMarks DEF Mark
<1>11. New("ExtraEnv", c) /\ New("ExtraEnv", e)
  BY <1>3, NewSteps
<1> QED
  BY <1>1, <1>3, <1>8, <1>10, <1>11, KeptFinal DEF s

LEMMA OneChanges ==
    ASSUME NEW s \in Seq(Steps), NEW i \in DOMAIN s, NEW e \in Steps,
           NEW t, t = [s EXCEPT ![i] = e],
           NEW lost, NEW new, Same(e, s[i]) \/ (s[i] \in lost /\ e \in new)
    PROVE  t \in Seq(Steps) /\ Changes(t, s, lost, new)
<1>1. t \in Seq(Steps) /\ DOMAIN t = DOMAIN s
  OBVIOUS
<1>2. \A j \in DOMAIN s : t[j] = IF j = i THEN e ELSE s[j]
  OBVIOUS
<1> QED
  BY <1>1, <1>2, SameAgain, InPlaceChanges

LEMMA ReplaceOrAddExposeDone ==
    ASSUME Inv, KeptInv, ReplaceOrAddExpose
    PROVE  KeptInv'
<1> DEFINE s == Final.steps
           i == IndexOf(s, {"EXPOSE"})
           a == Step("EXPOSE", "user")
           e == [s[i] EXCEPT !.what = "user"]
           t == IF i = 0 THEN Append(s, a) ELSE [s EXCEPT ![i].what = "user"]
           lost == OfKind("EXPOSE")
           new == {x \in Steps : x.op = "EXPOSE"}
<1>1. Override("Expose", InFinal(t))
  BY DEF ReplaceOrAddExpose
<1>2. s \in Seq(Steps) /\ IsPlan(stages)
  BY <1>1, Found DEF Inv
<1>3. i # 0 => i \in DOMAIN s /\ s[i].op = "EXPOSE"
  BY <1>2, IndexOfFirst
<1>4. a \in Steps /\ a.op = "EXPOSE" /\ a.what = "user"
  BY Ends
<1>5. t = IF i = 0 THEN Append(s, a) ELSE [s EXCEPT ![i] = e]
  OBVIOUS
<1> HIDE DEF i, a, s, t
<1>6. /\ t \in Seq(Steps) /\ Changes(t, s, lost, new)
      /\ \E l \in DOMAIN t : t[l].op = "EXPOSE" /\ t[l].what = "user"
  <2>1. CASE i = 0
    <3> DEFINE u == <<a>>
    <3>1. u \in Seq(Steps) /\ DOMAIN u = {1} /\ u[1] = a /\ t = s \o u
      BY <1>2, <1>4, <1>5, <2>1, ConcatAppends
    <3> HIDE DEF u
    <3>2. Changes(s, s, lost, new)
      BY NothingChanges
    <3>3. 1 \in DOMAIN u /\ \A j \in DOMAIN u : u[j] \in new
      BY <1>4, <3>1
    <3> HIDE DEF lost, new
    <3>4. t \in Seq(Steps) /\ Changes(t, s, lost, new)
      BY <1>2, <3>1, <3>2, <3>3, ConcatChanges
    <3>6. s \in Seq(Steps) /\ u \in Seq(Steps) /\ t = s \o u /\ 1 \in DOMAIN u
      BY <1>2, <3>1, <3>3
    <3>5. Len(s) + 1 \in DOMAIN t /\ t[Len(s) + 1] = u[1]
      BY <3>6, ConcatStep
    <3> QED
      BY <1>4, <3>1, <3>4, <3>5
  <2>2. CASE i # 0
    <3>1. i \in DOMAIN s /\ s[i] \in Steps /\ s[i].op = "EXPOSE"
      BY <1>2, <1>3, <2>2
    <3>2. e \in Steps /\ e.op = "EXPOSE" /\ e.what = "user"
      <4>1. "user" \in Whats
        BY DEF Whats
      <4> QED
        BY <3>1, <4>1 DEF Steps
    <3>3. s[i] \in lost /\ e \in new /\ t = [s EXCEPT ![i] = e]
      BY <1>5, <2>2, <3>1, <3>2 DEF OfKind
    <3> HIDE DEF lost, new, e
    <3>4. t \in Seq(Steps) /\ Changes(t, s, lost, new)
      BY <1>2, <3>1, <3>2, <3>3, OneChanges
    <3>5. t[i] = e /\ DOMAIN t = DOMAIN s
      BY <1>2, <3>1, <3>3
    <3> QED
      BY <3>1, <3>2, <3>4, <3>5
  <2> QED
    BY <2>1, <2>2
<1>7. ASSUME NEW q, SameStages(q, stages), LastOf(q).steps = t
      PROVE  Reached(q, "Expose")
  <2>1. Stands(q, "EXPOSE", "user")
    BY <1>2, <1>6, <1>7, StandsInFinal
  <2>2. "Expose" \notin Settings
    BY DEF Settings
  <2> QED
    BY <2>1, <2>2, ReachedMarks DEF Mark
<1>8. \A x \in new : New("Expose", x) /\ x.op \notin {"COPYFROM", "FETCHTOOL", "HEALTHCHECK"}
  <2> SUFFICES ASSUME NEW x \in Steps, x.op = "EXPOSE"
               PROVE  New("Expose", x)
    OBVIOUS
  <2> QED
    BY HasTurn DEF New, IsBuild
<1>9. \A x \in lost : Lost("Expose", x)
  BY LostKinds
<1> HIDE DEF lost, new
<1> QED
  BY <1>1, <1>6, <1>7, <1>8, <1>9, KeptFinal DEF s

LEMMA SetHealthcheckDone ==
    ASSUME Inv, KeptInv, SetHealthcheck
    PROVE  KeptInv'
<1> DEFINE e == [Step("HEALTHCHECK", "user") EXCEPT
                    !.flag = IF Has("HealthcheckOpts") THEN "timed" ELSE "none"]
           s == Final.steps
           r == removeSteps(s, "HEALTHCHECK")
           t == IF cfg["Healthcheck"] = "none" THEN r ELSE Append(r, e)
           lost == OfKind("HEALTHCHECK")
           new == {e}
<1>1. Override("Healthcheck", InFinal(t))
  BY DEF SetHealthcheck
<1>2. s \in Seq(Steps) /\ IsPlan(stages) /\ Usual(stages)
  BY <1>1, Found DEF Inv, KeptInv
<1>3. e \in Steps /\ e.op = "HEALTHCHECK" /\ (Has("HealthcheckOpts") => e.flag = "timed")
  <2>1. e.flag = IF Has("HealthcheckOpts") THEN "timed" ELSE "none"
    BY DEF Step
  <2> QED
    BY <2>1, Ends
<1> HIDE DEF e
<1>4. /\ r \in Seq(Steps) /\ Changes(r, s, lost, {})
      /\ \A l \in DOMAIN r : r[l].op # "HEALTHCHECK"
  BY <1>2, RemovedChanges
<1> HIDE DEF r, lost, new, s
<1>5. Changes(r, s, lost, new)
  BY <1>4, WiderChanges
<1>6. /\ t \in Seq(Steps) /\ Changes(t, s, lost, new)
      /\ \A l \in DOMAIN t : t[l].op = "HEALTHCHECK" => t[l] = e
  <2>1. CASE cfg["Healthcheck"] = "none"
    BY <1>4, <1>5, <2>1
  <2>2. CASE cfg["Healthcheck"] # "none"
    <3>1. Append(r, e) \in Seq(Steps) /\ Changes(Append(r, e), s, lost, new \cup {e})
      BY <1>3, <1>4, <1>5, AppendChanges
    <3>2. \A l \in DOMAIN Append(r, e) :
             Append(r, e)[l] = e \/ (l \in DOMAIN r /\ Append(r, e)[l] = r[l])
      BY <1>3, <1>4
    <3>3. new \cup {e} = new
      BY DEF new
    <3> QED
      BY <1>4, <2>2, <3>1, <3>2, <3>3
  <2> QED
    BY <2>1, <2>2
<1> HIDE DEF t
<1>7. ASSUME NEW q, SameStages(q, stages), LastOf(q).steps = t,
             \A i \in DOMAIN stages : i # Len(stages) => q[i] = stages[i]
      PROVE  Reached(q, "Healthcheck")
  <2>1. \A op, what : ~Mark("Healthcheck", op, what)
    BY DEF Mark
  <2>2. ASSUME Has("HealthcheckOpts")
        PROVE  Timed(q)
    <3>1. DOMAIN q = DOMAIN stages /\ Len(q) = Len(stages)
      BY <1>2, <1>7, SamePlan
    <3> QED
      BY <1>2, <1>3, <1>6, <1>7, <2>2, <3>1 DEF Timed, Usual, LastOf
  <2> QED
    BY <2>1, <2>2 DEF Reached
<1>8. New("Healthcheck", e)
  BY <1>3, HasTurn DEF New, IsBuild
<1>9. \A x \in lost : Lost("Healthcheck", x)
  BY LostKinds DEF lost
<1>10. \A x \in new : New("Healthcheck", x) /\ x.op # "COPYFROM" /\ x.op # "FETCHTOOL"
  BY <1>3, <1>8 DEF new
<1> QED
  BY <1>1, <1>6, <1>7, <1>9, <1>10, KeptFinal DEF s

\* What has had its turn before the field that has it.
LEMMA EarlierDone ==
    ASSUME Inv, KeptInv, NEW field, NEW q, Override(field, q),
           NEW f \in Fields, Has(f), Turn[f] \in Nat, Turn[field] \in Nat, Turn[f] < Turn[field]
    PROVE  Reached(stages, f)
<1>1. /\ todo # <<>> /\ Head(todo) = field /\ todo' = Tail(todo) /\ status = "planning" /\ TodoInv
      /\ todo \in Seq(Fields) /\ \A g \in ToSet(todo) : Turn[g] \in Nat
  <2>1. \A g \in Fields : Turn[g] \in Nat
    <3>1. \A k \in DOMAIN Order : Turn[Order[k]] = k /\ k \in Nat
      BY TurnInOrder
    <3> QED
      BY <3>1 DEF Fields, ToSet
  <2>2. todo \in Seq(Fields)
    BY DEF Inv, TodoInv
  <2>3. ToSet(todo) \subseteq Fields
    BY <2>2 DEF ToSet
  <2> QED
    BY <2>1, <2>2, <2>3 DEF Override, Inv, TodoInv
<1>2. /\ ToSet(todo) = {field} \cup ToSet(todo')
      /\ \A g \in ToSet(todo') : Turn[field] < Turn[g]
  BY <1>1, NextTurn
<1>3. f \notin ToSet(todo)
  BY <1>1, <1>2
<1> QED
  BY <1>1, <1>3 DEF KeptInv, Waits

LEMMA SetHealthcheckOptsDone ==
    ASSUME Inv, KeptInv, SetHealthcheckOpts
    PROVE  KeptInv'
<1> DEFINE s == Final.steps
           i == IndexOf(s, {"HEALTHCHECK"})
           e == [s[i] EXCEPT !.flag = "timed"]
           t == [s EXCEPT ![i].flag = "timed"]
<1>1. Override("HealthcheckOpts", IF Has("Healthcheck") \/ i = 0 THEN stages ELSE InFinal(t))
  BY DEF SetHealthcheckOpts
<1>2. /\ s \in Seq(Steps) /\ IsPlan(stages) /\ Usual(stages) /\ Once(s)
      /\ Len(stages) \in DOMAIN stages
  <2>1. s \in Seq(Steps) /\ IsPlan(stages) /\ Len(stages) \in DOMAIN stages
        /\ StepsHold(Len(stages), Len(stages), Final.from, s)
    BY <1>1, Found DEF Inv
  <2>2. Usual(stages)
    BY <1>1, Found DEF Inv, KeptInv
  <2> QED
    BY <2>1, <2>2 DEF StepsHold, Settled
<1>3. /\ i = 0 => \A j \in DOMAIN s : s[j].op # "HEALTHCHECK"
      /\ i # 0 => i \in DOMAIN s /\ s[i].op = "HEALTHCHECK"
  BY <1>2, IndexOfFirst
<1>4. t = [s EXCEPT ![i] = e]
  OBVIOUS
<1>5. \A op, what : ~Mark("HealthcheckOpts", op, what)
  BY DEF Mark
<1>6. \A q : Timed(q) => Reached(q, "HealthcheckOpts")
  BY <1>5 DEF Reached
<1> HIDE DEF i, t
<1>7. CASE Has("Healthcheck") \/ i = 0
  <2>1. ASSUME Has("Healthcheck")
        PROVE  Timed(stages)
    <3>1. Turn["Healthcheck"] \in Nat /\ Turn["HealthcheckOpts"] \in Nat
          /\ Turn["Healthcheck"] < Turn["HealthcheckOpts"] /\ "Healthcheck" \in Fields
      <4>1. Order[10] = "Healthcheck" /\ 10 \in DOMAIN Order
        BY DEF Order
      <4> QED
        BY <4>1, HasTurn DEF Fields, ToSet
    <3>2. Reached(stages, "Healthcheck")
      BY <1>1, <2>1, <3>1, EarlierDone
    <3>3. Has("HealthcheckOpts")
      BY <1>1, Found DEF Inv
    <3> QED
      BY <3>2, <3>3 DEF Reached
  <2>2. ASSUME i = 0
        PROVE  Timed(stages)
    BY <1>2, <1>3, <2>2 DEF Timed, Usual, Final
  <2>3. Reached(stages, "HealthcheckOpts")
    BY <1>6, <1>7, <2>1, <2>2
  <2>4. ChangesAll(stages, stages, {}, {})
    BY <1>2, NoneChanges
  <2> QED
    BY <1>1, <1>7, <2>3, <2>4, KeptSteps
<1>8. CASE ~Has("Healthcheck") /\ i # 0
  <2>1. i \in DOMAIN s /\ s[i] \in Steps /\ s[i].op = "HEALTHCHECK"
    BY <1>2, <1>3, <1>8
  <2>2. e \in Steps /\ Same(e, s[i]) /\ e.flag = "timed"
    BY <2>1 DEF Steps, Flags, Same
  <2> HIDE DEF e, s
  <2>3. t \in Seq(Steps) /\ Changes(t, s, {}, {})
    BY <1>2, <1>4, <2>1, <2>2, OneChanges
  <2>4. DOMAIN t = DOMAIN s /\ t[i] = e /\ \A j \in DOMAIN s : j # i => t[j] = s[j]
    BY <1>2, <1>4, <2>1
  <2>5. \A j \in DOMAIN t : t[j].op = "HEALTHCHECK" => t[j].flag = "timed"
    <3>1. \A j \in DOMAIN s : s[j].op = "HEALTHCHECK" => j = i
      BY <1>2, <2>1 DEF Once, Singles
    <3> QED
      BY <2>2, <2>4, <3>1
  <2>6. ASSUME NEW q, SameStages(q, stages), LastOf(q).steps = t,
               \A k \in DOMAIN stages : k # Len(stages) => q[k] = stages[k]
        PROVE  Reached(q, "HealthcheckOpts")
    <3>1. DOMAIN q = DOMAIN stages /\ Len(q) = Len(stages)
      BY <1>2, <2>6, SamePlan
    <3>2. Timed(q)
      BY <1>2, <2>5, <2>6, <3>1 DEF Timed, Usual, LastOf
    <3> QED
      BY <1>6, <3>2
  <2>7. Override("HealthcheckOpts", InFinal(t))
    BY <1>1, <1>8
  <2> QED
    BY <2>3, <2>6, <2>7, KeptFinal DEF s
<1> QED
  BY <1>7, <1>8

\* An override that inserts the one step it is about.
LEMMA InsertedDone ==
    ASSUME Inv, KeptInv, NEW field, field \notin Settings, NEW k \in DOMAIN stages,
           NEW t, NEW p, NEW e \in Steps, Inserted(t, stages[k].steps, p, e),
           Override(field, [stages EXCEPT ![k].steps = t]),
           New(field, e), e.op \notin {"COPYFROM", "HEALTHCHECK", "CMD", "ENTRYPOINT"},
           e.op = "FETCHTOOL" => e.what = "tool",
           \A op, what : Mark(field, op, what) => op = e.op /\ what = e.what
    PROVE  KeptInv'
<1> DEFINE N == {}
<1>1. IsPlan(stages) /\ stages[k].steps \in Seq(Steps)
  BY Found, StepsOf DEF Inv
<1>2. /\ t \in Seq(Steps) /\ Changes(t, stages[k].steps, N, N \cup {e})
      /\ p \in DOMAIN t /\ t[p] = e
  <2>1. Changes(stages[k].steps, stages[k].steps, N, N)
    BY NothingChanges
  <2>2. t \in Seq(Steps) /\ p \in DOMAIN t /\ t[p] = e
    BY <1>1 DEF Inserted
  <2> QED
    BY <1>1, <2>1, <2>2, InsertedChanges
<1>3. ASSUME NEW q, SameStages(q, stages), q[k].steps = t
      PROVE  Reached(q, field)
  <2>1. Stands(q, e.op, e.what)
    BY <1>1, <1>2, <1>3, StandsIn
  <2> QED
    BY <2>1, ReachedMarks
<1>4. N \cup {e} = {e} /\ \A x \in N : Lost(field, x)
  OBVIOUS
<1> HIDE DEF N
<1>5. Changes(t, stages[k].steps, N, {e})
  BY <1>2, <1>4
<1>6. \A x \in {e} : New(field, x) /\ x.op # "COPYFROM" /\ (x.op = "FETCHTOOL" => x.what = "tool")
         /\ (x.op = "HEALTHCHECK" => k = Len(stages))
  OBVIOUS
<1>7. t \in Seq(Steps)
  BY <1>2
<1> QED
  BY <1>3, <1>4, <1>5, <1>6, <1>7, KeptStage

LEMMA insertSystemDepsStepDone ==
    ASSUME Inv, KeptInv, insertSystemDepsStep
    PROVE  KeptInv'
<1> DEFINE e == ForImage(Run("system-deps"), First.from)
           s == First.steps
           t == InsertAfterLeading(s, {"WORKDIR"}, e)
<1>1. Override("SystemDeps", InFirst(t))
  BY DEF insertSystemDepsStep
<1>2. s \in Seq(Steps) /\ 1 \in DOMAIN stages /\ s = stages[1].steps
  BY <1>1, Found DEF Inv, First
<1>3. e \in Steps /\ e.op = "RUN" /\ e.what = "system-deps" /\ ~e.cache
  <2>1. ~e.cache
    BY DEF ForImage, Run, Step
  <2> QED
    BY <2>1, PackagesFit
<1> HIDE DEF e, s
<1>4. "USER" \notin {"WORKDIR"}
  OBVIOUS
<1>5. PICK p \in 1 .. Len(s) + 1 : Inserted(t, s, p, e)
  BY <1>2, <1>3, <1>4, InsertedAfterLeading
<1> HIDE DEF t
<1>6. New("SystemDeps", e)
  BY <1>3, HasTurn DEF New, IsBuild, Downloads
<1>7. "SystemDeps" \notin Settings
  BY DEF Settings
<1>8. \A op, what : Mark("SystemDeps", op, what) => op = e.op /\ what = e.what
  BY <1>3 DEF Mark
<1>9. Override("SystemDeps", [stages EXCEPT ![1].steps = t])
  BY <1>1 DEF InFirst
<1> QED
  BY <1>2, <1>3, <1>5, <1>6, <1>7, <1>8, <1>9, InsertedDone

LEMMA applyRuntimeSystemDepsDone ==
    ASSUME Inv, KeptInv, applyRuntimeSystemDeps
    PROVE  KeptInv'
<1> DEFINE e == ForImage(Run("runtime-deps"), Final.from)
           s == Final.steps
           t == InsertAfterLeading(s, {"ENV", "ARG"}, e)
           n == Len(stages)
<1>1. Override("RuntimeSystemDeps", InFinal(t))
  BY DEF applyRuntimeSystemDeps
<1>2. s \in Seq(Steps) /\ n \in DOMAIN stages /\ s = stages[n].steps
  BY <1>1, Found DEF Inv, Final
<1>3. e \in Steps /\ e.op = "RUN" /\ e.what = "runtime-deps" /\ ~e.cache
  <2>1. ~e.cache
    BY DEF ForImage, Run, Step
  <2> QED
    BY <2>1, PackagesFit
<1> HIDE DEF e, s
<1>4. "USER" \notin {"ENV", "ARG"}
  OBVIOUS
<1>5. PICK p \in 1 .. Len(s) + 1 : Inserted(t, s, p, e)
  BY <1>2, <1>3, <1>4, InsertedAfterLeading
<1> HIDE DEF t
<1>6. New("RuntimeSystemDeps", e)
  BY <1>3, HasTurn DEF New, IsBuild, Downloads
<1>7. "RuntimeSystemDeps" \notin Settings
  BY DEF Settings
<1>8. \A op, what : Mark("RuntimeSystemDeps", op, what) => op = e.op /\ what = e.what
  BY <1>3 DEF Mark
<1>9. Override("RuntimeSystemDeps", [stages EXCEPT ![n].steps = t])
  BY <1>1 DEF InFinal
<1> HIDE DEF n
<1> QED
  BY <1>2, <1>3, <1>5, <1>6, <1>7, <1>8, <1>9, InsertedDone

LEMMA applyRuntimeAssetsDone ==
    ASSUME Inv, KeptInv, applyRuntimeAssets
    PROVE  KeptInv'
<1> DEFINE s == Final.steps
           ops == {"CMD", "ENTRYPOINT"}
           e == [Step("COPY", "assets") EXCEPT !.flag = cfg["RuntimeAssets"]]
           t == InsertBeforeUser(s, ops, e)
           n == Len(stages)
<1>1. Override("RuntimeAssets", InFinal(t))
  BY DEF applyRuntimeAssets
<1>2. /\ s \in Seq(Steps) /\ n \in DOMAIN stages /\ s = stages[n].steps
      /\ cfg["RuntimeAssets"] \in {"none", "--chown"}
  <2>1. Values["RuntimeAssets"] = {"none", "--chown"}
    BY ValuesOf
  <2> QED
    BY <1>1, <2>1, Found DEF Inv, Final
<1>3. e \in Steps /\ e.op = "COPY" /\ e.what = "assets"
  <2>1. "COPY" \in Ops /\ "assets" \in Whats /\ cfg["RuntimeAssets"] \in Flags
    BY <1>2 DEF Ops, Whats, Flags
  <2>2. Step("COPY", "assets") \in Steps /\ Step("COPY", "assets").op = "COPY"
        /\ Step("COPY", "assets").what = "assets"
    BY <2>1, StepMade
  <2> QED
    BY <2>1, <2>2 DEF Steps
<1> HIDE DEF e, s, ops
<1>5. PICK p \in 1 .. Len(s) + 1 : Inserted(t, s, p, e)
  BY <1>2, <1>3, InsertedBeforeUser
<1> HIDE DEF t
<1>6. New("RuntimeAssets", e)
  BY <1>3, NewSteps
<1>7. "RuntimeAssets" \notin Settings
  BY DEF Settings
<1>8. \A op, what : Mark("RuntimeAssets", op, what) => op = e.op /\ what = e.what
  BY <1>3 DEF Mark
<1>9. Override("RuntimeAssets", [stages EXCEPT ![n].steps = t])
  BY <1>1 DEF InFinal
<1> HIDE DEF n
<1> QED
  BY <1>2, <1>3, <1>5, <1>6, <1>7, <1>8, <1>9, InsertedDone

LEMMA applyExternalToolsDone ==
    ASSUME Inv, KeptInv, applyExternalTools
    PROVE  KeptInv'
<1> DEFINE e == Step("FETCHTOOL", "tool")
           a == Append(First.steps, e)
           t == InsertBeforeUser(Final.steps, {}, e)
           n == Len(stages)
<1>1. Override("ExternalTools",
         IF cfg["ExternalTools"] = "builder" THEN InFirst(a) ELSE InFinal(t))
  BY DEF applyExternalTools
<1>2. /\ First.steps \in Seq(Steps) /\ 1 \in DOMAIN stages /\ First.steps = stages[1].steps
      /\ Final.steps \in Seq(Steps) /\ n \in DOMAIN stages /\ Final.steps = stages[n].steps
  BY <1>1, Found DEF Inv, First, Final
<1>3. e \in Steps /\ e.op = "FETCHTOOL" /\ e.what = "tool"
  BY FetchTool
<1> HIDE DEF e
<1>4. Inserted(a, First.steps, Len(First.steps) + 1, e)
  BY <1>2, <1>3, AppendInserts
<1>5. PICK p \in 1 .. Len(Final.steps) + 1 : Inserted(t, Final.steps, p, e)
  BY <1>2, <1>3, InsertedBeforeUser
<1> HIDE DEF a, t
<1>6. New("ExternalTools", e)
  BY <1>3, NewSteps
<1>7. "ExternalTools" \notin Settings
  BY DEF Settings
<1>8. \A op, what : Mark("ExternalTools", op, what) => op = e.op /\ what = e.what
  BY <1>3 DEF Mark
<1>9. CASE cfg["ExternalTools"] = "builder"
  <2>1. Override("ExternalTools", [stages EXCEPT ![1].steps = a])
    BY <1>1, <1>9 DEF InFirst
  <2> QED
    BY <1>2, <1>3, <1>4, <1>6, <1>7, <1>8, <2>1, InsertedDone
<1>10. CASE cfg["ExternalTools"] # "builder"
  <2>1. Override("ExternalTools", [stages EXCEPT ![n].steps = t])
    BY <1>1, <1>10 DEF InFinal
  <2> HIDE DEF n
  <2> QED
    BY <1>2, <1>3, <1>5, <1>6, <1>7, <1>8, <2>1, InsertedDone
<1> QED
  BY <1>9, <1>10

Commands(what) == {x \in Steps : x.op = "RUN" /\ x.what = what}

LEMMA LastRunChanges ==
    ASSUME NEW s \in Seq(Steps), NEW what \in {"user-install", "user-build"},
           NEW t, t = replaceLastRun(s, what)
    PROVE  /\ t \in Seq(Steps) /\ Changes(t, s, OfKind("RUN"), Commands(what))
           /\ \E l \in DOMAIN t : t[l].op = "RUN" /\ t[l].what = what
<1> DEFINE I == {i \in 1 .. Len(s) : s[i].op = "RUN"}
           k == SelectLastInSeq(s, LAMBDA e : e.op = "RUN")
<1>1. k = IF I # {} THEN Max(I) ELSE 0
  BY DEF SelectLastInSeq
<1>2. I # {} => Max(I) \in I
  <2>1. I \in SUBSET (1 .. Len(s)) /\ Len(s) \in Nat
    OBVIOUS
  <2> HIDE DEF I
  <2>2. I # {} => \E m \in I : \A i \in I : i <= m
    BY <2>1, Greatest
  <2> QED
    BY <2>1, <2>2 DEF Max
<1>3. DOMAIN s = 1 .. Len(s) /\ \A i \in I : i # 0
  OBVIOUS
<1>4. t = IF k = 0 THEN Append(s, Run(what)) ELSE [s EXCEPT ![k].what = what, ![k].tool = "any"]
  BY DEF replaceLastRun
<1>5. what \in Whats /\ "RUN" \in Ops /\ "any" \in Tools
  BY DEF Whats, Ops, Tools
<1> DEFINE new == Commands(what)
           lost == OfKind("RUN")
<1> HIDE DEF k
<1>6. CASE I = {}
  <2> DEFINE e == Run(what)
             u == <<e>>
  <2>1. e \in new /\ e \in Steps /\ e.op = "RUN" /\ e.what = what
    BY <1>5, StepMade DEF Run, Commands
  <2>2. t = Append(s, e)
    BY <1>1, <1>4, <1>6
  <2> HIDE DEF e, new, lost
  <2>3. u \in Seq(Steps) /\ DOMAIN u = {1} /\ u[1] = e /\ t = s \o u
    BY <2>1, <2>2, ConcatAppends
  <2> HIDE DEF u
  <2>4. 1 \in DOMAIN u /\ \A j \in DOMAIN u : u[j] \in new
    BY <2>1, <2>3
  <2>5. t \in Seq(Steps) /\ Changes(t, s, lost, new)
    <3>1. Changes(s, s, lost, new)
      BY NothingChanges
    <3> QED
      BY <2>3, <2>4, <3>1, ConcatChanges
  <2>6. Len(s) + 1 \in DOMAIN t /\ t[Len(s) + 1] = u[1]
    <3>1. u \in Seq(Steps) /\ t = s \o u /\ 1 \in DOMAIN u
      BY <2>3
    <3> QED
      BY <3>1, ConcatStep
  <2> QED
    BY <2>1, <2>3, <2>5, <2>6 DEF new, lost
<1>7. CASE I # {}
  <2>1. k \in DOMAIN s /\ k # 0 /\ s[k].op = "RUN" /\ s[k] \in Steps
    BY <1>1, <1>2, <1>3, <1>7
  <2> DEFINE e == [s[k] EXCEPT !.what = what, !.tool = "any"]
  <2>2. e \in Steps /\ e.op = "RUN" /\ e.what = what
    BY <1>5, <2>1 DEF Steps
  <2>3. t = [s EXCEPT ![k] = e]
    BY <1>4, <2>1
  <2> HIDE DEF e
  <2>4. e \in new /\ s[k] \in lost
    BY <2>1, <2>2 DEF Commands, OfKind
  <2> HIDE DEF new, lost
  <2>5. t \in Seq(Steps) /\ Changes(t, s, lost, new)
    BY <2>1, <2>2, <2>3, <2>4, OneChanges
  <2>6. k \in DOMAIN t /\ t[k] = e
    BY <2>1, <2>3
  <2> QED
    BY <2>2, <2>5, <2>6 DEF new, lost
<1> QED
  BY <1>6, <1>7

LEMMA InstallCmdDone ==
    ASSUME Inv, KeptInv, InstallCmd
    PROVE  KeptInv'
<1> DEFINE t == replaceLastRun(First.steps, "user-install")
           new == Commands("user-install")
<1>1. Override("InstallCmd", InFirst(t))
  BY DEF InstallCmd
<1>2. /\ First.steps \in Seq(Steps) /\ 1 \in DOMAIN stages /\ First.steps = stages[1].steps
      /\ Has("InstallCmd") /\ IsPlan(stages)
  BY <1>1, Found DEF Inv, First
<1>3. /\ t \in Seq(Steps) /\ Changes(t, First.steps, OfKind("RUN"), new)
      /\ \E l \in DOMAIN t : t[l].op = "RUN" /\ t[l].what = "user-install"
  BY <1>2, LastRunChanges
<1>4. Override("InstallCmd", [stages EXCEPT ![1].steps = t])
  BY <1>1 DEF InFirst
<1> HIDE DEF t
<1>5. ASSUME NEW q, SameStages(q, stages), q[1].steps = t
      PROVE  Reached(q, "InstallCmd")
  <2>1. Stands(q, "RUN", "user-install")
    BY <1>2, <1>3, <1>5, StandsIn
  <2>2. "InstallCmd" \notin Settings
    BY DEF Settings
  <2> QED
    BY <2>1, <2>2, ReachedMarks DEF Mark
<1>6. \A x \in new : New("InstallCmd", x) /\ x.op = "RUN"
  BY HasTurn DEF New, IsBuild, Commands
<1> HIDE DEF new
<1>7. \A x \in OfKind("RUN") : Lost("InstallCmd", x)
  BY <1>2, LostKinds
<1> QED
  BY <1>2, <1>3, <1>4, <1>5, <1>6, <1>7, KeptStage

LEMMA BuildCmdDone ==
    ASSUME Inv, KeptInv, BuildCmd
    PROVE  KeptInv'
<1> DEFINE k == BuildStage
           t == replaceLastRun(stages[k].steps, "user-build")
           q == [stages EXCEPT ![k].steps = t]
           new == Commands("user-build")
<1>1. Override("BuildCmd", IF k = 0 THEN stages ELSE q)
  BY DEF BuildCmd
<1>2. IsPlan(stages) /\ Len(stages) \in DOMAIN stages /\ Len(stages) \in Nat /\ Has("BuildCmd")
  BY <1>1, Found DEF Inv, IsPlan
<1>3. k \in 0 .. Len(stages) - 1 /\ Len(stages) \in Nat /\ DOMAIN stages = 1 .. Len(stages)
  BY <1>2, BuildStageIs DEF IsPlan
<1>4. "BuildCmd" \notin Settings
  BY DEF Settings
<1>5. k = 0 => SingleStage
  <2>1. k = 0 => StagesNamed("build") = {}
    <3>1. StagesNamed("build") # {} => BuildStage \in StagesNamed("build")
      BY DEF BuildStage
    <3> QED
      BY <1>3, <3>1 DEF StagesNamed
  <2>2. k = 0 => Len(stages) - 1 = 0
    BY <2>1 DEF BuildStage
  <2> QED
    BY <1>2, <2>2 DEF SingleStage
<1> HIDE DEF k
<1>6. CASE k = 0
  <2>1. Reached(stages, "BuildCmd")
    BY <1>4, <1>5, <1>6, ReachedMarks DEF Replaced, GivesWay
  <2>2. ChangesAll(stages, stages, {}, {})
    BY <1>2, NoneChanges
  <2> QED
    BY <1>1, <1>6, <2>1, <2>2, KeptSteps
<1>7. CASE k # 0
  <2>1. k \in DOMAIN stages
    BY <1>3, <1>7
  <2>2. stages[k].steps \in Seq(Steps)
    BY <1>2, <2>1, StepsOf
  <2>3. /\ t \in Seq(Steps) /\ Changes(t, stages[k].steps, OfKind("RUN"), new)
        /\ \E l \in DOMAIN t : t[l].op = "RUN" /\ t[l].what = "user-build"
    BY <2>2, LastRunChanges
  <2> HIDE DEF t
  <2>4. Override("BuildCmd", [stages EXCEPT ![k].steps = t])
    BY <1>1, <1>7
  <2>5. ASSUME NEW r, SameStages(r, stages), r[k].steps = t
        PROVE  Reached(r, "BuildCmd")
    <3>1. Stands(r, "RUN", "user-build")
      BY <1>2, <2>1, <2>3, <2>5, StandsIn
    <3> QED
      BY <1>4, <3>1, ReachedMarks DEF Mark
  <2>6. \A x \in new : New("BuildCmd", x) /\ x.op = "RUN"
    BY HasTurn DEF New, IsBuild, Commands
  <2> HIDE DEF new
  <2>7. \A x \in OfKind("RUN") : Lost("BuildCmd", x)
    BY <1>2, LostKinds
  <2> QED
    BY <2>1, <2>3, <2>4, <2>5, <2>6, <2>7, KeptStage
<1> QED
  BY <1>6, <1>7

LEMMA MappedDone ==
    ASSUME Inv, KeptInv, NEW field, NEW q, Override(field, q), NEW S, NEW F,
           Mapped(q, stages, S, F), \A s \in Steps : Same(F[s], s), Reached(q, field)
    PROVE  KeptInv'
<1>1. IsPlan(stages)
  BY Found DEF Inv
<1>2. ASSUME NEW i \in DOMAIN stages
      PROVE  Changes(q[i].steps, stages[i].steps, {}, {})
  <2>1. \A j \in DOMAIN stages[i].steps : stages[i].steps[j] \in Steps
    BY <1>1, StepsOf
  <2>2. DOMAIN q[i].steps = DOMAIN stages[i].steps
    BY DEF Mapped
  <2>3. \A j \in DOMAIN stages[i].steps : Same(q[i].steps[j], stages[i].steps[j])
    BY <2>1, SameAgain DEF Mapped
  <2> QED
    BY <2>2, <2>3 DEF Changes
<1>3. SameStages(q, stages)
  BY DEF Mapped
<1>4. ChangesAll(q, stages, {}, {})
  BY <1>2, <1>3 DEF ChangesAll
<1> QED
  BY <1>4, KeptSteps

LEMMA MappedStep ==
    ASSUME NEW p, IsPlan(p), NEW q, NEW S, NEW F, Mapped(q, p, S, F),
           NEW i \in DOMAIN q, NEW j \in DOMAIN q[i].steps
    PROVE  /\ i \in DOMAIN p /\ Len(q) = Len(p) /\ j \in DOMAIN p[i].steps
           /\ p[i].steps[j] \in Steps
           /\ i \in S => q[i].steps[j] = F[p[i].steps[j]]
<1>1. DOMAIN q = DOMAIN p /\ Len(q) = Len(p)
  BY SamePlan DEF Mapped
<1>2. DOMAIN q[i].steps = DOMAIN p[i].steps /\ (i \in S => q[i].steps[j] = F[p[i].steps[j]])
  BY <1>1 DEF Mapped
<1>3. p[i].steps[j] \in Steps
  BY <1>1, <1>2, StepsOf
<1> QED
  BY <1>1, <1>2, <1>3

LEMMA NoBuildCacheDone ==
    ASSUME Inv, KeptInv, NoBuildCache
    PROVE  KeptInv'
<1>1. IsPlan(stages)
  BY Found DEF NoBuildCache, Inv
<1>2. PICK q : Override("NoBuildCache", q) /\ Mapped(q, stages, DOMAIN stages, NoBuildCacheStep)
  BY <1>1, NoBuildCacheMaps
<1>3. \A s \in Steps : Same(NoBuildCacheStep[s], s) /\ ~NoBuildCacheStep[s].cache
  BY DEF NoBuildCacheStep, Steps, Same
<1>4. Uncached(q)
  <2> SUFFICES ASSUME NEW i \in DOMAIN q, NEW j \in DOMAIN q[i].steps
               PROVE  ~q[i].steps[j].cache
    BY DEF Uncached
  <2>1. i \in DOMAIN stages /\ stages[i].steps[j] \in Steps
        /\ (i \in DOMAIN stages => q[i].steps[j] = NoBuildCacheStep[stages[i].steps[j]])
    BY <1>1, <1>2, MappedStep
  <2> QED
    BY <1>3, <2>1
<1>5. Reached(q, "NoBuildCache")
  BY <1>4 DEF Reached, Mark
<1> QED
  BY <1>2, <1>3, <1>5, MappedDone

LEMMA applyLdFlagsDone ==
    ASSUME Inv, KeptInv, applyLdFlags
    PROVE  KeptInv'
<1>1. IsPlan(stages)
  BY Found DEF applyLdFlags, Inv
<1>2. PICK q : Override("LdFlags", q) /\ Mapped(q, stages, DOMAIN stages, applyLdFlagsStep)
  BY <1>1, applyLdFlagsMaps
<1>3. \A s \in Steps : /\ Same(applyLdFlagsStep[s], s)
                       /\ IsBuild(applyLdFlagsStep[s]) => applyLdFlagsStep[s].flag = "-X"
  BY DEF applyLdFlagsStep, Steps, Same, IsBuild
<1>4. Flagged(q)
  <2> SUFFICES ASSUME NEW i \in DOMAIN q, NEW j \in DOMAIN q[i].steps, IsBuild(q[i].steps[j])
               PROVE  q[i].steps[j].flag = "-X"
    BY DEF Flagged
  <2>1. i \in DOMAIN stages /\ stages[i].steps[j] \in Steps
        /\ (i \in DOMAIN stages => q[i].steps[j] = applyLdFlagsStep[stages[i].steps[j]])
    BY <1>1, <1>2, MappedStep
  <2> QED
    BY <1>3, <2>1
<1>5. Reached(q, "LdFlags")
  BY <1>4 DEF Reached, Mark
<1>6. \A s \in Steps : Same(applyLdFlagsStep[s], s)
  BY <1>3
<1> QED
  BY <1>2, <1>5, <1>6, MappedDone

LEMMA applySecretsDone ==
    ASSUME Inv, KeptInv, applySecrets
    PROVE  KeptInv'
<1>1. IsPlan(stages) /\ Len(stages) \in Nat /\ DOMAIN stages = 1 .. Len(stages)
  BY Found DEF applySecrets, Inv, IsPlan
<1>2. PICK q : Override("Secrets", q) /\ Mapped(q, stages, SecretStages, applySecretsStep)
  BY <1>1, applySecretsMaps
<1>3. \A s \in Steps : Same(applySecretsStep[s], s)
  BY DEF applySecretsStep, Steps, Same
<1>4. \A s \in Steps : applySecretsStep[s].op = "RUN" => "config" \in applySecretsStep[s].secrets
  BY DEF applySecretsStep, Steps
<1>5. Trusted(q)
  <2> SUFFICES ASSUME NEW i \in DOMAIN q, NEW j \in DOMAIN q[i].steps, Len(q) = 1 \/ i # Len(q),
                      q[i].steps[j].op = "RUN"
               PROVE  "config" \in q[i].steps[j].secrets
    BY DEF Trusted
  <2>1. /\ i \in DOMAIN stages /\ Len(q) = Len(stages) /\ stages[i].steps[j] \in Steps
        /\ i \in SecretStages => q[i].steps[j] = applySecretsStep[stages[i].steps[j]]
    BY <1>1, <1>2, MappedStep
  <2>2. i \in SecretStages
    <3>1. i \in 1 .. Len(stages)
      BY <1>1, <2>1
    <3> QED
      BY <1>1, <2>1, <3>1 DEF SecretStages, SingleStage
  <2> QED
    BY <1>4, <2>1, <2>2
<1>6. Reached(q, "Secrets")
  BY <1>5 DEF Reached, Mark
<1> QED
  BY <1>2, <1>3, <1>6, MappedDone

LEMMA applyGoWorkDone ==
    ASSUME Inv, KeptInv, applyGoWork
    PROVE  KeptInv'
<1>1. IsPlan(stages)
  BY Found DEF applyGoWork, Inv
<1>2. PICK q : /\ Override("UseGoWork", q)
                 /\ Mapped(q, stages, StagesNamed("builder"), applyGoWorkStep)
  BY <1>1, applyGoWorkMaps
<1>3. \A s \in Steps : Same(applyGoWorkStep[s], s)
  BY DEF applyGoWorkStep, Steps, Same
<1>4. Reached(q, "UseGoWork")
  BY NoMarks DEF Unmarked
<1> QED
  BY <1>2, <1>3, <1>4, MappedDone

LEMMA applyContextRootDone ==
    ASSUME Inv, KeptInv, applyContextRoot
    PROVE  KeptInv'
<1>1. IsPlan(stages)
  BY Found DEF applyContextRoot, Inv
<1>2. PICK q : Override("ContextRoot", q) /\ Mapped(q, stages, DOMAIN stages, applyContextRootStep)
  BY <1>1, applyContextRootMaps
<1>3. \A s \in Steps : Same(applyContextRootStep[s], s)
  BY DEF applyContextRootStep, Steps, Same
<1>4. Reached(q, "ContextRoot")
  BY NoMarks DEF Unmarked
<1> QED
  BY <1>2, <1>3, <1>4, MappedDone

LEMMA ApplySecretMountsDone ==
    ASSUME Inv, KeptInv, ApplySecretMounts
    PROVE  KeptInv'
<1> DEFINE I == {j \in 1 .. Len(First.steps) :
                    /\ First.steps[j].op = "RUN"
                    /\ First.steps[j].what \in {"install", "user-install"}}
           i == SelectInSeq(First.steps,
                    LAMBDA s : s.op = "RUN" /\ s.what \in {"install", "user-install"})
           e == [First.steps[i] EXCEPT !.secrets = @ \cup {"registry"}]
           t == [First.steps EXCEPT ![i] = e]
<1>1. Override("PrivateRegistry",
         IF i = 0 \/ framework \notin SecretsDetected THEN stages
         ELSE [stages EXCEPT ![1].steps[i].secrets = @ \cup {"registry"}])
  BY DEF ApplySecretMounts
<1>2. /\ First.steps \in Seq(Steps) /\ First.steps = stages[1].steps
      /\ IsPlan(stages) /\ 1 \in DOMAIN stages
  BY <1>1, Found DEF First, Inv
<1>3. i # 0 => i \in DOMAIN First.steps
  <2>1. i = IF I # {} THEN Min(I) ELSE 0
    BY DEF SelectInSeq
  <2>2. I \in SUBSET Nat /\ I \subseteq DOMAIN First.steps
    BY <1>2
  <2> HIDE DEF I, i
  <2>3. I # {} => Min(I) \in I
    BY <2>2, MinOfNaturals
  <2> QED
    BY <2>1, <2>2, <2>3
<1> HIDE DEF i
<1>4. \A q : Reached(q, "PrivateRegistry")
  BY NoMarks DEF Unmarked
<1>5. CASE i = 0 \/ framework \notin SecretsDetected
  <2>1. ChangesAll(stages, stages, {}, {})
    BY <1>2, NoneChanges
  <2> QED
    BY <1>1, <1>4, <1>5, <2>1, KeptSteps
<1>6. CASE ~(i = 0 \/ framework \notin SecretsDetected)
  <2>1. i \in DOMAIN First.steps /\ First.steps[i] \in Steps
    BY <1>2, <1>3, <1>6
  <2>2. e \in Steps /\ Same(e, First.steps[i])
    BY <2>1 DEF Steps, Same
  <2>3. [stages EXCEPT ![1].steps[i].secrets = @ \cup {"registry"}] = [stages EXCEPT ![1].steps = t]
    BY DEF First
  <2>4. Override("PrivateRegistry", [stages EXCEPT ![1].steps = t])
    BY <1>1, <1>6, <2>3
  <2> HIDE DEF e
  <2>5. t = [First.steps EXCEPT ![i] = e]
    OBVIOUS
  <2> HIDE DEF t
  <2>6. t \in Seq(Steps) /\ Changes(t, First.steps, {}, {})
    BY <1>2, <2>1, <2>2, <2>5, OneChanges
  <2> DEFINE N == {}
  <2>7. Changes(t, stages[1].steps, N, N)
    BY <1>2, <2>6
  <2>8. (\A x \in N : Lost("PrivateRegistry", x)) /\ (\A x \in N : FALSE)
    OBVIOUS
  <2> HIDE DEF N
  <2> QED
    BY <1>2, <1>4, <2>4, <2>6, <2>7, <2>8, KeptStage
<1> QED
  BY <1>5, <1>6

\* What Binaries takes away and puts there.
BinariesLost ==
    {e \in Steps : IsBuild(e) \/ e.op = "COPYFROM" \/ (e.op = "CMD" /\ ~Has("StartCmd"))}
BinariesNew == {Run("go-build-binaries"), CopyFrom("builder", "binaries"), Step("CMD", "binary")}

LEMMA BinariesLoses ==
    /\ \A e \in BinariesLost : \A f \in Fields :
          Has(f) /\ Turn[f] < Turn["Binaries"] /\ Mark(f, e.op, e.what) => Replaced(f)
    /\ \A e \in BinariesNew :
          New("Binaries", e) /\ e.op # "HEALTHCHECK" /\ e.op # "FETCHTOOL"
<1>1. ASSUME NEW e \in BinariesLost, NEW f \in Fields, Has(f), Mark(f, e.op, e.what)
      PROVE  FALSE
  <2>1. IsBuild(e) \/ e.op = "COPYFROM" \/ (e.op = "CMD" /\ ~Has("StartCmd"))
    BY DEF BinariesLost
  <2>2. CASE IsBuild(e)
    BY <1>1, <2>2 DEF IsBuild, Mark
  <2>3. CASE e.op = "COPYFROM"
    BY <1>1, <2>3 DEF Mark
  <2>4. CASE e.op = "CMD" /\ ~Has("StartCmd")
    BY <1>1, <2>4 DEF Mark
  <2> QED
    BY <2>1, <2>2, <2>3, <2>4
<1>2. New("Binaries", Run("go-build-binaries"))
  BY BinariesParts, HasTurn DEF New, Downloads
<1>3. New("Binaries", CopyFrom("builder", "binaries"))
  BY BinariesParts, NewSteps
<1>4. Step("CMD", "binary") \in Steps /\ Step("CMD", "binary").op = "CMD"
  BY Ends
<1>5. New("Binaries", Step("CMD", "binary"))
  BY <1>4, NewSteps
<1>6. \A e \in BinariesNew :
         New("Binaries", e) /\ e.op # "HEALTHCHECK" /\ e.op # "FETCHTOOL"
  BY <1>2, <1>3, <1>4, <1>5, BinariesParts DEF BinariesNew
<1> QED
  BY <1>1, <1>6

LEMMA BinariesStarts ==
    ASSUME NEW s \in Seq(Steps), NEW c, EachBy(c, s, BinariesCopy), NEW t,
           t = IF Has("StartCmd") THEN c ELSE Append(removeSteps(c, "CMD"), Step("CMD", "binary"))
    PROVE  /\ t \in Seq(Steps) /\ Changes(t, s, BinariesLost, BinariesNew)
           /\ \A j \in DOMAIN t : t[j].op = "COPYFROM" => \E l \in DOMAIN c : t[j] = c[l]
<1> DEFINE M == Step("CMD", "binary")
           r == removeSteps(c, "CMD")
<1>1. M \in Steps /\ M.op = "CMD" /\ M \in BinariesNew
  BY Ends DEF BinariesNew
<1>2. c \in Seq(Steps) /\ DOMAIN c = DOMAIN s /\ \A j \in DOMAIN s : s[j] \in Steps
  BY DEF EachBy
<1>3. \A j \in DOMAIN s : \/ c[j] = s[j]
                          \/ s[j] \in BinariesLost /\ c[j] \in BinariesNew
  <2>1. \A x \in Steps : \/ BinariesCopy[x] = x
                         \/ x \in BinariesLost /\ BinariesCopy[x] \in BinariesNew
    BY DEF BinariesCopy, BinariesLost, BinariesNew
  <2> QED
    BY <1>2, <2>1 DEF EachBy
<1>4. Changes(c, s, BinariesLost, BinariesNew)
  BY <1>2, <1>3, SameAgain, InPlaceChanges
<1>5. CASE Has("StartCmd")
  BY <1>2, <1>4, <1>5
<1>6. CASE ~Has("StartCmd")
  <2>1. /\ r \in Seq(Steps)
        /\ \A i \in DOMAIN r : \E j \in DOMAIN c : r[i] = c[j]
        /\ \A i \in DOMAIN c : c[i].op # "CMD" => \E j \in DOMAIN r : r[j] = c[i]
    BY <1>2, RemovedSteps DEF Derived
  <2>2. t = Append(r, M)
    BY <1>6
  <2> HIDE DEF r, M
  <2>3. \A j \in DOMAIN s : s[j].op = "CMD" => s[j] \in BinariesLost
    BY <1>2, <1>6 DEF BinariesLost
  <2>4. Changes(r, s, BinariesLost, BinariesNew)
    <3>1. ASSUME NEW j \in DOMAIN s, s[j] \notin BinariesLost
          PROVE  \E l \in DOMAIN r : Same(r[l], s[j])
      <4>1. c[j] = s[j] /\ s[j].op # "CMD"
        BY <1>3, <2>3, <3>1
      <4> QED
        BY <1>2, <2>1, <4>1, SameAgain
    <3>2. ASSUME NEW l \in DOMAIN r, r[l] \notin BinariesNew
          PROVE  \E j \in DOMAIN s : Same(r[l], s[j])
      BY <1>2, <1>3, <2>1, <3>2, SameAgain
    <3> QED
      BY <3>1, <3>2 DEF Changes
  <2>5. /\ Append(r, M) \in Seq(Steps)
        /\ Changes(Append(r, M), s, BinariesLost, BinariesNew \cup {M})
    BY <1>1, <2>1, <2>4, AppendChanges
  <2>6. BinariesNew \cup {M} = BinariesNew
    BY <1>1
  <2>7. t \in Seq(Steps) /\ Changes(t, s, BinariesLost, BinariesNew)
    BY <2>2, <2>5, <2>6
  <2>8. \A j \in DOMAIN t : t[j] = M \/ \E l \in DOMAIN r : t[j] = r[l]
    BY <1>1, <2>1, <2>2
  <2>9. \A j \in DOMAIN t : t[j].op = "COPYFROM" => \E l \in DOMAIN c : t[j] = c[l]
    BY <1>1, <2>1, <2>8
  <2> QED
    BY <2>7, <2>9
<1> QED
  BY <1>5, <1>6

LEMMA BinariesCopies ==
    ASSUME framework = "go", ~OwnCommands, IsPlan(stages), CopiesHold(stages),
           NEW q, SameStages(q, stages),
           \A i \in DOMAIN stages : i # Len(stages) =>
              EachBy(q[i].steps, stages[i].steps,
                     IF i \in StagesNamed("builder") THEN BinariesStep ELSE [s \in Steps |-> s]),
           NEW c, EachBy(c, Final.steps, BinariesCopy),
           \A j \in DOMAIN LastOf(q).steps :
              LastOf(q).steps[j].op = "COPYFROM" => \E l \in DOMAIN c : LastOf(q).steps[j] = c[l]
    PROVE  CopiesHold(q)
<1>1. /\ Len(stages) = 2 /\ stages[1].name = "builder" /\ DOMAIN stages = 1 .. 2
      /\ 1 \in StagesNamed("builder") /\ 1 \in DOMAIN stages /\ 2 \in DOMAIN stages
      /\ \E j \in DOMAIN stages[1].steps : IsBuild(stages[1].steps[j])
  BY DEF CopiesHold, IsPlan, StagesNamed
<1>2. CopiesFound(stages)
  BY DEF CopiesHold
<1>3. DOMAIN q = 1 .. 2 /\ Len(q) = 2 /\ q[1].name = "builder"
  BY <1>1, SamePlan
<1>4. /\ \A j \in DOMAIN stages[1].steps : stages[1].steps[j] \in Steps
      /\ \A j \in DOMAIN Final.steps : Final.steps[j] \in Steps
  BY <1>1, StepsOf DEF Final
<1>5. /\ DOMAIN q[1].steps = DOMAIN stages[1].steps
      /\ \A j \in DOMAIN stages[1].steps : q[1].steps[j] = BinariesStep[stages[1].steps[j]]
  BY <1>1 DEF EachBy
<1>6. /\ \A x \in Steps : IsBuild(x) => BinariesStep[x] = Run("go-build-binaries")
      /\ \A x \in Steps : BinariesStep[x].op = "COPYFROM" => x.op = "COPYFROM"
  BY BinariesParts DEF BinariesStep
<1>7. PICK j \in DOMAIN q[1].steps : q[1].steps[j] = Run("go-build-binaries")
  BY <1>1, <1>4, <1>5, <1>6
<1>8. IsBuild(q[1].steps[j]) /\ Leaves(q[1].steps[j], "binaries")
  BY <1>7, BinariesParts DEF IsBuild, Leaves, Makes
<1>9. \A l \in DOMAIN q[1].steps : q[1].steps[l].op # "COPYFROM"
  <2>1. \A l \in DOMAIN stages[1].steps : stages[1].steps[l].op # "COPYFROM"
    BY <1>1, <1>2 DEF CopiesFound
  <2> QED
    BY <1>4, <1>5, <1>6, <2>1
<1>10. \A l \in DOMAIN q[2].steps :
          q[2].steps[l].op = "COPYFROM" =>
             q[2].steps[l].stage = "builder" /\ q[2].steps[l].what = "binaries"
  <2> SUFFICES ASSUME NEW l \in DOMAIN q[2].steps, q[2].steps[l].op = "COPYFROM"
               PROVE  q[2].steps[l].stage = "builder" /\ q[2].steps[l].what = "binaries"
    OBVIOUS
  <2>1. PICK m \in DOMAIN c : q[2].steps[l] = c[m]
    BY <1>3 DEF LastOf
  <2>2. m \in DOMAIN Final.steps /\ c[m] = BinariesCopy[Final.steps[m]] /\ Final.steps[m] \in Steps
    BY <1>4 DEF EachBy
  <2>3. \/ c[m] = CopyFrom("builder", "binaries")
        \/ (/\ c[m] = Final.steps[m]
            /\ ~(Final.steps[m].op = "COPYFROM" /\ Final.steps[m].stage = "builder"))
    BY <2>2 DEF BinariesCopy
  <2>4. Final.steps[m].op = "COPYFROM" => Final.steps[m].stage = "builder"
    <3>1. Final = stages[2]
      BY <1>1 DEF Final
    <3>2. \A k \in 1 .. 2 - 1 : stages[k].name = "builder"
      BY <1>1
    <3> QED
      BY <1>1, <1>2, <2>2, <3>1, <3>2 DEF CopiesFound
  <2> QED
    BY <2>1, <2>2, <2>3, <2>4, BinariesParts
<1>11. CopiesFound(q)
  <2> SUFFICES ASSUME NEW i \in DOMAIN q, NEW l \in DOMAIN q[i].steps,
                      q[i].steps[l].op = "COPYFROM"
               PROVE  \E k \in 1 .. i - 1 :
                         /\ q[k].name = q[i].steps[l].stage
                         /\ \E m \in DOMAIN q[k].steps : Leaves(q[k].steps[m], q[i].steps[l].what)
    BY DEF CopiesFound
  <2>1. i = 2
    BY <1>3, <1>9
  <2>2. 1 \in 1 .. i - 1
    BY <2>1
  <2> QED
    BY <1>3, <1>8, <1>10, <2>1, <2>2
<1> QED
  BY <1>3, <1>8, <1>11 DEF CopiesHold

LEMMA applyBinariesDone ==
    ASSUME Inv, KeptInv, applyBinaries
    PROVE  KeptInv'
<1> DEFINE n == Len(stages)
           S == StagesNamed("builder")
<1>1. /\ IsPlan(stages) /\ n \in DOMAIN stages /\ Final.steps \in Seq(Steps) /\ Has("Binaries")
      /\ Final.steps = stages[n].steps /\ stages[n].name = "runtime"
      /\ Usual(stages) /\ CopiesHold(stages)
  BY Found DEF applyBinaries, Inv, KeptInv, Final, IsPlan
<1>2. PICK b, c, t :
         /\ Mapped(b, stages, S, BinariesStep) /\ EachBy(c, Final.steps, BinariesCopy)
         /\ t = IF Has("StartCmd") THEN c ELSE Append(removeSteps(c, "CMD"), Step("CMD", "binary"))
         /\ Override("Binaries", IF S = {} THEN stages ELSE [b EXCEPT ![n].steps = t])
  BY <1>1, BinariesMade
<1>3. \A r : Reached(r, "Binaries")
  <2>1. "Binaries" \notin Settings /\ \A op, what : ~Mark("Binaries", op, what)
    BY DEF Settings, Mark
  <2> QED
    BY <2>1, ReachedMarks
<1>4. CASE S = {}
  <2>1. ChangesAll(stages, stages, {}, {})
    BY <1>1, NoneChanges
  <2> QED
    BY <1>2, <1>3, <1>4, <2>1, KeptSteps
<1>5. CASE S # {}
  <2> DEFINE q == [b EXCEPT ![n].steps = t]
  <2>1. Override("Binaries", q)
    BY <1>2, <1>5
  <2>2. /\ t \in Seq(Steps) /\ Changes(t, Final.steps, BinariesLost, BinariesNew)
        /\ \A j \in DOMAIN t : t[j].op = "COPYFROM" => \E l \in DOMAIN c : t[j] = c[l]
    <3>1. PICK s : s = Final.steps
      OBVIOUS
    <3>2. s \in Seq(Steps) /\ EachBy(c, s, BinariesCopy)
          /\ t = IF Has("StartCmd") THEN c ELSE Append(removeSteps(c, "CMD"), Step("CMD", "binary"))
      BY <1>1, <1>2, <3>1
    <3>3. t \in Seq(Steps) /\ Changes(t, s, BinariesLost, BinariesNew)
      BY <3>2, BinariesStarts
    <3>4. \A j \in DOMAIN t : t[j].op = "COPYFROM" => \E l \in DOMAIN c : t[j] = c[l]
      BY <3>2, BinariesStarts
    <3> QED
      BY <3>1, <3>3, <3>4
  <2>3. SameStages(b, stages)
    BY <1>2 DEF Mapped
  <2>4. IsPlan(b) /\ DOMAIN b = DOMAIN stages /\ Len(b) = n
    BY <1>1, <2>3, SamePlan
  <2>5. SameStages(q, b) /\ q[n].steps = t /\ \A i \in DOMAIN b : i # n => q[i] = b[i]
    BY <1>1, <2>2, <2>4, StageSet
  <2> HIDE DEF q
  <2>6. SameStages(q, stages) /\ LastOf(q).steps = t
    <3>1. Len(q) = n
      BY <2>4, <2>5, SamePlan
    <3> QED
      BY <2>3, <2>4, <2>5, <3>1 DEF SameStages, LastOf
  <2>7. ASSUME NEW i \in DOMAIN stages, i # n
        PROVE  /\ EachBy(q[i].steps, stages[i].steps,
                         IF i \in S THEN BinariesStep ELSE [s \in Steps |-> s])
               /\ Changes(q[i].steps, stages[i].steps, BinariesLost, BinariesNew)
    <3>1. /\ q[i].steps \in Seq(Steps) /\ DOMAIN q[i].steps = DOMAIN stages[i].steps
          /\ \A j \in DOMAIN stages[i].steps : stages[i].steps[j] \in Steps
          /\ \A j \in DOMAIN stages[i].steps :
                q[i].steps[j] = IF i \in S THEN BinariesStep[stages[i].steps[j]]
                                ELSE stages[i].steps[j]
      BY <1>1, <1>2, <2>4, <2>5, <2>7, StepsOf DEF Mapped
    <3>2. EachBy(q[i].steps, stages[i].steps,
                 IF i \in S THEN BinariesStep ELSE [s \in Steps |-> s])
      <4> HIDE DEF S
      <4> HIDE DEF Steps
      <4> QED
        BY <3>1 DEF EachBy
    <3>3. \A j \in DOMAIN stages[i].steps :
             \/ q[i].steps[j] = stages[i].steps[j]
             \/ stages[i].steps[j] \in BinariesLost /\ q[i].steps[j] \in BinariesNew
      <4>1. \A x \in Steps : \/ BinariesStep[x] = x
                             \/ x \in BinariesLost /\ BinariesStep[x] \in BinariesNew
        BY DEF BinariesStep, BinariesLost, BinariesNew
      <4> QED
        BY <3>1, <4>1
    <3>4. Changes(q[i].steps, stages[i].steps, BinariesLost, BinariesNew)
      BY <3>1, <3>3, SameAgain, InPlaceChanges
    <3> QED
      BY <3>2, <3>4
  <2>8. ChangesAll(q, stages, BinariesLost, BinariesNew)
    <3>1. Changes(q[n].steps, stages[n].steps, BinariesLost, BinariesNew)
      BY <1>1, <2>2, <2>5
    <3>2. \A i \in DOMAIN stages : Changes(q[i].steps, stages[i].steps, BinariesLost, BinariesNew)
      BY <2>7, <3>1
    <3> QED
      BY <2>6, <3>2 DEF ChangesAll
  <2>9. Usual(q)
    BY <1>1, <2>8, BinariesLoses, UsualAfter
  <2>10. CopiesHold(q)
    <3>1. CASE OwnCommands
      BY <3>1 DEF CopiesHold
    <3>2. CASE ~OwnCommands /\ framework = "go"
      <4>1. \A j \in DOMAIN LastOf(q).steps :
               LastOf(q).steps[j].op = "COPYFROM" => \E l \in DOMAIN c : LastOf(q).steps[j] = c[l]
        BY <2>2, <2>6
      <4>2. \A i \in DOMAIN stages : i # Len(stages) =>
               EachBy(q[i].steps, stages[i].steps,
                      IF i \in StagesNamed("builder") THEN BinariesStep ELSE [s \in Steps |-> s])
        BY <2>7
      <4> QED
        BY <1>1, <1>2, <2>6, <3>2, <4>1, <4>2, BinariesCopies
    <3>3. CASE framework # "go"
      <4>1. PICK i \in DOMAIN stages : stages[i].name = "builder"
        BY <1>5 DEF StagesNamed
      <4>2. i \in DOMAIN q /\ q[i].name = "builder"
        BY <1>1, <2>6, <4>1, SamePlan
      <4> QED
        BY <1>1, <3>3, <4>2 DEF CopiesHold
    <3> QED
      BY <3>1, <3>2, <3>3
  <2>11. \A e \in BinariesNew : New("Binaries", e)
    BY BinariesLoses
  <2>12. \A e \in BinariesLost : \A f \in Fields :
            Has(f) /\ Turn[f] < Turn["Binaries"] /\ Mark(f, e.op, e.what) => Replaced(f)
    BY BinariesLoses
  <2> QED
    BY <1>3, <2>1, <2>8, <2>9, <2>10, <2>11, <2>12, KeptAfter
<1> QED
  BY <1>4, <1>5

-----------------------------------------------------------------------------
(* From the plan to what is handed out.                                    *)

LEMMA GoBuilds ==
    /\ Len(Planned["go"]) = 2 /\ Planned["go"][1].name = "builder"
    /\ \E j \in DOMAIN Planned["go"][1].steps : IsBuild(Planned["go"][1].steps[j])
<1>1. Planned["go"] = planGo
  BY DEF Planned
<1> DEFINE B == <<Workdir, Manifests, Cached("install"), Sources, Run("go-build")>>
<1>2. Len(planGo) = 2 /\ planGo[1].name = "builder" /\ planGo[1].steps = B
  BY DEF planGo, Stage
<1>3. 5 \in DOMAIN B /\ B[5] = Run("go-build")
  OBVIOUS
<1>4. IsBuild(Run("go-build"))
  BY Kinds DEF IsBuild
<1> HIDE DEF B
<1> QED
  BY <1>1, <1>2, <1>3, <1>4

LEMMA SoundUsual ==
    ASSUME NEW p, Sound(p)
    PROVE  Usual(p) /\ CopiesFound(p)
<1>1. /\ p \in Seq(PlainStages) /\ CopiesFound(p)
      /\ \A i \in DOMAIN p : i # Len(p) => Bare(p[i].steps)
  BY DEF Sound
<1>2. \A i \in DOMAIN p : \A j \in DOMAIN p[i].steps : p[i].steps[j].op # "FETCHTOOL"
  <2> SUFFICES ASSUME NEW i \in DOMAIN p, NEW j \in DOMAIN p[i].steps
               PROVE  p[i].steps[j].op # "FETCHTOOL"
    OBVIOUS
  <2>1. p[i] \in PlainStages
    BY <1>1
  <2>2. p[i].steps \in Seq(PlainSteps)
    BY <2>1 DEF PlainStages
  <2>3. p[i].steps[j] \in PlainSteps
    BY <2>2
  <2> QED
    BY <2>3 DEF PlainSteps
<1> QED
  BY <1>1, <1>2 DEF Usual, Bare

LEMMA PlanDone ==
    ASSUME Inv, status = "idle", NEW f \in Frameworks, NEW c \in Configs, Plan(f, c)
    PROVE  KeptInv'
<1>1. CASE status' = "error"
  BY <1>1 DEF KeptInv
<1>2. CASE status' # "error"
  <2>1. /\ stages' = Planned[f] /\ todo' = Overrides(cfg') /\ status' = "planning"
        /\ framework' = f
    BY <1>2 DEF Plan
  <2>2. ToSet(todo') = DOMAIN cfg' \cap Fields
    BY <2>1, OverridesWait DEF Fields
  <2>3. \A g \in Fields : g \in DOMAIN cfg' => g \in ToSet(todo')
    BY <2>2
  <2>4. ASSUME NEW p, p = stages', Sound(p)
        PROVE  (Usual(stages))' /\ (CopiesHold(stages))'
    <3>1. Usual(p) /\ CopiesFound(p)
      BY <2>4, SoundUsual
    <3>2. f = "go" => Len(p) = 2 /\ p[1].name = "builder"
                      /\ \E j \in DOMAIN p[1].steps : IsBuild(p[1].steps[j])
      BY <2>1, <2>4, GoBuilds
    <3> QED
      BY <2>1, <2>4, <3>1, <3>2 DEF Usual, CopiesHold, CopiesFound
  <2>5. (Usual(stages))' /\ (CopiesHold(stages))'
    BY <2>1, <2>4, PlannedSound
  <2> QED
    BY <2>3, <2>5 DEF KeptInv, Waits, Has
<1> QED
  BY <1>1, <1>2

LEMMA KeptUnchanged ==
    ASSUME KeptInv, UNCHANGED <<framework, cfg, stages, todo>>,
           status' \in {"planning", "done"} => status \in {"planning", "done"}
    PROVE  KeptInv'
<1>1. UNCHANGED framework /\ UNCHANGED cfg /\ UNCHANGED stages /\ UNCHANGED todo
  OBVIOUS
<1> SUFFICES ASSUME status' \in {"planning", "done"}
             PROVE  KeptInv'
  BY DEF KeptInv
<1>2. status \in {"planning", "done"}
  OBVIOUS
<1>3. (Usual(stages))' /\ (CopiesHold(stages))'
  BY <1>1, <1>2 DEF KeptInv, Usual, CopiesHold, CopiesFound, OwnCommands, Has
<1>4. \A f : (Replaced(f))' = Replaced(f)
  BY <1>1 DEF Replaced, GivesWay, SingleStage, Has
<1>5. \A f : (Reached(stages, f))' = Reached(stages, f)
  <2>1. /\ (Trusted(stages))' = Trusted(stages) /\ (Timed(stages))' = Timed(stages)
        /\ (Flagged(stages))' = Flagged(stages) /\ (Uncached(stages))' = Uncached(stages)
    BY <1>1 DEF Trusted, Timed, Flagged, Uncached
  <2>2. \A op, what : (Stands(stages, op, what))' = Stands(stages, op, what)
    BY <1>1 DEF Stands
  <2> QED
    BY <1>1, <1>4, <2>1, <2>2 DEF Reached, Has
<1>6. \A f : (Has(f))' = Has(f) /\ (Waits(f))' = Waits(f)
  BY <1>1 DEF Has, Waits
<1> QED
  BY <1>1, <1>2, <1>3, <1>5, <1>6 DEF KeptInv

LEMMA KeptStep == Inv /\ KeptInv /\ [Next]_vars => KeptInv'
<1> SUFFICES ASSUME Inv, KeptInv, [Next]_vars
             PROVE  KeptInv'
  OBVIOUS
<1>1. ASSUME status = "idle", NEW f \in Frameworks, NEW c \in Configs, Plan(f, c)
      PROVE  KeptInv'
  BY <1>1, PlanDone
<1>2. CASE BaseImage \/ RuntimeImage \/ insertSystemDepsStep \/ InstallCmd \/ BuildCmd
  BY <1>2, BaseImageDone, RuntimeImageDone, insertSystemDepsStepDone, InstallCmdDone, BuildCmdDone
<1>3. CASE StartCmd \/ NoBuildCache \/ ReplaceOrAddExpose \/ SetUser
  BY <1>3, StartCmdDone, NoBuildCacheDone, ReplaceOrAddExposeDone, SetUserDone
<1>4. CASE SetHealthcheck \/ SetHealthcheckOpts \/ EntrypointScript \/ Entrypoint \/ ExtraEnv
  BY <1>4, SetHealthcheckDone, SetHealthcheckOptsDone, EntrypointScriptDone, EntrypointDone,
     ExtraEnvDone
<1>5. CASE applySecrets \/ applyBinaries \/ applyLdFlags \/ applyRuntimeAssets \/ applyExternalTools
  BY <1>5, applySecretsDone, applyBinariesDone, applyLdFlagsDone, applyRuntimeAssetsDone,
     applyExternalToolsDone
<1>6. CASE applyGoWork \/ applyRuntimeSystemDeps \/ applyContextRoot \/ ApplySecretMounts
  BY <1>6, applyGoWorkDone, applyRuntimeSystemDepsDone, applyContextRootDone, ApplySecretMountsDone
<1>7. CASE NoPackageManager
  BY <1>7 DEF NoPackageManager, KeptInv
<1>8. CASE Dockerfile
  BY <1>8, KeptUnchanged DEF Dockerfile
<1>9. CASE Return
  BY <1>9 DEF Return, KeptInv
<1>10. CASE UNCHANGED vars
  <2>1. UNCHANGED <<framework, cfg, stages, todo>> /\ status' = status
    BY <1>10 DEF vars
  <2> QED
    BY <2>1, KeptUnchanged
<1> QED
  BY <1>1, <1>2, <1>3, <1>4, <1>5, <1>6, <1>7, <1>8, <1>9, <1>10 DEF Next

\* What a field has left, once it has had its turn, is still there or has given
\* way to another's.
THEOREM SettingsKept == Spec => [](Inv /\ KeptInv)
<1>1. Init => Inv /\ KeptInv
  BY InitHolds DEF Init, KeptInv
<1>2. Inv /\ KeptInv /\ [Next]_vars => (Inv /\ KeptInv)'
  BY StepKeeps, KeptStep
<1> QED
  BY <1>1, <1>2, PTL DEF Spec

LEMMA HandedKept ==
    ASSUME Inv, KeptInv, Handed
    PROVE  /\ IsPlan(stages) /\ Len(stages) \in DOMAIN stages /\ Usual(stages) /\ CopiesHold(stages)
           /\ \A f \in Fields : Has(f) => Reached(stages, f)
<1>1. todo = <<>> /\ status = "done"
  BY DEF Inv, TodoInv, Handed
<1>2. IsPlan(stages) /\ Len(stages) \in DOMAIN stages
  BY <1>1 DEF Inv, PlanInv, Holds, IsPlan
<1>3. \A f : ~Waits(f)
  BY <1>1 DEF Waits, ToSet
<1> QED
  BY <1>1, <1>2, <1>3 DEF KeptInv

\* One command, entrypoint, user, health check and port at most, and what the
\* user gave: each override takes away what it replaces, and comes last.
THEOREM StartsAsTold == Spec => []StartsWhatTheUserSays
<1>1. Inv /\ KeptInv => StartsWhatTheUserSays
  <2> SUFFICES ASSUME Inv, KeptInv, Handed
               PROVE  StartsWhatTheUserSays
    BY DEF StartsWhatTheUserSays
  <2> DEFINE of(op) == {i \in DOMAIN Final.steps : Final.steps[i].op = op}
  <2>1. /\ IsPlan(stages) /\ Len(stages) \in DOMAIN stages
        /\ \A f \in Fields : Has(f) => Reached(stages, f)
    BY HandedKept
  <2>2. Final.steps \in Seq(Steps) /\ Once(Final.steps)
    BY <2>1 DEF Inv, PlanInv, Handed, Holds, StepsHold, Settled, Final
  <2>3. ASSUME NEW op \in Singles
        PROVE  Cardinality(of(op)) <= 1
    <3>1. \A i, j \in of(op) : i = j
      BY <2>2 DEF Once
    <3> HIDE DEF of
    <3>2. CASE of(op) = {}
      BY <3>2, FS_EmptySet
    <3>3. CASE of(op) # {}
      <4>1. PICK i \in of(op) : TRUE
        BY <3>3
      <4>2. of(op) = {i}
        BY <3>1, <4>1
      <4> QED
        BY <4>2, FS_Singleton
    <3> QED
      BY <3>2, <3>3
  <2>4. ASSUME NEW f \in Fields, Has(f), ~Replaced(f), NEW op \in {"CMD", "ENTRYPOINT"},
               NEW what \in Whats, Mark(f, op, what)
        PROVE  \E i \in of(op) : Final.steps[i].what = what
    <3>1. op \in Ops
      BY DEF Ops
    <3>2. Stands(stages, op, what)
      BY <2>1, <2>4, <3>1 DEF Reached
    <3> QED
      BY <3>2 DEF Stands, Final
  <2>5. /\ {"StartCmd", "EntrypointScript", "Entrypoint"} \subseteq Fields
        /\ "user" \in Whats /\ "script" \in Whats
    BY FieldNames DEF Whats
  <2>6. /\ Mark("StartCmd", "CMD", "user") /\ Mark("EntrypointScript", "ENTRYPOINT", "script")
        /\ Mark("Entrypoint", "ENTRYPOINT", "user")
    BY DEF Mark
  <2>7. /\ ~Replaced("StartCmd") /\ ~Replaced("EntrypointScript")
        /\ ~Has("EntrypointScript") => ~Replaced("Entrypoint")
    BY DEF Replaced, GivesWay
  <2>8. Has("StartCmd") => \E i \in of("CMD") : Final.steps[i].what = "user"
    BY <2>4, <2>5, <2>6, <2>7
  <2>9. Has("EntrypointScript") => \E i \in of("ENTRYPOINT") : Final.steps[i].what = "script"
    BY <2>4, <2>5, <2>6, <2>7
  <2>10. Has("Entrypoint") /\ ~Has("EntrypointScript")
            => \E i \in of("ENTRYPOINT") : Final.steps[i].what = "user"
    BY <2>4, <2>5, <2>6, <2>7
  <2> QED
    BY <2>3, <2>8, <2>9, <2>10 DEF StartsWhatTheUserSays, Singles
<1> QED
  BY <1>1, SettingsKept, PTL

\* What a COPY --from copies is in an earlier stage: Binaries renames both at
\* once, and no other override takes away what is copied.
THEOREM CopiesFindTheirSource == Spec => []CopiedPathsExist
<1>1. Inv /\ KeptInv => CopiedPathsExist
  <2> SUFFICES ASSUME Inv, KeptInv, Handed, ~Has("InstallCmd"), ~Has("BuildCmd"),
                      Has("Binaries") => framework = "go" \/ StagesNamed("builder") = {}
               PROVE  CopiesFound(stages)
    BY DEF CopiedPathsExist, CopiesFound, Leaves
  <2>1. CopiesHold(stages)
    BY HandedKept
  <2> QED
    BY <2>1 DEF CopiesHold, OwnCommands, StagesNamed
<1> QED
  BY <1>1, SettingsKept, PTL

\* What a field marks in the plan is in the Dockerfile, and a line of it says
\* what the fields make each step say: every step is written, each as it is.
THEOREM SettingsWritten == Spec => []SettingsReachDockerfile
<1>1. Inv /\ KeptInv => SettingsReachDockerfile
  <2> SUFFICES ASSUME Inv, KeptInv, Handed
               PROVE  SettingsReachDockerfile
    BY DEF SettingsReachDockerfile, Handed
  <2> DEFINE lines == ToSet(dockerfile)
             runs == {d \in lines : d.instr = "RUN"}
  <2>1. /\ IsPlan(stages) /\ Len(stages) \in DOMAIN stages /\ Usual(stages)
        /\ DOMAIN stages = 1 .. Len(stages) /\ Len(stages) \in Nat
        /\ \A f \in Fields : Has(f) => Reached(stages, f)
    BY HandedKept DEF IsPlan
  <2>2. /\ \A d \in lines : Framing(d) \/ \E i \in DOMAIN stages : \E j \in DOMAIN stages[i].steps :
                                          WrittenAs(d, stages[i].steps[j], i)
        /\ \A i \in DOMAIN stages : \A j \in DOMAIN stages[i].steps :
              \E d \in lines : WrittenAs(d, stages[i].steps[j], i)
    BY DockerfileWritten
  <2> HIDE DEF lines
  \* A command run is that of a RUN step, or fetches a tool.
  <2>3. ASSUME NEW d \in runs
        PROVE  \E i \in DOMAIN stages : \E j \in DOMAIN stages[i].steps :
                  /\ WrittenAs(d, stages[i].steps[j], i)
                  /\ stages[i].steps[j].op = "RUN" \/ (d.what = "tool" /\ d.mounts = {})
    <3>1. d \in lines /\ d.instr = "RUN" /\ ~Framing(d)
      BY DEF Framing
    <3>2. PICK i \in DOMAIN stages : \E j \in DOMAIN stages[i].steps :
             WrittenAs(d, stages[i].steps[j], i)
      BY <2>2, <3>1
    <3>3. PICK j \in DOMAIN stages[i].steps : WrittenAs(d, stages[i].steps[j], i)
      BY <3>2
    <3>4. stages[i].steps[j].op \in {"RUN", "FETCHTOOL"}
      BY <3>1, <3>3 DEF WrittenAs, InstrOf
    <3>5. CASE stages[i].steps[j].op = "FETCHTOOL"
      BY <2>1, <3>3, <3>5 DEF Usual, WrittenAs
    <3> QED
      BY <3>3, <3>4, <3>5
  <2>4. ASSUME NEW field \in DOMAIN Written \cap DOMAIN cfg, NEW line \in Written[field],
               ~GivesWay(field)
        PROVE  \E d \in lines : <<d.instr, d.what>> = line
    <3>1. PICK op \in Ops, what \in Whats : Mark(field, op, what) /\ line = <<InstrOf(op), what>>
      <4>1. {"RUN", "CMD", "EXPOSE", "ENV", "COPY", "ENTRYPOINT", "FETCHTOOL"} \subseteq Ops
        BY DEF Ops
      <4>2. {"user-install", "user-build", "system-deps", "runtime-deps", "user", "first", "second",
             "script", "assets", "tool"} \subseteq Whats
        BY DEF Whats
      <4> HIDE DEF Ops, Whats
      <4> QED
        BY <4>1, <4>2 DEF Written, Mark, InstrOf
    <3>2. field \in Fields /\ Has(field) /\ ~Replaced(field)
      BY <2>4, FieldNames DEF Written, Has, Replaced
    <3>3. Stands(stages, op, what)
      BY <2>1, <3>1, <3>2 DEF Reached
    <3>4. PICK i \in DOMAIN stages : \E j \in DOMAIN stages[i].steps :
             stages[i].steps[j].op = op /\ stages[i].steps[j].what = what
      BY <3>3 DEF Stands
    <3>5. PICK j \in DOMAIN stages[i].steps :
             stages[i].steps[j].op = op /\ stages[i].steps[j].what = what
      BY <3>4
    <3>6. PICK d \in lines : WrittenAs(d, stages[i].steps[j], i)
      BY <2>2, <3>5
    <3> QED
      BY <3>1, <3>5, <3>6 DEF WrittenAs
  <2>5. {"LdFlags", "Secrets", "HealthcheckOpts", "NoBuildCache"} \subseteq Fields
    BY FieldNames
  <2>6. ASSUME Has("LdFlags"), NEW d \in runs, d.what \in {"go-build", "go-build-binaries"}
        PROVE  d.flag = "-X"
    <3>1. Flagged(stages)
      BY <2>1, <2>5, <2>6 DEF Reached
    <3>2. PICK i \in DOMAIN stages : \E j \in DOMAIN stages[i].steps :
             WrittenAs(d, stages[i].steps[j], i) /\ stages[i].steps[j].op = "RUN"
      BY <2>3, <2>6
    <3> QED
      BY <2>6, <3>1, <3>2 DEF Flagged, IsBuild, WrittenAs
  <2>7. ASSUME Has("Secrets"), ~Has("Binaries"), NEW d \in runs,
               SingleStage \/ d.part < Len(stages),
               d.what \in {"install", "user-install", "build", "go-build"}
        PROVE  "config" \in d.mounts
    <3>1. Trusted(stages)
      BY <2>1, <2>5, <2>7 DEF Reached
    <3>2. PICK i \in DOMAIN stages : \E j \in DOMAIN stages[i].steps :
             WrittenAs(d, stages[i].steps[j], i) /\ stages[i].steps[j].op = "RUN"
      BY <2>3, <2>7
    <3>3. PICK j \in DOMAIN stages[i].steps :
             WrittenAs(d, stages[i].steps[j], i) /\ stages[i].steps[j].op = "RUN"
      BY <3>2
    <3>4. Len(stages) = 1 \/ i # Len(stages)
      BY <2>1, <2>7, <3>3 DEF SingleStage, WrittenAs
    <3>5. "config" \in stages[i].steps[j].secrets
      BY <2>7, <3>1, <3>3, <3>4 DEF Trusted, Downloads, WrittenAs
    <3> QED
      BY <3>3, <3>5 DEF WrittenAs, writeRun
  <2>8. ASSUME Has("HealthcheckOpts"), NEW d \in lines, d.instr = "HEALTHCHECK"
        PROVE  d.flag = "timed"
    <3>1. Timed(stages)
      BY <2>1, <2>5, <2>8 DEF Reached
    <3>2. PICK i \in DOMAIN stages : \E j \in DOMAIN stages[i].steps :
             WrittenAs(d, stages[i].steps[j], i)
      BY <2>2, <2>8 DEF Framing
    <3>3. PICK j \in DOMAIN stages[i].steps : WrittenAs(d, stages[i].steps[j], i)
      BY <3>2
    <3>4. stages[i].steps[j].op = "HEALTHCHECK"
      BY <2>8, <3>3 DEF WrittenAs, InstrOf
    <3> QED
      BY <3>1, <3>3, <3>4 DEF Timed, WrittenAs
  <2>9. ASSUME Has("NoBuildCache"), NEW d \in runs
        PROVE  "cache" \notin d.mounts
    <3>1. Uncached(stages)
      BY <2>1, <2>5, <2>9 DEF Reached
    <3>2. PICK i \in DOMAIN stages : \E j \in DOMAIN stages[i].steps :
             /\ WrittenAs(d, stages[i].steps[j], i)
             /\ stages[i].steps[j].op = "RUN" \/ d.mounts = {}
      BY <2>3
    <3>3. PICK j \in DOMAIN stages[i].steps :
             /\ WrittenAs(d, stages[i].steps[j], i)
             /\ stages[i].steps[j].op = "RUN" \/ d.mounts = {}
      BY <3>2
    <3>4. CASE stages[i].steps[j].op = "RUN"
      <4>1. ~stages[i].steps[j].cache /\ d.mounts = stages[i].steps[j].secrets
        BY <3>1, <3>3, <3>4 DEF Uncached, WrittenAs, writeRun
      <4>2. stages[i].steps[j] \in Steps
        BY <2>1, StepsOf
      <4> QED
        BY <4>1, <4>2 DEF Steps
    <3> QED
      BY <3>3, <3>4
  <2> QED
    BY <2>4, <2>6, <2>7, <2>8, <2>9 DEF SettingsReachDockerfile, lines
<1> QED
  BY <1>1, SettingsKept, PTL
=============================================================================
