------------------------------ MODULE YamlDefs ------------------------------
(***************************************************************************)
(* What a YAML framework definition means (yamldef/): its detection rules, *)
(* where it finds the version and the package manager, and the build plan  *)
(* the two builders make of it.                                            *)
(*                                                                         *)
(* A project is a set of facts: <<f>> file f exists, <<d, "/">> directory  *)
(* d exists, <<f, t>> f contains (lists, matches) t, <<f, p, v>> the value *)
(* at path p of f is v, p = "" standing for the whole text.  A rule, a     *)
(* source and a step are records that have exactly the YAML fields set in  *)
(* the file.  Text is a sequence of words, a template variable being one.  *)
(***************************************************************************)
EXTENDS SequencesExt

\* The first of `kinds` (sets of fields) that are all set in record r, or 0.
KindOf(kinds, r) == SelectInSeq(kinds, LAMBDA k : k \subseteq DOMAIN r)

\* ContainedPath refuses what lies outside the project.
Contained(f) == f \notin {"../file", "/file"}
ValueAt(P, f, path) ==
    LET found == {x \in P : Len(x) = 3 /\ x[1] = f /\ x[2] = path}
    IN  IF found = {} \/ ~Contained(f) THEN "" ELSE (CHOOSE x \in found : TRUE)[3]

-----------------------------------------------------------------------------
(* Detection rules.                                                        *)

\* The names a glob pattern of the definitions stands for.
Globs == "next.config.*" :> {"next.config.js", "next.config.ts"}
Named(pattern) == IF pattern \in DOMAIN Globs THEN Globs[pattern] ELSE {pattern}

manifests == {"package.json", "requirements.txt", "go.mod", "Gemfile", "composer.json",
              "Cargo.toml", "mix.exs"}
hasDependency(P, dep) == \E f \in manifests : <<f, dep>> \in P

RuleKinds == << {"dependency"}, {"file", "contains"}, {"file", "regex"}, {"json", "path"},
                {"toml", "path"}, {"dir"}, {"file"}, {} >>

\* A rule with several kinds of field is decided by the first kind alone, one
\* with none, or with half of one, by nothing.
EvalRule(P, r) ==
    LET kind == RuleKinds[KindOf(RuleKinds, r)]
    IN  CASE kind = {"dependency"} -> hasDependency(P, r.dependency)
          [] kind = {"file", "contains"} -> Contained(r.file) /\ <<r.file, r.contains>> \in P
          [] kind = {"file", "regex"} -> Contained(r.file) /\ <<r.file, r.regex>> \in P
          [] kind = {"json", "path"} -> ValueAt(P, r.json, r.path) # ""
          [] kind = {"toml", "path"} -> ValueAt(P, r.toml, r.path) # ""
          [] kind = {"dir"} -> Contained(r.dir) /\ <<r.dir, "/">> \in P
          [] kind = {"file"} -> \* filepath.Glob lists directories too
                Contained(r.file) /\ \E f \in Named(r.file) : <<f>> \in P \/ <<f, "/">> \in P
          [] OTHER -> TRUE

EvalDetectRules(P, def) ==
    /\ \A r \in def.all : EvalRule(P, r)
    /\ def.any = {} \/ \E r \in def.any : EvalRule(P, r)
    /\ \A r \in def.none : ~EvalRule(P, r)

\* RunTestCaseForDef: an inline test builds its own project and asks def alone.
TestPasses(def, test) ==
    LET detected == EvalDetectRules(test.fixture, def)
    IN  /\ detected = test.detected
        /\ detected => test.framework \in {"", def.name} /\ test.port \in {"", def.port}

-----------------------------------------------------------------------------
(* Versions and package managers: the first source that yields something.  *)

FirstNonEmpty(values, default) ==
    LET i == SelectInSeq(values, LAMBDA v : v # "") IN IF i = 0 THEN default ELSE values[i]

SourceKinds == << {"file"}, {"json", "path"}, {"toml", "path"} >>
extractVersionFromSource(src, P) ==
    LET k == KindOf(SourceKinds, src)
    IN  CASE k = 1 -> ValueAt(P, src.file, "")
          [] k = 2 -> ValueAt(P, src.json, src.path)
          [] k = 3 -> ValueAt(P, src.toml, src.path)
          [] OTHER -> ""
ResolveVersion(def, P) ==
    FirstNonEmpty([i \in DOMAIN def.versions |-> extractVersionFromSource(def.versions[i], P)],
                  def.version)

\* "pnpm@8" names the package manager pnpm.
Unversioned(v) == IF v = "pnpm@8" THEN "pnpm" ELSE v
extractPMFromSource(src, P) ==
    LET k == KindOf(<< {"json", "path"}, {"file", "value"} >>, src)
    IN  CASE k = 1 -> Unversioned(ValueAt(P, src.json, src.path))
          [] k = 2 -> IF Contained(src.file) /\ <<src.file>> \in P THEN src.value ELSE ""
          [] OTHER -> ""
ResolvePM(def, P) ==
    FirstNonEmpty([i \in DOMAIN def.pms |-> extractPMFromSource(def.pms[i], P)], def.pm)

PMLockfileName(pm) ==
    CASE pm = "pnpm" -> "pnpm-lock.yaml" [] pm = "yarn" -> "yarn.lock" [] pm = "bun" -> "bun.lockb"
      [] pm \in {"pip", "python"} -> "requirements.txt" [] pm = "poetry" -> "poetry.lock"
      [] pm = "cargo" -> "Cargo.lock" [] pm \in {"bundler", "gem"} -> "Gemfile.lock"
      [] pm = "composer" -> "composer.lock"
      [] OTHER -> "package-lock.json"

ResolveInstallCommand(def, pm) == IF pm \in DOMAIN def.install THEN def.install[pm] ELSE <<>>

\* A build of the root is a guess that gives way to the service the module names.
namedGoBuildCommand(default, target) ==
    IF target \notin {"", "."} /\ (default = <<>> \/ Last(default) = ".")
    THEN <<"go build -o app", target>> ELSE default

-----------------------------------------------------------------------------
(* The two builders.                                                       *)

Failed == [framework |-> "error"]
Word(w) == IF w = "" THEN <<>> ELSE <<w>>

Vars(def, P) ==
    LET pm == ResolvePM(def, P)
        target == ValueAt(P, "main package", "")
        build == IF def.runtime = "go" THEN namedGoBuildCommand(def.build, target) ELSE def.build
    IN  "{{runtime}}" :> Word(def.runtime) @@ "{{version}}" :> Word(ResolveVersion(def, P)) @@
        "{{pm}}" :> Word(pm) @@ "{{lockfile}}" :> <<PMLockfileName(pm)>> @@
        "{{install_command}}" :> ResolveInstallCommand(def, pm) @@
        "{{build_command}}" :> build @@ "{{start_command}}" :> def.start @@
        "{{port}}" :> <<def.port>>

\* Mutant of Sub: the last variable is left out.
MutSub(text, vars, order) ==
    LET Replace(s, v) == FlattenSeq([i \in DOMAIN s |-> IF s[i] = v THEN vars[v] ELSE <<s[i]>>])
    IN  FoldLeft(Replace, text, Front(order))

\* Sub replaces the variables one after the other, in the order of a Go map:
\* any order.  A value may itself mention a variable.
Sub(text, vars, order) ==
    LET Replace(s, v) == FlattenSeq([i \in DOMAIN s |-> IF s[i] = v THEN vars[v] ELSE <<s[i]>>])
    IN  FoldLeft(Replace, text, order)

FieldOrder == << {"workdir"}, {"copy"}, {"copy_from"}, {"run"}, {"env"}, {"expose"}, {"cmd"} >>
FieldOrderDir == << {"workdir"}, {"copy_from"}, {"copy"}, {"run"}, {"env"}, {"cmd"}, {"expose"} >>

\* Mutant of resolveStep: one kind of step is not known to this builder.
MutResolveStep(step, vars, order) ==
    LET k == KindOf(SubSeq(FieldOrderDir, 1, 6), step)
        field == CHOOSE f \in FieldOrderDir[k] : TRUE
    IN  IF k = 0 THEN {} ELSE {[type |-> field, args |-> Sub(step[field], vars, order)]}

\* A step, or none where the code returns an error.
buildStepFromDef(step) ==
    LET k == KindOf(FieldOrder, step)
        field == CHOOSE f \in FieldOrder[k] : TRUE
    IN  IF k = 0 THEN {} ELSE {[type |-> field, args |-> step[field]]}
resolveStep(step, vars, order) ==
    LET k == KindOf(FieldOrderDir, step)
        field == CHOOSE f \in FieldOrderDir[k] : TRUE
    IN  IF k = 0 THEN {} ELSE {[type |-> field, args |-> Sub(step[field], vars, order)]}

\* An image: a literal one, or the tag of a base and a version ("" its default).
BaseTag(stage, version) == <<stage.base, version>>
buildFrom(stage, version) ==
    IF stage.from # "" THEN <<stage.from>> ELSE IF stage.base # "" THEN BaseTag(stage, version) ELSE <<>>
resolveFrom(stage, version) ==
    IF stage.base # "" THEN BaseTag(stage, version) ELSE IF stage.from # "" THEN <<stage.from>> ELSE <<>>

\* Stages in order; nothing of a plan is returned when one step or image is missing.
Assembled(def, port, From(_), StepOf(_)) ==
    LET Built(stage) == [name |-> stage.name, from |-> From(stage),
                         steps |-> [i \in DOMAIN stage.steps |-> StepOf(stage.steps[i])]]
        stages == [i \in DOMAIN def.stages |-> Built(def.stages[i])]
    IN  IF \E i \in DOMAIN stages : stages[i].from = <<>> \/ {} \in ToSet(stages[i].steps)
        THEN Failed
        ELSE [framework |-> def.name, expose |-> port, stages |-> stages]

\* fw: the port and the language version detection has filled in, ""
\* where it has not; a YAML detector fills in the port only.
versionForBase(base, fw) == IF base \in {"node", "python", "go"} THEN fw.version ELSE ""
BuildPlanFromDef(def, fw) ==
    LET port == IF fw.port # "" THEN fw.port ELSE def.port
    IN  IF def.stages = <<>> THEN Failed
        ELSE Assembled(def, port, LAMBDA s : buildFrom(s, versionForBase(s.base, fw)),
                       buildStepFromDef)

BuildPlanFromDefDir(def, P, order) ==
    Assembled(def, def.port, LAMBDA s : resolveFrom(s, ResolveVersion(def, P)),
              LAMBDA s : resolveStep(s, Vars(def, P), order))
=============================================================================
