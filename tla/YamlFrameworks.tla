--------------------------- MODULE YamlFrameworks ---------------------------
(***************************************************************************)
(* The loader of FrameworkLoader together with what it is for: once the    *)
(* directories are loaded, projects are detected by the resulting registry *)
(* and the definition that answered is made into a plan, by Plan (which    *)
(* only knows names) or by one of the two builders of yamldef/build.go.    *)
(***************************************************************************)
EXTENDS FrameworkLoader, YamlDefs

CONSTANTS Definition,   \* [Defs -> what the file says]
          Projects,     \* the projects to be detected
          BuiltinHits,  \* [Projects -> the built-in detectors that recognise it]
          Classified,   \* the framework names core/classify.go knows
          Orders,       \* orders in which a Go map may be iterated
          NoProject, NoPlan

\* What the decoder of types.go keeps of a step.
StepFields == {"workdir", "copy", "copy_from", "run", "cache", "env", "cmd", "expose"}

ASSUME DefinitionAssumption ==
    \A d \in Defs : \A stage \in ToSet(Definition[d].stages) :
        \A step \in ToSet(stage.steps) : DOMAIN step \subseteq StepFields

VARIABLES project,  \* the project being detected
          reply,    \* the detector that recognised it
          built     \* the plan made for it

use == <<project, reply, built>>

Hits(P) == BuiltinHits[P] \cup {d \in Defs : EvalDetectRules(P, Definition[d])}

Loaded == pc = "idle" /\ calls = MaxCalls

Detect ==
    /\ Loaded /\ project = NoProject
    /\ \E P \in Projects : project' = P /\ reply' = FirstMatch(detectors, Hits(P))
    /\ UNCHANGED <<vars, built>>

FrameworkOf(d) == [name |-> Definition[d].name, port |-> Definition[d].port, version |-> ""]

\* Plan chooses a planner by the framework's name.
Plan ==
    /\ reply \in Defs /\ built = NoPlan
    /\ built' = IF Definition[reply].name \in Classified THEN [framework |-> Definition[reply].name] ELSE Failed
    /\ UNCHANGED <<vars, project, reply>>

FromDef ==
    /\ reply \in Defs /\ built = NoPlan
    /\ built' = BuildPlanFromDef(Definition[reply], FrameworkOf(reply))
    /\ UNCHANGED <<vars, project, reply>>

FromDefDir ==
    /\ reply \in Defs /\ built = NoPlan
    /\ \E order \in Orders : built' = BuildPlanFromDefDir(Definition[reply], project, order)
    /\ UNCHANGED <<vars, project, reply>>

UseInit == project = NoProject /\ reply = NoEntry /\ built = NoPlan
YamlInit == Init /\ UseInit
YamlNext ==
    \/ project = NoProject /\ Next /\ UNCHANGED use
    \/ Detect \/ Plan \/ FromDef \/ FromDefDir
YamlSpec == YamlInit /\ [][YamlNext]_<<vars, use>>

-----------------------------------------------------------------------------
(* Properties.                                                             *)

(* A built-in detector answers only for a project that none of the         *)
(* definitions found by the last load recognises, whatever else it has     *)
(* found, and a definition whose inline tests pass, loaded last, answers   *)
(* for every project its tests say it detects.                             *)
DefinitionsAnswerFirst ==
    project # NoProject =>
        LET loaded == SubSeq(detectors, 1, Len(detectors) - Len(Builtin))
        IN  /\ reply \in ToSet(Builtin) => Hits(project) \cap ToSet(loaded) = {}
            /\ \A d \in Defs : \A t \in Definition[d].tests :
                  /\ loaded # <<>> /\ d = loaded[1]
                  /\ TestPasses(Definition[d], t) /\ t.detected /\ t.fixture = project
                  => reply = d

\* types.go: exactly one action field per step, base and from mutually exclusive.
WellFormed(def) ==
    /\ def.stages # <<>>
    /\ \A s \in ToSet(def.stages) :
          /\ (s.base = "") # (s.from = "")
          /\ \A step \in ToSet(s.steps) : Cardinality(DOMAIN step \ {"cache"}) = 1

(* The two builders read a well-formed definition alike: both succeed, with *)
(* the same port, the same stages and literal images, and in each stage the *)
(* same kinds of step in the same order.  (They may differ in versions and  *)
(* in the text of the steps: only one of them looks at the project.)        *)
Kinds(steps) == [i \in DOMAIN steps |-> {s.type : s \in steps[i]}]
Shape(plan) == [i \in DOMAIN plan.stages |->
                    <<plan.stages[i].name, Len(plan.stages[i].from), Kinds(plan.stages[i].steps)>>]
Agreeing ==
    {pair \in Defs \X Projects :
        LET d == pair[1]
            P == pair[2]
            fromDef == BuildPlanFromDef(Definition[d], FrameworkOf(d))
        IN  \A order \in Orders :
                LET fromDir == BuildPlanFromDefDir(Definition[d], P, order)
                IN  /\ Failed \notin {fromDef, fromDir}
                    /\ fromDef.expose = fromDir.expose /\ Shape(fromDef) = Shape(fromDir)}
BuildersAgree ==
    reply \in Defs /\ WellFormed(Definition[reply]) => <<reply, project>> \in Agreeing

Tokens == UNION {ToSet(order) : order \in Orders}
Words(plan) == UNION {UNION {UNION {ToSet(s.args) : s \in steps[i]} : i \in DOMAIN steps} :
                        steps \in {plan.stages[k].steps : k \in DOMAIN plan.stages}}
\* No default of the definition mentions a variable.
FlatDefaults(def) ==
    LET texts == {def.build, def.start} \cup {def.install[pm] : pm \in DOMAIN def.install}
    IN  \A t \in texts : ToSet(t) \cap Tokens = {}

(* A definition whose defaults are plain text is expanded completely, in    *)
(* whichever order the variables are replaced; and where it has an install  *)
(* command for every package manager it can find, no RUN is left empty.     *)
Complete ==
    {pair \in Defs \X Projects :
        LET def == Definition[pair[1]]
            plans == {BuildPlanFromDefDir(def, pair[2], order) : order \in Orders}
            managers == {def.pm} \cup {s.value : s \in {s \in ToSet(def.pms) : "value" \in DOMAIN s}}
            Runs(plan) == {s \in UNION UNION {ToSet(t.steps) : t \in ToSet(plan.stages)} : s.type = "run"}
        IN  /\ Cardinality(plans) = 1
            /\ \A plan \in plans : Words(plan) \cap Tokens = {}
            /\ managers \subseteq DOMAIN def.install =>
                  \A plan \in plans : \A s \in Runs(plan) : s.args # <<>>}
ExpansionIsComplete ==
    reply \in Defs /\ FlatDefaults(Definition[reply]) /\ WellFormed(Definition[reply])
        => <<reply, project>> \in Complete

-----------------------------------------------------------------------------
(* What documents and comments say of definitions.                         *)

(* README: a definition without a plan is all it takes, "Docksmith uses the *)
(* standard Node build plan".                                               *)
DefinitionsArePlanned ==
    \A d \in ToSet(detectors) \cap Defs : Definition[d].name \in Classified

(* types.go: a rule with several kinds is "evaluated in the order: file,    *)
(* dir, contains, regex, dependency, json, toml".                           *)
DocumentedRuleOrder ==
    \A P \in Projects :
        EvalRule(P, [file |-> "package.json", dependency |-> "my-framework"])
            = EvalRule(P, [file |-> "package.json"])

(* CONTRIBUTING: a stage's base may mention the version, as in              *)
(* "node:{{version}}-alpine".  Neither builder expands it.                  *)
BasesAreExpanded ==
    LET stage == [base |-> "node:{{version}}-alpine", from |-> ""]
    IN  \A P \in Projects, d \in Defs :
            stage.base \notin ToSet(resolveFrom(stage, ResolveVersion(Definition[d], P)))

(* README: template variables "are expanded from the `defaults` block and  *)
(* detection results"; build.go: only "unknown tokens are left in-place".  *)
(* So no variable build.go names is left in a plan, also not one that a    *)
(* default mentions, in whichever order the map is iterated.               *)
VariablesAreExpanded ==
    \A d \in Defs, P \in Projects, order \in Orders :
        WellFormed(Definition[d]) =>
            Words(BuildPlanFromDefDir(Definition[d], P, order)) \cap Tokens = {}

(* types.go: the base of a stage is "Mutually exclusive with From": one    *)
(* that has both is refused, or is at least the same image to both builders. *)
BaseExcludesFrom ==
    LET stage == [base |-> "node", from |-> "alpine"]
    IN  \A version \in {ResolveVersion(Definition[d], P) : d \in Defs, P \in Projects} :
            \/ <<>> \in {buildFrom(stage, version), resolveFrom(stage, version)}
            \/ buildFrom(stage, version) = resolveFrom(stage, version)
=============================================================================
