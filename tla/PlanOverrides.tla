--------------------------- MODULE PlanOverrides ----------------------------
(***************************************************************************)
(* Plan of plan/dispatch.go: the plan of a framework, edited in place by   *)
(* the overrides of applyPlanOverrides, one after the other, each on what  *)
(* the earlier ones left, then by applyContextRoot and, in Build, by       *)
(* ApplySecretMounts.  What is left is written as a Dockerfile.            *)
(*                                                                         *)
(* A configuration is a function on the fields that are set, as in         *)
(* PlanConfig, where nil means not set.  User commands are assumed to hold *)
(* no "go-build" and an install command to look like one to secrets.go.    *)
(***************************************************************************)
EXTENDS Emission, Listing

CONSTANT Configs    \* the configurations to plan with

\* The fields of PlanConfig that edit the plan, in the order in which they do,
\* and the values told apart, "none" for what is off or absent; the last
\* stands for what Build finds in the project, credentials of a private registry.
Order ==
    <<"BaseImage", "RuntimeImage", "SystemDeps", "InstallCmd", "BuildCmd", "StartCmd",
      "NoBuildCache", "Expose", "User", "Healthcheck", "HealthcheckOpts", "EntrypointScript",
      "Entrypoint", "ExtraEnv", "Secrets", "Binaries", "LdFlags", "RuntimeAssets", "ExternalTools",
      "UseGoWork", "RuntimeSystemDeps", "ContextRoot", "PrivateRegistry">>
Images == {"alpine", "debian", "distroless"}
Values ==
    [field \in ToSet(Order) \cup {"ImageFamily"} |->
        CASE field = "BaseImage" -> {"alpine", "debian"}
          [] field \in {"RuntimeImage", "ImageFamily"} -> Images
          [] field = "User" -> {"none", "numeric", "named"}
          [] field = "Healthcheck" -> {"none", "command"}
          [] field = "ExternalTools" -> {"builder", "runtime"}
          [] field = "RuntimeAssets" -> {"none", "--chown"}
          [] OTHER -> {"set"}]

ASSUME ConfigsAssumption ==
    \A c \in Configs : /\ DOMAIN c \subseteq DOMAIN Values
                       /\ \A field \in DOMAIN c : c[field] \in Values[field]

VARIABLES
    framework, cfg,   \* the arguments of Plan
    stages,           \* the plan
    todo,             \* the overrides still to apply
    dockerfile,       \* the instructions written for the plan
    status            \* "idle", "planning", "done" or "error"

vars == <<framework, cfg, stages, todo, dockerfile, status>>

Has(field) == field \in DOMAIN cfg
SingleStage == Len(stages) = 1
First == stages[1]
Final == stages[Len(stages)]
InFirst(steps) == [stages EXCEPT ![1].steps = steps]
InFinal(steps) == [stages EXCEPT ![Len(stages)].steps = steps]

Init ==
    /\ framework = "none" /\ cfg = <<>>
    /\ stages = <<>> /\ todo = <<>> /\ dockerfile = <<>> /\ status = "idle"

-----------------------------------------------------------------------------
(* Edits of a list of steps.                                               *)

IndexOf(steps, ops) == SelectInSeq(steps, LAMBDA s : s.op \in ops)
IsBuild(step) == step.op = "RUN" /\ step.what \in {"go-build", "go-build-binaries"}

removeSteps(steps, op) == At(steps, {i \in DOMAIN steps : steps[i].op # op})

\* The step keeps its mounts; its tools are now those of the user's command.
replaceLastRun(steps, what) ==
    LET i == SelectLastInSeq(steps, LAMBDA s : s.op = "RUN") IN
    IF i = 0 THEN Append(steps, Run(what))
    ELSE [steps EXCEPT ![i].what = what, ![i].tool = "any"]

\* Mutant of InsertBeforeUser: everything is appended.
MutInsertBeforeUser(steps, ops, new) == Append(steps, new)

\* Before the first USER, else before the first of ops, else at the end.
InsertBeforeUser(steps, ops, new) ==
    LET user == IndexOf(steps, {"USER"})
        other == IndexOf(steps, ops)
    IN  InsertAt(steps, IF user # 0 THEN user ELSE IF other # 0 THEN other
                        ELSE Len(steps) + 1, new)

\* After the steps of kind ops that begin the list.
InsertAfterLeading(steps, ops, new) ==
    LET i == SelectInSeq(steps, LAMBDA s : s.op \notin ops)
    IN  InsertAt(steps, IF i = 0 THEN Len(steps) + 1 ELSE i, new)

\* All steps of all stages, or of those with an index in S.
MapSteps(S, F(_)) ==
    [i \in DOMAIN stages |->
        IF i \notin S THEN stages[i]
        ELSE [stages[i] EXCEPT !.steps = [j \in DOMAIN @ |-> F(@[j])]]]
StagesNamed(name) == {i \in DOMAIN stages : stages[i].name = name}

-----------------------------------------------------------------------------
(* Plan.                                                                   *)

\* resolveRuntimeImageForFramework
FamilySupported(f, family) ==
    \/ f \in {"go", "node", "nodeCorepack", "nodeOnBun", "nodeStatic", "python"}
    \/ f \in {"rails", "sinatra", "rust"} /\ family # "distroless"

\* ImageFamily counts when no RuntimeImage is given.
WithFamily(c) ==
    IF "ImageFamily" \notin DOMAIN c THEN c
    ELSE [field \in DOMAIN c \cup {"RuntimeImage"} |->
             IF field = "RuntimeImage" THEN c["ImageFamily"] ELSE c[field]]

Overrides(c) == At(Order, {i \in DOMAIN Order : Order[i] \in DOMAIN c})

Plan(f, c) ==
    /\ framework' = f
    /\ IF "ImageFamily" \in DOMAIN c /\ "RuntimeImage" \notin DOMAIN c
            /\ ~FamilySupported(f, c["ImageFamily"])
       THEN status' = "error" /\ UNCHANGED <<cfg, stages, todo>>
       ELSE /\ cfg' = IF "RuntimeImage" \in DOMAIN c THEN c ELSE WithFamily(c)
            /\ stages' = Planned[f]
            /\ todo' = Overrides(cfg')
            /\ status' = "planning"
    /\ UNCHANGED dockerfile

Override(field, result) ==
    /\ todo # <<>> /\ Head(todo) = field
    /\ stages' = result
    /\ todo' = Tail(todo)
    /\ UNCHANGED <<framework, cfg, dockerfile, status>>

-----------------------------------------------------------------------------
(* applyPlanOverrides.                                                     *)

BaseImage == Override("BaseImage", [stages EXCEPT ![1].from = cfg["BaseImage"]])

\* In a plan of one stage the base image wins.
RuntimeImage ==
    Override("RuntimeImage",
        IF SingleStage /\ Has("BaseImage") THEN stages
        ELSE [stages EXCEPT ![Len(stages)].from = cfg["RuntimeImage"]])

insertSystemDepsStep ==
    Override("SystemDeps",
        InFirst(InsertAfterLeading(First.steps, {"WORKDIR"},
                                   ForImage(Run("system-deps"), First.from))))

InstallCmd == Override("InstallCmd", InFirst(replaceLastRun(First.steps, "user-install")))

\* The stage called build, else the one before the last, else nowhere.
BuildStage ==
    IF StagesNamed("build") # {} THEN CHOOSE i \in StagesNamed("build") : TRUE
    ELSE Len(stages) - 1
BuildCmd ==
    Override("BuildCmd",
        IF BuildStage = 0 THEN stages
        ELSE [stages EXCEPT ![BuildStage].steps = replaceLastRun(@, "user-build")])

StartCmd ==
    Override("StartCmd",
        InFinal(Append(removeSteps(Final.steps, "CMD"), Step("CMD", "user"))))

NoBuildCache ==
    Override("NoBuildCache", MapSteps(DOMAIN stages, LAMBDA s : [s EXCEPT !.cache = FALSE]))

ReplaceOrAddExpose ==
    LET i == IndexOf(Final.steps, {"EXPOSE"}) IN
    Override("Expose",
        InFinal(IF i = 0 THEN Append(Final.steps, Step("EXPOSE", "user"))
                ELSE [Final.steps EXCEPT ![i].what = "user"]))

\* Mutant of createNamedUser: always the tools of Alpine.
MutCreateNamedUser(from) == <<ForImage(Run("create-named-user"), "alpine")>>

createNamedUser(from) ==
    IF from = "distroless" THEN <<>> ELSE <<ForImage(Run("create-named-user"), from)>>

SetUser ==
    LET rest == removeSteps(Final.steps, "USER")
        creation == IF cfg["User"] = "named" THEN createNamedUser(Final.from) ELSE <<>>
    IN  Override("User",
            InFinal(IF cfg["User"] = "none" THEN rest
                    ELSE rest \o creation \o <<User("user")>>))

SetHealthcheck ==
    LET rest == removeSteps(Final.steps, "HEALTHCHECK") IN
    Override("Healthcheck",
        InFinal(IF cfg["Healthcheck"] = "none" THEN rest
                ELSE Append(rest, [Step("HEALTHCHECK", "user") EXCEPT
                                       !.flag = IF Has("HealthcheckOpts") THEN "timed" ELSE "none"])))

\* The timing alone goes to the check that is there.
SetHealthcheckOpts ==
    LET i == IndexOf(Final.steps, {"HEALTHCHECK"}) IN
    Override("HealthcheckOpts",
        IF Has("Healthcheck") \/ i = 0 THEN stages
        ELSE InFinal([Final.steps EXCEPT ![i].flag = "timed"]))

EntrypointScript ==
    Override("EntrypointScript",
        InFinal(removeSteps(Final.steps, "ENTRYPOINT") \o
                <<[Step("COPY", "script") EXCEPT !.flag = "--chmod"],
                  Step("ENTRYPOINT", "script")>>))

\* Mutant of Entrypoint: the script does not rule it out.
MutEntrypoint ==
    Override("Entrypoint", InFinal(Append(Final.steps, Step("ENTRYPOINT", "user"))))

Entrypoint ==
    Override("Entrypoint",
        IF Has("EntrypointScript") THEN stages
        ELSE InFinal(Append(removeSteps(Final.steps, "ENTRYPOINT"), Step("ENTRYPOINT", "user"))))

\* Mutant of ExtraEnv: one step for all the variables.
MutExtraEnv ==
    Override("ExtraEnv", InFinal(Append(Final.steps, [Step("ENV", "user") EXCEPT !.flag = "pairs"])))

\* Of two variables, in the order of their names.
ExtraEnv ==
    Override("ExtraEnv", InFinal(Final.steps \o <<Step("ENV", "first"), Step("ENV", "second")>>))

applySecrets ==
    Override("Secrets",
        MapSteps(IF SingleStage THEN {1} ELSE 1 .. Len(stages) - 1,
                 LAMBDA s : IF s.op # "RUN" THEN s
                            ELSE [s EXCEPT !.secrets = @ \cup {"config"}]))

\* Mutant of applyBinaries: the copies of the runtime stage are left alone.
MutApplyBinaries ==
    Override("Binaries",
        MapSteps(StagesNamed("builder"), LAMBDA s : IF IsBuild(s) THEN Run("go-build-binaries") ELSE s))

\* One step stands for the steps of all the binaries.
applyBinaries ==
    LET build == MapSteps(StagesNamed("builder"),
                     LAMBDA s : IF IsBuild(s) THEN Run("go-build-binaries") ELSE s)
        copied == [j \in DOMAIN Final.steps |->
                      LET s == Final.steps[j] IN
                      IF s.op = "COPYFROM" /\ s.stage = "builder"
                      THEN CopyFrom("builder", "binaries") ELSE s]
        started == IF Has("StartCmd") THEN copied
                   ELSE Append(removeSteps(copied, "CMD"), Step("CMD", "binary"))
    IN  Override("Binaries",
            IF StagesNamed("builder") = {} THEN stages
            ELSE [build EXCEPT ![Len(stages)].steps = started])

applyLdFlags ==
    Override("LdFlags",
        MapSteps(DOMAIN stages, LAMBDA s : IF IsBuild(s) THEN [s EXCEPT !.flag = "-X"] ELSE s))

applyRuntimeAssets ==
    Override("RuntimeAssets",
        InFinal(InsertBeforeUser(Final.steps, {"CMD", "ENTRYPOINT"},
                    [Step("COPY", "assets") EXCEPT !.flag = cfg["RuntimeAssets"]])))

applyExternalTools ==
    Override("ExternalTools",
        IF cfg["ExternalTools"] = "builder"
        THEN InFirst(Append(First.steps, Step("FETCHTOOL", "tool")))
        ELSE InFinal(InsertBeforeUser(Final.steps, {}, Step("FETCHTOOL", "tool"))))

applyGoWork ==
    Override("UseGoWork",
        MapSteps(StagesNamed("builder"),
                 LAMBDA s : IF framework = "go" /\ s.what = "manifests"
                            THEN [s EXCEPT !.what = "manifests-and-go.work"] ELSE s))

applyRuntimeSystemDeps ==
    /\ Override("RuntimeSystemDeps",
           InFinal(InsertAfterLeading(Final.steps, {"ENV", "ARG"},
                                      ForImage(Run("runtime-deps"), Final.from))))
    /\ Final.from # "distroless"

\* A distroless image has no package manager: Plan returns an error.
NoPackageManager ==
    /\ todo # <<>> /\ Head(todo) = "RuntimeSystemDeps"
    /\ Final.from = "distroless"
    /\ status' = "error" /\ stages' = <<>> /\ todo' = <<>>
    /\ UNCHANGED <<framework, cfg, dockerfile>>

-----------------------------------------------------------------------------
(* What comes after the overrides.                                         *)

\* rewriteCopyArgs takes every argument but the last for a source: a flag
\* becomes a path.
applyContextRoot ==
    Override("ContextRoot",
        MapSteps(DOMAIN stages,
                 LAMBDA s : IF s.op # "COPY" \/ s.flag = "none" THEN s
                            ELSE [s EXCEPT !.flag = "path"]))

\* The planners whose private registries DetectXSecrets knows.
SecretsDetected ==
    {"node", "nodeCorepack", "nodeOnBun", "nodeStatic", "bun", "bunBuilt", "python", "go",
     "java", "rails", "sinatra"}

\* attachSecretToInstallStep: the first RUN that looks like an install.
ApplySecretMounts ==
    LET i == SelectInSeq(First.steps,
                 LAMBDA s : s.op = "RUN" /\ s.what \in {"install", "user-install"})
    IN  Override("PrivateRegistry",
            IF i = 0 \/ framework \notin SecretsDetected THEN stages
            ELSE [stages EXCEPT ![1].steps[i].secrets = @ \cup {"registry"}])

\* SecretBuildHint, put in front when there are secrets.
Hint == IF Has("PrivateRegistry") /\ framework \in SecretsDetected
        THEN <<Instruction("hint", 0, "secrets")>> ELSE <<>>

Dockerfile ==
    /\ status = "planning" /\ todo = <<>>
    /\ dockerfile' = Hint \o EmitDockerfile(stages)
    /\ status' = "done"
    /\ UNCHANGED <<framework, cfg, stages, todo>>

\* The plan command returns the plan itself.
Return ==
    /\ status # "idle" /\ todo = <<>>
    /\ status' = "idle" /\ framework' = "none" /\ cfg' = <<>> /\ stages' = <<>>
    /\ dockerfile' = <<>>
    /\ UNCHANGED todo

Next ==
    \/ status = "idle" /\ \E f \in Frameworks, c \in Configs : Plan(f, c)
    \/ BaseImage \/ RuntimeImage \/ insertSystemDepsStep \/ InstallCmd \/ BuildCmd
    \/ StartCmd \/ NoBuildCache \/ ReplaceOrAddExpose \/ SetUser \/ SetHealthcheck \/ SetHealthcheckOpts
    \/ EntrypointScript \/ Entrypoint \/ ExtraEnv \/ applySecrets \/ applyBinaries
    \/ applyLdFlags \/ applyRuntimeAssets \/ applyExternalTools \/ applyGoWork
    \/ applyRuntimeSystemDeps \/ NoPackageManager
    \/ applyContextRoot \/ ApplySecretMounts \/ Dockerfile \/ Return

Spec == Init /\ [][Next]_vars

-----------------------------------------------------------------------------
(* Properties.                                                             *)

\* A plan that Plan, or Build, hands out.
Handed == status = "done"

(* Whatever is combined with whatever, nothing that needs root follows the *)
(* USER step of the final stage, and "any --chown reference to a named user *)
(* is valid": an asset is copied after the account has been created, by the *)
(* planner or by the User override.  Only a builder tool, appended to the  *)
(* stage of a plan that has no other, comes too late.                      *)
RootStepsBeforeUser ==
    LET builderTool == Has("ExternalTools") /\ cfg["ExternalTools"] = "builder"
        creation == {"create-user", "create-named-user"}
    IN  Handed => \A i, j \in DOMAIN Final.steps :
          /\ ~(SingleStage /\ builderTool) =>
                (Final.steps[i].op = "USER" /\ Final.steps[j].op \in {"RUN", "FETCHTOOL"} => j < i)
          /\ IndexOf(Final.steps, {"USER"}) # 0 =>
                (Final.steps[i].what = "assets" /\ Final.steps[j].what \in creation => j < i)

(* The commands the overrides add call the tools of the image their stage  *)
(* ends up with, which another override may have set; and the Dockerfile   *)
(* asks for a shell in no image without one, unless the user chose that    *)
(* image or gave what runs in it.                                          *)
ChosenByUser ==
    {"BaseImage", "RuntimeImage", "ImageFamily", "Healthcheck", "ExternalTools"} \cap DOMAIN cfg
AddedStepsFitImage ==
    Handed =>
    /\ \A i \in DOMAIN stages : \A j \in DOMAIN stages[i].steps :
          LET step == stages[i].steps[j] IN
          step.what \in {"system-deps", "runtime-deps", "create-named-user"} =>
              step.tool = Tool(stages[i].from)
    /\ \A k \in DOMAIN dockerfile :
          LET stage == stages[dockerfile[k].part] IN
          dockerfile[k].form = "shell" /\ stage.from = "distroless" =>
              \/ ChosenByUser # {} /\ dockerfile[k].what # "create-named-user"

(* The final stage starts one thing: one CMD, ENTRYPOINT, USER, HEALTHCHECK*)
(* and EXPOSE at most, and the user's command, script or entrypoint is the *)
(* one that is left.                                                       *)
StartsWhatTheUserSays ==
    LET of(op) == {i \in DOMAIN Final.steps : Final.steps[i].op = op}
        only(op, what) == \E i \in of(op) : Final.steps[i].what = what
    IN  Handed =>
        /\ \A op \in {"CMD", "ENTRYPOINT", "USER", "HEALTHCHECK", "EXPOSE"} :
              Cardinality(of(op)) <= 1
        /\ Has("StartCmd") => only("CMD", "user")
        /\ Has("EntrypointScript") => only("ENTRYPOINT", "script")
        /\ Has("Entrypoint") /\ ~Has("EntrypointScript") => only("ENTRYPOINT", "user")

\* What a step leaves behind for a COPY --from to find.
Makes(step) ==
    CASE step.what \in {"install", "user-install"} -> "deps"
      [] step.what \in {"build", "user-build", "go-build"} -> "artifact"
      [] step.what = "go-build-binaries" -> "binaries"
      [] step.what = "sources" -> "app"
      [] OTHER -> step.what

(* Every COPY --from finds what it copies in an earlier stage, also where  *)
(* an override rewrites the build and the copy apart, as long as neither   *)
(* command is overridden and Binaries is used with Go.                     *)
CopiedPathsExist ==
    Handed /\ ~Has("InstallCmd") /\ ~Has("BuildCmd")
           /\ (Has("Binaries") => framework = "go" \/ StagesNamed("builder") = {}) =>
        \A i \in DOMAIN stages : \A j \in DOMAIN stages[i].steps :
            LET s == stages[i].steps[j] IN
            s.op = "COPYFROM" =>
                \E k \in 1 .. i - 1 : /\ stages[k].name = s.stage
                                      /\ \E l \in DOMAIN stages[k].steps :
                                            Makes(stages[k].steps[l]) = s.what

\* What an override is to leave in the Dockerfile, in which stage or not.
Written ==
    [InstallCmd |-> {<<"RUN", "user-install">>}, BuildCmd |-> {<<"RUN", "user-build">>},
     SystemDeps |-> {<<"RUN", "system-deps">>}, RuntimeSystemDeps |-> {<<"RUN", "runtime-deps">>},
     StartCmd |-> {<<"CMD", "user">>}, Expose |-> {<<"EXPOSE", "user">>},
     ExtraEnv |-> {<<"ENV", "first">>, <<"ENV", "second">>},
     EntrypointScript |-> {<<"COPY", "script">>, <<"ENTRYPOINT", "script">>},
     RuntimeAssets |-> {<<"COPY", "assets">>}, ExternalTools |-> {<<"RUN", "tool">>}]

\* A command given takes the place of what another override put there, a build
\* command has none in a plan of one stage.
GivesWay(field) ==
    \/ field \in {"InstallCmd", "SystemDeps"} /\ Has("BuildCmd")
    \/ field = "SystemDeps" /\ Has("InstallCmd")
    \/ field = "BuildCmd" /\ SingleStage

(* What the user sets is in the Dockerfile, past every later override and  *)
(* the writer, which leaves out a step it cannot write without a word:     *)
(* commands, variables, assets and tools; linker flags in each build of a  *)
(* Go plan, also those of Binaries; secrets in each command of the build   *)
(* stages that downloads or builds, unless Binaries replaces it; the       *)
(* timing of the health check; no cache where there is to be none.         *)
SettingsReachDockerfile ==
    LET lines == ToSet(dockerfile)
        runs == {d \in lines : d.instr = "RUN"}
    IN  status = "done" =>
        /\ \A field \in DOMAIN Written \cap DOMAIN cfg : \A line \in Written[field] :
              GivesWay(field) \/ \E d \in lines : <<d.instr, d.what>> = line
        /\ Has("LdFlags") =>
              \A d \in runs : d.what \in {"go-build", "go-build-binaries"} => d.flag = "-X"
        /\ Has("Secrets") /\ ~Has("Binaries") =>
              \A d \in runs : /\ SingleStage \/ d.part < Len(stages)
                              /\ d.what \in {"install", "user-install", "build", "go-build"}
                              => "config" \in d.mounts
        /\ Has("HealthcheckOpts") =>
              \A d \in lines : d.instr = "HEALTHCHECK" => d.flag = "timed"
        /\ Has("NoBuildCache") => \A d \in runs : "cache" \notin d.mounts

-----------------------------------------------------------------------------
(* What documents and comments of the repository say of the overrides.     *)

(* Each is a statement about one plan and the Dockerfile written for it.   *)

InFinalOps == {Final.steps[j].op : j \in DOMAIN Final.steps}

Documented ==
    [\* README: docksmith.toml "to override detected defaults", with an example
     \* of an [install] command: the plan no longer runs the detected one,
     InstallCommandReplacesInstall |->
        Has("InstallCmd") => \A j \in DOMAIN First.steps : First.steps[j].what # "install",
     \* and runs this one, also with a [build] command next to it;
     InstallCommandRuns |->
        Has("InstallCmd") =>
            \E k \in DOMAIN dockerfile : dockerfile[k].what = "user-install",
     \* a [start] command is what the container starts, not an argument of the
     \* detected one.
     StartCommandStarts |->
        Has("StartCmd") => \A j \in DOMAIN Final.steps :
            Final.steps[j].op = "ENTRYPOINT" => Final.steps[j].what # "default",
     \* README: "Every generated Dockerfile gets these by default".
     DefaultsEverywhere |->
        cfg = <<>> => /\ Len(stages) > 1 /\ "USER" \in InFinalOps
                      /\ \E k \in DOMAIN dockerfile : "cache" \in dockerfile[k].mounts,
     \* options.go, WithBinaries: "Only honoured by the Go plan builder".
     BinariesOnlyInGoPlans |->
        framework # "go" => \A j \in DOMAIN Final.steps : Final.steps[j].what # "binaries",
     \* dispatch.go: "copy the script into the runtime stage, make it executable".
     ScriptIsExecutable |->
        \A j \in DOMAIN Final.steps :
            Final.steps[j].what = "script" /\ Final.steps[j].op = "COPY"
                => Final.steps[j].flag = "--chmod",
     \* options.go, WithHealthcheckDisabled: "emits HEALTHCHECK NONE".
     HealthcheckNone |->
        Has("Healthcheck") /\ cfg["Healthcheck"] = "none" => "HEALTHCHECK" \in InFinalOps,
     \* options.go: "distroless" is an accepted image family, of images in which
     \* by hardening.go "there is no shell".
     FamilyFitsPlan |->
        Has("ImageFamily") =>
            \A k \in DOMAIN dockerfile :
                dockerfile[k].part = Len(stages) /\ dockerfile[k].instr = "RUN"
                    => Final.from # "distroless",
     \* dispatch.go: "applySecrets attaches secret mounts to RUN steps in
     \* install/build stages."
     SecretsReachBuilds |->
        Has("Secrets") => \A k \in DOMAIN dockerfile :
            dockerfile[k].instr = "RUN" /\ dockerfile[k].part \in 1 .. Len(stages) - 1
                => "config" \in dockerfile[k].mounts,
     \* dockerfile.go: "BuildKit syntax directive - must appear first."
     DirectiveFirst |-> dockerfile[1] = SyntaxDirective]
=============================================================================
