----------------------------- MODULE BuildPlans -----------------------------
(***************************************************************************)
(* The build plans of package plan before any override: stages of steps,   *)
(* one plan for each kind of framework that the planners tell apart, and   *)
(* the stage edits of hardening.go they share.                             *)
(*                                                                         *)
(* A command is represented by its role, an image by its family (what the  *)
(* code looks for in the image name), a copied path by what is found there.*)
(***************************************************************************)
EXTENDS SequencesExt

\* `tool` is the distribution whose package or user tools a RUN calls, `flag`
\* what else the step says, `secrets` the secret mounts of a RUN.
Step(op, what) == [op |-> op, what |-> what, stage |-> "none", tool |-> "any",
                   cache |-> FALSE, secrets |-> {}, flag |-> "none"]
Stage(name, from, steps) == [name |-> name, from |-> from, steps |-> steps]

Run(what) == Step("RUN", what)
Cached(what) == [Run(what) EXCEPT !.cache = TRUE]
CopyFrom(stage, what) == [Step("COPYFROM", what) EXCEPT !.stage = stage]
Workdir == Step("WORKDIR", "app")
Manifests == Step("COPY", "manifests")
Sources == Step("COPY", "sources")
Env == Step("ENV", "default")
Expose == Step("EXPOSE", "default")
Start == Step("CMD", "default")
InShell(step) == [step EXCEPT !.flag = "shell"]
User(name) == Step("USER", name)
Healthcheck == Step("HEALTHCHECK", "default")

\* Which tools strings.Contains(from, "alpine") chooses.
Tool(from) == IF from = "alpine" THEN "alpine" ELSE "debian"
ForImage(step, from) == [step EXCEPT !.tool = Tool(from)]
Packages(from) == ForImage(Run("packages"), from)

(* hardening.go *)

CreateUser(from) == ForImage(Run("create-user"), from)
NonRoot(from) == <<CreateUser(from), User("appuser")>>
TiniBuild(from) == <<ForImage(Run("tini"), from)>>
TiniStart(builder) == <<CopyFrom(builder, "tini"), Step("ENTRYPOINT", "tini")>>
NginxUser == <<Run("prepare"), User("nginx"), Healthcheck>>

-----------------------------------------------------------------------------
(* The planners.                                                           *)

NodeDeps(image, setup) ==
    Stage("deps", image, <<Workdir>> \o setup \o <<Manifests, Cached("install")>>)
NodeBuild == Stage("build", "deps", <<Sources, Run("build")>>)

planNode(image, setup, user) ==
    LET deps == NodeDeps(image, setup) IN
    <<[deps EXCEPT !.steps = @ \o TiniBuild(image)], NodeBuild,
      Stage("runtime", image,
            <<Workdir, CopyFrom("build", "app"), Start>> \o TiniStart("deps")
              \o <<User(user), Healthcheck>>)>>

planNodeStatic ==
    <<NodeDeps("alpine", <<>>), NodeBuild,
      Stage("runtime", "alpine", <<CopyFrom("build", "artifact")>> \o NginxUser)>>

planBun(build) ==
    <<Stage("build", "debian", <<Workdir, Manifests, Run("install"), Sources>> \o build),
      Stage("runtime", "debian", <<Workdir, CopyFrom("build", "app"), Start,
                                   User("bun"), Healthcheck>>)>>

planDeno ==
    <<Stage("build", "debian", <<Workdir, Env, Sources, Run("install")>>),
      Stage("runtime", "debian", <<Workdir, CopyFrom("build", "app"), Start,
                                   User("deno"), Healthcheck>>)>>

planPython ==
    <<Stage("builder", "debian",
            <<Workdir, Packages("debian"), Manifests, Cached("install"), Sources>>
              \o TiniBuild("debian")),
      Stage("runtime", "debian",
            <<Workdir, Packages("debian"), CopyFrom("builder", "deps"),
              CopyFrom("builder", "app"), Env, Env, Expose, InShell(Start)>>
              \o TiniStart("builder") \o NonRoot("debian") \o <<Healthcheck>>)>>

planGo ==
    <<Stage("builder", "alpine",
            <<Workdir, Manifests, Cached("install"), Sources, Run("go-build")>>),
      Stage("runtime", "distroless",
            <<Workdir, CopyFrom("builder", "artifact"), User("nonroot"), Expose, Start>>)>>

planRuby(precompile) ==
    <<Stage("builder", "debian",
            <<Packages("debian"), Workdir, Manifests, Run("install"), Sources>> \o precompile),
      Stage("runtime", "debian",
            <<Packages("debian"), Workdir, CopyFrom("builder", "deps"),
              CopyFrom("builder", "app"), Env, Env, Env, Expose, Start>>
              \o NonRoot("debian") \o <<Healthcheck>>)>>

planPHPWordPress == <<Stage("runtime", "debian", <<Sources, Expose, Start>>)>>

planPHPLaravel ==
    <<Stage("builder", "alpine",
            <<Packages("alpine"), Run("composer"), Workdir, Manifests, Cached("install"),
              Sources, Run("build")>>),
      Stage("runtime", "alpine",
            <<Packages("alpine"), Workdir, CopyFrom("builder", "app"), Expose, Start,
              Run("prepare"), User("www-data"), Healthcheck>>)>>

planPHPComposer(install) ==
    <<Stage("runtime", "debian",
            <<Packages("debian")>> \o install \o <<Run("prepare"), Expose, Start>>)>>
ComposerInstall == <<Run("composer"), Workdir, Manifests, Cached("install"), Sources, Run("build")>>

planJava ==
    <<Stage("builder", "debian",
            <<Workdir, Manifests, Cached("install"), Sources, Run("build")>>),
      Stage("runtime", "alpine",
            <<Workdir, CopyFrom("builder", "artifact"), Expose, Start>>
              \o NonRoot("alpine") \o <<Healthcheck>>)>>

planDotnet(web) ==
    <<Stage("builder", "debian",
            <<Workdir, Manifests, Cached("install"), Sources, Run("build")>>),
      Stage("runtime", "debian",
            <<Workdir, CopyFrom("builder", "artifact")>> \o web
              \o <<Step("ENTRYPOINT", "default"), User("app"), Healthcheck>>)>>

planRust ==
    <<Stage("builder", "alpine",
            <<Packages("alpine"), Workdir, Manifests, Cached("install"), Sources, Run("build")>>),
      Stage("runtime", "distroless",
            <<Workdir, CopyFrom("builder", "artifact"), User("nonroot"), Expose, Start>>)>>

planElixir ==
    <<Stage("builder", "alpine",
            <<Packages("alpine"), Workdir, Env, Run("mix"), Manifests, Cached("install"),
              Sources, Run("build")>>),
      Stage("runtime", "alpine",
            <<Packages("alpine"), Workdir, CopyFrom("builder", "artifact"), Env, Expose, Start>>
              \o NonRoot("alpine") \o <<Healthcheck>>)>>

planStatic == <<Stage("runtime", "alpine", <<Sources, Expose, Start>> \o NginxUser)>>

\* The kinds of framework whose plans differ in their steps.
Planned ==
    [node |-> planNode("alpine", <<>>, "node"),
     nodeCorepack |-> planNode("alpine", <<Run("corepack")>>, "node"),
     nodeOnBun |-> planNode("debian", <<>>, "bun"),
     nodeStatic |-> planNodeStatic,
     bun |-> planBun(<<>>), bunBuilt |-> planBun(<<Run("build")>>), deno |-> planDeno,
     python |-> planPython, go |-> planGo,
     rails |-> planRuby(<<Run("build")>>), sinatra |-> planRuby(<<>>),
     wordpress |-> planPHPWordPress, laravel |-> planPHPLaravel,
     symfony |-> planPHPComposer(ComposerInstall),
     php |-> planPHPComposer(<<Workdir, Sources>>),
     java |-> planJava, worker |-> planDotnet(<<>>),
     aspnet |-> planDotnet(<<Env, Expose>>),
     rust |-> planRust, elixir |-> planElixir, static |-> planStatic]
Frameworks == DOMAIN Planned
=============================================================================
