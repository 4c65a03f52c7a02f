-------------------------- MODULE BuiltinDetectors --------------------------
(***************************************************************************)
(* The built-in detectors of detect/: the init functions that register     *)
(* them, in the order Go runs them, and what each one looks for.           *)
(*                                                                         *)
(* A project is a set of facts: <<f>> says that file f is present,         *)
(* <<f, t>> that it is present and contains t.  Spellings that the code    *)
(* treats alike (next.config.js, .mjs, .ts; the entry points of a Deno     *)
(* program; *.csproj) are one file here.                                   *)
(***************************************************************************)
EXTENDS RegistryOps

CONSTANTS Projects,  \* the projects a user may point docksmith at
          NoProject

File(P, f) == <<f>> \in P
Mentions(P, f, t) == <<f>> \in P /\ <<f, t>> \in P
Depends(P, t) == Mentions(P, "package.json", t)

-----------------------------------------------------------------------------
(* One operator per DetectorFunc: does it recognise the project?           *)

detectNextJS(P) == File(P, "next.config") \/ Depends(P, "next")
detectNuxt(P) == File(P, "nuxt.config") \/ Depends(P, "nuxt")
detectSvelteKit(P) == File(P, "svelte.config") \/ Depends(P, "@sveltejs/kit")
detectAstro(P) == File(P, "astro.config") \/ Depends(P, "astro")
detectRemix(P) == File(P, "remix.config") \/ Depends(P, "@remix-run")
detectGatsby(P) == File(P, "gatsby-config") \/ Depends(P, "gatsby")
detectVite(P) == File(P, "vite.config") \/ Depends(P, "vite")
detectCRA(P) == Depends(P, "react-scripts")
detectAngular(P) == File(P, "angular.json") \/ Depends(P, "@angular/core")
detectVueCLI(P) == File(P, "vue.config.js") \/ Depends(P, "@vue/cli-service")
detectSolidStart(P) == Depends(P, "@solidjs/start") \/ Depends(P, "solid-js")
detectNestJS(P) == File(P, "nest-cli.json") \/ Depends(P, "@nestjs/core")
detectExpress(P) == Depends(P, "express")
detectFastify(P) == Depends(P, "fastify")

hasBunLockfile(P) == File(P, "bun.lock")
detectBunElysia(P) == hasBunLockfile(P) /\ Depends(P, "elysia")
detectBunHono(P) == hasBunLockfile(P) /\ Depends(P, "hono")

\* Files that say "Node" to detectBunPlain.
nodeConfigs == {"next.config", "nuxt.config", "svelte.config", "astro.config",
                "remix.config", "gatsby-config", "vite.config", "angular.json",
                "vue.config.js", "nest-cli.json"}
detectBunPlain(P) ==
    /\ hasBunLockfile(P)
    /\ ~File(P, "package-lock.json")
    /\ \A f \in nodeConfigs : ~File(P, f)

detectDenoFresh(P) == Mentions(P, "deno.json", "$fresh") \/ File(P, "fresh.config.ts")
detectDenoOak(P) ==
    /\ File(P, "deno.json")
    /\ Mentions(P, "main.ts", "oak") \/ Mentions(P, "deno.json", "oak")
detectDenoPlain(P) == File(P, "deno.json") \/ File(P, "deno.jsonc")

detectDjango(P) ==
    File(P, "manage.py") /\ \E f \in {"requirements.txt", "Pipfile", "pyproject.toml"} : File(P, f)
detectFastAPI(P) == \E f \in {"requirements.txt", "pyproject.toml"} : Mentions(P, f, "fastapi")
detectFlask(P) == \E f \in {"requirements.txt", "pyproject.toml"} : Mentions(P, f, "flask")

\* goBuildPath found a main package it can build without guessing.
goBuildPath(P) == File(P, "main package")
detectGoGin(P) == Mentions(P, "go.mod", "gin") /\ goBuildPath(P)
detectGoEcho(P) == Mentions(P, "go.mod", "echo") /\ goBuildPath(P)
detectGoFiber(P) == Mentions(P, "go.mod", "fiber") /\ goBuildPath(P)
detectGoStd(P) == File(P, "go.mod") /\ goBuildPath(P)

detectRails(P) == File(P, "Gemfile") /\ File(P, "config/routes.rb")
detectSinatra(P) == Mentions(P, "Gemfile", "sinatra")

detectRustActix(P) == Mentions(P, "Cargo.toml", "actix-web")
detectRustAxum(P) == Mentions(P, "Cargo.toml", "axum")

detectElixirPhoenix(P) == Mentions(P, "mix.exs", "phoenix")

detectLaravel(P) == File(P, "artisan") /\ File(P, "composer.json")
detectWordPress(P) == File(P, "wp-config.php") \/ File(P, "wp-content")
detectSymfony(P) == \/ File(P, "symfony.lock") \/ File(P, "config/bundles.php")
                    \/ Mentions(P, "composer.json", "symfony")
detectSlim(P) == Mentions(P, "composer.json", "slim")
detectPlainPHP(P) == File(P, "index.php")

buildFiles == {"pom.xml", "build.gradle", "build.gradle.kts"}
javaFrameworks == {"spring-boot", "quarkus", "micronaut"}
detectSpringBoot(P) == \E f \in buildFiles : Mentions(P, f, "spring-boot")
detectQuarkus(P) == \E f \in buildFiles : Mentions(P, f, "quarkus")
detectMicronaut(P) == \E f \in buildFiles : Mentions(P, f, "micronaut")

detectMavenGeneric(P) ==
    File(P, "pom.xml") /\ \A t \in javaFrameworks : ~Mentions(P, "pom.xml", t)
\* The first Gradle file found is the only one looked into.
detectGradleGeneric(P) ==
    LET gradleFile == IF File(P, "build.gradle") THEN "build.gradle" ELSE "build.gradle.kts"
    IN  File(P, gradleFile) /\ \A t \in javaFrameworks : ~Mentions(P, gradleFile, t)

\* A WebAssembly reference is also a Microsoft.AspNetCore reference.
AspNetCoreRef(P) == Mentions(P, "csproj", "AspNetCore") \/ Mentions(P, "csproj", "WebAssembly")
detectAspNetCore(P) ==
    /\ File(P, "csproj") /\ ~Mentions(P, "csproj", "WebAssembly")
    /\ AspNetCoreRef(P) \/ Mentions(P, "Program.cs", "WebApplication")
detectBlazor(P) == Mentions(P, "csproj", "WebAssembly")

\* Mutant of detectDotnetWorker: web projects are not excluded.
MutDotnetWorker(P) == File(P, "csproj")
detectDotnetWorker(P) == File(P, "csproj") /\ ~AspNetCoreRef(P)

-----------------------------------------------------------------------------
(* The init functions: each a list of <<name, before>>, before = NoName    *)
(* for RegisterDetector.                                                   *)

Plain(names) == [i \in DOMAIN names |-> <<names[i], NoName>>]

initBun == Plain(<<"bun-elysia", "bun-hono", "bun-plain">>)
initDeno == << <<"deno", "node">>, <<"deno-oak", "deno">>, <<"deno-fresh", "deno-oak">> >>
initDotnet == Plain(<<"aspnet-core", "blazor", "dotnet-worker">>)
initElixir == Plain(<<"elixir-phoenix">>)
initGo == Plain(<<"go", "go-fiber", "go-echo", "go-gin">>)
initJava == Plain(<<"spring-boot", "quarkus", "micronaut", "maven", "gradle">>)
initNode == Plain(<<"fastify", "express", "nestjs", "solidstart", "vue-cli", "angular",
                    "create-react-app", "vite", "gatsby", "remix", "astro", "sveltekit",
                    "nuxt", "nextjs">>)

\* Mutant of initPHP: registered in the order in which they should be asked.
MutInitPHP == Plain(<<"laravel", "wordpress", "symfony", "slim", "php">>)
initPHP == Plain(<<"php", "slim", "symfony", "wordpress", "laravel">>)
initPython == Plain(<<"django", "fastapi", "flask">>)
initRuby == Plain(<<"sinatra", "rails">>)
initRust == Plain(<<"rust-axum", "rust-actix">>)

\* Go runs the init functions of a package file by file, in file-name order.
InitCalls ==
    initBun \o initDeno \o initDotnet \o initElixir \o initGo \o initJava
      \o initNode \o initPHP \o initPython \o initRuby \o initRust

Names == {InitCalls[i][1] : i \in DOMAIN InitCalls}

\* The function registered under each name, applied to P.
Verdicts(P) ==
    "nextjs" :> detectNextJS(P) @@ "nuxt" :> detectNuxt(P) @@
    "sveltekit" :> detectSvelteKit(P) @@ "astro" :> detectAstro(P) @@
    "remix" :> detectRemix(P) @@ "gatsby" :> detectGatsby(P) @@
    "vite" :> detectVite(P) @@ "create-react-app" :> detectCRA(P) @@
    "angular" :> detectAngular(P) @@ "vue-cli" :> detectVueCLI(P) @@
    "solidstart" :> detectSolidStart(P) @@ "nestjs" :> detectNestJS(P) @@
    "express" :> detectExpress(P) @@ "fastify" :> detectFastify(P) @@
    "bun-elysia" :> detectBunElysia(P) @@ "bun-hono" :> detectBunHono(P) @@
    "bun-plain" :> detectBunPlain(P) @@ "deno-fresh" :> detectDenoFresh(P) @@
    "deno-oak" :> detectDenoOak(P) @@ "deno" :> detectDenoPlain(P) @@
    "django" :> detectDjango(P) @@ "fastapi" :> detectFastAPI(P) @@
    "flask" :> detectFlask(P) @@ "go-gin" :> detectGoGin(P) @@
    "go-echo" :> detectGoEcho(P) @@ "go-fiber" :> detectGoFiber(P) @@
    "go" :> detectGoStd(P) @@ "rails" :> detectRails(P) @@
    "sinatra" :> detectSinatra(P) @@ "rust-actix" :> detectRustActix(P) @@
    "rust-axum" :> detectRustAxum(P) @@ "elixir-phoenix" :> detectElixirPhoenix(P) @@
    "laravel" :> detectLaravel(P) @@ "wordpress" :> detectWordPress(P) @@
    "symfony" :> detectSymfony(P) @@ "slim" :> detectSlim(P) @@
    "php" :> detectPlainPHP(P) @@ "spring-boot" :> detectSpringBoot(P) @@
    "quarkus" :> detectQuarkus(P) @@ "micronaut" :> detectMicronaut(P) @@
    "maven" :> detectMavenGeneric(P) @@ "gradle" :> detectGradleGeneric(P) @@
    "aspnet-core" :> detectAspNetCore(P) @@ "blazor" :> detectBlazor(P) @@
    "dotnet-worker" :> detectDotnetWorker(P)
Hits(P) == LET verdict == Verdicts(P) IN {d \in Names : verdict[d]}

\* The Framework.Name a detector answers with, where it is not its own name.
FrameworkName(d, P) ==
    CASE d = "bun-plain" -> "bun"
      [] d = "solidstart" /\ ~Depends(P, "@solidjs/start") -> "solidjs"
      [] OTHER -> d

\* The framework names Plan has a planner for.
PlannedFrameworks ==
    {"bun", "bun-elysia", "bun-hono", "deno", "deno-fresh", "deno-oak",
     "nextjs", "nuxt", "sveltekit", "astro", "remix", "gatsby", "vite", "create-react-app",
     "angular", "vue-cli", "solidstart", "nestjs", "express", "fastify",
     "django", "fastapi", "flask", "go", "go-gin", "go-echo", "go-fiber", "go-std", "go-chi",
     "rails", "sinatra", "laravel", "wordpress", "symfony", "slim", "php",
     "spring-boot", "quarkus", "micronaut", "maven", "gradle",
     "aspnet-core", "blazor", "dotnet-worker",
     "rust", "rust-generic", "rust-actix", "rust-axum", "elixir-phoenix", "static"}

-----------------------------------------------------------------------------
VARIABLES registry, \* detectors, as far as package init has come
          inits,    \* how many registrations have run
          project,  \* the project being detected
          answer    \* the detector that recognised it

vars == <<registry, inits, project, answer>>

Init == registry = <<>> /\ inits = 0 /\ project = NoProject /\ answer = NoEntry

RunInit ==
    /\ inits < Len(InitCalls)
    /\ LET call == InitCalls[inits + 1]
       IN  registry' = Registered(registry, call[2], call[1])
    /\ inits' = inits + 1
    /\ UNCHANGED <<project, answer>>

Ready == inits = Len(InitCalls)

Detect ==
    /\ Ready /\ project = NoProject
    /\ \E P \in Projects : project' = P /\ answer' = FirstMatch(registry, Hits(P))
    /\ UNCHANGED <<registry, inits>>

Return ==
    /\ project # NoProject
    /\ project' = NoProject
    /\ answer' = NoEntry
    /\ UNCHANGED <<registry, inits>>

Next == RunInit \/ Detect \/ Return
Spec == Init /\ [][Next]_vars

-----------------------------------------------------------------------------
(* Properties.                                                             *)

(* A detector answers only if none that should precede it recognises the   *)
(* project, although every init function registers back to front: in the   *)
(* families whose files say who goes first; for a JVM project with one     *)
(* build file that names a framework, which never ends as "maven" or       *)
(* "gradle" although these two are asked first; and for a project with the *)
(* config file of a Node framework, which a Bun lockfile never turns into  *)
(* a Bun app, since it chooses a package manager and not a runtime.        *)
Families ==
    {<<"laravel", "wordpress", "symfony", "slim", "php">>, <<"rails", "sinatra">>,
     <<"rust-actix", "rust-axum">>, <<"go-gin", "go-echo", "go-fiber", "go">>,
     <<"deno-fresh", "deno-oak", "deno">>,
     <<"nextjs", "nuxt", "sveltekit", "astro", "remix", "gatsby", "vite", "create-react-app",
       "angular", "vue-cli", "solidstart", "nestjs", "express", "fastify">>}
FamilyOrderKept ==
    LET hits == Hits(project)
    IN  \A chain \in Families : \A i, j \in DOMAIN chain :
            answer = chain[j] /\ i < j => chain[i] \notin hits
BuildToolYields ==
    LET present == {f \in buildFiles : File(project, f)}
    IN  (Cardinality(present) = 1 /\ \E f \in present, t \in javaFrameworks : Mentions(project, f, t))
          => answer \notin {"maven", "gradle"}
LockfileIsNotRuntime ==
    (\E f \in nodeConfigs : File(project, f)) => answer \notin {"bun-plain", "bun-hono", "bun-elysia"}
MostSpecificAnswers ==
    project # NoProject => FamilyOrderKept /\ BuildToolYields /\ LockfileIsNotRuntime

(* The 45 detectors the package comment promises are all there, once each, *)
(* so that no registration has displaced an earlier one, and none is       *)
(* shadowed for good: each answers for some project.                       *)
NoDeadDetector ==
    Ready /\ project = NoProject =>
        /\ Len(registry) = 45 /\ Cardinality(Names) = 45
        /\ Names \subseteq {FirstMatch(registry, Hits(P)) : P \in Projects}

-----------------------------------------------------------------------------
(* What comments, documents and tests of the repository say of the order,  *)
(* each as a fact about the finished registry.                             *)

BunNames == {"bun-plain", "bun-hono", "bun-elysia"}
DenoNames == {"deno", "deno-oak", "deno-fresh"}
NodeNames == {initNode[i][1] : i \in DOMAIN initNode}

Answer(P) == FirstMatch(registry, Hits(P))

(* bun.go: "Bun detectors must run before Node".                           *)
BunBeforeNode == \A b \in BunNames, n \in NodeNames : Outranks(registry, b, n)

(* deno.go: "Deno before Node - deno.json is unambiguous".                 *)
DenoBeforeNode == \A d \in DenoNames, n \in NodeNames : Outranks(registry, d, n)

(* python_frameworks.go: "Django must run before FastAPI/Flask".           *)
DjangoFirst ==
    \A P \in Projects : "django" \in Hits(P) => Answer(P) \notin {"fastapi", "flask"}

(* README: "More specific frameworks are checked before generic ones": an  *)
(* Elysia or Hono app on Bun is not reported as plain Bun.                 *)
ElysiaAndHonoBeforePlainBun ==
    \A P \in Projects :
        Hits(P) \cap {"bun-elysia", "bun-hono"} # {} => Answer(P) # "bun-plain"

(* README, the same sentence, for the JVM: a Spring Boot, Quarkus or       *)
(* Micronaut project is not reported as a generic build tool.              *)
JavaFrameworkBeforeBuildTool ==
    \A P \in Projects :
        Hits(P) \cap javaFrameworks # {} => Answer(P) \notin {"maven", "gradle"}

(* TestDetectAspNetCore_ViaProgram: a csproj without an AspNetCore         *)
(* reference next to a Program.cs that builds a WebApplication is ASP.NET. *)
AspNetCoreViaProgram ==
    Answer({<<"csproj">>, <<"Program.cs">>, <<"Program.cs", "WebApplication">>})
        = "aspnet-core"

(* doc.go: "Plan converts a Framework into abstract build steps": every    *)
(* framework Detect can answer with has a planner.                         *)
EveryAnswerHasAPlanner ==
    \A P \in Projects :
        Answer(P) = NoEntry \/ FrameworkName(Answer(P), P) \in PlannedFrameworks

(* The seven statements above are about one and the same registry, the one *)
(* package init leaves behind.  This asks for no more than that one of     *)
(* them be true of it; the state that violates it refutes all of them.     *)
SomeDocumentedOrderHolds ==
    Ready /\ project = NoProject =>
        \/ BunBeforeNode \/ DenoBeforeNode \/ DjangoFirst
        \/ ElysiaAndHonoBeforePlainBun \/ JavaFrameworkBeforeBuildTool
        \/ AspNetCoreViaProgram \/ EveryAnswerHasAPlanner
=============================================================================
