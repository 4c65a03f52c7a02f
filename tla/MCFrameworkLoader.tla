-------------------------- MODULE MCFrameworkLoader --------------------------
(* A project directory and the home directory, two file names in each, and *)
(* three definitions of different priority: two that the repository ships  *)
(* (abridged) and the one of its README, given an install command for npm  *)
(* and a build command that mentions a variable.                           *)
EXTENDS YamlFrameworks

CONSTANTS projectDir, home, aYaml, bYaml, myFramework, nextjs, goStd, b1, b2

MCDirs == {projectDir, home}
MCFiles == {aYaml, bYaml}
MCPosition == aYaml :> 1 @@ bYaml :> 2
MCDefs == {myFramework, nextjs, goStd}
MCEntries == MCDefs \cup {b1, b2}
MCNameOf == [e \in MCEntries |-> e]
MCPriority == (myFramework :> 10 @@ nextjs :> 0 @@ goStd :> 5)
MCBuiltin == <<b1, b2>>
MCLoads == {<<projectDir, home>>, <<home>>}

None == <<>>
MCDisks ==
    {(projectDir :> p @@ home :> h) :
        p \in {NoDir, aYaml :> Bad @@ bYaml :> myFramework},
        h \in {None, aYaml :> nextjs @@ bYaml :> goStd}}
MCEdits ==
    {NoDir, None, aYaml :> Bad, aYaml :> goStd, bYaml :> Bad @@ aYaml :> nextjs,
     aYaml :> myFramework @@ bYaml :> goStd, aYaml :> goStd @@ bYaml :> myFramework}
\* One good definition in each directory.
PlainDisks == {(projectDir :> (aYaml :> myFramework) @@ home :> (aYaml :> nextjs))}

NodeApp == {<<"package.json">>, <<"package.json", "react">>}
MyApp == {<<"package.json">>, <<"package.json", "my-framework">>, <<"yarn.lock">>,
          <<"my-framework.config.js">>, <<"package.json", "engines.node", "22">>}
NextApp == {<<"package.json">>, <<"package.json", "next">>, <<"pnpm-lock.yaml">>}
GoService == {<<"go.mod">>, <<"cmd", "/">>, <<"main package", "", "./cmd/deploy">>}
MCProjects == {NodeApp, MyApp, NextApp, GoService}
MCBuiltinHits == [P \in MCProjects |-> IF P = GoService THEN {b2} ELSE {b1}]

Test(P, detected, framework) ==
    [fixture |-> P, detected |-> detected, framework |-> framework, port |-> ""]
Stage(name, base, from, steps) == [name |-> name, base |-> base, from |-> from, steps |-> steps]
Lock(file, pm) == [file |-> file, value |-> pm]

MyDefinition ==
    [name |-> "my-framework", runtime |-> "node",
     all |-> {[dependency |-> "my-framework"]},
     any |-> {[file |-> "my-framework.config.js"], [file |-> "my-framework.config.ts"]},
     none |-> {[json |-> "package.json", path |-> "workspaces"]},
     versions |-> <<[json |-> "package.json", path |-> "engines.node"]>>, version |-> "",
     pms |-> <<[json |-> "package.json", path |-> "packageManager"], Lock("yarn.lock", "yarn")>>,
     pm |-> "npm",
     install |-> "npm" :> <<"npm ci">>, build |-> <<"{{pm}}", "run build">>, start |-> <<"npm start">>,
     port |-> "3000", tests |-> {Test(MyApp, TRUE, "my-framework")},
     stages |-> <<Stage("builder", "node", "",
                     << [workdir |-> <<"/app">>], [copy |-> <<"package*.json", ".">>],
                        [run |-> <<"{{install_command}}">>, cache |-> <<"/root/.npm">>],
                        [env |-> <<"PORT", "{{port}}">>], [run |-> <<"{{build_command}}">>] >>),
                  Stage("runtime", "node", "",
                     << [copy_from |-> <<"builder", "/app", ".">>], [cmd |-> <<"{{start_command}}">>] >>)>>]

NextDefinition ==
    [name |-> "nextjs", runtime |-> "node", all |-> {}, none |-> {},
     any |-> {[file |-> "next.config.*"], [file |-> "package.json", contains |-> "next"]},
     versions |-> <<[file |-> ".node-version"], [json |-> "package.json", path |-> "engines.node"]>>,
     version |-> "20",
     pms |-> <<Lock("pnpm-lock.yaml", "pnpm"), Lock("yarn.lock", "yarn")>>, pm |-> "npm",
     install |-> "npm" :> <<"npm ci">> @@ "pnpm" :> <<"pnpm install">> @@ "yarn" :> <<"yarn install">>,
     build |-> <<"npm run build">>, start |-> <<"npm start">>,
     port |-> "3000", tests |-> {Test(NextApp, TRUE, "nextjs"), Test(NodeApp, FALSE, "")},
     stages |-> <<Stage("deps", "node", "",
                     << [workdir |-> <<"/app">>], [run |-> <<"{{install_command}}">>] >>),
                  Stage("build", "", "deps", << [copy |-> <<".", ".">>], [run |-> <<"{{build_command}}">>] >>),
                  Stage("runtime", "node", "",
                     << [copy_from |-> <<"build", "/app", "/app">>], [cmd |-> <<"{{start_command}}">>] >>)>>]

GoDefinition ==
    [name |-> "go", runtime |-> "go", none |-> {}, all |-> {[file |-> "go.mod"]},
     any |-> {[file |-> "main.go"], [dir |-> "cmd"]},
     versions |-> <<[file |-> ".go-version"]>>, version |-> "1.26",
     pms |-> <<>>, pm |-> "", install |-> <<>>,
     build |-> <<"go build -o app", ".">>, start |-> <<"./app">>,
     port |-> "8080", tests |-> {Test(GoService, TRUE, "go")},
     stages |-> <<Stage("builder", "go", "", << [run |-> <<"CGO_ENABLED=0", "{{build_command}}">>] >>),
                  Stage("runtime", "", "alpine",
                     << [copy_from |-> <<"builder", "/app/app", "./app">>], [expose |-> <<"{{port}}">>],
                        [cmd |-> <<"./app">>] >>)>>]

MCDefinition == myFramework :> MyDefinition @@ nextjs :> NextDefinition @@ goStd :> GoDefinition
MCClassified == {"nextjs", "go"}
MCOrders ==
    LET names == <<"{{runtime}}", "{{version}}", "{{pm}}", "{{lockfile}}", "{{install_command}}",
                   "{{build_command}}", "{{start_command}}", "{{port}}">>
    IN  {names, Reverse(names)}
=============================================================================
