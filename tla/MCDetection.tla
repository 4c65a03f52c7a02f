---------------------------- MODULE MCDetection ----------------------------
(* The wizard over every tree of up to three of these paths, listed in     *)
(* every order, and over a few larger ones; the detectors over the         *)
(* projects of MCBuiltinDetectors.                                         *)
EXTENDS RemoteDetect, MCBuiltinDetectors

MCDirOrder == << <<>>, <<"api">>, <<"api-v2">>, <<"api", "venv">>, <<"api", "web">>, <<"venv">>, <<"web">> >>
MCRootOrder == << <<>>, <<"api-v2">>, <<"api">>, <<"api", "venv">>, <<"api", "web">>, <<"venv">>, <<"web">> >>

MCPaths ==
    {<<"Dockerfile">>, <<"go.mod">>, <<"compose.yml">>, <<"requirements.txt">>,
     <<"api", "Dockerfile">>, <<"api", "manage.py">>, <<"api", "wsgi.py">>,
     <<"api", "pyproject.toml">>, <<"api", "web", "package.json">>,
     <<"api", "web", "next.config">>, <<"api", "web", "wsgi.py">>, <<"api", "venv", "wsgi.py">>,
     <<"api-v2", "Pipfile">>, <<"api-v2", "main.py">>, <<"api-v2", "requirements.txt">>}

MCRepositories ==
    {r \in SUBSET MCPaths : Cardinality(r) \in 1 .. 3}
      \cup {{<<"Dockerfile">>, <<"api", "manage.py">>, <<"api", "web", "wsgi.py">>, <<"api", "wsgi.py">>},
            {<<"api", "Cargo.toml">>, <<"api", "Dockerfile">>, <<"api-v2", "requirements.txt">>,
             <<"api-v2", "app.py">>}}
=============================================================================
