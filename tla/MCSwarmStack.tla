---------------------------- MODULE MCSwarmStack ----------------------------
(* A web component and a database, with up to two fields of the first and  *)
(* one of the second or of the deployment set to another value, authored   *)
(* as a specification or handed over as resolved components.               *)
EXTENDS SwarmStack

MCLexical == <<"back", "cache", "db", "db-data", "front", "ghost", "key", "node", "pgdata",
               "postgres", "postgres-data", "redis", "redis-data", "ssd", "token", "web", "web-data">>

Port(target, published) == [target |-> target, published |-> published]
Volume(path, name, ha) == <<[dataPath |-> path, volume |-> name, ha |-> ha]>>
On(component, condition) == <<[component |-> component, condition |-> condition]>>
Var(name, value, from) == [name |-> name, value |-> value, from |-> from]
Mount(name, path) == [name |-> name, path |-> path]
FromKey == Var(<<"DB">>, "", SecretRef("key"))

Web == [Component EXCEPT !.name = "web", !.kind = "app", !.image = "alpine", !.type = "web",
            !.ports = <<Port(8080, 80)>>, !.env = <<FromKey>>, !.networks = <<"front">>]
Db == [Component EXCEPT !.name = "db", !.kind = "stateful", !.image = "postgres",
            !.stateful = Volume("/data", "pgdata", FALSE), !.backup = TRUE,
            !.env = <<Var(<<"DB", "PASSWORD">>, "", SecretRef("key"))>>]

Others ==
    [name |-> {"", "bad name", "db"}, kind |-> {"stateful", "other"},
     image |-> {"", "distroless"}, type |-> {"", "cron", "release", "other"},
     args |-> {<<"serve">>}, scheduled |-> {TRUE}, internalOnly |-> {TRUE},
     ports |-> {<<>>, <<Port(0, 0)>>, <<Port(9000, 90), Port(8080, 80)>>},
     dependsOn |-> {On("db", "healthy"), On("ghost", "started"), On("db", "ready")},
     stateful |-> {Volume("/data", "", FALSE), Volume("/data", "pgdata", TRUE),
                   Volume("", "bad name", FALSE)},
     replicas |-> {2}, autoscaling |-> {TRUE},
     env |-> {<<Var(<<"PORT">>, "80", <<>>)>>, <<Var(<<"TOKEN">>, "x", <<>>)>>,
              <<Var(<<"TOKEN">>, "", <<>>)>>, <<Var(<<"TOKEN">>, "x", SecretRef("key"))>>,
              <<Var(<<"DB">>, "", SecretRef("ghost"))>>, <<Var(<<"DB">>, "", <<"vault:", "key">>)>>,
              <<Var(<<"bad-key">>, "x", <<>>)>>, <<Var(<<>>, "x", <<>>)>>,
              <<FromKey, Var(<<"DB", "FILE">>, "x", <<>>)>>,
              <<Var(<<"DB", "FILE">>, "x", <<>>), FromKey, Var(<<"TOKEN">>, "", SecretRef("token"))>>},
     secrets |-> {<<Mount("key", "")>>, <<Mount("key", "/key")>>, <<Mount("ghost", "")>>,
                  <<Mount("", "")>>, <<Mount("key", "/key"), Mount("key", "")>>},
     healthPath |-> {"/up"}, healthCommand |-> {<<"curl">>},
     upgrade |-> {"strategy", "canary"}, backup |-> {FALSE},
     constraints |-> {<<"ssd", "node">>},
     networks |-> {<<"front", "back">>, <<"", "bad name">>},
     statefulHA |-> {TRUE}, statefulAutoscaling |-> {TRUE}]

Changes(fields) == UNION {{f :> v : v \in fields[f]} : f \in DOMAIN fields}
One == Changes(Others)
Two == {a @@ b : a, b \in One}

Spec0 == [DeploymentSpec EXCEPT !.name = "shop", !.environment = "production", !.mode = "swarm",
             !.secrets = <<"key", "token">>, !.networks = <<"front">>, !.constraints = <<"node">>,
             !.components = <<Web, Db>>]
Specs ==
    {s @@ Spec0 : s \in Changes(
        [name |-> {"", "shop"}, environment |-> {"development"}, mode |-> {"", "other"},
         components |-> {<<>>, <<Web, Web>>},
         release |-> {<<[name |-> "migrate", dependsOn |-> On("db", "healthy")]>>,
                      <<[name |-> "", dependsOn |-> <<>>]>>,
                      <<[name |-> "migrate", dependsOn |-> On("ghost", "started")]>>},
         secrets |-> {<<>>, <<"">>, <<"token", "key", "key">>, <<"key", "bad name">>},
         networks |-> {<<"front", "back", "back">>}, upgrade |-> {"rolling"}])}

Resolved(c, networks) ==
    [ComponentPlan EXCEPT !.component = c, !.mode = "swarm", !.networks = networks]

MCPlans ==
    {[spec |-> [Spec0 EXCEPT !.components = <<a @@ Web, Db>>], components |-> <<>>] : a \in Two}
    \cup {[spec |-> [Spec0 EXCEPT !.components = <<a @@ Web, b @@ Db>>], components |-> <<>>] :
            a, b \in One}
    \cup {[spec |-> Spec0, components |-> <<Resolved(a @@ Web, nets), Resolved(Db, <<>>)>>] :
            a \in Two, nets \in {<<>>, <<"back", "front">>}}
    \cup {[spec |-> s, components |-> cs] : s \in Specs,
            cs \in {<<>>} \cup {<<Resolved(a @@ Web, <<"back">>)>> : a \in One}}
    \cup {[spec |-> Spec0, components |-> <<[Resolved(Web, <<>>) EXCEPT !.mode = "other"]>>]}

\* Blueprints somebody may register: good, a duplicate, of two minds.
Template(name, kind, component) ==
    [name |-> name, kind |-> kind, config |-> <<[name |-> "port", type |-> "int"]>>,
     outputs |-> <<>>, profiles |-> Production(component)]
MCCandidates ==
    {Template("shop", "app", Web), Template("cache", "app", [Web EXCEPT !.env = <<>>]),
     Template("app-web", "app", Web), Template("", "app", Web), Template("odd", "stateful", Web),
     Template("bare", "app", [Web EXCEPT !.env = <<>>, !.ports = <<>>])}
=============================================================================
