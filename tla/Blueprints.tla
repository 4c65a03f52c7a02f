----------------------------- MODULE Blueprints -----------------------------
(***************************************************************************)
(* Package blueprint: the deployment plans a user may write, what their    *)
(* validation accepts, and the blueprints of the built-in catalog.         *)
(*                                                                         *)
(* An optional struct is a sequence of at most one record.  The name of an *)
(* environment variable is the sequence of its words, so that the _FILE    *)
(* the Swarm adapter appends is a word of its own.  A value_from is <<>>,  *)
(* or the scheme and the name after it.                                    *)
(***************************************************************************)
EXTENDS SequencesExt

SecretRef(name) == <<"secret:", name>>

\* The zero values of the structs.
Component ==
    [name |-> "", kind |-> "", image |-> "", type |-> "", command |-> <<>>, args |-> <<>>,
     ports |-> <<>>, scheduled |-> FALSE, internalOnly |-> FALSE, dependsOn |-> <<>>,
     stateful |-> <<>>, replicas |-> 0, autoscaling |-> FALSE, env |-> <<>>,
     secrets |-> <<>>, healthPath |-> "", healthCommand |-> <<>>, backup |-> FALSE,
     upgrade |-> "", constraints |-> <<>>, networks |-> <<>>,
     statefulHA |-> FALSE, statefulAutoscaling |-> FALSE]
DeploymentSpec ==
    [name |-> "", environment |-> "", mode |-> "", components |-> <<>>,
     release |-> <<>>, secrets |-> <<>>, constraints |-> <<>>, networks |-> <<>>,
     upgrade |-> ""]
DeploymentPlan == [spec |-> DeploymentSpec, components |-> <<>>]
ComponentPlan == [component |-> Component, mode |-> "", constraints |-> <<>>, networks |-> <<>>]

\* The types of the structs, as far as code depends on them.  (To the prover a
\* string is no sequence: it has to be told that n + "-data" is not empty, and
\* does better with a set of strings it cannot look into.)
Strings == STRING
IsComponent(c) ==
    /\ DOMAIN c = DOMAIN Component
    /\ c.name \in Strings /\ c.name \o "-data" \in Strings \ {""}
    /\ c.replicas \in Int
    /\ c.ports \in Seq([target : Int, published : Int])
    /\ c.stateful \in Seq([dataPath : Strings, volume : Strings, ha : BOOLEAN])
    /\ c.env \in Seq([name : Seq(Strings), value : Strings, from : {<<>>} \cup (Strings \X Strings)])
    /\ c.secrets \in Seq([name : Strings, path : Strings])
    /\ c.constraints \in Seq(Strings) /\ c.networks \in Seq(Strings)
IsSpec(s) ==
    /\ DOMAIN s = DOMAIN DeploymentSpec
    /\ s.components \in Seq(Range(s.components))
    /\ \A i \in DOMAIN s.components : IsComponent(s.components[i])
    /\ s.secrets \in Seq(Strings) /\ s.constraints \in Seq(Strings) /\ s.networks \in Seq(Strings)
IsComponentPlan(cp) ==
    /\ IsComponent(cp.component)
    /\ cp.constraints \in Seq(Strings) /\ cp.networks \in Seq(Strings)
IsPlan(p) ==
    /\ DOMAIN p = DOMAIN DeploymentPlan
    /\ IsSpec(p.spec)
    /\ p.components \in Seq(Range(p.components))
    /\ \A i \in DOMAIN p.components : IsComponentPlan(p.components[i])

All(seq, P(_)) == \A i \in DOMAIN seq : P(seq[i])
Modes == {"single-container", "swarm"}

-----------------------------------------------------------------------------
(* Validate.  An error is the absence of validity: the code collects them  *)
(* all and every caller gives up on the first.                             *)

looksSensitiveName(name) == ToSet(name) \cap {"SECRET", "TOKEN", "PASSWORD"} # {}

\* Mutant of ValidEnv: a sensitive literal is an error only without a source.
MutValidEnv(e) == e.name # <<>> /\ (e.value # "" => e.from = <<>>)

ValidEnv(e) ==
    /\ e.name # <<>>
    /\ e.value # "" => e.from = <<>> /\ ~looksSensitiveName(e.name)

ValidDependsOn(d) == d.component # "" /\ d.condition \in {"started", "healthy"}

ValidProcess(c) ==
    /\ c.type \in {"", "web", "worker", "cron", "release"}
    /\ c.type = "cron" => c.scheduled
    /\ All(c.dependsOn, ValidDependsOn)

ValidRelease(commands) ==
    All(commands, LAMBDA r : r.name # "" /\ All(r.dependsOn, ValidDependsOn))

HA(c) == c.statefulHA \/ \E i \in DOMAIN c.stateful : c.stateful[i].ha

ValidComponent(c, environment) ==
    LET production == environment = "production" IN
    /\ c.name # ""
    /\ c.kind \in {"app", "stateful"}
    /\ c.kind = "stateful" => c.stateful # <<>>
    /\ ValidProcess(c)
    /\ production /\ c.kind = "app" /\ c.type \in {"", "web"} /\ ~c.internalOnly
         => c.ports # <<>>
    /\ c.type = "release" => c.replicas = 0 /\ ~c.autoscaling
    /\ c.kind = "stateful" =>
         /\ c.autoscaling => c.statefulAutoscaling
         /\ c.replicas > 1 => HA(c)
         /\ production => c.backup
    /\ All(c.env, ValidEnv)

\* validateGraph: what a component or a release command refers to is declared.
ValidGraph(spec) ==
    LET names == {spec.components[i].name : i \in DOMAIN spec.components} \ {""}
        declared == ToSet(spec.secrets) \ {""}
        known(d) == d.component \in names \cup {""}
    IN  /\ All(spec.components, LAMBDA c :
              /\ All(c.dependsOn, known)
              /\ All(c.env, LAMBDA e : e.from # <<>> =>
                        e.from[1] = "secret:" /\ e.from[2] \in declared)
              /\ All(c.secrets, LAMBDA m : m.name \in declared \cup {""}))
        /\ All(spec.release, LAMBDA r : All(r.dependsOn, known))

ValidSpec(spec) ==
    /\ spec.name # ""
    /\ spec.mode \in Modes \cup {""}
    /\ spec.components # <<>>
    /\ All(spec.components, LAMBDA c : ValidComponent(c, spec.environment))
    /\ ValidRelease(spec.release)
    /\ ValidGraph(spec)

\* Resolved components are checked one by one, never against the graph.
ValidPlan(plan) ==
    /\ ValidSpec(plan.spec)
    /\ All(plan.components, LAMBDA p :
          ValidComponent(p.component, plan.spec.environment) /\ p.mode \in Modes \cup {""})

-----------------------------------------------------------------------------
(* The catalog.                                                            *)

ValidProfile(p) ==
    /\ p.name # ""
    /\ p.environment \in {"development", "staging", "production"}
    /\ p.mode \in Modes
    /\ ValidComponent(p.component, p.environment)

\* Mutant of ValidBlueprint: the kind of the profiles is not looked at.
MutValidBlueprint(b) ==
    /\ b.name # "" /\ b.kind \in {"app", "stateful"}
    /\ All(b.config, LAMBDA f : f.name # "" /\ f.type \in {"string", "int", "bool", "secret"})
    /\ All(b.outputs, LAMBDA o : o # "")
    /\ All(b.profiles, LAMBDA p : p.name # "")

ValidBlueprint(b) ==
    /\ b.name # "" /\ b.kind \in {"app", "stateful"}
    /\ All(b.config, LAMBDA f : f.name # "" /\ f.type \in {"string", "int", "bool", "secret"})
    /\ All(b.outputs, LAMBDA o : o # "")
    /\ All(b.profiles, LAMBDA p : ValidProfile(p) /\ p.component.kind = b.kind)

\* What Profile.DeploymentSpec makes of a profile.
SpecOf(p, name) ==
    [DeploymentSpec EXCEPT
        !.name = IF name = "" THEN p.component.name ELSE name,
        !.environment = p.environment, !.mode = p.mode, !.components = <<p.component>>]

Production(component) ==
    <<[name |-> "production", environment |-> "production",
       mode |-> "single-container", component |-> component]>>
Single(name, image, volume, config) ==
    [name |-> name, kind |-> "stateful", config |-> config, outputs |-> <<"URL">>,
     profiles |-> Production(
        [Component EXCEPT !.name = image, !.kind = "stateful", !.image = image, !.backup = TRUE,
            !.stateful = <<[dataPath |-> "/data", volume |-> volume, ha |-> FALSE]>>])]

PostgresSingleBlueprint ==
    Single("postgres-single", "postgres", "postgres-data",
           <<[name |-> "database", type |-> "string"], [name |-> "username", type |-> "string"],
             [name |-> "password", type |-> "secret"]>>)
RedisSingleBlueprint ==
    Single("redis-single", "redis", "redis-data",
           <<[name |-> "password", type |-> "secret"]>>)
AppWebBlueprint ==
    [name |-> "app-web", kind |-> "app",
     config |-> <<[name |-> "image", type |-> "string"], [name |-> "port", type |-> "int"]>>,
     outputs |-> <<"URL">>,
     profiles |-> Production(
        [Component EXCEPT !.name = "web", !.kind = "app", !.type = "web", !.replicas = 1,
            !.ports = <<[target |-> 8080, published |-> 0]>>, !.healthPath = "/healthz"])]

\* Registry.Register, and Lookup with Profile.
Register(catalog, b) ==
    IF ValidBlueprint(b) /\ \A i \in DOMAIN catalog : catalog[i].name # b.name
    THEN Append(catalog, b) ELSE catalog
Profiles(catalog) == UNION {ToSet(catalog[i].profiles) : i \in DOMAIN catalog}
BuiltinRegistry ==
    Register(Register(Register(<<>>, PostgresSingleBlueprint), RedisSingleBlueprint), AppWebBlueprint)
=============================================================================
