----------------------------- MODULE SwarmStack -----------------------------
(***************************************************************************)
(* Package swarm: StackFromBlueprint turns a deployment plan into a stack, *)
(* and RenderStack validates the stack and writes it as YAML.  The plan is *)
(* a user's, with or without resolved components, or a profile of the      *)
(* blueprint catalog.                                                      *)
(*                                                                         *)
(* The text of the YAML is the record of what it says, in written order.   *)
(***************************************************************************)
EXTENDS Blueprints, Listing

CONSTANTS
    Plans,      \* the plans a user may write
    Candidates, \* the blueprints somebody may register
    Lexical,    \* all names, in the order of sort.Strings
    MaxCatalog

ASSUME SwarmAssumption ==
    /\ \A p \in Plans : IsPlan(p)
    /\ \A b \in Candidates \cup ToSet(BuiltinRegistry) : \A p \in ToSet(b.profiles) :
          IsComponent(p.component)
    /\ MaxCatalog \in Nat /\ Lexical \in Seq(Strings)

VARIABLES catalog, plan, stack, yaml,
          status    \* "idle", "planned", "converted", "rendered" or "error"

vars == <<catalog, plan, stack, yaml, status>>

-----------------------------------------------------------------------------
(* StackFromBlueprint.                                                     *)

uniqueStrings(names) ==
    At(names, {i \in DOMAIN names : names[i] # "" /\ \A j \in 1 .. i - 1 : names[j] # names[i]})
Names(seq) == [i \in DOMAIN seq |-> seq[i].name]
Flat(seq, F(_)) == FlattenSeq([i \in DOMAIN seq |-> F(seq[i])])

IsSecret(from) == from # <<>> /\ from[1] = "secret:" /\ from[2] # ""
EnvSecrets(c) ==
    LET named == At(c.env, {i \in DOMAIN c.env : IsSecret(c.env[i].from)})
    IN  [i \in DOMAIN named |-> named[i].from[2]]

mergePlacement(a, b) ==
    [constraints |-> uniqueStrings(a.constraints \o b.constraints),
     networks |-> uniqueStrings(a.networks \o b.networks)]

\* The components as resolved, or else those of the spec.
Components(p) ==
    IF p.components # <<>> THEN p.components
    ELSE [i \in DOMAIN p.spec.components |->
            LET c == p.spec.components[i]
                placement == mergePlacement(p.spec, c)
            IN  [component |-> c, mode |-> p.spec.mode,
                 constraints |-> placement.constraints, networks |-> placement.networks]]
Placement(p, cp) == mergePlacement(mergePlacement(p.spec, cp.component), cp)

\* The value of a variable is a literal, or the file Docker gives a secret.
RunSecrets(name) == <<"run", "secrets", name>>
IsPath(value) == Len(value) = 3

KeyOf(e) == IF e.from = <<>> THEN e.name ELSE Append(e.name, "FILE")
ValueOf(e) == IF e.from = <<>> THEN <<e.value>> ELSE RunSecrets(e.from[2])

\* A later entry of the same name replaces an earlier one.
envMap(env) ==
    LET written == {i \in DOMAIN env : env[i].from = <<>> \/ IsSecret(env[i].from)}
        last(key) == CHOOSE i \in written :
            /\ KeyOf(env[i]) = key
            /\ \A j \in written : KeyOf(env[j]) = key => j <= i
    IN  [key \in {KeyOf(env[i]) : i \in written} |-> ValueOf(env[last(key)])]

\* Mutant of serviceSecrets: a secret that is mounted somewhere is enough.
MutServiceSecrets(c) ==
    [i \in DOMAIN c.secrets |-> [source |-> c.secrets[i].name, target |-> c.secrets[i].path]]

\* The mounts, and the secrets of the environment that are not mounted.
serviceSecrets(c) ==
    LET more == Without(uniqueStrings(EnvSecrets(c)), ToSet(Names(c.secrets)))
    IN  [i \in DOMAIN c.secrets |-> [source |-> c.secrets[i].name, target |-> c.secrets[i].path]]
          \o [i \in DOMAIN more |-> [source |-> more[i], target |-> ""]]

\* The upgrade of the component, whatever it sets, replaces that of the plan.
deploy(p, cp) ==
    [replicas |-> IF cp.component.replicas = 0 THEN 1 ELSE cp.component.replicas,
     upgrade |-> IF cp.component.upgrade # "" THEN cp.component.upgrade ELSE p.spec.upgrade,
     constraints |-> Placement(p, cp).constraints]

healthcheck(c) ==
    IF c.healthCommand # <<>> THEN c.healthCommand
    ELSE IF c.healthPath = "" \/ c.image \in {"distroless", "scratch"} THEN <<>>
    ELSE <<"wget", IF c.ports # <<>> /\ c.ports[1].target > 0 THEN c.ports[1].target ELSE 80,
           c.healthPath>>

VolumeOf(c) ==
    IF c.stateful[1].volume # "" THEN c.stateful[1].volume ELSE c.name \o "-data"

Service(p, cp) ==
    LET c == cp.component IN
    [name |-> c.name, image |-> c.image, command |-> c.command \o c.args,
     environment |-> envMap(c.env), ports |-> c.ports, secrets |-> serviceSecrets(c),
     mounts |-> IF c.stateful = <<>> THEN <<>>
                ELSE <<[source |-> VolumeOf(c), target |-> c.stateful[1].dataPath]>>,
     networks |-> Placement(p, cp).networks,
     deploy |-> deploy(p, cp), healthcheck |-> healthcheck(c),
     stateful |-> c.kind = "stateful", statefulReplicasSafe |-> HA(c)]

\* Mutant of StackSecrets: what only the environment names is not declared.
MutStackSecrets(p) == Without(p.spec.secrets, {""})

\* The secrets of the spec as they are, then those only components name.
StackSecrets(p) ==
    LET declared == Without(p.spec.secrets, {""})
        used == Flat(Components(p),
                     LAMBDA cp : Names(cp.component.secrets) \o EnvSecrets(cp.component))
    IN  declared \o Without(uniqueStrings(used), ToSet(declared))

StackOf(p) ==
    [services |-> [i \in DOMAIN Components(p) |-> Service(p, Components(p)[i])],
     secrets |-> StackSecrets(p),
     networks |-> uniqueStrings(p.spec.networks
                    \o Flat(Components(p), LAMBDA cp : Placement(p, cp).networks)),
     volumes |-> uniqueStrings(Flat(Components(p), LAMBDA cp :
                    IF cp.component.stateful = <<>> THEN <<>> ELSE <<VolumeOf(cp.component)>>))]

-----------------------------------------------------------------------------
(* Validate of render.go: what is wrong with a stack.                      *)

\* "bad name" stands for the names, and "bad-key" for the words of a
\* variable, that the patterns of Docker do not admit.
validateComposeName(name) == name \notin {"", "bad name"}
validateEnvironmentKey(key) == "bad-key" \notin ToSet(key)

Repeats(seq) == Cardinality(ToSet(seq)) < Len(seq)

ServiceFaults(st, s) ==
    LET fault(reason, holds) == IF holds THEN {reason} ELSE {}
        sources == {s.secrets[i].source : i \in DOMAIN s.secrets}
        volumes == {s.mounts[i].source : i \in DOMAIN s.mounts}
    IN  UNION {
        fault("name", \E n \in {s.name} \cup sources \cup ToSet(s.networks) \cup volumes :
                          ~validateComposeName(n)),
        fault("image", s.image = ""),
        fault("unsafe replicas", s.stateful /\ s.deploy.replicas > 1 /\ ~s.statefulReplicasSafe),
        fault("environment key", \E key \in DOMAIN s.environment : ~validateEnvironmentKey(key)),
        fault("port", \E i \in DOMAIN s.ports : s.ports[i].target <= 0),
        fault("mount", \E i \in DOMAIN s.mounts : s.mounts[i].target = ""),
        \* A reference without a name is a bad name.
        fault("undeclared", \/ ~(sources \subseteq ToSet(st.secrets) \cup {""})
                            \/ ~(ToSet(s.networks) \subseteq ToSet(st.networks))
                            \/ ~(volumes \subseteq ToSet(st.volumes)))}

Faults(st) ==
    LET top == {st.secrets, st.networks, st.volumes} IN
    (UNION {ServiceFaults(st, st.services[i]) : i \in DOMAIN st.services})
      \cup (IF \E seq \in top : \E n \in ToSet(seq) : ~validateComposeName(n)
            THEN {"name"} ELSE {})
      \cup (IF Repeats(Names(st.services)) THEN {"duplicate service"} ELSE {})
      \cup (IF Repeats(st.secrets) THEN {"duplicate secret"} ELSE {})
      \cup (IF Repeats(st.networks) \/ Repeats(st.volumes) THEN {"duplicate"} ELSE {})

-----------------------------------------------------------------------------
(* RenderStack.                                                            *)

Rank(name) ==
    IF name \in ToSet(Lexical) THEN CHOOSE i \in DOMAIN Lexical : Lexical[i] = name ELSE 0
Alphabetical(names) == Sorted(names, [i \in DOMAIN names |-> Rank(names[i])])

\* Mutant of writeStringList: in the order given.
MutWriteStringList(names) == names

writeStringList(names) == Alphabetical(names)

\* Of an upgrade that only names a strategy nothing is left; the rollback
\* configuration always has a failure action.
writeDeploy(d) ==
    LET config == IF d.upgrade = "strategy" THEN "" ELSE d.upgrade
    IN  [replicas |-> d.replicas, update_config |-> config,
         rollback_config |-> <<"pause", config>>,
         constraints |-> writeStringList(d.constraints)]

writeService(s) ==
    [name |-> s.name, image |-> s.image, command |-> s.command,
     environment |-> s.environment,
     ports |-> Sorted(s.ports, [i \in DOMAIN s.ports |->
                                    s.ports[i].published * 65536 + s.ports[i].target]),
     mounts |-> s.mounts,
     secrets |-> Sorted(s.secrets, [i \in DOMAIN s.secrets |-> Rank(s.secrets[i].source)]),
     networks |-> writeStringList(s.networks),
     deploy |-> writeDeploy(s.deploy), healthcheck |-> s.healthcheck]

writeTopLevel(names) == Alphabetical(names)

Written(st) ==
    LET services == Sorted(st.services, [i \in DOMAIN st.services |-> Rank(st.services[i].name)]) IN
    [services |-> [i \in DOMAIN services |-> writeService(services[i])],
     secrets |-> writeTopLevel(st.secrets), networks |-> writeTopLevel(st.networks),
     volumes |-> writeTopLevel(st.volumes)]

\* The names a rendered stack sorts, all of which have a place in the alphabet.
SortedNames(st) ==
    ToSet(Names(st.services)) \cup ToSet(st.secrets) \cup ToSet(st.networks) \cup ToSet(st.volumes)
      \cup UNION {ToSet(st.services[i].networks) \cup ToSet(st.services[i].deploy.constraints) :
                    i \in DOMAIN st.services}
Spelled(p) == Faults(StackOf(p)) = {} => SortedNames(StackOf(p)) \subseteq ToSet(Lexical)

ASSUME LexicalAssumption ==
    /\ \A p \in Plans : Spelled(p)
    /\ \A b \in Candidates \cup ToSet(BuiltinRegistry) : \A p \in ToSet(b.profiles) :
          \A name \in {"", "shop"} : Spelled([DeploymentPlan EXCEPT !.spec = SpecOf(p, name)])

-----------------------------------------------------------------------------
EmptyStack == StackOf(DeploymentPlan)

Init ==
    /\ catalog = BuiltinRegistry /\ plan = DeploymentPlan
    /\ stack = EmptyStack /\ yaml = EmptyStack /\ status = "idle"

RegisterBlueprint(b) ==
    /\ status = "idle" /\ Len(catalog) < MaxCatalog
    /\ catalog' = Register(catalog, b)
    /\ UNCHANGED <<plan, stack, yaml, status>>

\* Profile.DeploymentSpec, of a profile of the catalog.
FromProfile(p, name) ==
    /\ status = "idle" /\ ValidProfile(p)
    /\ plan' = [DeploymentPlan EXCEPT !.spec = SpecOf(p, name)]
    /\ status' = "planned"
    /\ UNCHANGED <<catalog, stack, yaml>>

Author(p) ==
    /\ status = "idle"
    /\ plan' = p /\ status' = "planned"
    /\ UNCHANGED <<catalog, stack, yaml>>

StackFromBlueprint ==
    /\ status = "planned"
    /\ \/ ValidPlan(plan) /\ stack' = StackOf(plan) /\ status' = "converted"
       \/ ~ValidPlan(plan) /\ stack' = EmptyStack /\ status' = "error"
    /\ UNCHANGED <<catalog, plan, yaml>>

RenderStack ==
    /\ status = "converted"
    /\ \/ Faults(stack) = {} /\ yaml' = Written(stack) /\ status' = "rendered"
       \/ Faults(stack) # {} /\ yaml' = EmptyStack /\ status' = "error"
    /\ UNCHANGED <<catalog, plan, stack>>

Return ==
    /\ status \in {"rendered", "error"}
    /\ plan' = DeploymentPlan /\ stack' = EmptyStack /\ yaml' = EmptyStack
    /\ status' = "idle"
    /\ UNCHANGED catalog

Next ==
    \/ \E b \in Candidates : RegisterBlueprint(b)
    \/ \E p \in Profiles(catalog), name \in {"", "shop"} : FromProfile(p, name)
    \/ \E p \in Plans : Author(p)
    \/ StackFromBlueprint \/ RenderStack \/ Return

Spec == Init /\ [][Next]_vars

-----------------------------------------------------------------------------
(* Properties.                                                             *)

(* The stack made of an accepted plan refers to nothing it does not        *)
(* declare, declares no network or volume twice, and scales no stateful    *)
(* service that the blueprint did not declare safe to scale: the two       *)
(* validations never disagree on these, also over resolved components that *)
(* nobody checked against the graph.                                       *)
ConversionIsSound ==
    status = "converted" =>
        Faults(stack) \cap {"undeclared", "duplicate", "unsafe replicas"} = {}

(* Each secret file a rendered service is told of by a _FILE variable is   *)
(* declared and granted to that service, also where several components, or *)
(* a mount and a variable, name the same secret.                           *)
SecretFilesGranted ==
    status = "rendered" =>
        \A i \in DOMAIN yaml.services : \A key \in DOMAIN yaml.services[i].environment :
            LET s == yaml.services[i]
                value == s.environment[key]
            IN  IsPath(value) =>
                  /\ value[3] \in ToSet(yaml.secrets)
                  /\ \E j \in DOMAIN s.secrets : s.secrets[j].source = value[3]

(* No sensitive variable of a rendered service has a literal value: it is  *)
(* empty, or the path of a secret, whichever entries of the component      *)
(* overwrite each other and whether it was resolved or authored.           *)
NoLiteralSecret ==
    status = "rendered" =>
        \A i \in DOMAIN yaml.services : \A key \in DOMAIN yaml.services[i].environment :
            looksSensitiveName(key) =>
                LET value == yaml.services[i].environment[key]
                IN  value = <<"">> \/ IsPath(value)

Backwards(p) ==
    [spec |-> [p.spec EXCEPT !.components = Reverse(@), !.secrets = Reverse(@),
                             !.networks = Reverse(@), !.constraints = Reverse(@)],
     components |-> Reverse(p.components)]

(* "Deterministic Docker Swarm stack YAML": the order in which components, *)
(* secrets, networks and constraints are written in the plan does not      *)
(* reach the YAML.                                                         *)
OrderIndependent == status = "rendered" => Written(StackOf(Backwards(plan))) = yaml

\* What a profile needs of the deployment around it.
SelfContained(c) ==
    /\ c.dependsOn = <<>> /\ All(c.env, LAMBDA e : e.from = <<>>)
    /\ All(c.secrets, LAMBDA m : m.name = "")

(* Every profile of the catalog, built in or registered since, whose       *)
(* component refers to nothing outside it becomes a specification that     *)
(* validates, under a name of its own choice or the component's.           *)
ProfilesDeploy ==
    \A p \in Profiles(catalog) :
        SelfContained(p.component) => ValidSpec(SpecOf(p, "")) /\ ValidSpec(SpecOf(p, "shop"))
=============================================================================
