-------------------------- MODULE SwarmStack_proofs --------------------------
(***************************************************************************)
(* What holds of every stack, for any plans and blueprints, and any        *)
(* alphabet that has all names to be sorted.                               *)
(***************************************************************************)
EXTENDS SwarmStack, Listing_proofs

-----------------------------------------------------------------------------
(* What a plan is made of, and what a stack is made of it.                 *)

LEMMA UniqueStrings ==
    ASSUME NEW T, NEW names \in Seq(T)
    PROVE  /\ uniqueStrings(names) \in Seq(T)
           /\ ToSet(uniqueStrings(names)) = ToSet(names) \ {""}
           /\ IsInjective(uniqueStrings(names))
<1> DEFINE D == DOMAIN names
           I == {i \in D : names[i] # "" /\ \A j \in 1 .. i - 1 : names[j] # names[i]}
<1>1. /\ D \subseteq Nat \ {0}
      /\ \A i \in D : 1 .. i \subseteq D
  OBVIOUS
<1>2. uniqueStrings(names) = At(names, I)
  BY DEF uniqueStrings
<1>t. ToSet(names) = {names[i] : i \in D}
  BY DEF ToSet
<1>3. I \in SUBSET (DOMAIN names)
  OBVIOUS
<1>n. \A i \in I : i \in D /\ names[i] # "" /\ \A j \in 1 .. i - 1 : names[j] # names[i]
  OBVIOUS
<1>m. \A i \in D : names[i] # "" /\ (\A j \in 1 .. i - 1 : names[j] # names[i]) => i \in I
  OBVIOUS
<1> HIDE DEF I
<1>4. \A i, j \in I : names[i] = names[j] => i = j
  <2> SUFFICES ASSUME NEW i \in I, NEW j \in I, names[i] = names[j], i < j
               PROVE  FALSE
    <3>1. \A i, j \in I : i \in Nat /\ j \in Nat
      BY <1>1, <1>n
    <3>2. \A i, j \in I : i = j \/ i < j \/ j < i
      BY <3>1
    <3> QED
      BY <3>2
  <2>1. i \in Nat \ {0} /\ j \in Nat \ {0}
    BY <1>1, <1>n
  <2>2. i \in 1 .. j - 1
    BY <2>1
  <2> QED
    BY <1>n, <2>2
<1>5. /\ At(names, I) \in Seq(T) /\ IsInjective(At(names, I))
      /\ ToSet(At(names, I)) = {names[i] : i \in I}
  BY <1>3, <1>4, AtTakes
<1>6. ASSUME NEW x \in ToSet(names), x # ""
      PROVE  \E i \in I : x = names[i]
  <2> DEFINE J == {i \in D : names[i] = x}
  <2>1. J \in SUBSET Nat /\ J # {}
    BY <1>1, <1>t
  <2>2. PICK m \in J : \A k \in J : m <= k
    <3> HIDE DEF J
    <3> QED
      BY <2>1, Least
  <2>3. ASSUME NEW j \in 1 .. m - 1, names[j] = names[m]
        PROVE  FALSE
    <3>1. m \in D /\ m \in Nat \ {0} /\ names[m] = x
      BY <1>1
    <3>2. j \in 1 .. m /\ j < m
      BY <3>1
    <3>3. j \in J
      BY <1>1, <2>3, <3>1, <3>2
    <3> QED
      BY <2>2, <3>1, <3>2, <3>3
  <2> QED
    BY <1>m, <1>6, <2>3
<1>7. {names[i] : i \in I} = ToSet(names) \ {""}
  BY <1>6, <1>n, <1>t
<1> QED
  BY <1>2, <1>5, <1>7

\* The secrets the environment names are those of the secret references.
LEMMA EnvSecretsAre ==
    ASSUME NEW c, IsComponent(c)
    PROVE  /\ EnvSecrets(c) \in Seq(Strings)
           /\ \A i \in DOMAIN c.env :
                 IsSecret(c.env[i].from) => c.env[i].from[2] \in ToSet(EnvSecrets(c))
<1> DEFINE From == {<<>>} \cup (Strings \X Strings)
           Env == [name : Seq(Strings), value : Strings, from : From]
           I == {i \in DOMAIN c.env : IsSecret(c.env[i].from)}
           named == At(c.env, I)
           S == {e \in Env : IsSecret(e.from)}
<1>1. c.env \in Seq(Env)
  BY DEF IsComponent
<1>2. named \in Seq(Env) /\ ToSet(named) = {c.env[i] : i \in I}
  <2> HIDE DEF Env, I
  <2>1. I \in SUBSET DOMAIN c.env
    BY DEF I
  <2> QED
    BY <1>1, <2>1, AtTakes DEF named
<1>3. ASSUME NEW e \in Env, IsSecret(e.from)
      PROVE  e.from[2] \in Strings
  BY <1>3 DEF IsSecret
<1>4. EnvSecrets(c) = [i \in DOMAIN named |-> named[i].from[2]]
  BY DEF EnvSecrets
<1>5. \A k \in DOMAIN named : named[k] \in Env /\ IsSecret(named[k].from)
  <2>1. \A k \in DOMAIN named : named[k] \in ToSet(named)
    BY DEF ToSet
  <2> HIDE DEF named, Env
  <2>2. \A k \in DOMAIN named : named[k] \in Env
    BY <1>2
  <2> QED
    BY <1>2, <2>1, <2>2
<1> HIDE DEF named, I, Env
<1>6. EnvSecrets(c) \in Seq(Strings)
  BY <1>2, <1>3, <1>4, <1>5
<1>7. ASSUME NEW i \in DOMAIN c.env, IsSecret(c.env[i].from)
      PROVE  c.env[i].from[2] \in ToSet(EnvSecrets(c))
  <2>1. c.env[i] \in ToSet(named)
    BY <1>2, <1>7 DEF I
  <2>2. PICK k \in DOMAIN named : named[k] = c.env[i]
    BY <2>1 DEF ToSet
  <2>3. DOMAIN EnvSecrets(c) = DOMAIN named /\ EnvSecrets(c)[k] = c.env[i].from[2]
    BY <1>4, <2>2
  <2> QED
    BY <2>3 DEF ToSet
<1> QED
  BY <1>6, <1>7

LEMMA MergedNetworks ==
    ASSUME NEW a, NEW b, a.networks \in Seq(Strings), b.networks \in Seq(Strings)
    PROVE  /\ mergePlacement(a, b).networks \in Seq(Strings)
           /\ "" \notin ToSet(mergePlacement(a, b).networks)
<1>1. a.networks \o b.networks \in Seq(Strings)
  OBVIOUS
<1> QED
  BY <1>1, UniqueStrings DEF mergePlacement

LEMMA PlacedNetworks ==
    ASSUME NEW p, IsPlan(p), NEW cp, IsComponentPlan(cp)
    PROVE  /\ Placement(p, cp).networks \in Seq(Strings)
           /\ "" \notin ToSet(Placement(p, cp).networks)
<1>1. /\ p.spec.networks \in Seq(Strings) /\ cp.networks \in Seq(Strings)
      /\ cp.component.networks \in Seq(Strings)
  BY DEF IsPlan, IsSpec, IsComponentPlan, IsComponent
<1>2. mergePlacement(p.spec, cp.component).networks \in Seq(Strings)
  BY <1>1, MergedNetworks
<1> QED
  BY <1>1, <1>2, MergedNetworks DEF Placement

\* Whether resolved or taken from the specification.
LEMMA ComponentsAre ==
    ASSUME NEW p, IsPlan(p)
    PROVE  /\ Len(Components(p)) \in Nat /\ DOMAIN Components(p) = 1 .. Len(Components(p))
           /\ \A i \in DOMAIN Components(p) :
                 /\ IsComponentPlan(Components(p)[i])
                 /\ ValidPlan(p) =>
                       ValidComponent(Components(p)[i].component, p.spec.environment)
<1>1. CASE p.components # <<>>
  <2>1. Components(p) = p.components
    BY <1>1 DEF Components
  <2>2. p.components \in Seq(Range(p.components))
    BY DEF IsPlan
  <2>3. \A i \in DOMAIN p.components : IsComponentPlan(p.components[i])
    BY DEF IsPlan
  <2>4. ASSUME NEW i \in DOMAIN p.components, ValidPlan(p)
        PROVE  ValidComponent(p.components[i].component, p.spec.environment)
    BY <2>4 DEF ValidPlan, All
  <2> QED
    BY <2>1, <2>2, <2>3, <2>4
<1>2. CASE p.components = <<>>
  <2> DEFINE cs == p.spec.components
             Made(c) == [component |-> c, mode |-> p.spec.mode,
                         constraints |-> mergePlacement(p.spec, c).constraints,
                         networks |-> mergePlacement(p.spec, c).networks]
  <2>1. Components(p) = [i \in DOMAIN cs |-> Made(cs[i])]
    BY <1>2 DEF Components
  <2>2. cs \in Seq(Range(cs)) /\ \A i \in DOMAIN cs : IsComponent(cs[i])
    BY DEF IsPlan, IsSpec
  <2>3. ASSUME NEW c, IsComponent(c)
        PROVE  IsComponentPlan(Made(c)) /\ Made(c).component = c
    <3>1. /\ mergePlacement(p.spec, c).networks \in Seq(Strings)
          /\ mergePlacement(p.spec, c).constraints \in Seq(Strings)
      <4>1. /\ p.spec.constraints \o c.constraints \in Seq(Strings)
            /\ p.spec.networks \o c.networks \in Seq(Strings)
        <5>1. p.spec.constraints \in Seq(Strings) /\ p.spec.networks \in Seq(Strings)
          BY DEF IsPlan, IsSpec
        <5>2. c.constraints \in Seq(Strings) /\ c.networks \in Seq(Strings)
          BY <2>3 DEF IsComponent
        <5> QED
          BY <5>1, <5>2
      <4> QED
        BY <4>1, UniqueStrings DEF mergePlacement
    <3> QED
      BY <2>3, <3>1 DEF IsComponentPlan
  <2>4. ASSUME NEW i \in DOMAIN cs, ValidPlan(p)
        PROVE  ValidComponent(cs[i], p.spec.environment)
    BY <2>4 DEF ValidPlan, ValidSpec, All
  <2> HIDE DEF Made
  <2>5. DOMAIN Components(p) = DOMAIN cs /\ Len(Components(p)) = Len(cs)
    BY <2>1, <2>2
  <2> QED
    BY <2>1, <2>2, <2>3, <2>4, <2>5
<1> QED
  BY <1>1, <1>2

LEMMA NamesAre ==
    ASSUME NEW c, IsComponent(c)
    PROVE  Names(c.secrets) \in Seq(Strings)
<1> DEFINE M == [name : Strings, path : Strings]
<1>1. c.secrets \in Seq(M)
  BY DEF IsComponent
<1>2. \A m \in M : m.name \in Strings
  OBVIOUS
<1> HIDE DEF M
<1> QED
  BY <1>1, <1>2 DEF Names

\* Every secret of a component is one of the stack.
LEMMA StackSecretsHold ==
    ASSUME NEW p, IsPlan(p), NEW k \in DOMAIN Components(p)
    PROVE  LET c == Components(p)[k].component IN
           /\ StackSecrets(p) \in Seq(Strings)
           /\ (ToSet(Names(c.secrets)) \cup ToSet(EnvSecrets(c))) \ {""} \subseteq ToSet(StackSecrets(p))
<1> DEFINE cs == Components(p)
           n == Len(cs)
           Named(i) == Names(cs[i].component.secrets) \o EnvSecrets(cs[i].component)
           each == [i \in 1 .. n |-> Named(i)]
           declared == Without(p.spec.secrets, {""})
           used == FlattenSeq(each)
           more == Without(uniqueStrings(used), ToSet(declared))
<1>1. n \in Nat /\ DOMAIN cs = 1 .. n /\ \A i \in 1 .. n : IsComponent(cs[i].component)
  BY ComponentsAre DEF IsComponentPlan
<1>2. StackSecrets(p) = declared \o more
  BY <1>1 DEF StackSecrets, Flat
<1>3. ASSUME NEW i \in 1 .. n
      PROVE  /\ Named(i) \in Seq(Strings)
             /\ ToSet(Named(i)) = ToSet(Names(cs[i].component.secrets))
                                    \cup ToSet(EnvSecrets(cs[i].component))
  <2>1. /\ Names(cs[i].component.secrets) \in Seq(Strings)
        /\ EnvSecrets(cs[i].component) \in Seq(Strings)
    BY <1>1, NamesAre, EnvSecretsAre
  <2> QED
    BY <2>1, ConcatenationHolds
<1>4. declared \in Seq(Strings)
  BY WithoutTakes DEF IsPlan, IsSpec
<1> HIDE DEF Named, cs, n, declared
<1>5. each \in [1 .. n -> Seq(Strings)]
  BY <1>3
<1>6. used \in Seq(Strings) /\ ToSet(used) = UNION {ToSet(each[i]) : i \in 1 .. n}
  <2> HIDE DEF each
  <2> QED
    BY <1>1, <1>5, FlattenJoins
<1>7. k \in 1 .. n
  BY <1>1 DEF cs
<1>8. ToSet(Named(k)) \subseteq ToSet(used)
  BY <1>6, <1>7
<1> HIDE DEF used
<1>9. uniqueStrings(used) \in Seq(Strings)
  BY <1>6, UniqueStrings
<1>10. more \in Seq(Strings) /\ ToSet(more) = ToSet(uniqueStrings(used)) \ ToSet(declared)
  BY <1>9, WithoutTakes
<1> HIDE DEF more
<1>11. /\ StackSecrets(p) \in Seq(Strings)
       /\ ToSet(StackSecrets(p)) = ToSet(declared) \cup ToSet(more)
  BY <1>2, <1>4, <1>10, ConcatenationHolds
<1>12. ToSet(uniqueStrings(used)) = ToSet(used) \ {""}
  BY <1>6, UniqueStrings
<1>13. ToSet(Names(cs[k].component.secrets)) \cup ToSet(EnvSecrets(cs[k].component)) \subseteq ToSet(used)
  BY <1>3, <1>7, <1>8
<1>14. ToSet(used) \ {""} \subseteq ToSet(StackSecrets(p))
  BY <1>10, <1>11, <1>12
<1> QED
  BY <1>11, <1>13, <1>14 DEF cs

\* A service is given its mounts, and what its environment names.
LEMMA ServiceSecretsAre ==
    ASSUME NEW c, IsComponent(c)
    PROVE  /\ serviceSecrets(c) \in Seq([source : Strings, target : Strings \cup {""}])
           /\ {serviceSecrets(c)[i].source : i \in DOMAIN serviceSecrets(c)}
                 = ToSet(Names(c.secrets)) \cup (ToSet(EnvSecrets(c)) \ {""})
<1> DEFINE S == [source : Strings, target : Strings \cup {""}]
           mounted == [i \in DOMAIN c.secrets |->
                          [source |-> c.secrets[i].name, target |-> c.secrets[i].path]]
           more == Without(uniqueStrings(EnvSecrets(c)), ToSet(Names(c.secrets)))
           rest == [i \in DOMAIN more |-> [source |-> more[i], target |-> ""]]
           Sources(list) == {x.source : x \in ToSet(list)}
<1>0. more \in Seq(Strings)
  <2>1. uniqueStrings(EnvSecrets(c)) \in Seq(Strings)
    BY EnvSecretsAre, UniqueStrings
  <2> QED
    BY <2>1, WithoutTakes
<1>1. /\ more \in Seq(Strings)
      /\ ToSet(more) = (ToSet(EnvSecrets(c)) \ {""}) \ ToSet(Names(c.secrets))
  <2>1. EnvSecrets(c) \in Seq(Strings)
    BY EnvSecretsAre
  <2>2. uniqueStrings(EnvSecrets(c)) \in Seq(Strings)
    BY <2>1, UniqueStrings
  <2>4. ToSet(uniqueStrings(EnvSecrets(c))) = ToSet(EnvSecrets(c)) \ {""}
    BY <2>1, UniqueStrings
  <2>3. more \in Seq(Strings) /\ ToSet(more) = ToSet(uniqueStrings(EnvSecrets(c))) \ ToSet(Names(c.secrets))
    BY <2>2, WithoutTakes
  <2> QED
    BY <2>3, <2>4
<1>2. mounted \in Seq(S) /\ Sources(mounted) = ToSet(Names(c.secrets))
  <2> DEFINE M == [name : Strings, path : Strings]
             Source(m) == [source |-> m.name, target |-> m.path]
  <2>1. c.secrets \in Seq(M)
    BY DEF IsComponent
  <2>a. \A m \in M : Source(m) \in S
    OBVIOUS
  <2>b. \A m : Source(m).source = m.name
    OBVIOUS
  <2>c. mounted = [i \in DOMAIN c.secrets |-> Source(c.secrets[i])]
    OBVIOUS
  <2> HIDE DEF M, S, Source, mounted
  <2>2. mounted \in Seq(S)
    BY <2>1, <2>a, <2>c
  <2>3. Sources(mounted) = {c.secrets[i].name : i \in DOMAIN c.secrets}
    BY <2>b, <2>c DEF ToSet
  <2> QED
    BY <2>2, <2>3 DEF Names, ToSet
<1> HIDE DEF more
<1>3. rest \in Seq(S) /\ Sources(rest) = ToSet(more)
  <2> DEFINE Bare(x) == [source |-> x, target |-> ""]
  <2>2. \A x : Bare(x).source = x
    OBVIOUS
  <2>3. rest = [i \in DOMAIN more |-> Bare(more[i])]
    OBVIOUS
  <2>1. \A x \in Strings : Bare(x) \in S
    OBVIOUS
  <2> HIDE DEF S, Bare, rest
  <2>4. rest \in Seq(S)
    BY <1>0, <2>1, <2>3
  <2>5. Sources(rest) = {more[i] : i \in DOMAIN more}
    BY <2>2, <2>3 DEF ToSet
  <2> QED
    BY <2>4, <2>5 DEF ToSet
<1>4. serviceSecrets(c) = mounted \o rest
  BY DEF serviceSecrets, more
<1> HIDE DEF S, mounted, rest
<1>5. serviceSecrets(c) \in Seq(S) /\ ToSet(serviceSecrets(c)) = ToSet(mounted) \cup ToSet(rest)
  BY <1>2, <1>3, <1>4, ConcatenationHolds
<1>6. Sources(serviceSecrets(c)) = ToSet(Names(c.secrets)) \cup ToSet(more)
  BY <1>2, <1>3, <1>5
<1>7. Sources(serviceSecrets(c)) = {serviceSecrets(c)[i].source : i \in DOMAIN serviceSecrets(c)}
  BY DEF ToSet
<1> QED
  BY <1>1, <1>5, <1>6, <1>7 DEF S

\* The networks and volumes of the services are those of the stack, once each.
LEMMA StackNetworksHold ==
    ASSUME NEW p, IsPlan(p)
    PROVE  /\ StackOf(p).networks \in Seq(Strings) /\ IsInjective(StackOf(p).networks)
           /\ \A k \in DOMAIN Components(p) :
                 ToSet(Placement(p, Components(p)[k]).networks) \subseteq ToSet(StackOf(p).networks)
<1> DEFINE cs == Components(p)
           n == Len(cs)
           Placed(i) == Placement(p, cs[i]).networks
           each == [i \in 1 .. n |-> Placed(i)]
           all == p.spec.networks \o FlattenSeq(each)
<1>1. n \in Nat /\ DOMAIN cs = 1 .. n /\ \A i \in 1 .. n : IsComponentPlan(cs[i])
  BY ComponentsAre
<1>2. StackOf(p).networks = uniqueStrings(all)
  BY <1>1 DEF StackOf, Flat
<1>3. \A i \in 1 .. n : Placed(i) \in Seq(Strings) /\ "" \notin ToSet(Placed(i))
  BY <1>1, PlacedNetworks
<1>4. p.spec.networks \in Seq(Strings)
  BY DEF IsPlan, IsSpec
<1> HIDE DEF Placed, cs, n
<1>5. each \in [1 .. n -> Seq(Strings)]
  BY <1>3
<1>6. /\ FlattenSeq(each) \in Seq(Strings)
      /\ ToSet(FlattenSeq(each)) = UNION {ToSet(each[i]) : i \in 1 .. n}
  <2> HIDE DEF each
  <2> QED
    BY <1>1, <1>5, FlattenJoins
<1>7. all \in Seq(Strings) /\ ToSet(all) = ToSet(p.spec.networks) \cup ToSet(FlattenSeq(each))
  <2> HIDE DEF each
  <2> QED
    BY <1>4, <1>6, ConcatenationHolds
<1> HIDE DEF all
<1>8. /\ StackOf(p).networks \in Seq(Strings) /\ IsInjective(StackOf(p).networks)
      /\ ToSet(StackOf(p).networks) = ToSet(all) \ {""}
  BY <1>2, <1>7, UniqueStrings
<1>9. \A k \in 1 .. n : ToSet(Placed(k)) \subseteq ToSet(StackOf(p).networks)
  BY <1>3, <1>6, <1>7, <1>8
<1> QED
  BY <1>1, <1>8, <1>9 DEF cs, Placed

LEMMA VolumeIsName ==
    ASSUME NEW c, IsComponent(c), c.stateful # <<>>
    PROVE  VolumeOf(c) \in Strings \ {""}
<1>1. c.stateful[1] \in [dataPath : Strings, volume : Strings, ha : BOOLEAN]
  <2> DEFINE V == [dataPath : Strings, volume : Strings, ha : BOOLEAN]
  <2>1. c.stateful \in Seq(V)
    BY DEF IsComponent
  <2> HIDE DEF V
  <2>2. c.stateful[1] \in V
    BY <2>1
  <2> QED
    BY <2>2 DEF V
<1>2. c.name \o "-data" \in Strings \ {""}
  BY DEF IsComponent
<1> QED
  BY <1>1, <1>2 DEF VolumeOf

LEMMA StackVolumesHold ==
    ASSUME NEW p, IsPlan(p)
    PROVE  /\ StackOf(p).volumes \in Seq(Strings) /\ IsInjective(StackOf(p).volumes)
           /\ \A k \in DOMAIN Components(p) :
                 LET c == Components(p)[k].component IN
                 c.stateful # <<>> => VolumeOf(c) \in ToSet(StackOf(p).volumes)
<1> DEFINE cs == Components(p)
           n == Len(cs)
           Volumes(i) == IF cs[i].component.stateful = <<>> THEN <<>>
                         ELSE <<VolumeOf(cs[i].component)>>
           each == [i \in 1 .. n |-> Volumes(i)]
           all == FlattenSeq(each)
<1>1. n \in Nat /\ DOMAIN cs = 1 .. n /\ \A i \in 1 .. n : IsComponent(cs[i].component)
  BY ComponentsAre DEF IsComponentPlan
<1>2. StackOf(p).volumes = uniqueStrings(all)
  BY <1>1 DEF StackOf, Flat
<1>4. ASSUME NEW i \in 1 .. n
      PROVE  /\ Volumes(i) \in Seq(Strings)
             /\ cs[i].component.stateful # <<>> =>
                    VolumeOf(cs[i].component) \in ToSet(Volumes(i)) \ {""}
  <2>1. CASE cs[i].component.stateful = <<>>
    BY <2>1
  <2>2. CASE cs[i].component.stateful # <<>>
    <3>1. VolumeOf(cs[i].component) \in Strings \ {""}
      BY <1>1, <2>2, VolumeIsName
    <3>2. Volumes(i) = <<VolumeOf(cs[i].component)>>
      BY <2>2
    <3>3. ASSUME NEW v \in Strings
          PROVE  <<v>> \in Seq(Strings) /\ v \in ToSet(<<v>>)
      BY DEF ToSet
    <3> QED
      BY <3>1, <3>2, <3>3
  <2> QED
    BY <2>1, <2>2
<1> HIDE DEF Volumes, cs, n
<1>5. each \in [1 .. n -> Seq(Strings)]
  BY <1>4
<1>6. all \in Seq(Strings) /\ ToSet(all) = UNION {ToSet(each[i]) : i \in 1 .. n}
  <2> HIDE DEF each
  <2> QED
    BY <1>1, <1>5, FlattenJoins
<1>7. /\ StackOf(p).volumes \in Seq(Strings) /\ IsInjective(StackOf(p).volumes)
      /\ ToSet(StackOf(p).volumes) = ToSet(all) \ {""}
  <2> HIDE DEF all
  <2> QED
    BY <1>2, <1>6, UniqueStrings
<1>8. \A k \in 1 .. n : ToSet(Volumes(k)) \ {""} \subseteq ToSet(StackOf(p).volumes)
  <2> HIDE DEF all
  <2> QED
    BY <1>6, <1>7
<1> QED
  BY <1>1, <1>4, <1>7, <1>8 DEF cs

LEMMA OnceEach ==
    ASSUME NEW T, NEW seq \in Seq(T), IsInjective(seq)
    PROVE  ~Repeats(seq)
<1>1. Len(seq) \in Nat /\ DOMAIN seq = 1 .. Len(seq) /\ seq \in [1 .. Len(seq) -> ToSet(seq)]
  BY DEF ToSet
<1>2. IsFiniteSet(1 .. Len(seq)) /\ Cardinality(1 .. Len(seq)) = Len(seq)
  BY <1>1, FS_Interval
<1>3. seq \in Bijection(1 .. Len(seq), ToSet(seq))
  BY <1>1 DEF Bijection, Injection, Surjection, IsInjective, ToSet
<1>4. Cardinality(ToSet(seq)) = Len(seq)
  <2>1. ExistsBijection(1 .. Len(seq), ToSet(seq))
    BY <1>3 DEF ExistsBijection
  <2> QED
    BY <1>1, <2>1, FS_CountingElements
<1> QED
  BY <1>1, <1>4 DEF Repeats

-----------------------------------------------------------------------------
(* The stack of an accepted plan has none of the faults RenderStack looks  *)
(* for in what refers to what.                                             *)

Unsound == {"undeclared", "duplicate", "unsafe replicas"}

LEMMA ServiceIsSound ==
    ASSUME NEW st, NEW s,
           {s.secrets[i].source : i \in DOMAIN s.secrets} \subseteq ToSet(st.secrets) \cup {""},
           ToSet(s.networks) \subseteq ToSet(st.networks),
           {s.mounts[i].source : i \in DOMAIN s.mounts} \subseteq ToSet(st.volumes),
           s.stateful /\ s.deploy.replicas > 1 => s.statefulReplicasSafe
    PROVE  ServiceFaults(st, s) \cap Unsound = {}
BY ZenonT(60) DEF ServiceFaults, Unsound

LEMMA StackIsSound ==
    ASSUME NEW st, ~Repeats(st.networks), ~Repeats(st.volumes),
           \A i \in DOMAIN st.services : ServiceFaults(st, st.services[i]) \cap Unsound = {}
    PROVE  Faults(st) \cap Unsound = {}
<1> SUFFICES ASSUME NEW x \in Unsound
             PROVE  x \notin Faults(st)
  OBVIOUS
<1> DEFINE services == UNION {ServiceFaults(st, st.services[i]) : i \in DOMAIN st.services}
           badName == \E seq \in {st.secrets, st.networks, st.volumes} :
                         \E n \in ToSet(seq) : ~validateComposeName(n)
<1>1. x \notin services
  OBVIOUS
<1>2. x # "name" /\ x # "duplicate service" /\ x # "duplicate secret"
  BY DEF Unsound
<1>3. Faults(st) = services \cup (IF badName THEN {"name"} ELSE {})
                     \cup (IF Repeats(Names(st.services)) THEN {"duplicate service"} ELSE {})
                     \cup (IF Repeats(st.secrets) THEN {"duplicate secret"} ELSE {})
                     \cup (IF Repeats(st.networks) \/ Repeats(st.volumes) THEN {"duplicate"} ELSE {})
  BY DEF Faults
<1> HIDE DEF services, badName
<1> QED
  BY <1>1, <1>2, <1>3

LEMMA AcceptedIsSound ==
    ASSUME NEW p, IsPlan(p), ValidPlan(p)
    PROVE  Faults(StackOf(p)) \cap Unsound = {}
<1> DEFINE st == StackOf(p)
           cs == Components(p)
<1>1. ~Repeats(st.networks)
  BY StackNetworksHold, OnceEach
<1>2. ~Repeats(st.volumes)
  BY StackVolumesHold, OnceEach
<1>3. st.services = [i \in DOMAIN cs |-> Service(p, cs[i])] /\ st.secrets = StackSecrets(p)
  BY DEF StackOf
<1>4. ASSUME NEW k \in DOMAIN cs
      PROVE  ServiceFaults(st, Service(p, cs[k])) \cap Unsound = {}
  <2> DEFINE c == cs[k].component
             s == Service(p, cs[k])
  <2>1. IsComponent(c) /\ ValidComponent(c, p.spec.environment)
    BY ComponentsAre DEF IsComponentPlan
  <2>2. {s.secrets[i].source : i \in DOMAIN s.secrets} \subseteq ToSet(st.secrets) \cup {""}
    <3>1. s.secrets = serviceSecrets(c)
      BY DEF Service
    <3>2. {serviceSecrets(c)[i].source : i \in DOMAIN serviceSecrets(c)}
            = ToSet(Names(c.secrets)) \cup (ToSet(EnvSecrets(c)) \ {""})
      BY <2>1, ServiceSecretsAre
    <3>3. (ToSet(Names(c.secrets)) \cup ToSet(EnvSecrets(c))) \ {""} \subseteq ToSet(st.secrets)
      BY <1>3, StackSecretsHold
    <3> HIDE DEF c, s, st
    <3> QED
      BY <3>1, <3>2, <3>3
  <2>3. ToSet(s.networks) \subseteq ToSet(st.networks)
    <3>1. s.networks = Placement(p, cs[k]).networks
      BY DEF Service
    <3> HIDE DEF s
    <3> QED
      BY <3>1, StackNetworksHold
  <2>4. {s.mounts[i].source : i \in DOMAIN s.mounts} \subseteq ToSet(st.volumes)
    <3>1. s.mounts = IF c.stateful = <<>> THEN <<>>
                     ELSE <<[source |-> VolumeOf(c), target |-> c.stateful[1].dataPath]>>
      BY DEF Service
    <3>2. c.stateful # <<>> => VolumeOf(c) \in ToSet(st.volumes)
      BY StackVolumesHold
    <3>3. ASSUME NEW v, NEW t, NEW mounts, mounts = <<[source |-> v, target |-> t]>>
          PROVE  {mounts[i].source : i \in DOMAIN mounts} = {v}
      <4>1. DOMAIN mounts = {1} /\ mounts[1].source = v
        BY <3>3
      <4> QED
        BY <4>1
    <3> HIDE DEF c, s, st
    <3>4. CASE c.stateful = <<>>
      BY <3>1, <3>4
    <3>5. CASE c.stateful # <<>>
      BY <3>1, <3>2, <3>3, <3>5
    <3> QED
      BY <3>4, <3>5
  <2>5. s.stateful /\ s.deploy.replicas > 1 => s.statefulReplicasSafe
    <3>1. /\ s.stateful => c.kind = "stateful"
          /\ HA(c) => s.statefulReplicasSafe
          /\ s.deploy.replicas = IF c.replicas = 0 THEN 1 ELSE c.replicas
      BY DEF Service, deploy
    <3>2. c.kind = "stateful" /\ c.replicas > 1 => HA(c)
      BY <2>1 DEF ValidComponent
    <3> DEFINE r == s.deploy.replicas
    <3>3. ~(1 > 1)
      OBVIOUS
    <3> HIDE DEF c, s
    <3>4. r > 1 => c.replicas > 1
      <4>1. CASE c.replicas = 0
        BY <3>1, <3>3, <4>1
      <4>2. CASE c.replicas # 0
        BY <3>1, <4>2
      <4> QED
        BY <4>1, <4>2
    <3> QED
      BY <3>1, <3>2, <3>4
  <2> HIDE DEF s, st
  <2>6. ServiceFaults(st, s) \cap Unsound = {}
    BY <2>2, <2>3, <2>4, <2>5, ServiceIsSound
  <2> QED
    BY <2>6 DEF s
<1> HIDE DEF st
<1> QED
  BY <1>1, <1>2, <1>3, <1>4, StackIsSound DEF st

-----------------------------------------------------------------------------
(* What is written of a service.                                           *)

LEMMA RankIsNumber ==
    ASSUME NEW name
    PROVE  Rank(name) \in Int
<1>1. DOMAIN Lexical \subseteq Int
  BY SwarmAssumption
<1>2. name \in ToSet(Lexical) => \E i \in DOMAIN Lexical : Lexical[i] = name
  BY DEF ToSet
<1> QED
  BY <1>1, <1>2 DEF Rank

LEMMA AlphabeticalKeeps ==
    ASSUME NEW T, NEW names \in Seq(T)
    PROVE  ToSet(Alphabetical(names)) = ToSet(names)
<1> DEFINE key == [i \in DOMAIN names |-> Rank(names[i])]
<1>1. key \in [DOMAIN names -> Int]
  BY RankIsNumber
<1>2. Alphabetical(names) = Sorted(names, key)
  BY DEF Alphabetical
<1> HIDE DEF key
<1> QED
  BY <1>1, <1>2, SortedKeeps

LEMMA WrittenServices ==
    ASSUME NEW p, IsPlan(p), NEW i \in DOMAIN Written(StackOf(p)).services
    PROVE  \E k \in DOMAIN Components(p) :
              Written(StackOf(p)).services[i] = writeService(Service(p, Components(p)[k]))
<1> DEFINE cs == Components(p)
           list == [k \in DOMAIN cs |-> Service(p, cs[k])]
           key == [k \in DOMAIN list |-> Rank(list[k].name)]
           sorted == Sorted(list, key)
<1>1. StackOf(p).services = list
  BY DEF StackOf
<1>2. Written(StackOf(p)).services = [k \in DOMAIN sorted |-> writeService(sorted[k])]
  BY <1>1 DEF Written
<1>3. Len(cs) \in Nat /\ DOMAIN cs = 1 .. Len(cs)
  BY ComponentsAre
<1>4. key \in [DOMAIN list -> Int]
  BY RankIsNumber
<1>5. ToSet(list) = {Service(p, cs[k]) : k \in DOMAIN cs}
  BY DEF ToSet
<1> HIDE DEF cs
<1>6. list \in Seq(ToSet(list))
  BY <1>3 DEF ToSet
<1> HIDE DEF list, key
<1>7. ToSet(sorted) = ToSet(list)
  BY <1>4, <1>6, SortedKeeps
<1> HIDE DEF sorted
<1>8. i \in DOMAIN sorted /\ Written(StackOf(p)).services[i] = writeService(sorted[i])
  BY <1>2
<1>9. sorted[i] \in ToSet(list)
  BY <1>7, <1>8 DEF ToSet
<1> QED
  BY <1>5, <1>8, <1>9 DEF cs

\* A service is written with the secrets it was given.
LEMMA WrittenSecrets ==
    ASSUME NEW s, NEW T, s.secrets \in Seq(T)
    PROVE  /\ ToSet(writeService(s).secrets) = ToSet(s.secrets)
           /\ writeService(s).environment = s.environment
<1> DEFINE key == [i \in DOMAIN s.secrets |-> Rank(s.secrets[i].source)]
<1>1. key \in [DOMAIN s.secrets -> Int]
  BY RankIsNumber
<1>2. writeService(s).secrets = Sorted(s.secrets, key) /\ writeService(s).environment = s.environment
  BY DEF writeService
<1> HIDE DEF key
<1> QED
  BY <1>1, <1>2, SortedKeeps

\* A variable has the value of an entry of its name, the last one.
LEMMA EnvMapIs ==
    ASSUME NEW c, IsComponent(c), NEW key \in DOMAIN envMap(c.env)
    PROVE  \E j \in DOMAIN c.env :
              /\ c.env[j].from = <<>> \/ IsSecret(c.env[j].from)
              /\ KeyOf(c.env[j]) = key /\ envMap(c.env)[key] = ValueOf(c.env[j])
<1> DEFINE env == c.env
           written == {i \in DOMAIN env : env[i].from = <<>> \/ IsSecret(env[i].from)}
           Latest(k, i) == KeyOf(env[i]) = k /\ \A j \in written : KeyOf(env[j]) = k => j <= i
           last(k) == CHOOSE i \in written : Latest(k, i)
           J == {i \in written : KeyOf(env[i]) = key}
<1>1. envMap(env) = [k \in {KeyOf(env[i]) : i \in written} |-> ValueOf(env[last(k)])]
  BY DEF envMap
<1>2. Len(env) \in Nat /\ DOMAIN env = 1 .. Len(env)
  <2> DEFINE Entry == [name : Seq(Strings), value : Strings, from : {<<>>} \cup (Strings \X Strings)]
  <2>1. env \in Seq(Entry)
    BY DEF IsComponent
  <2> HIDE DEF Entry
  <2> QED
    BY <2>1
<1>3. J # {}
  BY <1>1
<1>4. PICK m \in J : \A j \in J : j <= m
  <2>1. J \in SUBSET (1 .. Len(env))
    BY <1>2
  <2> HIDE DEF J
  <2> QED
    BY <1>2, <1>3, <2>1, Greatest
<1>5. m \in written /\ Latest(key, m)
  BY <1>4
<1>6. last(key) \in written /\ Latest(key, last(key))
  BY <1>5
<1>7. envMap(env)[key] = ValueOf(env[last(key)])
  BY <1>1
<1> HIDE DEF last
<1> QED
  BY <1>6, <1>7

\* A secret file is that of a secret the service was given and the stack
\* declares, and a sensitive variable has no other value.
LEMMA SecretFile ==
    ASSUME NEW p, IsPlan(p), ValidPlan(p), NEW k \in DOMAIN Components(p),
           NEW key \in DOMAIN Service(p, Components(p)[k]).environment
    PROVE  LET s == Service(p, Components(p)[k])
               value == s.environment[key]
           IN  /\ IsPath(value) => /\ value[3] \in ToSet(StackSecrets(p))
                                   /\ \E j \in DOMAIN s.secrets : s.secrets[j].source = value[3]
               /\ looksSensitiveName(key) => value = <<"">> \/ IsPath(value)
<1> DEFINE c == Components(p)[k].component
           s == Service(p, Components(p)[k])
           value == s.environment[key]
<1>1. IsComponent(c) /\ ValidComponent(c, p.spec.environment)
  BY ComponentsAre DEF IsComponentPlan
<1>2. s.environment = envMap(c.env) /\ s.secrets = serviceSecrets(c)
  BY DEF Service
<1>3. PICK j \in DOMAIN c.env :
         /\ c.env[j].from = <<>> \/ IsSecret(c.env[j].from)
         /\ KeyOf(c.env[j]) = key /\ envMap(c.env)[key] = ValueOf(c.env[j])
  <2>1. key \in DOMAIN envMap(c.env) /\ IsComponent(c)
    BY <1>1, <1>2
  <2> HIDE DEF c
  <2> QED
    BY <2>1, EnvMapIs
<1> DEFINE e == c.env[j]
<1>4. value = ValueOf(e)
  BY <1>2, <1>3
<1>5. ValidEnv(e)
  BY <1>1 DEF ValidComponent, All
<1>6. /\ StackSecrets(p) \in Seq(Strings)
      /\ (ToSet(Names(c.secrets)) \cup ToSet(EnvSecrets(c))) \ {""} \subseteq ToSet(StackSecrets(p))
  BY StackSecretsHold
<1>7. {s.secrets[i].source : i \in DOMAIN s.secrets} = ToSet(Names(c.secrets)) \cup (ToSet(EnvSecrets(c)) \ {""})
  BY <1>1, <1>2, ServiceSecretsAre
<1>8. IsSecret(e.from) => e.from[2] \in ToSet(EnvSecrets(c)) /\ e.from[2] # ""
  BY <1>1, EnvSecretsAre DEF IsSecret
<1> HIDE DEF c, s, value, e
<1>9. CASE e.from = <<>>
  <2>1. value = <<e.value>> /\ KeyOf(e) = e.name
    BY <1>4, <1>9 DEF ValueOf, KeyOf
  <2>2. ~IsPath(value)
    BY <2>1 DEF IsPath
  <2>3. looksSensitiveName(key) => e.value = ""
    BY <1>3, <1>5, <2>1 DEF ValidEnv, e
  <2> QED
    BY <2>1, <2>2, <2>3 DEF s, value
<1>10. CASE IsSecret(e.from)
  <2>1. value = <<"run", "secrets", e.from[2]>>
    BY <1>4, <1>10 DEF ValueOf, RunSecrets, IsSecret
  <2>2. IsPath(value) /\ value[3] = e.from[2]
    BY <2>1 DEF IsPath
  <2>3. value[3] \in ToSet(StackSecrets(p))
    BY <1>6, <1>8, <1>10, <2>2
  <2>4. value[3] \in {s.secrets[i].source : i \in DOMAIN s.secrets}
    BY <1>7, <1>8, <1>10, <2>2
  <2> QED
    BY <2>2, <2>3, <2>4 DEF s, value
<1> QED
  BY <1>3, <1>9, <1>10 DEF e

-----------------------------------------------------------------------------
(* The specification.  What makes the properties inductive: every          *)
(* blueprint in the catalog was validated and its profiles are well        *)
(* typed, whatever plan is at hand is well typed, and what has become of   *)
(* it is what the status says.                                             *)

Accepted == {b \in Candidates \cup ToSet(BuiltinRegistry) : ValidBlueprint(b)}

StackInv ==
    /\ catalog \in Seq(Accepted)
    /\ IsPlan(plan)
    /\ status = "converted" => ValidPlan(plan) /\ stack = StackOf(plan)
    /\ status = "rendered" => ValidPlan(plan) /\ yaml = Written(StackOf(plan))

LEMMA RegisterChecks ==
    ASSUME NEW B, NEW seq \in Seq({b \in B : ValidBlueprint(b)}), NEW b \in B
    PROVE  Register(seq, b) \in Seq({x \in B : ValidBlueprint(x)})
<1> DEFINE Valid == {x \in B : ValidBlueprint(x)}
<1>1. ValidBlueprint(b) => b \in Valid
  OBVIOUS
<1>2. seq \in Seq(Valid)
  OBVIOUS
<1> HIDE DEF Valid
<1>3. Register(seq, b) \in Seq(Valid)
  BY <1>1, <1>2 DEF Register
<1> QED
  BY <1>3 DEF Valid

LEMMA BuiltinsAccepted == BuiltinRegistry \in Seq(Accepted)
<1> DEFINE P == PostgresSingleBlueprint
           R == RedisSingleBlueprint
           A == AppWebBlueprint
           B == {P, R, A}
           Valid == {b \in B : ValidBlueprint(b)}
<1> HIDE DEF P, R, A
<1>1. <<>> \in Seq(Valid)
  OBVIOUS
<1>2. \A seq \in Seq(Valid), b \in B : Register(seq, b) \in Seq(Valid)
  BY RegisterChecks
<1>3. BuiltinRegistry = Register(Register(Register(<<>>, P), R), A)
  BY DEF BuiltinRegistry, P, R, A
<1>4. P \in B /\ R \in B /\ A \in B
  OBVIOUS
<1>5. \A b \in Valid : ValidBlueprint(b)
  OBVIOUS
<1> HIDE DEF B, Valid
<1>6. BuiltinRegistry \in Seq(Valid)
  BY <1>1, <1>2, <1>3, <1>4
<1>7. \A i \in DOMAIN BuiltinRegistry : BuiltinRegistry[i] \in Accepted
  BY <1>5, <1>6 DEF Accepted, ToSet
<1> QED
  BY <1>6, <1>7

\* The profiles of the catalog are validated, and well typed.
LEMMA ProfilesAre ==
    ASSUME catalog \in Seq(Accepted), NEW p \in Profiles(catalog)
    PROVE  ValidProfile(p) /\ IsComponent(p.component)
<1>1. PICK i \in DOMAIN catalog : p \in ToSet(catalog[i].profiles)
  BY DEF Profiles
<1>2. catalog[i] \in Accepted
  OBVIOUS
<1>3. ValidBlueprint(catalog[i]) /\ catalog[i] \in Candidates \cup ToSet(BuiltinRegistry)
  BY <1>2 DEF Accepted
<1>4. PICK k \in DOMAIN catalog[i].profiles : p = catalog[i].profiles[k]
  BY <1>1 DEF ToSet
<1>5. ValidProfile(p)
  BY <1>3, <1>4 DEF ValidBlueprint, All
<1>6. IsComponent(p.component)
  BY <1>1, <1>3, SwarmAssumption
<1> QED
  BY <1>5, <1>6

LEMMA NoElement ==
    ASSUME NEW seq, seq = <<>>
    PROVE  DOMAIN seq = {} /\ \A T : seq \in Seq(T)
OBVIOUS

LEMMA OneElement ==
    ASSUME NEW c, NEW seq, seq = <<c>>
    PROVE  DOMAIN seq = {1} /\ seq[1] = c /\ seq # <<>> /\ seq \in Seq(Range(seq))
BY DEF Range

LEMMA ZeroPlan == IsPlan(DeploymentPlan)
<1>1. /\ DeploymentSpec.components = <<>> /\ DeploymentSpec.secrets = <<>>
      /\ DeploymentSpec.constraints = <<>> /\ DeploymentSpec.networks = <<>>
  BY DEF DeploymentSpec
<1>2. IsSpec(DeploymentSpec)
  BY <1>1, NoElement DEF IsSpec
<1>3. DeploymentPlan.spec = DeploymentSpec /\ DeploymentPlan.components = <<>>
  BY DEF DeploymentPlan
<1> QED
  BY <1>2, <1>3, NoElement DEF IsPlan

LEMMA ProfilePlan ==
    ASSUME NEW p, IsComponent(p.component), NEW name
    PROVE  IsPlan([DeploymentPlan EXCEPT !.spec = SpecOf(p, name)])
<1> DEFINE s == SpecOf(p, name)
           made == [DeploymentPlan EXCEPT !.spec = s]
<1>1. /\ DOMAIN s = DOMAIN DeploymentSpec /\ s.components = <<p.component>>
      /\ s.secrets = <<>> /\ s.constraints = <<>> /\ s.networks = <<>>
  BY DEF SpecOf, DeploymentSpec
<1> HIDE DEF s
<1>2. /\ DOMAIN s.components = {1} /\ s.components[1] = p.component
      /\ s.components \in Seq(Range(s.components))
  BY <1>1, OneElement
<1>3. IsSpec(s)
  BY <1>1, <1>2, NoElement DEF IsSpec
<1>4. DOMAIN made = DOMAIN DeploymentPlan /\ made.spec = s /\ made.components = <<>>
  BY DEF DeploymentPlan
<1> HIDE DEF made
<1>5. IsPlan(made)
  BY <1>3, <1>4, NoElement DEF IsPlan
<1> QED
  BY <1>5 DEF made, s

LEMMA StackInductive == Spec => []StackInv
<1>1. Init => StackInv
  BY BuiltinsAccepted, ZeroPlan DEF Init, StackInv
<1>2. ASSUME StackInv, [Next]_vars
      PROVE  StackInv'
  <2>1. ASSUME NEW b \in Candidates, RegisterBlueprint(b)
        PROVE  StackInv'
    <3>1. catalog' \in Seq(Accepted)
      <4>1. Register(catalog, b) \in Seq(Accepted)
        BY <1>2, RegisterChecks DEF StackInv, Accepted
      <4> QED
        BY <2>1, <4>1 DEF RegisterBlueprint
    <3> QED
      BY <1>2, <2>1, <3>1 DEF RegisterBlueprint, StackInv
  <2>2. ASSUME NEW p \in Profiles(catalog), NEW name \in {"", "shop"}, FromProfile(p, name)
        PROVE  StackInv'
    <3>1. IsPlan(plan')
      <4>1. IsComponent(p.component)
        BY <1>2, ProfilesAre DEF StackInv
      <4> QED
        BY <2>2, <4>1, ProfilePlan DEF FromProfile
    <3> QED
      BY <1>2, <2>2, <3>1 DEF FromProfile, StackInv
  <2>3. ASSUME NEW p \in Plans, Author(p)
        PROVE  StackInv'
    BY <1>2, <2>3, SwarmAssumption DEF Author, StackInv
  <2>4. CASE StackFromBlueprint
    BY <1>2, <2>4 DEF StackFromBlueprint, StackInv
  <2>5. CASE RenderStack
    BY <1>2, <2>5 DEF RenderStack, StackInv
  <2>6. CASE Return
    BY <1>2, <2>6, ZeroPlan DEF Return, StackInv
  <2>7. CASE UNCHANGED vars
    BY <1>2, <2>7 DEF vars, StackInv
  <2> QED
    BY <1>2, <2>1, <2>2, <2>3, <2>4, <2>5, <2>6, <2>7 DEF Next
<1> QED
  BY <1>1, <1>2, PTL DEF Spec

\* The stack made of any accepted plan refers to nothing it does not declare,
\* declares no network or volume twice and scales no stateful service that was
\* not declared safe to scale.
THEOREM SoundConversion == Spec => []ConversionIsSound
<1>1. StackInv => ConversionIsSound
  BY AcceptedIsSound DEF StackInv, ConversionIsSound, Unsound
<1> QED
  BY <1>1, StackInductive, PTL

\* Every self-contained profile of the catalog becomes a valid specification.
THEOREM ProfilesValid == Spec => []ProfilesDeploy
<1>1. ASSUME NEW p, ValidProfile(p), SelfContained(p.component), NEW name \in {"", "shop"}
      PROVE  ValidSpec(SpecOf(p, name))
  <2> DEFINE s == SpecOf(p, name)
  <2>1. /\ s.components = <<p.component>> /\ s.release = <<>> /\ s.secrets = <<>>
        /\ s.environment = p.environment /\ s.mode = p.mode
        /\ s.name = IF name = "" THEN p.component.name ELSE name
    BY DEF SpecOf, DeploymentSpec
  <2>2. ValidComponent(p.component, p.environment) /\ p.mode \in Modes /\ p.component.name # ""
    BY <1>1 DEF ValidProfile, ValidComponent
  <2> HIDE DEF s
  <2>3. /\ DOMAIN s.components = {1} /\ s.components[1] = p.component
        /\ s.components # <<>>
    BY <2>1, OneElement
  <2>4. DOMAIN s.release = {}
    BY <2>1, NoElement
  <2>5. ValidGraph(s)
    <3>1. DOMAIN p.component.dependsOn = {}
      BY <1>1, NoElement DEF SelfContained
    <3> QED
      BY <1>1, <2>3, <2>4, <3>1 DEF ValidGraph, SelfContained, All
  <2>6. ValidRelease(s.release)
    BY <2>4 DEF ValidRelease, All
  <2>7. s.name # ""
    BY <2>1, <2>2
  <2>8. All(s.components, LAMBDA c : ValidComponent(c, s.environment))
    BY <2>1, <2>2, <2>3 DEF All
  <2>9. s.mode \in Modes
    BY <2>1, <2>2
  <2>10. ValidSpec(s)
    BY <2>3, <2>5, <2>6, <2>7, <2>8, <2>9 DEF ValidSpec
  <2> QED
    BY <2>10 DEF s
<1>2. StackInv => ProfilesDeploy
  BY <1>1, ProfilesAre DEF StackInv, ProfilesDeploy
<1> QED
  BY <1>2, StackInductive, PTL

\* Of a rendered service, in the terms of the component it was made of.
LEMMA RenderedService ==
    ASSUME StackInv, status = "rendered", NEW i \in DOMAIN yaml.services
    PROVE  \E k \in DOMAIN Components(plan) :
              LET s == Service(plan, Components(plan)[k]) IN
              /\ yaml.services[i].environment = s.environment
              /\ ToSet(yaml.services[i].secrets) = ToSet(s.secrets)
              /\ ToSet(yaml.secrets) = ToSet(StackSecrets(plan))
<1>1. IsPlan(plan) /\ ValidPlan(plan) /\ yaml = Written(StackOf(plan))
  BY DEF StackInv
<1>2. PICK k \in DOMAIN Components(plan) :
         yaml.services[i] = writeService(Service(plan, Components(plan)[k]))
  BY <1>1, WrittenServices
<1> DEFINE s == Service(plan, Components(plan)[k])
           c == Components(plan)[k].component
           S == [source : Strings, target : Strings \cup {""}]
<1>3. s.secrets \in Seq(S)
  <2>1. s.secrets = serviceSecrets(c)
    BY DEF Service
  <2>2. IsComponent(c)
    BY <1>1, ComponentsAre DEF IsComponentPlan
  <2>3. serviceSecrets(c) \in Seq(S)
    BY <2>2, ServiceSecretsAre
  <2> HIDE DEF s, c, S
  <2> QED
    BY <2>1, <2>3
<1> HIDE DEF s, c, S
<1>4. /\ ToSet(yaml.services[i].secrets) = ToSet(s.secrets)
      /\ yaml.services[i].environment = s.environment
  BY <1>2, <1>3, WrittenSecrets DEF s
<1>5. yaml.secrets = Alphabetical(StackSecrets(plan))
  BY <1>1 DEF Written, writeTopLevel, StackOf
<1>6. StackSecrets(plan) \in Seq(Strings)
  BY <1>1, StackSecretsHold
<1>7. ToSet(yaml.secrets) = ToSet(StackSecrets(plan))
  BY <1>5, <1>6, AlphabeticalKeeps
<1> QED
  BY <1>4, <1>7 DEF s

\* Each secret file a rendered service is told of is declared and granted to it.
THEOREM FilesGranted == Spec => []SecretFilesGranted
<1>1. ASSUME StackInv, status = "rendered", NEW i \in DOMAIN yaml.services,
             NEW key \in DOMAIN yaml.services[i].environment,
             IsPath(yaml.services[i].environment[key])
      PROVE  LET s == yaml.services[i]
                 value == s.environment[key]
             IN  /\ value[3] \in ToSet(yaml.secrets)
                 /\ \E j \in DOMAIN s.secrets : s.secrets[j].source = value[3]
  <2>1. PICK k \in DOMAIN Components(plan) :
           LET s == Service(plan, Components(plan)[k]) IN
           /\ yaml.services[i].environment = s.environment
           /\ ToSet(yaml.services[i].secrets) = ToSet(s.secrets)
           /\ ToSet(yaml.secrets) = ToSet(StackSecrets(plan))
    BY <1>1, RenderedService
  <2> DEFINE s == Service(plan, Components(plan)[k])
             value == s.environment[key]
  <2>2. value[3] \in ToSet(StackSecrets(plan)) /\ \E j \in DOMAIN s.secrets : s.secrets[j].source = value[3]
    <3>1. IsPlan(plan) /\ ValidPlan(plan)
      BY <1>1 DEF StackInv
    <3>2. key \in DOMAIN s.environment /\ IsPath(value)
      BY <1>1, <2>1
    <3> QED
      BY <3>1, <3>2, SecretFile
  <2> HIDE DEF s
  <2>3. \E x \in ToSet(yaml.services[i].secrets) : x.source = value[3]
    BY <2>1, <2>2 DEF s, ToSet
  <2> QED
    BY <2>1, <2>2, <2>3 DEF s, ToSet
<1>2. StackInv => SecretFilesGranted
  BY <1>1 DEF SecretFilesGranted
<1> QED
  BY <1>2, StackInductive, PTL

\* No sensitive variable of a rendered service has a literal value.
THEOREM LiteralSecretsNever == Spec => []NoLiteralSecret
<1>1. ASSUME StackInv, status = "rendered", NEW i \in DOMAIN yaml.services,
             NEW key \in DOMAIN yaml.services[i].environment, looksSensitiveName(key)
      PROVE  LET value == yaml.services[i].environment[key]
             IN  value = <<"">> \/ IsPath(value)
  <2>1. PICK k \in DOMAIN Components(plan) :
           yaml.services[i].environment = Service(plan, Components(plan)[k]).environment
    BY <1>1, RenderedService
  <2>2. IsPlan(plan) /\ ValidPlan(plan)
    BY <1>1 DEF StackInv
  <2>3. key \in DOMAIN Service(plan, Components(plan)[k]).environment
    BY <2>1
  <2> DEFINE value == Service(plan, Components(plan)[k]).environment[key]
  <2>4. looksSensitiveName(key) => value = <<"">> \/ IsPath(value)
    BY <2>2, <2>3, SecretFile
  <2>5. value = yaml.services[i].environment[key]
    BY <2>1
  <2> HIDE DEF value
  <2> QED
    BY <1>1, <2>4, <2>5
<1>2. StackInv => NoLiteralSecret
  BY <1>1 DEF NoLiteralSecret
<1> QED
  BY <1>2, StackInductive, PTL

-----------------------------------------------------------------------------
(* The order of the plan does not reach what is written.                   *)

\* A list that does not repeat has no element twice.
LEMMA NoRepeats ==
    ASSUME NEW T, NEW seq \in Seq(T), ~Repeats(seq)
    PROVE  IsInjective(seq)
<1> DEFINE n == Len(seq)
<1>1. n \in Nat /\ DOMAIN seq = 1 .. n /\ seq \in [1 .. n -> ToSet(seq)]
  BY DEF ToSet
<1> HIDE DEF n
<1>2. IsFiniteSet(1 .. n) /\ Cardinality(1 .. n) = n
  BY <1>1, FS_Interval
<1>3. seq \in Surjection(1 .. n, ToSet(seq))
  BY <1>1 DEF Surjection, ToSet
<1>4. IsFiniteSet(ToSet(seq)) /\ Cardinality(ToSet(seq)) <= n
  BY <1>2, <1>3, FS_Surjection
<1>5. Cardinality(ToSet(seq)) = n
  <2>1. ~(Cardinality(ToSet(seq)) < n)
    BY DEF Repeats, n
  <2>2. Cardinality(ToSet(seq)) \in Nat
    BY <1>4, FS_CardinalityType
  <2> QED
    BY <1>1, <1>4, <2>1, <2>2
<1>6. seq \in Injection(1 .. n, ToSet(seq))
  BY <1>2, <1>3, <1>5, FS_Surjection
<1> QED
  BY <1>1, <1>6 DEF Injection, IsInjective

\* A name of the alphabet has a place of its own in it.
LEMMA RankTells ==
    ASSUME NEW x \in ToSet(Lexical), NEW y \in ToSet(Lexical), Rank(x) = Rank(y)
    PROVE  x = y
<1>1. ASSUME NEW z \in ToSet(Lexical)
      PROVE  Rank(z) \in DOMAIN Lexical /\ Lexical[Rank(z)] = z
  <2>1. \E i \in DOMAIN Lexical : Lexical[i] = z
    BY DEF ToSet
  <2>2. Rank(z) = CHOOSE i \in DOMAIN Lexical : Lexical[i] = z
    BY DEF Rank
  <2> QED
    BY <2>1, <2>2
<1> QED
  BY <1>1

\* Lists of the same names, in whatever order, each name once.
Alike(s, t) ==
    /\ s \in Seq(Strings) /\ t \in Seq(Strings)
    /\ ToSet(s) = ToSet(t) /\ IsInjective(s) /\ IsInjective(t)

LEMMA AlphabeticalForgets ==
    ASSUME NEW s, NEW t, Alike(s, t), ToSet(s) \subseteq ToSet(Lexical)
    PROVE  Alphabetical(s) = Alphabetical(t)
<1> DEFINE rank == [x \in Strings |-> Rank(x)]
<1>1. rank \in [Strings -> Int]
  BY RankIsNumber
<1>2. s \in Seq(Strings) /\ t \in Seq(Strings)
  BY DEF Alike
<1>3. Tells(rank, ToSet(s))
  <2>1. \A x \in ToSet(s) : x \in Strings
    BY <1>2 DEF ToSet
  <2> QED
    BY <2>1, RankTells DEF Tells
<1>4. ASSUME NEW seq \in Seq(Strings)
      PROVE  Alphabetical(seq) = Ranked(seq, rank)
  <2>1. [i \in DOMAIN seq |-> Rank(seq[i])] = [i \in DOMAIN seq |-> rank[seq[i]]]
    <3>1. \A i \in DOMAIN seq : seq[i] \in Strings
      OBVIOUS
    <3> QED
      BY <3>1
  <2> HIDE DEF rank
  <2> QED
    BY <2>1 DEF Alphabetical, Ranked
<1> HIDE DEF rank
<1>5. Ranked(s, rank) = Ranked(t, rank)
  BY <1>1, <1>2, <1>3, RankedForgets DEF Alike
<1> QED
  BY <1>2, <1>4, <1>5

LEMMA UniqueAlike ==
    ASSUME NEW s \in Seq(Strings), NEW t \in Seq(Strings),
           ToSet(s) \ {""} = ToSet(t) \ {""}
    PROVE  Alike(uniqueStrings(s), uniqueStrings(t))
BY UniqueStrings DEF Alike

LEMMA MergedAre ==
    ASSUME NEW a, NEW b, a.networks \in Seq(Strings), b.networks \in Seq(Strings),
           a.constraints \in Seq(Strings), b.constraints \in Seq(Strings)
    PROVE  LET merged == mergePlacement(a, b) IN
           /\ merged.networks \in Seq(Strings) /\ IsInjective(merged.networks)
           /\ ToSet(merged.networks) = (ToSet(a.networks) \cup ToSet(b.networks)) \ {""}
           /\ merged.constraints \in Seq(Strings) /\ IsInjective(merged.constraints)
           /\ ToSet(merged.constraints) = (ToSet(a.constraints) \cup ToSet(b.constraints)) \ {""}
<1>1. /\ mergePlacement(a, b).networks = uniqueStrings(a.networks \o b.networks)
      /\ mergePlacement(a, b).constraints = uniqueStrings(a.constraints \o b.constraints)
  BY DEF mergePlacement
<1>2. ASSUME NEW s \in Seq(Strings), NEW t \in Seq(Strings)
      PROVE  /\ uniqueStrings(s \o t) \in Seq(Strings) /\ IsInjective(uniqueStrings(s \o t))
             /\ ToSet(uniqueStrings(s \o t)) = (ToSet(s) \cup ToSet(t)) \ {""}
  <2>1. s \o t \in Seq(Strings) /\ ToSet(s \o t) = ToSet(s) \cup ToSet(t)
    BY ConcatenationHolds
  <2> QED
    BY <2>1, UniqueStrings
<1>3. LET made == mergePlacement(a, b).networks IN
      /\ made \in Seq(Strings) /\ IsInjective(made)
      /\ ToSet(made) = (ToSet(a.networks) \cup ToSet(b.networks)) \ {""}
  <2> DEFINE x == a.networks
             y == b.networks
  <2>1. x \in Seq(Strings) /\ y \in Seq(Strings)
    OBVIOUS
  <2>2. mergePlacement(a, b).networks = uniqueStrings(x \o y)
    BY <1>1
  <2> HIDE DEF x, y
  <2>3. /\ uniqueStrings(x \o y) \in Seq(Strings) /\ IsInjective(uniqueStrings(x \o y))
        /\ ToSet(uniqueStrings(x \o y)) = (ToSet(x) \cup ToSet(y)) \ {""}
    BY <1>2, <2>1
  <2> QED
    BY <2>2, <2>3 DEF x, y
<1>4. LET made == mergePlacement(a, b).constraints IN
      /\ made \in Seq(Strings) /\ IsInjective(made)
      /\ ToSet(made) = (ToSet(a.constraints) \cup ToSet(b.constraints)) \ {""}
  <2> DEFINE x == a.constraints
             y == b.constraints
  <2>1. x \in Seq(Strings) /\ y \in Seq(Strings)
    OBVIOUS
  <2>2. mergePlacement(a, b).constraints = uniqueStrings(x \o y)
    BY <1>1
  <2> HIDE DEF x, y
  <2>3. /\ uniqueStrings(x \o y) \in Seq(Strings) /\ IsInjective(uniqueStrings(x \o y))
        /\ ToSet(uniqueStrings(x \o y)) = (ToSet(x) \cup ToSet(y)) \ {""}
    BY <1>2, <2>1
  <2> QED
    BY <2>2, <2>3 DEF x, y
<1> QED
  BY <1>3, <1>4

\* Where a component runs, as a set.
LEMMA PlacementIs ==
    ASSUME NEW p, IsPlan(p), NEW cp, IsComponentPlan(cp)
    PROVE  LET placed == Placement(p, cp)
               c == cp.component
           IN  /\ placed.networks \in Seq(Strings) /\ IsInjective(placed.networks)
               /\ ToSet(placed.networks) =
                      (ToSet(p.spec.networks) \cup ToSet(c.networks) \cup ToSet(cp.networks)) \ {""}
               /\ placed.constraints \in Seq(Strings) /\ IsInjective(placed.constraints)
               /\ ToSet(placed.constraints) =
                      (ToSet(p.spec.constraints) \cup ToSet(c.constraints) \cup ToSet(cp.constraints)) \ {""}
<1> DEFINE c == cp.component
           first == mergePlacement(p.spec, c)
<1>1. /\ p.spec.networks \in Seq(Strings) /\ c.networks \in Seq(Strings) /\ cp.networks \in Seq(Strings)
      /\ p.spec.constraints \in Seq(Strings) /\ c.constraints \in Seq(Strings)
      /\ cp.constraints \in Seq(Strings)
  BY DEF IsPlan, IsSpec, IsComponentPlan, IsComponent
<1>2. /\ first.networks \in Seq(Strings) /\ first.constraints \in Seq(Strings)
      /\ ToSet(first.networks) = (ToSet(p.spec.networks) \cup ToSet(c.networks)) \ {""}
      /\ ToSet(first.constraints) = (ToSet(p.spec.constraints) \cup ToSet(c.constraints)) \ {""}
  BY <1>1, MergedAre
<1>3. Placement(p, cp) = mergePlacement(first, cp)
  BY DEF Placement
<1> HIDE DEF first, c
<1>4. /\ Placement(p, cp).networks \in Seq(Strings) /\ IsInjective(Placement(p, cp).networks)
      /\ ToSet(Placement(p, cp).networks) = (ToSet(first.networks) \cup ToSet(cp.networks)) \ {""}
      /\ Placement(p, cp).constraints \in Seq(Strings) /\ IsInjective(Placement(p, cp).constraints)
      /\ ToSet(Placement(p, cp).constraints)
            = (ToSet(first.constraints) \cup ToSet(cp.constraints)) \ {""}
  <2>1. LET merged == mergePlacement(first, cp) IN
        /\ merged.networks \in Seq(Strings) /\ IsInjective(merged.networks)
        /\ ToSet(merged.networks) = (ToSet(first.networks) \cup ToSet(cp.networks)) \ {""}
        /\ merged.constraints \in Seq(Strings) /\ IsInjective(merged.constraints)
        /\ ToSet(merged.constraints) = (ToSet(first.constraints) \cup ToSet(cp.constraints)) \ {""}
    <3>1. /\ first.networks \in Seq(Strings) /\ first.constraints \in Seq(Strings)
          /\ cp.networks \in Seq(Strings) /\ cp.constraints \in Seq(Strings)
      BY <1>1, <1>2
    <3> QED
      BY ONLY <3>1, MergedAre
  <2> QED
    BY <1>3, <2>1
<1> QED
  BY <1>2, <1>4 DEF c

LEMMA ReverseOf ==
    ASSUME NEW seq, seq \in Seq(Range(seq))
    PROVE  /\ Reverse(seq) \in Seq(Range(Reverse(seq)))
           /\ \A i \in DOMAIN Reverse(seq) : \E k \in DOMAIN seq : Reverse(seq)[i] = seq[k]
<1>1. /\ Reverse(seq) \in Seq(Range(seq)) /\ Len(Reverse(seq)) = Len(seq)
      /\ \A i \in 1 .. Len(seq) : Reverse(seq)[i] = seq[Len(seq) + 1 - i]
  BY ReverseIs
<1>2. Len(seq) \in Nat /\ DOMAIN seq = 1 .. Len(seq) /\ DOMAIN Reverse(seq) = 1 .. Len(seq)
  BY <1>1
<1>3. \A i \in 1 .. Len(seq) : Len(seq) + 1 - i \in 1 .. Len(seq)
  BY <1>2
<1>4. Reverse(seq) \in Seq(Range(Reverse(seq)))
  <2>1. Range(Reverse(seq)) = {Reverse(seq)[i] : i \in 1 .. Len(seq)}
    BY <1>2 DEF Range
  <2> HIDE DEF Reverse
  <2>2. \A i \in 1 .. Len(seq) : Reverse(seq)[i] \in Range(Reverse(seq))
    BY <2>1
  <2> QED
    BY <1>1, <1>2, <2>2
<1> QED
  BY <1>1, <1>2, <1>3, <1>4

LEMMA BackwardsIs ==
    ASSUME NEW p, IsPlan(p)
    PROVE  LET b == Backwards(p) IN
           /\ IsPlan(b)
           /\ b.components = Reverse(p.components)
           /\ b.spec.components = Reverse(p.spec.components)
           /\ b.spec.secrets = Reverse(p.spec.secrets)
           /\ b.spec.networks = Reverse(p.spec.networks)
           /\ b.spec.constraints = Reverse(p.spec.constraints)
           /\ b.spec.mode = p.spec.mode /\ b.spec.upgrade = p.spec.upgrade
<1> DEFINE s == p.spec
           t == [s EXCEPT !.components = Reverse(@), !.secrets = Reverse(@),
                          !.networks = Reverse(@), !.constraints = Reverse(@)]
           b == Backwards(p)
<1>1. b = [spec |-> t, components |-> Reverse(p.components)]
  BY DEF Backwards
<1>2. DOMAIN s = {"name", "environment", "mode", "components", "release", "secrets",
                  "constraints", "networks", "upgrade"}
  BY DEF IsPlan, IsSpec, DeploymentSpec
<1>3. /\ DOMAIN t = DOMAIN s
      /\ t.components = Reverse(s.components) /\ t.secrets = Reverse(s.secrets)
      /\ t.networks = Reverse(s.networks) /\ t.constraints = Reverse(s.constraints)
      /\ t.mode = s.mode /\ t.upgrade = s.upgrade
  BY <1>2
<1> HIDE DEF t
<1>4. /\ s.secrets \in Seq(Strings) /\ s.networks \in Seq(Strings) /\ s.constraints \in Seq(Strings)
      /\ s.components \in Seq(Range(s.components)) /\ \A i \in DOMAIN s.components : IsComponent(s.components[i])
      /\ DOMAIN s = DOMAIN DeploymentSpec
      /\ p.components \in Seq(Range(p.components))
      /\ \A i \in DOMAIN p.components : IsComponentPlan(p.components[i])
  BY DEF IsPlan, IsSpec
<1> HIDE DEF s
<1>5. /\ t.secrets \in Seq(Strings) /\ t.networks \in Seq(Strings) /\ t.constraints \in Seq(Strings)
  BY <1>3, <1>4, ReverseIs
<1>6. /\ t.components \in Seq(Range(t.components))
      /\ \A i \in DOMAIN t.components : IsComponent(t.components[i])
  BY <1>3, <1>4, ReverseOf
<1>7. IsSpec(t)
  BY <1>3, <1>4, <1>5, <1>6 DEF IsSpec
<1>8. /\ Reverse(p.components) \in Seq(Range(Reverse(p.components)))
      /\ \A i \in DOMAIN Reverse(p.components) : IsComponentPlan(Reverse(p.components)[i])
  BY <1>4, ReverseOf
<1>9. b.spec = t /\ b.components = Reverse(p.components) /\ DOMAIN b = DOMAIN DeploymentPlan
  BY <1>1 DEF DeploymentPlan
<1> HIDE DEF b
<1>10. IsPlan(b)
  BY <1>7, <1>8, <1>9 DEF IsPlan
<1> QED
  BY <1>3, <1>9, <1>10 DEF s, b

\* The components of the reversed plan are those of the plan, from behind.
LEMMA ComponentsFromBehind ==
    ASSUME NEW p, IsPlan(p)
    PROVE  LET cs == Components(p)
               ds == Components(Backwards(p))
           IN  /\ Len(ds) = Len(cs) /\ DOMAIN ds = 1 .. Len(cs)
               /\ \A i \in 1 .. Len(cs) :
                     LET k == Len(cs) + 1 - i IN
                     /\ ds[i].component = cs[k].component
                     /\ ToSet(ds[i].networks) = ToSet(cs[k].networks)
                     /\ ToSet(ds[i].constraints) = ToSet(cs[k].constraints)
<1> DEFINE b == Backwards(p)
           Made(q, c) == [component |-> c, mode |-> q.spec.mode,
                          constraints |-> mergePlacement(q.spec, c).constraints,
                          networks |-> mergePlacement(q.spec, c).networks]
<1>1. /\ IsPlan(b) /\ b.components = Reverse(p.components)
      /\ b.spec.components = Reverse(p.spec.components)
      /\ ToSet(b.spec.networks) = ToSet(p.spec.networks)
      /\ ToSet(b.spec.constraints) = ToSet(p.spec.constraints)
  <2>1. p.spec.networks \in Seq(Strings) /\ p.spec.constraints \in Seq(Strings)
    BY DEF IsPlan, IsSpec
  <2> QED
    BY <2>1, BackwardsIs, ReverseIs
<1> HIDE DEF b
<1>2. p.components \in Seq(Range(p.components)) /\ p.spec.components \in Seq(Range(p.spec.components))
  BY DEF IsPlan, IsSpec
<1>3. CASE p.components # <<>>
  <2>1. /\ Len(b.components) = Len(p.components)
        /\ \A i \in 1 .. Len(p.components) : b.components[i] = p.components[Len(p.components) + 1 - i]
        /\ b.components \in Seq(Range(p.components))
    BY <1>1, <1>2, ReverseIs
  <2>2. b.components # <<>>
    BY <1>2, <1>3, <2>1
  <2>3. Components(p) = p.components /\ Components(b) = b.components
    BY <1>3, <2>2 DEF Components
  <2>4. DOMAIN b.components = 1 .. Len(p.components)
    BY <2>1
  <2> QED
    BY <2>1, <2>3, <2>4 DEF b
<1>4. CASE p.components = <<>>
  <2> DEFINE cs == p.spec.components
             ds == b.spec.components
             n == Len(cs)
  <2>1. b.components = <<>>
    <3>1. Len(b.components) = Len(p.components) /\ b.components \in Seq(Range(p.components))
      BY <1>1, <1>2, ReverseIs
    <3> QED
      BY <1>4, <3>1
  <2>2. /\ Components(p) = [i \in DOMAIN cs |-> Made(p, cs[i])]
        /\ Components(b) = [i \in DOMAIN ds |-> Made(b, ds[i])]
    BY <1>4, <2>1 DEF Components
  <2>3. /\ n \in Nat /\ DOMAIN cs = 1 .. n /\ DOMAIN ds = 1 .. n /\ Len(ds) = n
        /\ \A i \in 1 .. n : ds[i] = cs[n + 1 - i] /\ n + 1 - i \in 1 .. n
    <3>1. /\ Len(ds) = n /\ \A i \in 1 .. n : ds[i] = cs[n + 1 - i]
          /\ ds \in Seq(Range(cs))
      BY <1>1, <1>2, ReverseIs
    <3>2. n \in Nat /\ DOMAIN cs = 1 .. n
      BY <1>2
    <3> HIDE DEF cs, ds, n
    <3> QED
      BY <3>1, <3>2
  <2>4. ASSUME NEW c, IsComponent(c)
        PROVE  /\ Made(b, c).component = Made(p, c).component
               /\ ToSet(Made(b, c).networks) = ToSet(Made(p, c).networks)
               /\ ToSet(Made(b, c).constraints) = ToSet(Made(p, c).constraints)
    <3>1. \A q : /\ Made(q, c).component = c
                 /\ Made(q, c).networks = mergePlacement(q.spec, c).networks
                 /\ Made(q, c).constraints = mergePlacement(q.spec, c).constraints
      OBVIOUS
    <3>2. ASSUME NEW q, IsPlan(q)
          PROVE  /\ ToSet(mergePlacement(q.spec, c).networks)
                      = (ToSet(q.spec.networks) \cup ToSet(c.networks)) \ {""}
                 /\ ToSet(mergePlacement(q.spec, c).constraints)
                      = (ToSet(q.spec.constraints) \cup ToSet(c.constraints)) \ {""}
      <4>1. /\ q.spec.networks \in Seq(Strings) /\ q.spec.constraints \in Seq(Strings)
            /\ c.networks \in Seq(Strings) /\ c.constraints \in Seq(Strings)
        BY <2>4, <3>2 DEF IsPlan, IsSpec, IsComponent
      <4> QED
        BY <4>1, MergedAre
    <3> HIDE DEF Made
    <3> QED
      BY <1>1, <3>1, <3>2
  <2>5. \A i \in 1 .. n : IsComponent(cs[i])
    BY <2>3 DEF IsPlan, IsSpec
  <2> HIDE DEF Made, cs, ds, n
  <2>6. /\ Len(Components(p)) = n /\ Len(Components(b)) = n /\ DOMAIN Components(b) = 1 .. n
        /\ \A i \in 1 .. n : Components(p)[i] = Made(p, cs[i]) /\ Components(b)[i] = Made(b, ds[i])
    BY <2>2, <2>3
  <2> QED
    BY <2>3, <2>4, <2>5, <2>6 DEF b
<1> QED
  BY <1>3, <1>4

\* A component runs in the same places.
LEMMA PlacementFromBehind ==
    ASSUME NEW p, IsPlan(p), NEW i \in 1 .. Len(Components(p))
    PROVE  LET b == Backwards(p)
               k == Len(Components(p)) + 1 - i
               here == Placement(p, Components(p)[k])
               there == Placement(b, Components(b)[i])
           IN  /\ k \in 1 .. Len(Components(p))
               /\ Alike(here.networks, there.networks)
               /\ Alike(here.constraints, there.constraints)
<1> DEFINE b == Backwards(p)
           n == Len(Components(p))
           k == n + 1 - i
           cp == Components(p)[k]
           dp == Components(b)[i]
<1>1. /\ IsPlan(b) /\ ToSet(b.spec.networks) = ToSet(p.spec.networks)
      /\ ToSet(b.spec.constraints) = ToSet(p.spec.constraints)
  <2>1. p.spec.networks \in Seq(Strings) /\ p.spec.constraints \in Seq(Strings)
    BY DEF IsPlan, IsSpec
  <2> QED
    BY <2>1, BackwardsIs, ReverseIs
<1>2. n \in Nat /\ k \in 1 .. n /\ IsComponentPlan(cp)
  <2>1. n \in Nat /\ DOMAIN Components(p) = 1 .. n /\ \A j \in 1 .. n : IsComponentPlan(Components(p)[j])
    BY ComponentsAre
  <2>2. k \in 1 .. n
    BY <2>1
  <2> HIDE DEF k
  <2> QED
    BY <2>1, <2>2
<1>3. /\ DOMAIN Components(b) = 1 .. n /\ dp.component = cp.component
      /\ ToSet(dp.networks) = ToSet(cp.networks) /\ ToSet(dp.constraints) = ToSet(cp.constraints)
  BY ComponentsFromBehind
<1>4. IsComponentPlan(dp)
  BY <1>1, <1>3, ComponentsAre
<1> HIDE DEF b, n, k, cp, dp
<1>5. LET placed == Placement(p, cp) IN
      /\ placed.networks \in Seq(Strings) /\ IsInjective(placed.networks)
      /\ ToSet(placed.networks) =
            (ToSet(p.spec.networks) \cup ToSet(cp.component.networks) \cup ToSet(cp.networks)) \ {""}
      /\ placed.constraints \in Seq(Strings) /\ IsInjective(placed.constraints)
      /\ ToSet(placed.constraints) =
            (ToSet(p.spec.constraints) \cup ToSet(cp.component.constraints) \cup ToSet(cp.constraints)) \ {""}
  BY <1>2, PlacementIs
<1>6. LET placed == Placement(b, dp) IN
      /\ placed.networks \in Seq(Strings) /\ IsInjective(placed.networks)
      /\ ToSet(placed.networks) =
            (ToSet(b.spec.networks) \cup ToSet(dp.component.networks) \cup ToSet(dp.networks)) \ {""}
      /\ placed.constraints \in Seq(Strings) /\ IsInjective(placed.constraints)
      /\ ToSet(placed.constraints) =
            (ToSet(b.spec.constraints) \cup ToSet(dp.component.constraints) \cup ToSet(dp.constraints)) \ {""}
  BY <1>1, <1>4, PlacementIs
<1>7. /\ Alike(Placement(p, cp).networks, Placement(b, dp).networks)
      /\ Alike(Placement(p, cp).constraints, Placement(b, dp).constraints)
  BY <1>1, <1>3, <1>5, <1>6 DEF Alike
<1> QED
  BY <1>2, <1>7 DEF b, n, k, cp, dp

\* It becomes the same service, and is written the same.
LEMMA ServiceFromBehind ==
    ASSUME NEW p, IsPlan(p), SortedNames(StackOf(p)) \subseteq ToSet(Lexical),
           NEW i \in 1 .. Len(Components(p))
    PROVE  LET b == Backwards(p)
               here == Service(p, Components(p)[Len(Components(p)) + 1 - i])
               there == Service(b, Components(b)[i])
           IN  there.name = here.name /\ writeService(there) = writeService(here)
<1> DEFINE b == Backwards(p)
           cs == Components(p)
           k == Len(cs) + 1 - i
           cp == cs[k]
           dp == Components(b)[i]
           c == cp.component
           s == Service(p, cp)
           t == Service(b, dp)
<1>1. dp.component = c
  BY ComponentsFromBehind
<1>2. b.spec.upgrade = p.spec.upgrade
  BY BackwardsIs
<1>3. /\ k \in 1 .. Len(cs)
      /\ Alike(Placement(p, cp).networks, Placement(b, dp).networks)
      /\ Alike(Placement(p, cp).constraints, Placement(b, dp).constraints)
  BY PlacementFromBehind
<1>4. /\ ToSet(s.networks) \subseteq ToSet(Lexical)
      /\ ToSet(s.deploy.constraints) \subseteq ToSet(Lexical)
  <2>1. DOMAIN cs = 1 .. Len(cs)
    BY ComponentsAre
  <2>2. StackOf(p).services = [j \in DOMAIN cs |-> Service(p, cs[j])]
    BY DEF StackOf
  <2>3. k \in DOMAIN StackOf(p).services /\ StackOf(p).services[k] = s
    <3> HIDE DEF k
    <3> QED
      BY <1>3, <2>1, <2>2
  <2> HIDE DEF s, k, cs
  <2> QED
    BY <2>3 DEF SortedNames
<1> HIDE DEF b, cs, k, cp, dp, c
<1>5. /\ s.networks = Placement(p, cp).networks /\ t.networks = Placement(b, dp).networks
      /\ s.deploy.constraints = Placement(p, cp).constraints
      /\ t.deploy.constraints = Placement(b, dp).constraints
  BY DEF Service, deploy
<1>6. /\ writeStringList(s.networks) = writeStringList(t.networks)
      /\ writeStringList(s.deploy.constraints) = writeStringList(t.deploy.constraints)
  BY <1>3, <1>4, <1>5, AlphabeticalForgets DEF writeStringList
<1>7. /\ s.deploy.replicas = t.deploy.replicas /\ s.deploy.upgrade = t.deploy.upgrade
  BY <1>1, <1>2 DEF Service, deploy, c
<1>8. /\ s.name = t.name /\ s.image = t.image /\ s.command = t.command
      /\ s.environment = t.environment /\ s.ports = t.ports /\ s.mounts = t.mounts
      /\ s.secrets = t.secrets /\ s.healthcheck = t.healthcheck
  BY <1>1 DEF Service, c
<1> HIDE DEF s, t
<1>9. writeDeploy(s.deploy) = writeDeploy(t.deploy)
  BY <1>6, <1>7 DEF writeDeploy
<1>10. writeService(s) = writeService(t)
  BY <1>6, <1>8, <1>9 DEF writeService
<1> QED
  BY <1>8, <1>10 DEF s, t, b, cs, k, cp, dp

\* Lists of lists that hold the same, one of them from behind.
Mirrored(a, b, n) ==
    /\ n \in Nat /\ a \in [1 .. n -> Seq(Strings)] /\ b \in [1 .. n -> Seq(Strings)]
    /\ \A i \in 1 .. n : ToSet(b[i]) = ToSet(a[n + 1 - i])

LEMMA FlattenFromBehind ==
    ASSUME NEW n, NEW a, NEW b, Mirrored(a, b, n)
    PROVE  /\ FlattenSeq(a) \in Seq(Strings) /\ FlattenSeq(b) \in Seq(Strings)
           /\ ToSet(FlattenSeq(b)) = ToSet(FlattenSeq(a))
<1> USE DEF Mirrored
<1>1. /\ FlattenSeq(a) \in Seq(Strings) /\ ToSet(FlattenSeq(a)) = UNION {ToSet(a[i]) : i \in 1 .. n}
      /\ FlattenSeq(b) \in Seq(Strings) /\ ToSet(FlattenSeq(b)) = UNION {ToSet(b[i]) : i \in 1 .. n}
  BY FlattenJoins
<1>2. \A i \in 1 .. n : n + 1 - i \in 1 .. n /\ n + 1 - (n + 1 - i) = i
  OBVIOUS
<1>3. \A i \in 1 .. n : ToSet(a[i]) = ToSet(b[n + 1 - i])
  BY <1>2
<1>4. UNION {ToSet(b[i]) : i \in 1 .. n} = UNION {ToSet(a[i]) : i \in 1 .. n}
  <2> SUFFICES ASSUME NEW x
               PROVE  (\E i \in 1 .. n : x \in ToSet(b[i])) <=> (\E i \in 1 .. n : x \in ToSet(a[i]))
    OBVIOUS
  <2> QED
    BY <1>2, <1>3
<1> QED
  BY <1>1, <1>4

\* What all components name, joined, and the secrets of the stack beyond those
\* of the specification.
UsedSecrets(p) ==
    Flat(Components(p), LAMBDA cp : Names(cp.component.secrets) \o EnvSecrets(cp.component))
MoreSecrets(p) == Without(uniqueStrings(UsedSecrets(p)), ToSet(Without(p.spec.secrets, {""})))

LEMMA UsedFromBehind ==
    ASSUME NEW p, IsPlan(p)
    PROVE  /\ UsedSecrets(p) \in Seq(Strings) /\ UsedSecrets(Backwards(p)) \in Seq(Strings)
           /\ ToSet(UsedSecrets(Backwards(p))) = ToSet(UsedSecrets(p))
<1> DEFINE cs == Components(p)
           ds == Components(Backwards(p))
           n == Len(cs)
           Named(c) == Names(c.secrets) \o EnvSecrets(c)
           a == [i \in 1 .. n |-> Named(cs[i].component)]
           b == [i \in 1 .. n |-> Named(ds[i].component)]
<1>1. /\ n \in Nat /\ DOMAIN cs = 1 .. n /\ \A i \in 1 .. n : IsComponent(cs[i].component)
      /\ DOMAIN ds = 1 .. n /\ \A i \in 1 .. n : ds[i].component = cs[n + 1 - i].component
  <2>1. n \in Nat /\ DOMAIN cs = 1 .. n /\ \A i \in 1 .. n : IsComponent(cs[i].component)
    BY ComponentsAre DEF IsComponentPlan
  <2>2. DOMAIN ds = 1 .. n /\ \A i \in 1 .. n : ds[i].component = cs[n + 1 - i].component
    BY ComponentsFromBehind
  <2> QED
    BY <2>1, <2>2
<1>2. UsedSecrets(p) = FlattenSeq(a) /\ UsedSecrets(Backwards(p)) = FlattenSeq(b)
  BY <1>1 DEF UsedSecrets, Flat
<1>3. ASSUME NEW c, IsComponent(c)
      PROVE  Named(c) \in Seq(Strings)
  <2>1. Names(c.secrets) \in Seq(Strings) /\ EnvSecrets(c) \in Seq(Strings)
    BY <1>3, NamesAre, EnvSecretsAre
  <2> QED
    BY <2>1
<1>4. \A i \in 1 .. n : n + 1 - i \in 1 .. n
  BY <1>1
<1> HIDE DEF Named, cs, ds, n
<1>5. Mirrored(a, b, n)
  BY <1>1, <1>3, <1>4 DEF Mirrored
<1> HIDE DEF a, b
<1> QED
  BY <1>2, <1>5, FlattenFromBehind

\* A stack that declares no secret twice declares them, from behind, alike.
LEMMA SecretsFromBehind ==
    ASSUME NEW p, IsPlan(p), ~Repeats(StackSecrets(p))
    PROVE  Alike(StackSecrets(p), StackSecrets(Backwards(p)))
<1> DEFINE b == Backwards(p)
           s == p.spec.secrets
           d == Without(s, {""})
           e == Without(Reverse(s), {""})
           u == uniqueStrings(UsedSecrets(p))
           v == uniqueStrings(UsedSecrets(b))
           more == Without(u, ToSet(d))
           extra == Without(v, ToSet(e))
<1>1. s \in Seq(Strings) /\ b.spec.secrets = Reverse(s)
  BY BackwardsIs DEF IsPlan, IsSpec
<1>2. StackSecrets(p) = d \o more /\ StackSecrets(b) = e \o extra
  BY <1>1 DEF StackSecrets, UsedSecrets
<1>3. d \in Seq(Strings)
  BY <1>1, WithoutTakes
<1>4. /\ u \in Seq(Strings) /\ v \in Seq(Strings) /\ IsInjective(u) /\ IsInjective(v)
      /\ ToSet(u) = ToSet(v)
  <2>1. /\ UsedSecrets(p) \in Seq(Strings) /\ UsedSecrets(b) \in Seq(Strings)
        /\ ToSet(UsedSecrets(p)) = ToSet(UsedSecrets(b))
    BY UsedFromBehind
  <2> QED
    BY <2>1, UniqueStrings
<1> HIDE DEF b, s, u, v, d
<1>5. more \in Seq(Strings) /\ ToSet(more) = ToSet(u) \ ToSet(d) /\ IsInjective(more)
  BY <1>4, WithoutTakes, WithoutOnce
<1> HIDE DEF e
<1>6. extra \in Seq(Strings) /\ ToSet(extra) = ToSet(v) \ ToSet(e) /\ IsInjective(extra)
  BY <1>4, WithoutTakes, WithoutOnce
<1> HIDE DEF more, extra
<1>7. StackSecrets(p) \in Seq(Strings) /\ IsInjective(StackSecrets(p))
  <2>1. d \o more \in Seq(Strings)
    BY <1>3, <1>5
  <2> QED
    BY <1>2, <2>1, NoRepeats
<1>8. IsInjective(d)
  BY <1>2, <1>3, <1>5, <1>7, ConcatenationOnce
<1>9. e \in Seq(Strings) /\ ToSet(e) = ToSet(d) /\ IsInjective(e)
  BY <1>1, <1>8, WithoutFromBehind DEF d, e
<1>10. StackSecrets(b) \in Seq(Strings) /\ IsInjective(StackSecrets(b))
  <2>1. e \o extra \in Seq(Strings)
    BY <1>6, <1>9
  <2>2. ToSet(e) \cap ToSet(extra) = {}
    BY <1>6
  <2> QED
    BY <1>2, <1>6, <1>9, <2>1, <2>2, ConcatenationOnce
<1>11. ToSet(StackSecrets(p)) = ToSet(StackSecrets(b))
  <2>1. ToSet(d \o more) = ToSet(d) \cup ToSet(more)
    BY <1>3, <1>5, ConcatenationHolds
  <2>2. ToSet(e \o extra) = ToSet(e) \cup ToSet(extra)
    BY <1>6, <1>9, ConcatenationHolds
  <2> QED
    BY <1>2, <1>4, <1>5, <1>6, <1>9, <2>1, <2>2
<1> QED
  BY <1>7, <1>10, <1>11 DEF Alike, b

LEMMA NetworksFromBehind ==
    ASSUME NEW p, IsPlan(p)
    PROVE  Alike(StackOf(p).networks, StackOf(Backwards(p)).networks)
<1> DEFINE q == Backwards(p)
           cs == Components(p)
           ds == Components(q)
           n == Len(cs)
           a == [i \in 1 .. n |-> Placement(p, cs[i]).networks]
           b == [i \in 1 .. n |-> Placement(q, ds[i]).networks]
           s == p.spec.networks
           t == q.spec.networks
<1>1. n \in Nat /\ DOMAIN cs = 1 .. n /\ DOMAIN ds = 1 .. n
  BY ComponentsAre, ComponentsFromBehind
<1>2. /\ StackOf(p).networks = uniqueStrings(s \o FlattenSeq(a))
      /\ StackOf(q).networks = uniqueStrings(t \o FlattenSeq(b))
  BY <1>1 DEF StackOf, Flat
<1>3. s \in Seq(Strings) /\ t \in Seq(Strings) /\ ToSet(t) = ToSet(s)
  <2>1. s \in Seq(Strings) /\ t = Reverse(s)
    BY BackwardsIs DEF IsPlan, IsSpec
  <2> HIDE DEF s, t
  <2> QED
    BY <2>1, ReverseIs
<1>4. ASSUME NEW i \in 1 .. n
      PROVE  /\ n + 1 - i \in 1 .. n
             /\ Alike(Placement(p, cs[n + 1 - i]).networks, Placement(q, ds[i]).networks)
  BY PlacementFromBehind
<1>5. \A i \in 1 .. n : Placement(p, cs[i]).networks \in Seq(Strings)
  BY <1>1, ComponentsAre, PlacedNetworks
<1> HIDE DEF cs, ds, n, q, s, t
<1>6. Mirrored(a, b, n)
  BY <1>1, <1>4, <1>5 DEF Alike, Mirrored
<1> HIDE DEF a, b
<1>7. /\ FlattenSeq(a) \in Seq(Strings) /\ FlattenSeq(b) \in Seq(Strings)
      /\ ToSet(FlattenSeq(b)) = ToSet(FlattenSeq(a))
  BY <1>6, FlattenFromBehind
<1>8. /\ s \o FlattenSeq(a) \in Seq(Strings) /\ t \o FlattenSeq(b) \in Seq(Strings)
      /\ ToSet(s \o FlattenSeq(a)) = ToSet(t \o FlattenSeq(b))
  <2>1. ASSUME NEW x \in Seq(Strings), NEW y \in Seq(Strings)
        PROVE  x \o y \in Seq(Strings) /\ ToSet(x \o y) = ToSet(x) \cup ToSet(y)
    BY ConcatenationHolds
  <2> DEFINE f == FlattenSeq(a)
             g == FlattenSeq(b)
  <2>2. s \o f \in Seq(Strings) /\ ToSet(s \o f) = ToSet(s) \cup ToSet(f)
    BY <1>3, <1>7, <2>1
  <2>3. t \o g \in Seq(Strings) /\ ToSet(t \o g) = ToSet(t) \cup ToSet(g)
    BY <1>3, <1>7, <2>1
  <2>4. ToSet(s) = ToSet(t) /\ ToSet(f) = ToSet(g)
    BY <1>3, <1>7
  <2> HIDE DEF f, g
  <2>5. ToSet(s \o f) = ToSet(t \o g)
    BY <2>2, <2>3, <2>4
  <2> QED
    BY <2>2, <2>3, <2>5 DEF f, g
<1> QED
  BY <1>2, <1>8, UniqueAlike DEF q

LEMMA VolumesFromBehind ==
    ASSUME NEW p, IsPlan(p)
    PROVE  Alike(StackOf(p).volumes, StackOf(Backwards(p)).volumes)
<1> DEFINE q == Backwards(p)
           cs == Components(p)
           ds == Components(q)
           n == Len(cs)
           Volumes(c) == IF c.stateful = <<>> THEN <<>> ELSE <<VolumeOf(c)>>
           a == [i \in 1 .. n |-> Volumes(cs[i].component)]
           b == [i \in 1 .. n |-> Volumes(ds[i].component)]
<1>1. /\ n \in Nat /\ DOMAIN cs = 1 .. n /\ \A i \in 1 .. n : IsComponent(cs[i].component)
      /\ DOMAIN ds = 1 .. n /\ \A i \in 1 .. n : ds[i].component = cs[n + 1 - i].component
  <2>1. n \in Nat /\ DOMAIN cs = 1 .. n /\ \A i \in 1 .. n : IsComponent(cs[i].component)
    BY ComponentsAre DEF IsComponentPlan
  <2>2. DOMAIN ds = 1 .. n /\ \A i \in 1 .. n : ds[i].component = cs[n + 1 - i].component
    BY ComponentsFromBehind
  <2> QED
    BY <2>1, <2>2
<1>2. /\ StackOf(p).volumes = uniqueStrings(FlattenSeq(a))
      /\ StackOf(q).volumes = uniqueStrings(FlattenSeq(b))
  BY <1>1 DEF StackOf, Flat
<1>3. ASSUME NEW c, IsComponent(c)
      PROVE  Volumes(c) \in Seq(Strings)
  <2>1. ASSUME NEW v \in Strings
        PROVE  <<v>> \in Seq(Strings)
    OBVIOUS
  <2>2. <<>> \in Seq(Strings)
    OBVIOUS
  <2>3. c.stateful # <<>> => VolumeOf(c) \in Strings
    BY <1>3, VolumeIsName
  <2> QED
    BY <2>1, <2>2, <2>3
<1>4. \A i \in 1 .. n : n + 1 - i \in 1 .. n
  BY <1>1
<1> HIDE DEF Volumes, cs, ds, n
<1>5. Mirrored(a, b, n)
  BY <1>1, <1>3, <1>4 DEF Mirrored
<1> HIDE DEF a, b
<1>6. /\ FlattenSeq(a) \in Seq(Strings) /\ FlattenSeq(b) \in Seq(Strings)
      /\ ToSet(FlattenSeq(b)) = ToSet(FlattenSeq(a))
  BY <1>5, FlattenFromBehind
<1> QED
  BY <1>2, <1>6, UniqueAlike

\* The services come out in the same order and are written the same.
LEMMA ServicesFromBehind ==
    ASSUME NEW p, IsPlan(p), SortedNames(StackOf(p)) \subseteq ToSet(Lexical),
           ~Repeats(Names(StackOf(p).services))
    PROVE  Written(StackOf(Backwards(p))).services = Written(StackOf(p)).services
<1> DEFINE q == Backwards(p)
           cs == Components(p)
           ds == Components(q)
           n == Len(cs)
           s == [i \in 1 .. n |-> Service(p, cs[i])]
           t == [i \in 1 .. n |-> Service(q, ds[i])]
           key == [i \in DOMAIN s |-> Rank(s[i].name)]
           back == [i \in DOMAIN t |-> Rank(t[i].name)]
           T == ToSet(s) \cup ToSet(t)
<1>1. n \in Nat /\ DOMAIN cs = 1 .. n /\ DOMAIN ds = 1 .. n
  BY ComponentsAre, ComponentsFromBehind
<1>2. StackOf(p).services = s /\ StackOf(q).services = t
  BY <1>1 DEF StackOf
<1>3. \A i \in 1 .. n : n + 1 - i \in 1 .. n
  BY <1>1
<1>4. ASSUME NEW i \in 1 .. n
      PROVE  t[i].name = s[n + 1 - i].name /\ writeService(t[i]) = writeService(s[n + 1 - i])
  <2>1. /\ Service(q, ds[i]).name = Service(p, cs[n + 1 - i]).name
        /\ writeService(Service(q, ds[i])) = writeService(Service(p, cs[n + 1 - i]))
    BY ServiceFromBehind
  <2>2. t[i] = Service(q, ds[i]) /\ s[n + 1 - i] = Service(p, cs[n + 1 - i])
    <3> HIDE DEF n
    <3> QED
      BY <1>3
  <2> HIDE DEF s, t
  <2> QED
    BY <2>1, <2>2
<1>5. DOMAIN s = 1 .. n /\ DOMAIN t = 1 .. n
  OBVIOUS
<1>6. s \in Seq(T) /\ t \in Seq(T) /\ Len(s) = n /\ Len(t) = n
  <2>1. s \in [1 .. n -> T] /\ t \in [1 .. n -> T]
    BY DEF ToSet
  <2> HIDE DEF s, t, n, T
  <2> QED
    BY <1>1, <2>1
<1>7. \A i, j \in 1 .. n : s[i].name = s[j].name => i = j
  <2>1. \A i \in 1 .. n : s[i].name \in Strings
    <3>1. \A i \in 1 .. n : s[i].name = cs[i].component.name
      BY DEF Service
    <3>2. \A i \in 1 .. n : IsComponent(cs[i].component)
      BY <1>1, ComponentsAre DEF IsComponentPlan
    <3> HIDE DEF s, n
    <3> QED
      BY <3>1, <3>2 DEF IsComponent
  <2>2. Names(s) = [i \in 1 .. n |-> s[i].name]
    BY DEF Names
  <2> HIDE DEF s, n
  <2>3. Names(s) \in Seq(Strings)
    BY <1>1, <2>1, <2>2
  <2>4. IsInjective(Names(s))
    BY <1>2, <2>3, NoRepeats
  <2> QED
    BY <2>2, <2>4 DEF IsInjective
<1>8. \A i \in 1 .. n : s[i].name \in ToSet(Lexical)
  <2>1. Names(s) = [i \in 1 .. n |-> s[i].name]
    BY DEF Names
  <2>2. ToSet(Names(StackOf(p).services)) \subseteq ToSet(Lexical)
    BY DEF SortedNames
  <2> HIDE DEF s
  <2> QED
    BY <1>2, <2>1, <2>2 DEF ToSet
<1>9. /\ Written(StackOf(p)).services = [i \in DOMAIN Sorted(s, key) |-> writeService(Sorted(s, key)[i])]
      /\ Written(StackOf(q)).services = [i \in DOMAIN Sorted(t, back) |-> writeService(Sorted(t, back)[i])]
  <2> HIDE DEF s, t
  <2> QED
    BY <1>2 DEF Written
<1> HIDE DEF cs, ds, n, s, t, T, q
<1>10. /\ key \in [DOMAIN s -> Int] /\ back \in [DOMAIN t -> Int]
       /\ \A i \in 1 .. n : key[i] = Rank(s[i].name) /\ back[i] = Rank(t[i].name)
  BY <1>5, RankIsNumber
<1> HIDE DEF key, back
<1>11. \A i, j \in DOMAIN s : key[i] = key[j] => i = j
  BY <1>5, <1>7, <1>8, <1>10, RankTells
<1>12. \A i \in DOMAIN t : back[i] = key[Len(s) + 1 - i]
  BY <1>3, <1>4, <1>5, <1>6, <1>10
<1>13. PICK order \in [1 .. Len(s) -> 1 .. Len(s)] :
          /\ Sorted(s, key) = [k \in 1 .. Len(s) |-> s[order[k]]]
          /\ Sorted(t, back) = [k \in 1 .. Len(s) |-> t[Len(s) + 1 - order[k]]]
  <2>1. s \in Seq(T) /\ t \in Seq(T) /\ Len(t) = Len(s)
    BY <1>6
  <2>2. key \in [DOMAIN s -> Int] /\ back \in [DOMAIN t -> Int]
    BY <1>10
  <2>3. KeysFromBehind(T, s, key, t, back)
    BY <1>11, <1>12, <2>1, <2>2 DEF KeysFromBehind
  <2> QED
    BY <2>3, SortedFromBehind
<1>14. \A k \in 1 .. n : /\ order[k] \in 1 .. n
                        /\ writeService(t[n + 1 - order[k]]) = writeService(s[order[k]])
  <2> TAKE k \in 1 .. n
  <2>1. order[k] \in 1 .. n
    BY <1>6, <1>13
  <2>2. n + 1 - order[k] \in 1 .. n /\ n + 1 - (n + 1 - order[k]) = order[k]
    BY <1>1, <2>1
  <2> QED
    BY <1>4, <2>1, <2>2
<1> DEFINE u == Sorted(s, key)
           v == Sorted(t, back)
<1>15. /\ DOMAIN u = 1 .. n /\ DOMAIN v = 1 .. n
       /\ \A k \in 1 .. n : writeService(v[k]) = writeService(u[k])
  BY <1>6, <1>13, <1>14
<1> HIDE DEF u, v
<1>16. [i \in DOMAIN u |-> writeService(u[i])] = [i \in DOMAIN v |-> writeService(v[i])]
  BY <1>15
<1> QED
  BY <1>9, <1>16 DEF u, v, q

\* A stack that can be rendered is written the same if its plan is reversed.
LEMMA WrittenFromBehind ==
    ASSUME NEW p, IsPlan(p), Spelled(p), Faults(StackOf(p)) = {}
    PROVE  Written(StackOf(Backwards(p))) = Written(StackOf(p))
<1> DEFINE st == StackOf(p)
           rev == StackOf(Backwards(p))
<1>1. SortedNames(st) \subseteq ToSet(Lexical)
  BY DEF Spelled
<1>2. ~Repeats(Names(st.services)) /\ ~Repeats(st.secrets)
  <2> HIDE DEF st
  <2> QED
    BY ZenonT(60) DEF Faults, st
<1>3. Written(rev).services = Written(st).services
  BY <1>1, <1>2, ServicesFromBehind
<1>4. st.secrets = StackSecrets(p) /\ rev.secrets = StackSecrets(Backwards(p))
  BY DEF StackOf
<1>5. /\ Alike(st.secrets, rev.secrets) /\ Alike(st.networks, rev.networks)
      /\ Alike(st.volumes, rev.volumes)
  BY <1>2, <1>4, SecretsFromBehind, NetworksFromBehind, VolumesFromBehind
<1> HIDE DEF st, rev
<1>6. /\ ToSet(st.secrets) \subseteq ToSet(Lexical) /\ ToSet(st.networks) \subseteq ToSet(Lexical)
      /\ ToSet(st.volumes) \subseteq ToSet(Lexical)
  BY <1>1 DEF SortedNames
<1>7. /\ writeTopLevel(rev.secrets) = writeTopLevel(st.secrets)
      /\ writeTopLevel(rev.networks) = writeTopLevel(st.networks)
      /\ writeTopLevel(rev.volumes) = writeTopLevel(st.volumes)
  BY <1>5, <1>6, AlphabeticalForgets DEF writeTopLevel
<1>8. \A x : Written(x) = [services |-> Written(x).services, secrets |-> writeTopLevel(x.secrets),
                           networks |-> writeTopLevel(x.networks), volumes |-> writeTopLevel(x.volumes)]
  BY DEF Written
<1>9. Written(rev) = Written(st)
  BY <1>3, <1>7, <1>8
<1> QED
  BY <1>9 DEF st, rev

\* From an accepted plan to its text: every name to sort has its place in the
\* alphabet, and what is rendered has no fault.
RenderInv ==
    /\ status # "idle" => Spelled(plan)
    /\ status = "rendered" => Faults(StackOf(plan)) = {}

LEMMA ProfileSpelled ==
    ASSUME catalog \in Seq(Accepted), NEW p \in Profiles(catalog)
    PROVE  \A name \in {"", "shop"} : Spelled([DeploymentPlan EXCEPT !.spec = SpecOf(p, name)])
<1>1. PICK i \in DOMAIN catalog : p \in ToSet(catalog[i].profiles)
  BY DEF Profiles
<1>2. catalog[i] \in Accepted
  OBVIOUS
<1>3. catalog[i] \in Candidates \cup ToSet(BuiltinRegistry)
  BY <1>2 DEF Accepted
<1> QED
  BY <1>1, <1>3, LexicalAssumption

LEMMA RenderInductive == Spec => []RenderInv
<1>1. Init => RenderInv
  BY DEF Init, RenderInv
<1>2. ASSUME StackInv, RenderInv, [Next]_vars
      PROVE  RenderInv'
  <2> USE DEF RenderInv
  <2>1. ASSUME NEW b \in Candidates, RegisterBlueprint(b)
        PROVE  RenderInv'
    BY <1>2, <2>1 DEF RegisterBlueprint
  <2>2. ASSUME NEW p \in Profiles(catalog), NEW name \in {"", "shop"}, FromProfile(p, name)
        PROVE  RenderInv'
    <3>1. Spelled([DeploymentPlan EXCEPT !.spec = SpecOf(p, name)])
      BY <1>2, ProfileSpelled DEF StackInv
    <3> QED
      BY <2>2, <3>1 DEF FromProfile
  <2>3. ASSUME NEW p \in Plans, Author(p)
        PROVE  RenderInv'
    BY <2>3, LexicalAssumption DEF Author
  <2>4. CASE StackFromBlueprint
    BY <1>2, <2>4 DEF StackFromBlueprint
  <2>5. CASE RenderStack
    BY <1>2, <2>5 DEF RenderStack, StackInv
  <2>6. CASE Return
    BY <1>2, <2>6 DEF Return
  <2>7. CASE UNCHANGED vars
    BY <1>2, <2>7 DEF vars
  <2> QED
    BY <1>2, <2>1, <2>2, <2>3, <2>4, <2>5, <2>6, <2>7 DEF Next
<1> QED
  BY <1>1, <1>2, StackInductive, PTL DEF Spec

\* The order in which components, secrets, networks and constraints are written
\* in a plan does not reach the YAML that is rendered of it.
THEOREM OrderForgotten == Spec => []OrderIndependent
<1>1. StackInv /\ RenderInv => OrderIndependent
  BY WrittenFromBehind DEF StackInv, RenderInv, OrderIndependent
<1> QED
  BY <1>1, StackInductive, RenderInductive, PTL
=============================================================================
