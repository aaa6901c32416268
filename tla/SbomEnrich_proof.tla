-------------------------- MODULE SbomEnrich_proof --------------------------
(***************************************************************************)
(* What the enriched SBOM guarantees for any scan syft may write, any      *)
(* MODULE.bazel and any end of a run.                                      *)
(***************************************************************************)
EXTENDS SbomEnrich, Lemmas, FiniteSetTheorems

---------------------------------------------------------------------------
(* What parse_bazel_deps finds.                                            *)

\* What it has found before each statement.
FoundIn(module) ==
  LET found[i \in 0..Len(module)] ==
        IF i = 0 THEN <<>> ELSE WithMatch(found[i - 1], module[i])
  IN found

LEMMA ParseIsLastFound ==
  ASSUME NEW module
  PROVE  parse_bazel_deps(module) = FoundIn(module)[Len(module)]
BY DEF parse_bazel_deps, FoundIn

\* The recursion has a solution on every prefix, hence on the whole text.
LEMMA FoundInDef ==
  ASSUME NEW module \in Seq(Statement)
  PROVE  FoundIn(module) =
           [i \in 0..Len(module) |->
              IF i = 0 THEN <<>> ELSE WithMatch(FoundIn(module)[i - 1], module[i])]
<1> DEFINE Solves(g, n) ==
             g = [i \in 0..n |-> IF i = 0 THEN <<>> ELSE WithMatch(g[i - 1], module[i])]
           S == {n \in Nat : \E g : Solves(g, n)}
<1>1. 0 \in S
  <2> DEFINE g == [i \in 0..0 |-> <<>>]
  <2>1. Solves(g, 0)
    OBVIOUS
  <2> QED
    BY <2>1
<1>2. ASSUME NEW n \in Nat, n \in S
      PROVE  n + 1 \in S
  <2>1. PICK g : Solves(g, n)
    BY <1>2
  <2> DEFINE h == [i \in 0..(n + 1) |->
                     IF i = n + 1 THEN WithMatch(g[n], module[i]) ELSE g[i]]
  <2>2. ASSUME NEW i \in 0..(n + 1)
        PROVE  h[i] = IF i = 0 THEN <<>> ELSE WithMatch(h[i - 1], module[i])
    <3>1. CASE i = n + 1
      BY <3>1
    <3>2. CASE i # n + 1
      <4>1. i \in 0..n /\ (i # 0 => i - 1 \in 0..n)
        BY <3>2
      <4>2. g[i] = IF i = 0 THEN <<>> ELSE WithMatch(g[i - 1], module[i])
        BY <2>1, <4>1
      <4> QED
        BY <3>2, <4>1, <4>2
    <3> QED
      BY <3>1, <3>2
  <2>3. Solves(h, n + 1)
    BY <2>2
  <2>4. \E f : Solves(f, n + 1)
    <3> WITNESS h
    <3> QED
      BY <2>3
  <2>5. n + 1 \in Nat
    OBVIOUS
  <2> QED
    BY <2>4, <2>5, Zenon
<1>3. Len(module) \in S
  <2>1. \A n \in Nat : n \in S => n + 1 \in S
    BY <1>2
  <2> HIDE DEF S
  <2>2. Nat \subseteq S
    BY <1>1, <2>1, SetInduction
  <2> QED
    BY <2>2
<1>4. PICK g : Solves(g, Len(module))
  BY <1>3
<1> HIDE DEF S
<1> QED
  BY <1>4, Zenon DEF FoundIn

\* The ids a list of dependencies asks for, and the dependencies that count.
IdsOf(found) == {Id(found[i].name) : i \in DOMAIN found}

FirstOnes(found) ==
  {k \in DOMAIN found : \A j \in 1..(k - 1) : Id(found[j].name) # Id(found[k].name)}

Firsts(found) == {found[i] : i \in FirstOnes(found)}

LEMMA AppendFirsts ==
  ASSUME NEW s \in Seq(Dependency), NEW d \in Dependency
  PROVE  /\ IdsOf(Append(s, d)) = IdsOf(s) \cup {Id(d.name)}
         /\ Firsts(Append(s, d)) =
              Firsts(s) \cup (IF Id(d.name) \in IdsOf(s) THEN {} ELSE {d})
<1> DEFINE t == Append(s, d)
           n == Len(s)
<1>1. /\ n \in Nat /\ DOMAIN s = 1..n /\ DOMAIN t = 1..(n + 1)
      /\ \A i \in 1..n : t[i] = s[i]
      /\ t[n + 1] = d
  BY AppendFacts
<1> HIDE DEF t, n
<1>2. IdsOf(t) = IdsOf(s) \cup {Id(d.name)}
  BY <1>1 DEF IdsOf
<1>3. FirstOnes(t) = FirstOnes(s) \cup (IF Id(d.name) \in IdsOf(s) THEN {} ELSE {n + 1})
  <2>1. \A k \in 1..n : k \in FirstOnes(t) <=> k \in FirstOnes(s)
    BY <1>1 DEF FirstOnes
  <2>2. n + 1 \in FirstOnes(t) <=> Id(d.name) \notin IdsOf(s)
    BY <1>1 DEF FirstOnes, IdsOf
  <2>3. FirstOnes(t) \subseteq 1..(n + 1) /\ FirstOnes(s) \subseteq 1..n
    BY <1>1 DEF FirstOnes
  <2> QED
    BY <1>1, <2>1, <2>2, <2>3
<1>4. \A k \in FirstOnes(s) : t[k] = s[k]
  BY <1>1 DEF FirstOnes
<1>5. Firsts(t) = Firsts(s) \cup (IF Id(d.name) \in IdsOf(s) THEN {} ELSE {d})
  BY <1>1, <1>3, <1>4 DEF Firsts
<1> QED
  BY <1>2, <1>5 DEF t

\* The same of the first n statements of MODULE.bazel.
Before(module, i) == {Id(module[j].name) : j \in {k \in 1..(i - 1) : Matches(module[k])}}

FirstMatches(module, n) ==
  {i \in 1..n : Matches(module[i]) /\ Id(module[i].name) \notin Before(module, i)}

DependencyOf(s) == [name |-> s.name, version |-> s.version]

\* A MODULE.bazel whose versions can be read.
Readable(module) ==
  /\ module \in Seq(Statement)
  /\ \A i \in DOMAIN module : "version" \in Range(module[i].keywords) => module[i].version # None

LEMMA MatchIsDependency ==
  ASSUME NEW module, Readable(module), NEW i \in DOMAIN module, Matches(module[i])
  PROVE  DependencyOf(module[i]) \in Dependency
<1>1. module[i] \in Statement
  BY LenProperties, ElementOfSeq DEF Readable
<1>2. module[i].keywords \in Seq(STRING) /\ module[i].name \in Names
      /\ module[i].version \in Versions \cup {None}
  BY <1>1 DEF Statement
<1>3. 2 \in DOMAIN module[i].keywords
  BY <1>2, LenProperties DEF Matches
<1>4. "version" \in Range(module[i].keywords)
  BY <1>3 DEF Matches, Range
<1> QED
  BY <1>2, <1>4 DEF Readable, DependencyOf, Dependency

(* The list holds a dependency for each matching statement, and those that *)
(* count are the ones whose id no earlier matching statement has.          *)
LEMMA ParseFacts ==
  ASSUME NEW module, Readable(module)
  PROVE  LET found == parse_bazel_deps(module) IN
           /\ found \in Seq(Dependency)
           /\ Firsts(found) =
                {DependencyOf(module[i]) : i \in FirstMatches(module, Len(module))}
<1> DEFINE found == FoundIn(module)
           Right(n) ==
             /\ found[n] \in Seq(Dependency)
             /\ IdsOf(found[n]) = Before(module, n + 1)
             /\ Firsts(found[n]) = {DependencyOf(module[i]) : i \in FirstMatches(module, n)}
           S == {n \in Nat : n <= Len(module) => Right(n)}
<1>0. module \in Seq(Statement) /\ Len(module) \in Nat /\ DOMAIN module = 1..Len(module)
  BY LenProperties DEF Readable
<1>1. 0 \in S
  <2>1. found[0] = <<>>
    BY <1>0, FoundInDef
  <2>2. DOMAIN found[0] = {}
    BY <2>1
  <2>3. Before(module, 0 + 1) = {} /\ FirstMatches(module, 0) = {}
    BY DEF Before, FirstMatches
  <2> QED
    BY <2>1, <2>2, <2>3, EmptySeq DEF IdsOf, Firsts, FirstOnes
<1>2. ASSUME NEW n \in Nat, n \in S
      PROVE  n + 1 \in S
  <2> SUFFICES ASSUME n + 1 <= Len(module)
               PROVE  Right(n + 1)
    OBVIOUS
  <2> DEFINE s == module[n + 1]
  <2>1. Right(n) /\ n + 1 \in DOMAIN module
    BY <1>0, <1>2
  <2>2. found[n + 1] = WithMatch(found[n], s)
    BY <1>0, FoundInDef
  <2>3. /\ Before(module, (n + 1) + 1) =
             Before(module, n + 1) \cup (IF Matches(s) THEN {Id(s.name)} ELSE {})
        /\ FirstMatches(module, n + 1) =
             FirstMatches(module, n) \cup
               (IF Matches(s) /\ Id(s.name) \notin Before(module, n + 1) THEN {n + 1} ELSE {})
    BY DEF Before, FirstMatches
  <2>4. CASE Matches(s)
    <3>1. DependencyOf(s) \in Dependency /\ DependencyOf(s).name = s.name
      BY <2>1, <2>4, MatchIsDependency DEF DependencyOf
    <3>2. found[n + 1] = Append(found[n], DependencyOf(s))
      BY <2>2, <2>4 DEF WithMatch, DependencyOf
    <3>3. found[n + 1] \in Seq(Dependency)
      BY <2>1, <3>1, <3>2, AppendProperties
    <3>4. /\ IdsOf(found[n + 1]) = Before(module, n + 1) \cup {Id(s.name)}
          /\ Firsts(found[n + 1]) =
               Firsts(found[n]) \cup
                 (IF Id(s.name) \in Before(module, n + 1) THEN {} ELSE {DependencyOf(s)})
      BY <2>1, <3>1, <3>2, AppendFirsts
    <3> QED
      BY <2>1, <2>3, <2>4, <3>3, <3>4
  <2>5. CASE ~Matches(s)
    <3>1. found[n + 1] = found[n]
      BY <2>2, <2>5 DEF WithMatch
    <3> QED
      BY <2>1, <2>3, <2>5, <3>1
  <2> QED
    BY <2>4, <2>5
<1>3. Len(module) \in S
  <2>1. \A n \in Nat : n \in S => n + 1 \in S
    BY <1>2
  <2> HIDE DEF S
  <2>2. Nat \subseteq S
    BY <1>1, <2>1, SetInduction
  <2> QED
    BY <1>0, <2>2
<1>4. Right(Len(module))
  BY <1>3
<1> QED
  BY <1>4, ParseIsLastFound

---------------------------------------------------------------------------
(* What enrich adds to a document.                                         *)

LEMMA DocumentFields ==
  ASSUME NEW doc \in Document
  PROVE  /\ doc.describes \in Seq(Ids) /\ doc.packages \in Seq(Package)
         /\ doc.relationships \in Seq(Relationship)
         /\ doc = [describes |-> doc.describes, packages |-> doc.packages,
                   relationships |-> doc.relationships]
BY DEF Document

LEMMA ScanFields ==
  ASSUME NEW doc \in Scans
  PROVE  doc \in Document /\ Sound(doc) /\ PackageIds(doc) \subseteq ScanIds
BY ScansAssumption

LEMMA IdType ==
  ASSUME NEW dep \in Dependency
  PROVE  Id(dep.name) \in Ids /\ Id(dep.name) \notin ScanIds
BY SanitizeAssumption DEF Dependency, Id, Ids, ScanIds

LEMMA RootType ==
  ASSUME NEW doc \in Document
  PROVE  Root(doc) \in Ids
<1>1. DocumentId \in Ids
  BY SentinelAssumption DEF DocumentId, Ids, ScanIds
<1>2. doc.describes # <<>> => doc.describes[1] \in Ids
  BY DocumentFields, EmptySeq, ElementOfSeq
<1> QED
  BY <1>1, <1>2 DEF Root

PackageOf(dep) == [id |-> Id(dep.name), name |-> dep.name, version |-> dep.version]
DependsOn(doc, id) == [from |-> Root(doc), type |-> "DEPENDS_ON", to |-> id]

LEMMA EnrichedFields ==
  ASSUME NEW doc \in Document, NEW dep \in Dependency
  PROVE  LET new == Enriched(doc, dep) IN
           /\ new \in Document
           /\ new.describes = doc.describes
           /\ new.packages = Append(doc.packages, PackageOf(dep))
           /\ new.relationships = Append(doc.relationships, DependsOn(doc, Id(dep.name)))
           /\ PackageOf(dep) \in Package
           /\ DependsOn(doc, Id(dep.name)) \in Relationship
           /\ PackageIds(new) = PackageIds(doc) \cup {Id(dep.name)}
<1> DEFINE new == Enriched(doc, dep)
<1>1. PackageOf(dep) \in Package /\ DependsOn(doc, Id(dep.name)) \in Relationship
  BY IdType, RootType DEF PackageOf, DependsOn, Package, Relationship, Dependency
<1>2. new = [describes |-> doc.describes,
             packages |-> Append(doc.packages, PackageOf(dep)),
             relationships |-> Append(doc.relationships, DependsOn(doc, Id(dep.name)))]
  BY Zenon DEF Enriched, PackageOf, DependsOn
<1>3. new \in Document
  BY <1>1, <1>2, DocumentFields, AppendProperties DEF Document
<1>4. /\ new.describes = doc.describes
      /\ new.packages = Append(doc.packages, PackageOf(dep))
      /\ new.relationships = Append(doc.relationships, DependsOn(doc, Id(dep.name)))
  BY <1>2
<1> HIDE DEF new
<1>5. PackageIds(new) = PackageIds(doc) \cup {Id(dep.name)}
  <2> DEFINE t == Append(doc.packages, PackageOf(dep))
             n == Len(doc.packages)
  <2>1. /\ n \in Nat /\ DOMAIN doc.packages = 1..n /\ DOMAIN t = 1..(n + 1)
        /\ \A i \in 1..n : t[i] = doc.packages[i]
        /\ t[n + 1] = PackageOf(dep)
    BY <1>1, DocumentFields, AppendFacts
  <2>2. new.packages = t
    BY <1>4
  <2> HIDE DEF t, n
  <2> QED
    BY <2>1, <2>2 DEF PackageIds, PackageOf
<1> QED
  BY <1>1, <1>3, <1>4, <1>5 DEF new

\* A dependency with a new id leaves a sound document sound.
LEMMA EnrichedSound ==
  ASSUME NEW doc \in Document, NEW dep \in Dependency, Sound(doc),
         Id(dep.name) \notin PackageIds(doc)
  PROVE  Sound(Enriched(doc, dep))
<1> DEFINE new == Enriched(doc, dep)
           n == Len(doc.packages)
           m == Len(doc.relationships)
<1>1. /\ n \in Nat /\ DOMAIN doc.packages = 1..n /\ DOMAIN new.packages = 1..(n + 1)
      /\ \A i \in 1..n : new.packages[i] = doc.packages[i]
      /\ new.packages[n + 1].id = Id(dep.name)
  <2>1. /\ new.packages = Append(doc.packages, PackageOf(dep))
        /\ PackageOf(dep) \in Package /\ doc.packages \in Seq(Package)
    BY EnrichedFields, DocumentFields
  <2> HIDE DEF new
  <2> QED
    BY <2>1, AppendFacts DEF PackageOf
<1>2. /\ m \in Nat /\ DOMAIN doc.relationships = 1..m
      /\ DOMAIN new.relationships = 1..(m + 1)
      /\ \A i \in 1..m : new.relationships[i] = doc.relationships[i]
      /\ new.relationships[m + 1].to = Id(dep.name)
  <2>1. /\ new.relationships = Append(doc.relationships, DependsOn(doc, Id(dep.name)))
        /\ DependsOn(doc, Id(dep.name)) \in Relationship
        /\ doc.relationships \in Seq(Relationship)
    BY EnrichedFields, DocumentFields
  <2> HIDE DEF new
  <2> QED
    BY <2>1, AppendFacts DEF DependsOn
<1>3. PackageIds(new) = PackageIds(doc) \cup {Id(dep.name)}
  BY EnrichedFields
<1> HIDE DEF new, n, m
<1>4. ASSUME NEW i \in DOMAIN new.packages, NEW j \in DOMAIN new.packages,
             new.packages[i].id = new.packages[j].id
      PROVE  i = j
  <2>1. \A k \in 1..n : new.packages[k].id # Id(dep.name)
    BY <1>1 DEF PackageIds
  <2>2. i \in 1..n /\ j \in 1..n => i = j
    BY <1>1, <1>4 DEF Sound
  <2> QED
    BY <1>1, <1>4, <2>1, <2>2
<1>5. ASSUME NEW i \in DOMAIN new.relationships,
             new.relationships[i].type = "DEPENDS_ON"
      PROVE  new.relationships[i].to \in PackageIds(new)
  BY <1>2, <1>3, <1>5 DEF Sound
<1>6. Sound(new)
  BY <1>4, <1>5 DEF Sound
<1> QED
  BY <1>6 DEF new

---------------------------------------------------------------------------
(* Types and control.                                                      *)

\* Where the script is says what it has in hand.
Control ==
  /\ scanned \in {None} \cup Scans
  /\ file \notin {None, Torn} => scanned \in Scans
  /\ pc = "load" => file # None
  /\ pc \in {"parse", "add", "dump"} =>
       spdx \in Document /\ loaded \in Document /\ scanned \in Scans
  /\ pc = "dump" => file = Torn /\ deps = <<>>
  /\ pc = "publish" => file \in Document /\ ~byHand

LEMMA StepTypes ==
  ASSUME TypeOK, Control, [Next]_vars
  PROVE  TypeOK' /\ Control'
<1> USE DEF TypeOK, Control, memory
<1>0. /\ <<>> \in Seq(Dependency) /\ {None, Torn} \cap Document = {} /\ None # Torn
      /\ \A doc \in Scans : doc \in Document /\ doc # None /\ doc # Torn
  BY EmptySeq, SentinelAssumption, ScanFields
<1>1. CASE Edit
  BY <1>1 DEF Edit
<1>2. CASE Scan
  BY <1>0, <1>2 DEF Scan
<1>3. CASE ScanFails
  BY <1>0, <1>3 DEF ScanFails
<1>4. CASE StartByHand
  BY <1>4 DEF StartByHand
<1>5. CASE Load
  BY <1>0, <1>5 DEF Load, Loaded
<1>6. CASE LoadFails
  BY <1>0, <1>6 DEF LoadFails, Ended
<1>7. CASE Parse
  <2>1. parse_bazel_deps(text) \in Seq(Dependency)
    BY ModulesAssumption, ParseFacts DEF Readable
  <2>2. Known(spdx) \subseteq Ids
    <3>1. spdx \in Document
      BY <1>7 DEF Parse
    <3>2. \A i \in DOMAIN spdx.packages : spdx.packages[i] \in Package
      BY <3>1, DocumentFields, ElementOfSeq, LenProperties
    <3> QED
      BY <3>2 DEF Known, PackageIds, Package
  <2> QED
    BY <1>7, <2>1, <2>2 DEF Parse
<1>8. CASE Add \/ Skip
  <2>1. deps # <<>> /\ pc = "add"
    BY <1>8 DEF Add, Skip
  <2>2. Head(deps) \in Dependency /\ Tail(deps) \in Seq(Dependency)
    BY <2>1, HeadTailProperties
  <2>3. Id(Head(deps).name) \in Ids /\ Enriched(spdx, Head(deps)) \in Document
    BY <2>1, <2>2, IdType, EnrichedFields
  <2>4. CASE Add
    BY <2>2, <2>3, <2>4 DEF Add, Remember
  <2>5. CASE Skip
    BY <2>2, <2>5 DEF Skip
  <2> QED
    BY <1>8, <2>4, <2>5
<1>9. CASE Truncate
  BY <1>0, <1>9 DEF Truncate
<1>10. CASE Dump
  BY <1>0, <1>10 DEF Dump, Ended
<1>11. CASE Publish
  BY <1>0, <1>11 DEF Publish
<1>12. CASE Crash
  BY <1>0, <1>12 DEF Crash, Ended
<1>13. CASE UNCHANGED vars
  BY <1>13 DEF vars
<1> QED
  BY <1>1, <1>2, <1>3, <1>4, <1>5, <1>6, <1>7, <1>8, <1>9, <1>10, <1>11, <1>12, <1>13
  DEF Next

(* Every variable keeps its type, and what the script has in hand is whole *)
(* when a step needs it.                                                   *)
THEOREM TypeCorrect == Spec => [](TypeOK /\ Control)
<1>1. Init => TypeOK /\ Control
  BY EmptySeq, SentinelAssumption DEF Init, TypeOK, Control
<1>2. TypeOK /\ Control /\ [Next]_vars => TypeOK' /\ Control'
  BY StepTypes
<1> QED
  BY <1>1, <1>2, PTL DEF Spec

---------------------------------------------------------------------------
(* How far a run has come with the dependencies.                           *)

\* A document that begins with all of another.
Grown(old, doc) ==
  /\ IsPrefix(old.packages, doc.packages)
  /\ IsPrefix(old.relationships, doc.relationships)
  /\ doc.describes = old.describes

Extra(old, doc) == {i \in DOMAIN doc.packages : i > Len(old.packages)}

\* doc is what old became when the dependencies in done were looked at.
Between(old, doc, done) ==
  /\ Grown(old, doc)
  /\ PackageIds(doc) = PackageIds(old) \cup IdsOf(done)
  /\ {doc.packages[i] : i \in Extra(old, doc)} =
       {PackageOf(d) : d \in {e \in Firsts(done) : Id(e.name) \notin PackageIds(old)}}
  /\ Len(doc.relationships) - Len(old.relationships) = Len(doc.packages) - Len(old.packages)
  /\ \A i \in Extra(old, doc) :
       doc.relationships[Len(old.relationships) + (i - Len(old.packages))] =
         DependsOn(old, doc.packages[i].id)

LEMMA GrownFacts ==
  ASSUME NEW a \in Document, NEW b \in Document, NEW c \in Document
  PROVE  /\ Grown(a, a)
         /\ Grown(a, b) /\ Grown(b, c) => Grown(a, c)
         /\ \A dep \in Dependency : Grown(a, b) => Grown(a, Enriched(b, dep))
<1>1. /\ a.packages \in Seq(Package) /\ a.relationships \in Seq(Relationship)
      /\ b.packages \in Seq(Package) /\ b.relationships \in Seq(Relationship)
      /\ c.packages \in Seq(Package) /\ c.relationships \in Seq(Relationship)
  BY DocumentFields
<1>2. Grown(a, a)
  BY <1>1, PrefixFacts DEF Grown
<1>3. ASSUME Grown(a, b), Grown(b, c)
      PROVE  Grown(a, c)
  BY <1>1, <1>3, PrefixFacts DEF Grown
<1>4. ASSUME NEW dep \in Dependency, Grown(a, b)
      PROVE  Grown(a, Enriched(b, dep))
  <2> DEFINE new == Enriched(b, dep)
  <2>1. /\ new.describes = b.describes
        /\ new.packages = Append(b.packages, PackageOf(dep))
        /\ new.relationships = Append(b.relationships, DependsOn(b, Id(dep.name)))
        /\ PackageOf(dep) \in Package /\ DependsOn(b, Id(dep.name)) \in Relationship
    BY EnrichedFields
  <2> HIDE DEF new
  <2>2. IsPrefix(a.packages, new.packages)
    BY <1>1, <1>4, <2>1, PrefixFacts DEF Grown
  <2>3. IsPrefix(a.relationships, new.relationships)
    BY <1>1, <1>4, <2>1, PrefixFacts DEF Grown
  <2>4. Grown(a, new)
    BY <1>4, <2>1, <2>2, <2>3 DEF Grown
  <2> QED
    BY <2>4 DEF new
<1> QED
  BY <1>2, <1>3, <1>4

LEMMA BetweenStart ==
  ASSUME NEW old \in Document
  PROVE  Between(old, old, <<>>)
<1>1. DOMAIN <<>> = {}
  OBVIOUS
<1>2. IdsOf(<<>>) = {} /\ Firsts(<<>>) = {}
  BY <1>1 DEF IdsOf, Firsts, FirstOnes
<1>3. /\ DOMAIN old.packages = 1..Len(old.packages) /\ Len(old.packages) \in Nat
      /\ Len(old.relationships) \in Nat
  BY DocumentFields, LenProperties
<1>4. Extra(old, old) = {}
  BY <1>3 DEF Extra
<1> QED
  BY <1>2, <1>3, <1>4, GrownFacts DEF Between

LEMMA BetweenSkip ==
  ASSUME NEW old \in Document, NEW doc \in Document, NEW done \in Seq(Dependency),
         NEW dep \in Dependency, Between(old, doc, done), Id(dep.name) \in PackageIds(doc)
  PROVE  Between(old, doc, Append(done, dep))
<1>1. PackageIds(doc) = PackageIds(old) \cup IdsOf(Append(done, dep))
  BY AppendFirsts DEF Between
<1>2. {e \in Firsts(Append(done, dep)) : Id(e.name) \notin PackageIds(old)} =
        {e \in Firsts(done) : Id(e.name) \notin PackageIds(old)}
  BY AppendFirsts DEF Between
<1> QED
  BY <1>1, <1>2 DEF Between

\* Two lists that have grown by as much keep their last elements side by side.
LEMMA SameOffset ==
  ASSUME NEW a \in Nat, NEW b \in Nat, NEW n \in Nat, NEW m \in Nat, a <= n, m - b = n - a
  PROVE  /\ \A i \in 1..n : i > a => b + (i - a) \in 1..m
         /\ b + ((n + 1) - a) = m + 1
         /\ (m + 1) - b = (n + 1) - a
OBVIOUS

LEMMA BetweenAdd ==
  ASSUME NEW old \in Document, NEW doc \in Document, NEW done \in Seq(Dependency),
         NEW dep \in Dependency, Between(old, doc, done), Id(dep.name) \notin PackageIds(doc)
  PROVE  Between(old, Enriched(doc, dep), Append(done, dep))
<1> DEFINE new == Enriched(doc, dep)
           n == Len(doc.packages)
           m == Len(doc.relationships)
<1>1. /\ new \in Document
      /\ new.packages = Append(doc.packages, PackageOf(dep))
      /\ new.relationships = Append(doc.relationships, DependsOn(doc, Id(dep.name)))
      /\ PackageOf(dep) \in Package /\ DependsOn(doc, Id(dep.name)) \in Relationship
      /\ doc.packages \in Seq(Package) /\ doc.relationships \in Seq(Relationship)
      /\ old.packages \in Seq(Package) /\ old.relationships \in Seq(Relationship)
      /\ PackageIds(new) = PackageIds(doc) \cup {Id(dep.name)}
  BY EnrichedFields, DocumentFields
<1>2. Grown(old, new) /\ Grown(old, doc)
  BY GrownFacts DEF Between
<1> HIDE DEF new
<1>3. /\ n \in Nat /\ DOMAIN doc.packages = 1..n
      /\ DOMAIN new.packages = 1..(n + 1) /\ Len(new.packages) = n + 1
      /\ \A i \in 1..n : new.packages[i] = doc.packages[i]
      /\ new.packages[n + 1] = PackageOf(dep)
  BY <1>1, AppendFacts, AppendProperties
<1>4. /\ m \in Nat /\ Len(new.relationships) = m + 1
      /\ \A i \in 1..m : new.relationships[i] = doc.relationships[i]
      /\ new.relationships[m + 1] = DependsOn(doc, Id(dep.name))
  BY <1>1, AppendFacts, AppendProperties
<1>5. /\ Len(old.packages) \in Nat /\ Len(old.relationships) \in Nat
      /\ Len(old.packages) <= n /\ Len(old.relationships) <= m
      /\ m - Len(old.relationships) = n - Len(old.packages)
  <2>1. Len(old.packages) <= n /\ Len(old.relationships) <= m
    BY <1>1, <1>2, PrefixFacts DEF Grown
  <2> QED
    BY <1>1, <2>1, LenProperties DEF Between
<1> HIDE DEF n, m
<1>6a. /\ \A i \in 1..n : i > Len(old.packages) =>
             Len(old.relationships) + (i - Len(old.packages)) \in 1..m
       /\ Len(old.relationships) + ((n + 1) - Len(old.packages)) = m + 1
       /\ (m + 1) - Len(old.relationships) = (n + 1) - Len(old.packages)
  <2> DEFINE a == Len(old.packages)
             b == Len(old.relationships)
  <2>1. a \in Nat /\ b \in Nat /\ n \in Nat /\ m \in Nat /\ a <= n
    BY <1>3, <1>4, <1>5
  <2>2. m - b = n - a
    BY <1>5
  <2> HIDE DEF a, b
  <2>3. /\ \A i \in 1..n : i > a => b + (i - a) \in 1..m
        /\ b + ((n + 1) - a) = m + 1
        /\ (m + 1) - b = (n + 1) - a
    BY <2>1, <2>2, SameOffset
  <2> QED
    BY <2>3 DEF a, b
<1>6. DependsOn(doc, Id(dep.name)) = DependsOn(old, Id(dep.name))
  BY <1>2 DEF Grown, DependsOn, Root
<1>7. Extra(old, new) = Extra(old, doc) \cup {n + 1} /\ Extra(old, doc) \subseteq 1..n
  BY <1>3, <1>5 DEF Extra
<1>8. PackageIds(new) = PackageIds(old) \cup IdsOf(Append(done, dep))
  BY <1>1, AppendFirsts DEF Between
<1>9. {e \in Firsts(Append(done, dep)) : Id(e.name) \notin PackageIds(old)} =
        {e \in Firsts(done) : Id(e.name) \notin PackageIds(old)} \cup {dep}
  BY AppendFirsts DEF Between
<1>10. {new.packages[i] : i \in Extra(old, new)} =
         {PackageOf(d) : d \in {e \in Firsts(Append(done, dep)) :
                                  Id(e.name) \notin PackageIds(old)}}
  <2>1. {new.packages[i] : i \in Extra(old, new)} =
          {doc.packages[i] : i \in Extra(old, doc)} \cup {PackageOf(dep)}
    BY <1>3, <1>7
  <2>2. {PackageOf(d) : d \in {e \in Firsts(Append(done, dep)) :
                                 Id(e.name) \notin PackageIds(old)}} =
          {PackageOf(d) : d \in {e \in Firsts(done) : Id(e.name) \notin PackageIds(old)}}
            \cup {PackageOf(dep)}
    BY <1>9
  <2> QED
    BY <2>1, <2>2 DEF Between
<1>11. ASSUME NEW i \in Extra(old, new)
       PROVE  new.relationships[Len(old.relationships) + (i - Len(old.packages))] =
                DependsOn(old, new.packages[i].id)
  <2>1. CASE i \in Extra(old, doc)
    <3>1. Len(old.relationships) + (i - Len(old.packages)) \in 1..m
      <4>1. i \in 1..n /\ i > Len(old.packages)
        BY <1>3, <2>1 DEF Extra
      <4> QED
        BY <4>1, <1>6a
    <3>2. doc.relationships[Len(old.relationships) + (i - Len(old.packages))] =
            DependsOn(old, doc.packages[i].id)
      BY <2>1 DEF Between
    <3> QED
      BY <1>3, <1>4, <1>7, <2>1, <3>1, <3>2
  <2>2. CASE i = n + 1
    <3>1. Len(old.relationships) + (i - Len(old.packages)) = m + 1
      BY <2>2, <1>6a
    <3>2. new.packages[i].id = Id(dep.name)
      BY <1>3, <2>2 DEF PackageOf
    <3> QED
      BY <1>4, <1>6, <3>1, <3>2
  <2> QED
    BY <1>7, <2>1, <2>2
<1>12. Between(old, new, Append(done, dep))
  <2>1. Len(new.relationships) - Len(old.relationships) =
          Len(new.packages) - Len(old.packages)
    BY <1>3, <1>4, <1>6a
  <2> QED
    BY <1>2, <1>8, <1>10, <1>11, <2>1 DEF Between
<1> QED
  BY <1>12 DEF new

---------------------------------------------------------------------------
(* The invariant: the file, the document that was read, the document in    *)
(* memory and the release each hold the scan and what was added to it.     *)

Found(module) == parse_bazel_deps(module)

Knows(doc, module) == module # None => IdsOf(Found(module)) \subseteq PackageIds(doc)

FileKept ==
  file \notin {None, Torn} => Grown(scanned, file) /\ Sound(file) /\ Knows(file, enrichedFor)

LoadedKept ==
  /\ pc = "load" /\ ~byHand => file = scanned
  /\ pc \in {"parse", "add", "dump"} =>
       /\ Grown(scanned, loaded) /\ Sound(loaded) /\ Knows(loaded, enrichedFor)
       /\ ~byHand => loaded = scanned

\* deps holds what is left of the dependencies after those in done.
PartlyDone == \E done \in Seq(Dependency) :
  Found(text) = done \o deps /\ Between(loaded, spdx, done)

Enriching ==
  /\ pc = "parse" => spdx = loaded
  /\ pc = "add" => existing = PackageIds(spdx)
  /\ pc \in {"add", "dump"} =>
       /\ Sound(spdx)
       /\ PartlyDone
       /\ enrichedFor = text => spdx = loaded

Shipped ==
  /\ pc = "publish" => Between(scanned, file, Found(text))
  /\ published # None =>
       /\ published.scan \in Scans /\ Sound(published.doc)
       /\ Between(published.scan, published.doc, Found(published.module))

History == FileKept /\ LoadedKept /\ Enriching /\ Shipped

LEMMA FoundFacts ==
  ASSUME TypeOK
  PROVE  Found(text) \in Seq(Dependency) /\ text # None
BY ModulesAssumption, SentinelAssumption, ParseFacts DEF TypeOK, Readable, Found

LEMMA StepFileKept ==
  ASSUME TypeOK, Control, History, [Next]_vars
  PROVE  FileKept'
<1> USE DEF FileKept
<1>1. CASE Scan
  <2>1. file' \in Scans /\ scanned' = file' /\ enrichedFor' = None
    BY <1>1 DEF Scan
  <2> QED
    BY <2>1, ScanFields, GrownFacts DEF Knows
<1>2. CASE ScanFails \/ Truncate
  BY <1>2 DEF ScanFails, Truncate
<1>3. CASE Dump
  <2>1. /\ pc = "dump" /\ file' = spdx /\ enrichedFor' = text /\ scanned' = scanned
    BY <1>3 DEF Dump
  <2>2. /\ spdx \in Document /\ loaded \in Document /\ scanned \in Document /\ deps = <<>>
        /\ Grown(scanned, loaded) /\ Sound(spdx)
    BY <2>1, ScanFields DEF Control, History, LoadedKept, Enriching
  <2>3. PICK done \in Seq(Dependency) : Found(text) = done \o deps /\ Between(loaded, spdx, done)
    BY <2>1 DEF History, Enriching, PartlyDone
  <2>4. Between(loaded, spdx, Found(text))
    BY <2>2, <2>3
  <2>5. Grown(scanned, spdx) /\ IdsOf(Found(text)) \subseteq PackageIds(spdx)
    BY <2>2, <2>4, GrownFacts DEF Between
  <2> QED
    BY <2>1, <2>2, <2>5 DEF Knows
<1>4. CASE UNCHANGED <<file, scanned, enrichedFor>>
  BY <1>4 DEF History
<1> QED
  BY <1>1, <1>2, <1>3, <1>4
  DEF Next, vars, Edit, StartByHand, Load, LoadFails, Parse, Add, Skip, Publish, Crash

LEMMA StepLoadedKept ==
  ASSUME TypeOK, Control, History, [Next]_vars
  PROVE  LoadedKept'
<1> USE DEF LoadedKept
<1>1. CASE Scan
  BY <1>1 DEF Scan
<1>2. CASE StartByHand
  BY <1>2 DEF StartByHand
<1>3. CASE Load
  <2>1. /\ pc = "load" /\ pc' = "parse" /\ loaded' = file /\ file # Torn
        /\ UNCHANGED <<byHand, scanned, enrichedFor>>
    BY <1>3 DEF Load, Loaded
  <2> QED
    BY <2>1 DEF Control, History, FileKept
<1>4. CASE Parse \/ Add \/ Skip \/ Truncate
  <2>1. /\ pc \in {"parse", "add", "dump"} /\ pc' \in {"add", "dump"}
        /\ UNCHANGED <<byHand, scanned, loaded, enrichedFor>>
    BY <1>4 DEF Parse, Add, Skip, Truncate, memory
  <2> QED
    BY <2>1 DEF History
<1>5. CASE UNCHANGED vars
  BY <1>5 DEF History, vars
<1>6. CASE pc' \in {"idle", "publish"}
  BY <1>6
<1> QED
  BY <1>1, <1>2, <1>3, <1>4, <1>5, <1>6
  DEF Next, Edit, ScanFails, LoadFails, Dump, Publish, Crash

LEMMA StepEnriching ==
  ASSUME TypeOK, Control, History, [Next]_vars
  PROVE  Enriching'
<1> USE DEF Enriching
<1>1. CASE Load
  BY <1>1 DEF Load
<1>2. CASE Parse
  <2>1. /\ pc = "parse" /\ pc' = "add" /\ deps' = Found(text) /\ existing' = PackageIds(spdx)
        /\ UNCHANGED <<text, spdx, loaded, enrichedFor>>
    BY <1>2 DEF Parse, Known, Found
  <2>2. spdx = loaded /\ Sound(spdx) /\ loaded \in Document
    BY <2>1 DEF Control, History, LoadedKept
  <2>3. Found(text) = <<>> \o deps' /\ Between(loaded, spdx, <<>>)
    BY <2>1, <2>2, FoundFacts, BetweenStart
  <2>4. PartlyDone'
    BY <2>1, <2>3, EmptySeq DEF PartlyDone
  <2> QED
    BY <2>1, <2>2, <2>4
<1>3. CASE Add \/ Skip
  <2>1. /\ pc = "add" /\ pc' = "add" /\ deps # <<>> /\ deps' = Tail(deps)
        /\ UNCHANGED <<text, loaded, enrichedFor>>
    BY <1>3 DEF Add, Skip
  <2>2. /\ spdx \in Document /\ loaded \in Document /\ deps \in Seq(Dependency)
        /\ Sound(spdx) /\ existing = PackageIds(spdx) /\ Knows(loaded, enrichedFor)
    BY <2>1 DEF TypeOK, Control, History, LoadedKept
  <2> DEFINE dep == Head(deps)
  <2>3. PICK done \in Seq(Dependency) : Found(text) = done \o deps /\ Between(loaded, spdx, done)
    BY <2>1 DEF History, PartlyDone
  <2>4. dep \in Dependency /\ Append(done, dep) \in Seq(Dependency)
        /\ Found(text) = Append(done, dep) \o deps'
    BY <2>1, <2>2, <2>3, TakeOne, HeadTailProperties
  <2>5. Id(dep.name) \in IdsOf(Found(text))
    <3>1. 1 \in DOMAIN deps /\ deps[1] = dep
      BY <2>1, <2>2, LenProperties, EmptySeq
    <3>2. /\ Len(done) + 1 \in DOMAIN (done \o deps)
          /\ (done \o deps)[Len(done) + 1] = dep
      BY <2>2, <3>1, LenProperties, ConcatProperties
    <3> QED
      BY <2>3, <3>2 DEF IdsOf
  <2> HIDE DEF dep
  <2>6. CASE Add
    <3>1. /\ Id(dep.name) \notin PackageIds(spdx) /\ spdx' = Enriched(spdx, dep)
          /\ existing' = existing \cup {Id(dep.name)}
      BY <2>2, <2>6 DEF Add, Remember, dep
    <3>2. Between(loaded, spdx', Append(done, dep))
      BY <2>2, <2>3, <2>4, <3>1, BetweenAdd
    <3>3. PartlyDone'
      BY <2>1, <2>4, <3>2 DEF PartlyDone
    <3>4. Sound(spdx') /\ existing' = PackageIds(spdx')
      BY <2>2, <2>4, <3>1, EnrichedSound, EnrichedFields
    <3>5. enrichedFor # text
      BY <2>1, <2>2, <2>5, <3>1, FoundFacts DEF History, Knows
    <3> QED
      BY <2>1, <3>3, <3>4, <3>5
  <2>7. CASE Skip
    <3>1. Id(dep.name) \in PackageIds(spdx) /\ UNCHANGED <<spdx, existing>>
      BY <2>2, <2>7 DEF Skip, dep
    <3>2. Between(loaded, spdx, Append(done, dep))
      BY <2>2, <2>3, <2>4, <3>1, BetweenSkip
    <3>3. PartlyDone'
      BY <2>1, <2>4, <3>1, <3>2 DEF PartlyDone
    <3> QED
      BY <2>1, <2>2, <3>1, <3>3 DEF History
  <2> QED
    BY <1>3, <2>6, <2>7
<1>4. CASE Truncate
  <2>1. pc = "add" /\ pc' = "dump" /\ UNCHANGED <<text, spdx, deps, loaded, enrichedFor>>
    BY <1>4 DEF Truncate, memory
  <2> QED
    BY <2>1 DEF History, PartlyDone
<1>5. CASE UNCHANGED vars
  BY <1>5 DEF History, PartlyDone, vars
<1>6. CASE pc' \in {"idle", "load", "publish"}
  BY <1>6
<1> QED
  BY <1>1, <1>2, <1>3, <1>4, <1>5, <1>6
  DEF Next, Edit, Scan, ScanFails, StartByHand, LoadFails, Dump, Publish, Crash

LEMMA StepShipped ==
  ASSUME TypeOK, Control, History, [Next]_vars
  PROVE  Shipped'
<1> USE DEF Shipped
<1>1. CASE Dump
  <2>1. /\ pc = "dump" /\ file' = spdx /\ pc' = (IF byHand THEN "idle" ELSE "publish")
        /\ UNCHANGED <<text, scanned, published>>
    BY <1>1 DEF Dump
  <2>2. PICK done \in Seq(Dependency) : Found(text) = done \o deps /\ Between(loaded, spdx, done)
    BY <2>1 DEF History, Enriching, PartlyDone
  <2>3. Between(loaded, spdx, Found(text))
    BY <2>1, <2>2 DEF Control
  <2>4. ~byHand => loaded = scanned
    BY <2>1 DEF History, LoadedKept
  <2> QED
    BY <2>1, <2>3, <2>4 DEF History
<1>2. CASE Publish
  <2>1. /\ pc = "publish" /\ pc' = "idle"
        /\ published' = [doc |-> file, module |-> text, scan |-> scanned]
    BY <1>2 DEF Publish
  <2>2. published'.doc = file /\ published'.module = text /\ published'.scan = scanned
    BY <2>1
  <2>3. file \in Document /\ scanned \in Scans /\ Sound(file)
    BY <2>1, SentinelAssumption DEF Control, History, FileKept
  <2> QED
    BY <2>1, <2>2, <2>3 DEF History
<1>3. CASE pc' # "publish" /\ UNCHANGED published
  BY <1>3 DEF History
<1>4. CASE UNCHANGED vars
  BY <1>4 DEF History, vars
<1> QED
  BY <1>1, <1>2, <1>3, <1>4
  DEF Next, Edit, Scan, ScanFails, StartByHand, Load, LoadFails, Parse, Add, Skip, Truncate,
      Crash

THEOREM HistoryKept == Spec => [](TypeOK /\ Control /\ History)
<1>1. Init => History
  BY SentinelAssumption DEF Init, History, FileKept, LoadedKept, Enriching, Shipped
<1>2. TypeOK /\ Control /\ History /\ [Next]_vars => History'
  BY StepFileKept, StepLoadedKept, StepEnriching, StepShipped DEF History
<1> QED
  BY <1>1, <1>2, TypeCorrect, PTL DEF Spec

(* No two packages of a whole file share an id, and every DEPENDS_ON names *)
(* a package of the file, however many runs have rewritten it.             *)
THEOREM IdsStayUnique == Spec => []IdsUnique
<1>1. TypeOK /\ Control /\ History => IdsUnique
  BY DEF History, FileKept, IdsUnique
<1> QED
  BY <1>1, HistoryKept, PTL

(* Whatever step a run ended at, a whole file begins with the scan.        *)
THEOREM ScanIsKept == Spec => []ScanKept
<1>1. TypeOK /\ Control /\ History => ScanKept
  BY SentinelAssumption, ScanFields DEF Control, History, FileKept, Grown, ScanKept
<1> QED
  BY <1>1, HistoryKept, PTL

(* A second run for the same MODULE.bazel writes back what it read.        *)
THEOREM RerunIsIdempotent == Spec => RerunChangesNothing
<1> DEFINE Same == pc = "dump" /\ file' \notin {None, Torn} /\ enrichedFor = text => file' = loaded
<1>1. TypeOK /\ Control /\ History /\ [Next]_vars => [Same]_vars
  <2> SUFFICES ASSUME TypeOK, Control, History, [Next]_vars, pc = "dump",
                      file' \notin {None, Torn}, enrichedFor = text
               PROVE  file' = loaded \/ UNCHANGED vars
    OBVIOUS
  <2>1. spdx = loaded /\ file = Torn
    BY DEF Control, History, Enriching
  <2>2. Dump \/ Crash \/ UNCHANGED vars
    BY DEF Next, Edit, Scan, ScanFails, StartByHand, Load, LoadFails, Parse, Add, Skip,
           Truncate, Publish
  <2>3. CASE Dump
    BY <2>1, <2>3 DEF Dump
  <2>4. CASE Crash
    BY <2>1, <2>4 DEF Crash
  <2> QED
    BY <2>2, <2>3, <2>4
<1> HIDE DEF Same
<1>2. Spec => [][Same]_vars
  BY <1>1, HistoryKept, PTL DEF Spec
<1> QED
  BY <1>2 DEF RerunChangesNothing, Same

---------------------------------------------------------------------------
(* What a published document holds beyond its scan.                        *)

LEMMA OneRelationEach ==
  ASSUME NEW old \in Document, NEW doc \in Document, NEW done \in Seq(Dependency),
         Between(old, doc, done), Sound(doc), NEW k \in Extra(old, doc)
  PROVE  Cardinality({i \in Beyond(doc.relationships, old.relationships) :
           doc.relationships[i] = DependsOn(old, doc.packages[k].id)}) = 1
<1> DEFINE a == Len(old.packages)
           b == Len(old.relationships)
           n == Len(doc.packages)
           m == Len(doc.relationships)
           C == {i \in Beyond(doc.relationships, old.relationships) :
                   doc.relationships[i] = DependsOn(old, doc.packages[k].id)}
           r == b + (k - a)
<1>1. /\ a \in Nat /\ b \in Nat /\ n \in Nat /\ m \in Nat
      /\ DOMAIN doc.packages = 1..n /\ DOMAIN doc.relationships = 1..m
  BY DocumentFields, LenProperties
<1>2. /\ m - b = n - a
      /\ \A i \in 1..n : i > a =>
           doc.relationships[b + (i - a)] = DependsOn(old, doc.packages[i].id)
  BY <1>1 DEF Between, Extra
<1>3. /\ \A i, j \in 1..n : doc.packages[i].id = doc.packages[j].id => i = j
      /\ k \in 1..n /\ k > a
      /\ Beyond(doc.relationships, old.relationships) = {i \in 1..m : i > b}
  BY <1>1 DEF Sound, Extra, Beyond
<1> HIDE DEF a, b, n, m
<1>4. r \in C
  <2>1. r \in 1..m /\ r > b
    BY <1>1, <1>2, <1>3
  <2> QED
    BY <1>2, <1>3, <2>1
<1>5. ASSUME NEW i \in C
      PROVE  i = r
  <2>1. i \in 1..m /\ i > b /\ doc.relationships[i] = DependsOn(old, doc.packages[k].id)
    BY <1>3
  <2> DEFINE j == a + (i - b)
  <2>2. j \in 1..n /\ j > a /\ i = b + (j - a)
    BY <1>1, <1>2, <2>1
  <2>3. doc.relationships[i] = DependsOn(old, doc.packages[j].id)
    BY <1>2, <2>2
  <2>4. doc.packages[j].id = doc.packages[k].id
    BY <2>1, <2>3 DEF DependsOn
  <2>5. j = k
    BY <1>3, <2>2, <2>4
  <2> QED
    BY <2>2, <2>5
<1>6. C = {r}
  BY <1>4, <1>5
<1> HIDE DEF C, r
<1>7. Cardinality({r}) = 1
  BY FS_Singleton
<1> QED
  BY <1>6, <1>7 DEF C

(* The published packages are those of the scan and one for each statement *)
(* the pattern matches, as written there, of two with one id the first;    *)
(* each of them with one DEPENDS_ON from the root.  This is of any         *)
(* MODULE.bazel, whatever the order of its keywords.                       *)
PublishedMatches ==
  published # None =>
    LET doc == published.doc
        scan == published.scan
        module == published.module
    IN
      /\ {doc.packages[i] : i \in Extra(scan, doc)} =
           {PackageOf(DependencyOf(module[i])) : i \in FirstMatches(module, Len(module))}
      /\ \A k \in Extra(scan, doc) :
           Cardinality({i \in Beyond(doc.relationships, scan.relationships) :
             doc.relationships[i] = DependsOn(scan, doc.packages[k].id)}) = 1

LEMMA HistoryPublishes ==
  ASSUME TypeOK, Control, History
  PROVE  PublishedMatches
<1> SUFFICES ASSUME published # None
             PROVE  PublishedMatches
  BY DEF PublishedMatches
<1> DEFINE doc == published.doc
           scan == published.scan
           module == published.module
<1>1. /\ doc \in Document /\ scan \in Document /\ module \in Modules
      /\ Sound(doc) /\ Between(scan, doc, Found(module)) /\ PackageIds(scan) \subseteq ScanIds
  BY ScanFields DEF TypeOK, History, Shipped
<1>2. /\ Found(module) \in Seq(Dependency)
      /\ Firsts(Found(module)) =
           {DependencyOf(module[i]) : i \in FirstMatches(module, Len(module))}
  BY <1>1, ModulesAssumption, ParseFacts DEF Readable, Found
<1> HIDE DEF doc, scan, module
<1>3. \A d \in Firsts(Found(module)) : Id(d.name) \notin PackageIds(scan)
  <2>1. Firsts(Found(module)) \subseteq Dependency
    BY <1>2, LenProperties, ElementOfSeq DEF Firsts, FirstOnes
  <2> QED
    BY <1>1, <2>1, IdType
<1>4. {doc.packages[i] : i \in Extra(scan, doc)} = {PackageOf(d) : d \in Firsts(Found(module))}
  BY <1>1, <1>3 DEF Between
<1>5. {doc.packages[i] : i \in Extra(scan, doc)} =
        {PackageOf(DependencyOf(module[i])) : i \in FirstMatches(module, Len(module))}
  BY <1>2, <1>4
<1>6. \A k \in Extra(scan, doc) :
        Cardinality({i \in Beyond(doc.relationships, scan.relationships) :
          doc.relationships[i] = DependsOn(scan, doc.packages[k].id)}) = 1
  BY <1>1, <1>2, OneRelationEach
<1> QED
  BY <1>5, <1>6 DEF PublishedMatches, doc, scan, module

THEOREM PublishedAsMatched == Spec => []PublishedMatches
BY HistoryKept, HistoryPublishes, PTL

(* Where every bazel_dep with a version begins with its name and version   *)
(* and none is commented out, as in this repository, the published         *)
(* document is exact.                                                      *)
THEOREM PublishedExactly ==
  ASSUME \A module \in Modules : \A i \in DOMAIN module :
           Declares(module[i]) <=> Matches(module[i])
  PROVE  Spec => []PublishedIsExact
<1>1. TypeOK /\ PublishedMatches => PublishedIsExact
  <2> SUFFICES ASSUME TypeOK, PublishedMatches, published # None
               PROVE  PublishedIsExact
    BY DEF PublishedIsExact
  <2> DEFINE doc == published.doc
             scan == published.scan
             module == published.module
             Related(id) == {i \in Beyond(doc.relationships, scan.relationships) :
                               doc.relationships[i] = DependsOn(scan, id)}
  <2>1. module \in Modules
    BY DEF TypeOK
  <2>2. /\ Added(published) = {PackageOf(DependencyOf(module[i])) :
                                  i \in FirstMatches(module, Len(module))}
        /\ \A k \in Extra(scan, doc) : Cardinality(Related(doc.packages[k].id)) = 1
        /\ Added(published) = {doc.packages[i] : i \in Extra(scan, doc)}
    BY DEF PublishedMatches, Extra, Beyond, Added
  <2> HIDE DEF doc, scan, module
  <2>3. /\ DOMAIN module = 1..Len(module) /\ Len(module) \in Nat
        /\ \A i \in DOMAIN module : Declares(module[i]) <=> Matches(module[i])
    BY <2>1, ModulesAssumption, LenProperties
  <2>4. \A i : PackageOf(DependencyOf(module[i])) = PackageFor(module[i])
    BY DEF PackageOf, DependencyOf, PackageFor
  <2>5. FirstMatches(module, Len(module)) \subseteq Declared(module)
    BY <2>3 DEF FirstMatches, Declared
  <2>6. \A i \in Declared(module) : Alone(module, i) => i \in FirstMatches(module, Len(module))
    BY <2>3 DEF FirstMatches, Before, Declared, Alone
  <2>7. /\ Added(published) \subseteq {PackageFor(module[i]) : i \in Declared(module)}
        /\ \A i \in Declared(module) :
             Alone(module, i) => PackageFor(module[i]) \in Added(published)
    BY <2>2, <2>4, <2>5, <2>6
  <2>8. \A p \in Added(published) : Cardinality(Related(p.id)) = 1
    BY <2>2
  <2> QED
    BY <2>7, <2>8 DEF PublishedIsExact, DependsOn, doc, scan, module
<1> QED
  BY <1>1, HistoryKept, PublishedAsMatched, PTL

=============================================================================
