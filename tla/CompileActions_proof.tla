------------------------ MODULE CompileActions_proof ------------------------
(***************************************************************************)
(* What a build of any graph of targets leaves in its outputs, whatever    *)
(* was edited, reused, forgotten or failed before it; and which actions    *)
(* run again after edits that no declaration shows.                        *)
(***************************************************************************)
EXTENDS CompileActions, TLAPS

---------------------------------------------------------------------------
(* The graph of actions.                                                   *)

\* What is reached from a set of nodes includes it, and is among the nodes.
LEMMA ReachedFacts ==
  ASSUME NEW next, NEW from \in SUBSET DOMAIN next
  PROVE  from \subseteq Reached(from, next) /\ Reached(from, next) \subseteq DOMAIN next
BY DEF Reached

\* The rules of a reachable state are those of one of the graphs.
LEMMA RulesType ==
  ASSUME TypeOK
  PROVE  /\ settings \in Setting
         /\ \A t \in Targets : /\ rules[t] \in Rule
                               /\ rules[t].kind = "java" =>
                                    /\ rules[t].srcs = {"java"} /\ ~rules[t].builtin
                                    /\ rules[t].kotlinc_opts = "plain"
BY GraphsAssumption DEF TypeOK

\* The actions of a graph depend on nothing but its rules and settings.
LEMMA SameDecisions ==
  ASSUME UNCHANGED <<rules, settings>>, NEW t
  PROVE  /\ Incremental(t)' <=> Incremental(t)
         /\ ReadsAll(t)' <=> ReadsAll(t)
         /\ HasKt(t)' <=> HasKt(t)
         /\ SingleKt(t)' <=> SingleKt(t)
         /\ HasAbi(t)' <=> HasAbi(t)
         /\ Fused(t)' <=> Fused(t)
         /\ KindsOf(t)' = KindsOf(t)
<1>1. /\ Incremental(t)' <=> Incremental(t)
      /\ ReadsAll(t)' <=> ReadsAll(t)
      /\ Processed(t)' <=> Processed(t)
      /\ HasKt(t)' <=> HasKt(t)
      /\ HasRes(t)' <=> HasRes(t)
      /\ SingleKt(t)' <=> SingleKt(t)
      /\ AbiRequested(t)' <=> AbiRequested(t)
      /\ AbiCombined(t)' <=> AbiCombined(t)
  BY DEF Incremental, ReadsAll, Processed, HasKt, HasRes, SingleKt, AbiRequested, AbiCombined
<1>2. HasAbi(t)' <=> HasAbi(t)
  BY <1>1 DEF HasAbi
<1>3. Fused(t)' <=> Fused(t)
  BY <1>1, <1>2 DEF Fused
<1>4. KindsOf(t)' = KindsOf(t)
  BY <1>1, <1>2, <1>3 DEF KindsOf, If
<1> QED
  BY <1>1, <1>2, <1>3, <1>4

\* Nor do the files they read and write.
LEMMA SameJars ==
  ASSUME UNCHANGED <<rules, settings>>, NEW t, NEW k
  PROVE  /\ Jars(t, k)' = Jars(t, k) /\ Plugins(t, k)' = Plugins(t, k)
         /\ Own(t, k)' = Own(t, k) /\ Inputs(t, k)' = Inputs(t, k)
         /\ Outputs(t, k)' = Outputs(t, k) /\ ClassJars(t)' = ClassJars(t)
<1>1. \A d : DepsOf(d)' = DepsOf(d)
  BY DEF DepsOf
<1>2. \A d : CompileJar(d)' = CompileJar(d)
  BY SameDecisions DEF CompileJar
<1>3. Classpath(t)' = Classpath(t) /\ FriendJars(t)' = FriendJars(t)
  BY <1>1, <1>2 DEF Classpath, FriendJars
<1>4. /\ PluginTargets(t)' = PluginTargets(t)
      /\ AtRuntime(rules[t].processors)' = AtRuntime(rules[t].processors)
  BY <1>1 DEF PluginTargets, AtRuntime
<1>5. ByBazel(t, k)' <=> ByBazel(t, k)
  BY DEF ByBazel
<1>6. MainJar(t)' = MainJar(t)
  BY SameDecisions DEF MainJar
<1>7. ClassJars(t)' = ClassJars(t)
  BY <1>6, SameDecisions DEF ClassJars, If
<1>8. Jars(t, k)' = Jars(t, k)
  <2>1. {CompileJar(p) : p \in PluginTargets(t)}' = {CompileJar(p) : p \in PluginTargets(t)}
    BY <1>2, <1>4
  <2> QED
    BY <1>3, <1>5, <1>6, <1>7, <2>1, SameDecisions DEF Jars, If
<1>9. Plugins(t, k)' = Plugins(t, k)
  BY <1>4, <1>5 DEF Plugins, If
<1>10. Own(t, k)' = Own(t, k) /\ Outputs(t, k)' = Outputs(t, k)
  BY <1>6, SameDecisions DEF Own, Outputs, If
<1> QED
  BY <1>7, <1>8, <1>9, <1>10 DEF Inputs

\* Jars are no sources and no resources, and each is of some target.
LEMMA JarNames ==
  ASSUME NEW t, NEW k \in Kinds
  PROVE  /\ \A i \in Jars(t, k) \cup Plugins(t, k) : i[2] \notin {"srcs", "resources"}
         /\ \A i \in Outputs(t, k) : i[1] = t /\ i[2] \in Names /\ i = <<t, i[2]>>
         /\ k # "ijar" => <<t, IF k = "merge" THEN "resources" ELSE "srcs">> \in Own(t, k)
<1>1. \A d : CompileJar(d)[2] \notin {"srcs", "resources"}
  BY DEF CompileJar
<1>2. MainJar(t)[2] \in {"classes", "jar"} /\ MainJar(t) = <<t, MainJar(t)[2]>>
  BY DEF MainJar
<1>3. /\ \A i \in Classpath(t) \cup FriendJars(t) \cup ClassJars(t) : i[2] \notin {"srcs", "resources"}
      /\ \A i \in {CompileJar(p) : p \in PluginTargets(t)} : i[2] \notin {"srcs", "resources"}
  BY <1>1, <1>2 DEF Classpath, FriendJars, ClassJars, If
<1>4. \A i \in Jars(t, k) : i[2] \notin {"srcs", "resources"}
  BY <1>2, <1>3 DEF Jars, If, Kinds
<1>5. \A i \in Plugins(t, k) : i[2] \notin {"srcs", "resources"}
  BY DEF Plugins
<1>6. \A i \in Outputs(t, k) : i[1] = t /\ i[2] \in Names /\ i = <<t, i[2]>>
  BY <1>2 DEF Outputs, If, Names, Kinds
<1> QED
  BY <1>4, <1>5, <1>6 DEF Own, If

\* Every output is one action's.
LEMMA OutputsDiffer ==
  ASSUME NEW t, NEW k \in KindsOf(t), NEW u, NEW l \in KindsOf(u),
         NEW i \in Outputs(t, k), i \in Outputs(u, l)
  PROVE  t = u /\ k = l
<1>0. k \in Kinds /\ l \in Kinds
  BY DEF KindsOf, If, Kinds
<1>1. t = u
  <2>1. i[1] = t
    BY <1>0, JarNames
  <2>2. i[1] = u
    BY <1>0, JarNames
  <2> QED
    BY <2>1, <2>2
<1>2. MainJar(t) = <<t, IF "merge" \in KindsOf(t) THEN "classes" ELSE "jar">>
  BY DEF MainJar
<1>3. k \in Kinds /\ l \in Kinds
  BY <1>0
<1>4. "abi" \in KindsOf(t) => ~Fused(t)
  BY DEF KindsOf, If
<1>5. \A j : j \in If(Fused(t), {<<t, "abi">>}) <=> Fused(t) /\ j = <<t, "abi">>
  BY DEF If
<1>6. \A n \in {k, l} :
        \/ n = "abi" /\ i = <<t, "abi">> /\ ~Fused(t)
        \/ n = "compile" /\ i = <<t, "abi">> /\ Fused(t)
        \/ n = "compile" /\ i = <<t, "classes">> /\ "merge" \in KindsOf(t)
        \/ n = "compile" /\ i = <<t, "jar">> /\ "merge" \notin KindsOf(t)
        \/ n = "aux" /\ i = <<t, "java">>
        \/ n = "merge" /\ i = <<t, "jar">> /\ "merge" \in KindsOf(t)
        \/ n = "ijar" /\ i = <<t, "ijar">>
  <2> SUFFICES ASSUME NEW n \in {k, l}
               PROVE  \/ n = "abi" /\ i = <<t, "abi">> /\ ~Fused(t)
                      \/ n = "compile" /\ i = <<t, "abi">> /\ Fused(t)
                      \/ n = "compile" /\ i = <<t, "classes">> /\ "merge" \in KindsOf(t)
                      \/ n = "compile" /\ i = <<t, "jar">> /\ "merge" \notin KindsOf(t)
                      \/ n = "aux" /\ i = <<t, "java">>
                      \/ n = "merge" /\ i = <<t, "jar">> /\ "merge" \in KindsOf(t)
                      \/ n = "ijar" /\ i = <<t, "ijar">>
    BY Zenon
  <2>1. i \in Outputs(t, n) /\ n \in KindsOf(t) /\ n \in Kinds
    BY <1>1, <1>3
  <2> QED
    BY <1>2, <1>4, <1>5, <2>1 DEF Outputs, Kinds
<1>7. \A n, o \in {k, l} : n = o
  BY <1>6
<1> QED
  BY <1>1, <1>7

---------------------------------------------------------------------------
(* What an action makes, as a function of what it remembers: the contents  *)
(* m of its inputs when it ran, instead of the contents they have now.     *)
UsesOf(m, t, langs) == {u[2] : u \in {v \in m[<<t, "srcs">>][3] : v[1] \in langs}}

UsedJarsOf(m, t, k) ==
  {i \in Jars(t, k) : i[1] = t \/ i[1] \in UsesOf(m, t, Langs(t, k))}

ReadPartsOf(m, t, k) ==
  LET jars == IF k \in {"merge", "ijar"} \/ ReadsAll(t) THEN Jars(t, k) ELSE UsedJarsOf(m, t, k)
  IN jars \X {"decl"} \cup Plugins(t, k) \X {"decl", "code"}

TreeOf(m, own, parts) == [own |-> own, seen |-> [p \in parts |-> m[p[1]][p[2]]]]

ClassesOf(t, k) ==
  IF rules[t].kind = "java" \/ k = "aux" THEN {"java"} \cup Generated(t, k) ELSE {"kt"}

CompiledOf(m, t, k) ==
  [decl |-> TreeOf(m, m[<<t, "srcs">>][1], ReadPartsOf(m, t, k)),
   code |-> TreeOf(m, m[<<t, "srcs">>][2], {}), classes |-> ClassesOf(t, k)]

HeaderOf(m, t, k) ==
  [decl |-> TreeOf(m, m[<<t, "srcs">>][1], ReadPartsOf(m, t, k)), code |-> TreeOf(m, 0, {}),
   classes |-> rules[t].srcs]

MergedOf(m, t) ==
  LET jars == ClassJars(t)
      own == m[<<t, "resources">>] IN
    [decl |-> TreeOf(m, IF rules[t].resourceJars THEN own ELSE 0, jars \X {"decl"}),
     code |-> TreeOf(m, own, jars \X {"code"}),
     classes |-> (UNION {m[j].classes : j \in jars}) \cup If(rules[t].resourceJars, {"supplied"})]

MadeOf(m, t, k, i) ==
  CASE i = <<t, "abi">>                -> HeaderOf(m, t, k)
    [] i # <<t, "abi">> /\ k = "merge" -> MergedOf(m, t)
    [] i # <<t, "abi">> /\ k = "ijar"  -> [m[<<t, "jar">>] EXCEPT !.code = TreeOf(m, 0, {})]
    [] OTHER                           -> CompiledOf(m, t, k)

\* What an action must remember of: its own files, and the jars it looks into.
Needed(m, t, k) ==
  Own(t, k) \cup {p[1] : p \in ReadPartsOf(m, t, k)} \cup (IF k \in {"merge", "ijar"} THEN Jars(t, k) ELSE {})

(* Unchanged inputs, unchanged outputs.  What an action made of inputs that *)
(* have not changed since is what it would make now: it never looks into a *)
(* jar it forgot.                                                          *)
LEMMA UpToDate ==
  ASSUME NEW t, NEW k \in Kinds, NEW m, Needed(m, t, k) \subseteq DOMAIN m,
         \A i \in DOMAIN m : m[i] = Digest(i), NEW o \in Outputs(t, k)
  PROVE  MadeOf(m, t, k, o) = Made(t, k, o) /\ ReadPartsOf(m, t, k) = ReadParts(t, k)
<1> DEFINE parts == ReadPartsOf(m, t, k)
<1>1. /\ \A i \in Jars(t, k) \cup Plugins(t, k) : i \in DOMAIN m => m[i] = file[i]
  <2>1. \A i : i[2] \notin {"srcs", "resources"} => Digest(i) = file[i]
    BY DEF Digest
  <2> QED
    BY <2>1, JarNames
<1>2. k \notin {"merge", "ijar"} =>
        /\ m[<<t, "srcs">>] = <<src[t].abi, src[t].body, src[t].uses>>
  BY JarNames DEF Digest, Needed
<1>3. k = "merge" => m[<<t, "resources">>] = src[t].resource
  BY JarNames DEF Digest, Needed
<1>4. k \notin {"merge", "ijar"} => UsedJarsOf(m, t, k) = UsedJars(t, k)
  BY <1>2 DEF UsedJarsOf, UsesOf, UsedJars, Uses
<1>5. parts = ReadParts(t, k)
  BY <1>4 DEF ReadPartsOf, ReadParts
<1>6. /\ \A p \in parts : p[1] \in Jars(t, k) \cup Plugins(t, k)
  BY DEF ReadPartsOf, UsedJarsOf
<1>7. \A p \in parts : m[p[1]] = file[p[1]]
  BY <1>1, <1>6 DEF Needed
<1>8. ASSUME NEW own
      PROVE  TreeOf(m, own, parts) = Tree(own, parts) /\ TreeOf(m, own, {}) = Tree(own, {})
  BY <1>7 DEF TreeOf, Tree
<1> HIDE DEF parts
<1>9. CASE k \notin {"merge", "ijar"}
  <2>1. HeaderOf(m, t, k) = Header(t, k)
    BY <1>2, <1>5, <1>8, <1>9 DEF HeaderOf, Header, Nothing, parts
  <2>2. Generated(t, k) = Generated(t, k) /\ CompiledOf(m, t, k) = Compiled(t, k)
    BY <1>2, <1>5, <1>8, <1>9 DEF CompiledOf, Compiled, ClassesOf, parts
  <2> QED
    BY <1>5, <1>9, <2>1, <2>2 DEF MadeOf, Made, parts
<1>10. CASE k = "merge"
  <2>1. \A j \in ClassJars(t) : m[j] = file[j]
    BY <1>1, <1>10 DEF Needed, Jars
  <2>2. \A own : /\ TreeOf(m, own, ClassJars(t) \X {"decl"}) = Tree(own, ClassJars(t) \X {"decl"})
                 /\ TreeOf(m, own, ClassJars(t) \X {"code"}) = Tree(own, ClassJars(t) \X {"code"})
    BY <2>1 DEF TreeOf, Tree
  <2>3. {m[j].classes : j \in ClassJars(t)} = {file[j].classes : j \in ClassJars(t)}
    BY <2>1
  <2>4. MergedOf(m, t) = Merged(t)
    BY <1>3, <1>10, <2>2, <2>3 DEF MergedOf, Merged
  <2>5. o # <<t, "abi">>
    BY <1>10 DEF Outputs
  <2> QED
    BY <1>5, <1>10, <2>4, <2>5 DEF MadeOf, Made, parts
<1>11. CASE k = "ijar"
  <2>1. m[<<t, "jar">>] = file[<<t, "jar">>]
    BY <1>1, <1>11 DEF Needed, Jars
  <2>2. o # <<t, "abi">>
    BY <1>11 DEF Outputs
  <2>3. TreeOf(m, 0, {}) = Nothing
    BY <1>8 DEF Nothing
  <2> QED
    BY <1>5, <1>11, <2>1, <2>2, <2>3 DEF MadeOf, Made, parts
<1> QED
  BY <1>9, <1>10, <1>11

\* And so does what an action makes of given inputs.
LEMMA SameMade ==
  ASSUME UNCHANGED <<rules, settings>>, NEW m, NEW t, NEW k, NEW o
  PROVE  MadeOf(m, t, k, o)' = MadeOf(m, t, k, o) /\ Needed(m, t, k)' = Needed(m, t, k)
<1>1. Generated(t, k)' = Generated(t, k)
  BY SameDecisions DEF Generated, ByBazel, If
<1>2. ClassesOf(t, k)' = ClassesOf(t, k)
  BY <1>1 DEF ClassesOf
<1>3. Langs(t, k)' = Langs(t, k)
  BY DEF Langs
<1>4. UsedJarsOf(m, t, k)' = UsedJarsOf(m, t, k)
  BY <1>3, SameJars DEF UsedJarsOf
<1>5. ReadPartsOf(m, t, k)' = ReadPartsOf(m, t, k)
  BY <1>4, SameJars, SameDecisions DEF ReadPartsOf
<1>6. CompiledOf(m, t, k)' = CompiledOf(m, t, k)
  BY <1>2, <1>5 DEF CompiledOf
<1>7. HeaderOf(m, t, k)' = HeaderOf(m, t, k)
  BY <1>5 DEF HeaderOf
<1>8. MergedOf(m, t)' = MergedOf(m, t)
  BY SameJars DEF MergedOf
<1>9. MadeOf(m, t, k, o)' = MadeOf(m, t, k, o)
  BY <1>6, <1>7, <1>8 DEF MadeOf
<1> QED
  BY <1>5, <1>9, SameJars DEF Needed

(* What an action forgets, it does not need: the reports of opaque         *)
(* compiles are ignored, those of others name unused jars only.            *)
LEMMA KeepsNeeded ==
  ASSUME NEW t, NEW k \in Kinds, NEW unused \in Reported(t, k), NEW m,
         m = [i \in Inputs(t, k) \ unused |-> Digest(i)]
  PROVE  unused \subseteq Jars(t, k) /\ Needed(m, t, k) \subseteq DOMAIN m
<1>1. \/ unused = {}
      \/ unused = Jars(t, k) \ UsedJars(t, k) /\ ~ReadsAll(t) /\ k \notin {"merge", "ijar"}
  BY DEF Reported, Opaque
<1>2. unused \subseteq Jars(t, k) /\ DOMAIN m = Inputs(t, k) \ unused
  BY <1>1
<1>3. \A i \in Own(t, k) : i[2] \in {"srcs", "resources"}
  BY DEF Own, If
<1>4. Own(t, k) \subseteq DOMAIN m
  BY <1>2, <1>3, JarNames DEF Inputs
<1>5. \A p \in ReadPartsOf(m, t, k) : p[1] \in Jars(t, k) \cup Plugins(t, k)
  BY DEF ReadPartsOf, UsedJarsOf
<1>6. CASE unused = {}
  BY <1>2, <1>5, <1>6 DEF Needed, Inputs
<1>7. CASE unused = Jars(t, k) \ UsedJars(t, k) /\ ~ReadsAll(t) /\ k \notin {"merge", "ijar"}
  <2>1. <<t, "srcs">> \in DOMAIN m
    BY <1>4, <1>7, JarNames
  <2>2. m[<<t, "srcs">>] = <<src[t].abi, src[t].body, src[t].uses>>
    BY <2>1 DEF Digest
  <2>3. UsedJarsOf(m, t, k) = UsedJars(t, k)
    <3>1. m[<<t, "srcs">>][3] = src[t].uses
      BY <2>2
    <3>2. UsesOf(m, t, Langs(t, k)) = Uses(t, Langs(t, k))
      BY <3>1 DEF UsesOf, Uses
    <3> QED
      BY <3>2 DEF UsedJarsOf, UsedJars
  <2>4. Plugins(t, k) = {}
    BY <1>7 DEF ReadsAll, Processed, Plugins, ByBazel, AtRuntime, PluginTargets, If
  <2>5. \A p \in ReadPartsOf(m, t, k) : p[1] \in UsedJars(t, k)
    BY <1>7, <2>3, <2>4 DEF ReadPartsOf
  <2>6. \A p \in ReadPartsOf(m, t, k) : p[1] \in DOMAIN m
    BY <1>2, <1>5, <1>7, <2>4, <2>5 DEF Inputs
  <2> QED
    BY <1>4, <1>7, <2>6 DEF Needed
<1> QED
  BY <1>1, <1>2, <1>6, <1>7

---------------------------------------------------------------------------
(* The invariant.                                                          *)

\* The registered actions are those the rules of the graph decide on.
Planned ==
  /\ DOMAIN registered = Actions
  /\ \A a \in Actions :
       /\ registered[a].inputs = Inputs(a[1], a[2])
       /\ registered[a].outputs = Outputs(a[1], a[2])
       /\ Before(a) \subseteq registered[a].follows

\* A jar of classes.
IsContent(v) == v = [decl |-> v.decl, code |-> v.code, classes |-> v.classes]
Typed(content) == IsContent(content) /\ content.classes \subseteq ClassKinds

\* The outputs of an action that succeeded are made of what it remembers.
Remembered ==
  \A a \in DOMAIN cache : cache[a] # None =>
    /\ Needed(cache[a], a[1], a[2]) \subseteq DOMAIN cache[a]
    /\ \A o \in registered[a].outputs :
         /\ file[o] = MadeOf(cache[a], a[1], a[2], o)
         /\ Typed(file[o])

\* A build ends when no action is to be run again.
Settled == phase = "built" => Stale = {}

\* The actions of a graph are fixed when it is analysed.
LEMMA StepPlans ==
  ASSUME Planned, [Next]_vars
  PROVE  Planned' /\ UNCHANGED <<rules, settings, registered>>
<1>1. UNCHANGED <<rules, settings, registered>>
  BY DEF Next, vars, Build, Built, Edit, Run, Fail
<1>2. Actions' = Actions
  BY <1>1, SameDecisions DEF Actions
<1>3. \A a : Before(a)' = Before(a)
  BY <1>1, <1>2, SameJars DEF Before
<1>4. \A a : Inputs(a[1], a[2])' = Inputs(a[1], a[2]) /\ Outputs(a[1], a[2])' = Outputs(a[1], a[2])
  BY <1>1, SameJars
<1> QED
  BY <1>1, <1>2, <1>3, <1>4 DEF Planned

\* An action and its outputs.
LEMMA ActionType ==
  ASSUME TypeOK, Planned, NEW a \in DOMAIN cache
  PROVE  /\ a \in Actions /\ a[1] \in Targets /\ a[2] \in KindsOf(a[1]) /\ a[2] \in Kinds
         /\ a = <<a[1], a[2]>>
         /\ registered[a].inputs = Inputs(a[1], a[2])
         /\ registered[a].outputs = Outputs(a[1], a[2])
         /\ Outputs(a[1], a[2]) \subseteq DOMAIN file
<1>1. a \in Actions /\ a \in Targets \X Kinds /\ a[2] \in KindsOf(a[1])
  BY DEF TypeOK, Planned, Actions
<1>2. a[1] \in Targets /\ a[2] \in Kinds /\ a = <<a[1], a[2]>>
  BY <1>1
<1>3. \A i \in Outputs(a[1], a[2]) : i[1] = a[1] /\ i[2] \in Names /\ i = <<a[1], i[2]>>
  BY <1>2, JarNames, Zenon
<1>4. Outputs(a[1], a[2]) \subseteq DOMAIN file
  BY <1>2, <1>3 DEF TypeOK
<1> QED
  BY <1>1, <1>2, <1>4 DEF Planned

\* Every target has a full jar, made by one of its actions.
LEMMA JarIsMade ==
  ASSUME TypeOK, NEW t \in Targets
  PROVE  \E k \in KindsOf(t) : k \in Kinds /\ <<t, "jar">> \in Outputs(t, k)
<1>1. CASE "merge" \in KindsOf(t)
  BY <1>1 DEF Outputs, Kinds
<1>2. CASE "merge" \notin KindsOf(t)
  <2>1. rules[t] \in Rule /\ (rules[t].kind = "java" => rules[t].srcs = {"java"})
    BY RulesType
  <2>2. "compile" \in KindsOf(t)
    BY <1>2, <2>1 DEF KindsOf, If, SingleKt, HasKt, HasRes, Rule
  <2>3. MainJar(t) = <<t, "jar">>
    BY <1>2 DEF MainJar
  <2> QED
    BY <2>2, <2>3 DEF Outputs, Kinds
<1> QED
  BY <1>1, <1>2

\* So is the jar its dependents compile against: a header or an ijar.
LEMMA CompileJarIsMade ==
  ASSUME TypeOK, NEW t \in Targets
  PROVE  \E k \in KindsOf(t) : k \in Kinds /\ CompileJar(t) \in Outputs(t, k)
<1>1. CASE ~HasAbi(t)
  BY <1>1 DEF CompileJar, KindsOf, If, Outputs, Kinds
<1>2. CASE HasAbi(t) /\ ~Fused(t)
  BY <1>2 DEF CompileJar, KindsOf, If, Outputs, Kinds
<1>3. CASE HasAbi(t) /\ Fused(t)
  <2>1. rules[t].kind = "kotlin" => HasKt(t)
    BY <1>3 DEF Fused, SingleKt, HasKt
  <2>2. rules[t].kind \in {"java", "kotlin"}
    BY RulesType DEF Rule
  <2>3. "compile" \in KindsOf(t)
    BY <2>1, <2>2 DEF KindsOf, If
  <2>4. <<t, "abi">> \in Outputs(t, "compile")
    BY <1>3 DEF Outputs, If
  <2> QED
    BY <1>3, <2>3, <2>4 DEF CompileJar, Kinds
<1> QED
  BY <1>1, <1>2, <1>3

\* The targets a target is built with or loads.
LEMMA RuleTargets ==
  ASSUME TypeOK, NEW t \in Targets
  PROVE  /\ rules[t].associates \subseteq Targets /\ rules[t].plugins \subseteq Targets
         /\ rules[t].deps \subseteq Targets /\ DepsOf(t) \subseteq Targets
         /\ PluginTargets(t) \subseteq Targets
         /\ AtRuntime(rules[t].processors) \subseteq Targets
<1>1. \A d \in Targets : rules[d] \in Rule
  BY RulesType
<1>2. \A d \in Targets : /\ rules[d].deps \subseteq Targets /\ rules[d].associates \subseteq Targets
                         /\ rules[d].plugins \subseteq Targets /\ rules[d].processors \subseteq Targets
  BY <1>1 DEF Rule
<1>3. \A d \in Targets : DepsOf(d) \subseteq Targets
  <2> SUFFICES ASSUME NEW d \in Targets
               PROVE  DepsOf(d) \subseteq Targets
    OBVIOUS
  <2>1. rules[d].deps \in SUBSET DOMAIN [e \in Targets |-> rules[e].deps]
    BY <1>2
  <2> QED
    BY <2>1, ReachedFacts DEF DepsOf
<1>4. \A S : S \subseteq Targets => AtRuntime(S) \subseteq Targets
  BY <1>3 DEF AtRuntime
<1> QED
  BY <1>2, <1>3, <1>4 DEF PluginTargets

\* The jars an action loads are full jars.
LEMMA PluginNames ==
  ASSUME NEW t, NEW k, NEW j \in Plugins(t, k)
  PROVE  j = <<j[1], "jar">> /\ j[1] \in PluginTargets(t) \cup AtRuntime(rules[t].processors)
BY DEF Plugins, If

\* Every jar an action reads is the output of an action it follows.
LEMMA ReadIsMade ==
  ASSUME TypeOK, NEW a \in Actions, NEW j \in Jars(a[1], a[2]) \cup Plugins(a[1], a[2])
  PROVE  \E b \in Before(a) : j \in Outputs(b[1], b[2])
<1> DEFINE t == a[1]
<1>1. t \in Targets /\ a[2] \in KindsOf(t) /\ a[2] \in Kinds
  BY DEF Actions
<1>2. /\ rules[t].associates \subseteq Targets /\ DepsOf(t) \subseteq Targets
      /\ PluginTargets(t) \subseteq Targets /\ AtRuntime(rules[t].processors) \subseteq Targets
  BY <1>1, RuleTargets
<1>7. ASSUME NEW d \in Targets, j = CompileJar(d)
      PROVE  \E u \in Targets : \E k \in KindsOf(u) : k \in Kinds /\ j \in Outputs(u, k)
  BY <1>7, CompileJarIsMade
<1>8. ASSUME NEW d \in Targets, j = <<d, "jar">>
      PROVE  \E u \in Targets : \E k \in KindsOf(u) : k \in Kinds /\ j \in Outputs(u, k)
  BY <1>8, JarIsMade
<1>9. ASSUME j \in ClassJars(t) \/ (a[2] = "aux" /\ HasKt(t) /\ j = MainJar(t))
      PROVE  \E u \in Targets : \E k \in KindsOf(u) : k \in Kinds /\ j \in Outputs(u, k)
  <2>1. a[2] = "aux" /\ HasKt(t) => "compile" \in KindsOf(t)
    BY DEF KindsOf, If
  <2>2. \/ "compile" \in KindsOf(t) /\ j = MainJar(t)
        \/ "aux" \in KindsOf(t) /\ j = <<t, "java">>
    BY <1>9, <2>1 DEF ClassJars, If
  <2> QED
    BY <1>1, <2>2 DEF Outputs, Kinds
<1>10. \/ \E d \in DepsOf(t) \cup rules[t].associates \cup PluginTargets(t) : j = CompileJar(d)
       \/ \E d \in PluginTargets(t) \cup AtRuntime(rules[t].processors) : j = <<d, "jar">>
       \/ j \in ClassJars(t) \/ (a[2] = "aux" /\ HasKt(t) /\ j = MainJar(t))
       \/ j = <<t, "jar">>
  <2>1. j \in Plugins(t, a[2]) =>
          \E d \in PluginTargets(t) \cup AtRuntime(rules[t].processors) : j = <<d, "jar">>
    BY PluginNames
  <2>2. j \in Classpath(t) \cup FriendJars(t) => \E d \in DepsOf(t) \cup rules[t].associates : j = CompileJar(d)
    BY DEF Classpath, FriendJars
  <2>3. j \in Jars(t, a[2]) =>
          \/ j \in Classpath(t) \cup FriendJars(t)
          \/ j \in {CompileJar(p) : p \in PluginTargets(t)}
          \/ j \in ClassJars(t) \/ (a[2] = "aux" /\ HasKt(t) /\ j = MainJar(t))
          \/ j = <<t, "jar">>
    BY <1>1 DEF Jars, If, Kinds
  <2> QED
    BY <2>1, <2>2, <2>3
<1>11. \E u \in Targets : \E k \in KindsOf(u) : k \in Kinds /\ j \in Outputs(u, k)
  BY <1>1, <1>2, <1>7, <1>8, <1>9, <1>10
<1>12. PICK u \in Targets : \E k \in KindsOf(u) : k \in Kinds /\ j \in Outputs(u, k)
  BY <1>11
<1>13. PICK k \in KindsOf(u) : k \in Kinds /\ j \in Outputs(u, k)
  BY <1>12
<1>14. <<u, k>> \in Actions
  BY <1>13 DEF Actions
<1> QED
  BY <1>13, <1>14 DEF Before, Inputs

\* When an action is due, those that made what it reads have succeeded.
LEMMA ReadIsTyped ==
  ASSUME TypeOK, Planned, Remembered, NEW a \in Due,
         NEW j \in Jars(a[1], a[2]) \cup Plugins(a[1], a[2])
  PROVE  /\ Typed(file[j])
         /\ \E b \in Before(a) : /\ b \in DOMAIN cache /\ b \notin Stale /\ cache[b] # None
                                 /\ j \in Outputs(b[1], b[2])
<1>1. a \in DOMAIN cache /\ registered[a].follows \cap Stale = {}
  BY DEF Due, Stale
<1>2. a \in Actions /\ Actions = DOMAIN cache
  BY <1>1, ActionType DEF Planned, TypeOK
<1>3. PICK b \in Before(a) : j \in Outputs(b[1], b[2])
  BY <1>2, ReadIsMade
<1>4. b \in Actions /\ b \in registered[a].follows
  BY <1>2 DEF Before, Planned
<1>5. b \in DOMAIN cache /\ b \notin Stale
  BY <1>1, <1>2, <1>4
<1>6. cache[b] # None
  BY <1>5 DEF Stale
<1>7. j \in registered[b].outputs
  BY <1>3, <1>4 DEF Planned
<1>8. Typed(file[j])
  BY <1>5, <1>6, <1>7 DEF Remembered
<1> QED
  BY <1>3, <1>5, <1>6, <1>8

\* A record of these fields is a content.
LEMMA TypedFacts ==
  ASSUME NEW d, NEW c, NEW s
  PROVE  /\ IsContent([decl |-> d, code |-> c, classes |-> s])
         /\ s \subseteq ClassKinds => Typed([decl |-> d, code |-> c, classes |-> s])
BY DEF Typed, IsContent

\* What ijar keeps of a jar.
LEMMA StrippedFacts ==
  ASSUME NEW v, IsContent(v), NEW c
  PROVE  [v EXCEPT !.code = c] = [decl |-> v.decl, code |-> c, classes |-> v.classes]
<1>1. PICK d, k, s : v = [decl |-> d, code |-> k, classes |-> s]
  BY Zenon DEF IsContent
<1> QED
  BY <1>1

\* What an action makes has the classes of its sources or of its inputs.
LEMMA MadeIsTyped ==
  ASSUME TypeOK, Planned, Remembered, NEW a \in Due, NEW o \in Outputs(a[1], a[2])
  PROVE  Typed(Made(a[1], a[2], o))
<1> DEFINE t == a[1]
           k == a[2]
<1>1. a \in DOMAIN cache
  BY DEF Due, Stale
<1>2. t \in Targets /\ k \in Kinds
  BY <1>1, ActionType
<1>3. rules[t].srcs \subseteq {"kt", "java"}
  BY <1>2, RulesType DEF Rule
<1>4. Typed(Header(t, k))
  <2>1. rules[t].srcs \subseteq ClassKinds
    BY <1>3 DEF ClassKinds
  <2> QED
    BY <2>1, TypedFacts DEF Header
<1>5. Typed(Compiled(t, k))
  <2>1. Generated(t, k) \subseteq ClassKinds /\ {"java"} \subseteq ClassKinds /\ {"kt"} \subseteq ClassKinds
    BY DEF Generated, If, ClassKinds
  <2> QED
    BY <2>1, TypedFacts DEF Compiled
<1>6. CASE k = "merge"
  <2>1. \A j \in ClassJars(t) : file[j].classes \subseteq ClassKinds
    BY <1>6, ReadIsTyped DEF Jars, Typed
  <2>2. Typed(Merged(t))
    <3> DEFINE classes == (UNION {file[j].classes : j \in ClassJars(t)})
                            \cup If(rules[t].resourceJars, {"supplied"})
    <3>1. classes \subseteq ClassKinds
      <4>1. If(rules[t].resourceJars, {"supplied"}) \subseteq ClassKinds
        BY DEF If, ClassKinds
      <4>2. UNION {file[j].classes : j \in ClassJars(t)} \subseteq ClassKinds
        BY <2>1
      <4> QED
        BY <4>1, <4>2
    <3> DEFINE decl == Tree(IF rules[t].resourceJars THEN src[t].resource ELSE 0,
                            ClassJars(t) \X {"decl"})
               code == Tree(src[t].resource, ClassJars(t) \X {"code"})
    <3>2. Merged(t) = [decl |-> decl, code |-> code, classes |-> classes]
      BY DEF Merged
    <3> HIDE DEF classes, decl, code
    <3> QED
      BY <3>1, <3>2, TypedFacts
  <2> QED
    BY <1>4, <1>6, <2>2 DEF Made
<1>7. CASE k = "ijar"
  <2>1. Typed(file[<<t, "jar">>])
    BY <1>7, ReadIsTyped DEF Jars
  <2>2. Typed([file[<<t, "jar">>] EXCEPT !.code = Nothing])
    <3>1. IsContent(file[<<t, "jar">>]) /\ file[<<t, "jar">>].classes \subseteq ClassKinds
      BY <2>1 DEF Typed
    <3>2. [file[<<t, "jar">>] EXCEPT !.code = Nothing]
            = [decl |-> file[<<t, "jar">>].decl, code |-> Nothing, classes |-> file[<<t, "jar">>].classes]
      BY <3>1, StrippedFacts
    <3> QED
      BY <3>1, <3>2, TypedFacts
  <2> QED
    BY <1>4, <1>7, <2>1, <2>2 DEF Made
<1>8. CASE k \notin {"merge", "ijar"}
  BY <1>4, <1>5, <1>8 DEF Made
<1> QED
  BY <1>6, <1>7, <1>8

(* An action that runs remembers all it looked into, and makes its outputs *)
(* of that.                                                                *)
LEMMA RunFacts ==
  ASSUME TypeOK, Planned, Remembered, NEW a \in Due, Run(a)
  PROVE  \E m : /\ cache' = [cache EXCEPT ![a] = m]
                /\ DOMAIN m \subseteq registered[a].inputs
                /\ registered[a].inputs \ DOMAIN m \subseteq Jars(a[1], a[2])
                /\ Needed(m, a[1], a[2]) \subseteq DOMAIN m
                /\ \A o \in registered[a].outputs :
                     /\ o \in DOMAIN file /\ file'[o] = MadeOf(m, a[1], a[2], o)
                     /\ Typed(file'[o])
                /\ DOMAIN file' = DOMAIN file
                /\ \A o \in DOMAIN file \ registered[a].outputs : file'[o] = file[o]
<1>1. a \in DOMAIN cache
  BY DEF Due, Stale
<1>2. /\ a[2] \in Kinds /\ registered[a].inputs = Inputs(a[1], a[2])
      /\ registered[a].outputs = Outputs(a[1], a[2]) /\ Outputs(a[1], a[2]) \subseteq DOMAIN file
  BY <1>1, ActionType
<1>3. PICK unused \in Reported(a[1], a[2]) :
        cache' = [cache EXCEPT ![a] = [i \in registered[a].inputs \ unused |-> Digest(i)]]
  BY DEF Run
<1> DEFINE m == [i \in Inputs(a[1], a[2]) \ unused |-> Digest(i)]
<1>4. /\ unused \subseteq Jars(a[1], a[2]) /\ Needed(m, a[1], a[2]) \subseteq DOMAIN m
  BY <1>2, KeepsNeeded
<1>5. \A o \in Outputs(a[1], a[2]) : MadeOf(m, a[1], a[2], o) = Made(a[1], a[2], o)
  BY <1>2, <1>4, UpToDate
<1>6. \A o \in Outputs(a[1], a[2]) : Typed(Made(a[1], a[2], o))
  BY MadeIsTyped
<1>7. /\ DOMAIN file' = DOMAIN file
      /\ \A o \in DOMAIN file : o \in Outputs(a[1], a[2]) => file'[o] = Made(a[1], a[2], o)
      /\ \A o \in DOMAIN file : o \notin Outputs(a[1], a[2]) => file'[o] = file[o]
  BY <1>2 DEF Run
<1>8. \A o \in Outputs(a[1], a[2]) :
        o \in DOMAIN file /\ file'[o] = MadeOf(m, a[1], a[2], o) /\ Typed(file'[o])
  BY <1>2, <1>5, <1>6, <1>7, Zenon
<1>9. /\ cache' = [cache EXCEPT ![a] = m] /\ DOMAIN m = Inputs(a[1], a[2]) \ unused
  BY <1>2, <1>3
<1> HIDE DEF m
<1>10. WITNESS m
<1> QED
  BY <1>2, <1>4, <1>7, <1>8, <1>9

\* Only an action that runs makes or remembers anything, and only its own outputs.
LEMMA StepRemembers ==
  ASSUME TypeOK, Planned, Remembered, [Next]_vars
  PROVE  Remembered'
<1>1. UNCHANGED <<rules, settings, registered>>
  BY StepPlans
<1>2. \A m, t, k, o : MadeOf(m, t, k, o)' = MadeOf(m, t, k, o) /\ Needed(m, t, k)' = Needed(m, t, k)
  BY <1>1, SameMade
<1>3. ASSUME UNCHANGED <<file, cache>>
      PROVE  Remembered'
  BY <1>1, <1>2, <1>3 DEF Remembered, Typed
<1>4. \A a, b \in DOMAIN cache : a # b => registered[a].outputs \cap registered[b].outputs = {}
  BY ActionType, OutputsDiffer
<1>5. ASSUME NEW a \in Due, Run(a)
      PROVE  Remembered'
  <2>1. PICK m : /\ cache' = [cache EXCEPT ![a] = m]
                 /\ Needed(m, a[1], a[2]) \subseteq DOMAIN m
                 /\ \A o \in registered[a].outputs :
                      /\ o \in DOMAIN file /\ file'[o] = MadeOf(m, a[1], a[2], o)
                      /\ Typed(file'[o])
                 /\ \A o \in DOMAIN file \ registered[a].outputs : file'[o] = file[o]
    BY <1>5, RunFacts
  <2>2. a \in DOMAIN cache /\ DOMAIN cache' = DOMAIN cache
    BY <2>1 DEF Due, Stale
  <2>3. SUFFICES ASSUME NEW b \in DOMAIN cache, cache'[b] # None
                 PROVE  /\ Needed(cache'[b], b[1], b[2]) \subseteq DOMAIN cache'[b]
                        /\ \A o \in registered[b].outputs :
                             /\ file'[o] = MadeOf(cache'[b], b[1], b[2], o)
                             /\ Typed(file'[o])
    BY <1>1, <1>2, <2>2 DEF Remembered, Typed
  <2>4. CASE b = a
    BY <2>1, <2>2, <2>4
  <2>5. CASE b # a
    <3>1. cache'[b] = cache[b]
      BY <2>1, <2>5
    <3>2. \A o \in registered[b].outputs : o \in DOMAIN file /\ o \notin registered[a].outputs
      BY <1>4, <2>2, <2>5, ActionType
    <3>3. \A o \in registered[b].outputs : file'[o] = file[o]
      BY <2>1, <3>2
    <3> QED
      BY <2>3, <3>1, <3>3 DEF Remembered
  <2> QED
    BY <2>4, <2>5
<1>6. ASSUME NEW a \in Due, Fail(a)
      PROVE  Remembered'
  <2>1. /\ cache' = [cache EXCEPT ![a] = None]
        /\ \A o \in DOMAIN file \ registered[a].outputs : file'[o] = file[o]
    BY <1>6 DEF Fail
  <2>2. a \in DOMAIN cache /\ DOMAIN cache' = DOMAIN cache
    BY <2>1 DEF Due, Stale
  <2>3. SUFFICES ASSUME NEW b \in DOMAIN cache, cache'[b] # None
                 PROVE  /\ Needed(cache'[b], b[1], b[2]) \subseteq DOMAIN cache'[b]
                        /\ \A o \in registered[b].outputs :
                             /\ file'[o] = MadeOf(cache'[b], b[1], b[2], o)
                             /\ Typed(file'[o])
    BY <1>1, <1>2, <2>2 DEF Remembered, Typed
  <2>4. b # a /\ cache'[b] = cache[b]
    BY <2>1, <2>2, <2>3
  <2>5. \A o \in registered[b].outputs : o \in DOMAIN file /\ o \notin registered[a].outputs
    BY <1>4, <2>2, <2>4, ActionType
  <2>6. \A o \in registered[b].outputs : file'[o] = file[o]
    BY <2>1, <2>5
  <2> QED
    BY <2>3, <2>4, <2>6 DEF Remembered
<1>7. CASE UNCHANGED <<file, cache>>
  BY <1>3, <1>7
<1> QED
  BY <1>5, <1>6, <1>7 DEF Next, Build, Built, Edit, vars

(* While a build is complete, nothing it depends on changes.               *)
LEMMA StepSettles ==
  ASSUME Settled, [Next]_vars
  PROVE  Settled'
<1>1. CASE Built
  <2>1. UNCHANGED <<src, file, cache>> /\ Stale = {}
    BY <1>1 DEF Built
  <2>2. Stale' = Stale
    BY <2>1 DEF Stale, Digest
  <2> QED
    BY <2>1, <2>2 DEF Settled
<1>2. CASE UNCHANGED vars
  <2>1. UNCHANGED <<src, file, cache, phase>>
    BY <1>2 DEF vars
  <2>2. Stale' = Stale
    BY <2>1 DEF Stale, Digest
  <2> QED
    BY <2>1, <2>2 DEF Settled
<1>3. ASSUME NEW t, NEW what, Edit(t, what)
      PROVE  Settled'
  BY <1>3 DEF Edit, Settled
<1>4. ASSUME NEW a \in Due, Run(a) \/ Fail(a)
      PROVE  Settled'
  BY <1>4 DEF Due, Run, Fail, Settled
<1>5. CASE Build
  BY <1>5 DEF Build, Settled
<1> QED
  BY <1>1, <1>2, <1>3, <1>4, <1>5 DEF Next

\* Every step keeps the types.
LEMMA StepTypes ==
  ASSUME TypeOK, Planned, Remembered, [Next]_vars
  PROVE  TypeOK'
<1>1. UNCHANGED <<rules, settings, registered>>
  BY StepPlans
<1>2. \A t, k : Jars(t, k)' = Jars(t, k)
  BY <1>1, SameJars
<1>3. ASSUME UNCHANGED <<file, cache>>, phase' \in {"edit", "build", "built"},
             src' \in [Targets -> [abi : Nat, body : Nat, resource : Nat,
                                   uses : SUBSET ({"kt", "java"} \X Targets)]],
             edited' \subseteq Targets \X {"abi", "body", "resource", "uses"},
             edits' \in 0..MaxEdits
      PROVE  TypeOK'
  BY <1>1, <1>2, <1>3 DEF TypeOK
<1>4. CASE Build \/ Built
  BY <1>3, <1>4 DEF Build, Built, TypeOK
<1>5. ASSUME NEW t \in Targets, NEW what \in {"abi", "body", "resource", "uses"}, Edit(t, what)
      PROVE  TypeOK'
  <2> DEFINE Source == [abi : Nat, body : Nat, resource : Nat,
                        uses : SUBSET ({"kt", "java"} \X Targets)]
  <2>1. /\ UNCHANGED <<file, cache>> /\ phase' = "edit" /\ edits < MaxEdits /\ edits' = edits + 1
        /\ edited' = edited \cup {<<t, what>>}
    BY <1>5 DEF Edit
  <2>2. src[t] \in Source /\ src \in [Targets -> Source]
    BY DEF TypeOK
  <2>3. \E s \in Source : src' = [src EXCEPT ![t] = s]
    <3>1. CASE what = "uses"
      <4>1. PICK lang \in rules[t].srcs, d \in DepsOf(t) :
              src' = [src EXCEPT ![t].uses = SymDiff(@, {<<lang, d>>})]
        BY <1>5, <3>1 DEF Edit
      <4>2. lang \in {"kt", "java"}
        BY <4>1, RulesType DEF Rule
      <4>3. d \in Targets
        BY <4>1 DEF DepsOf, Reached
      <4>4. SymDiff(src[t].uses, {<<lang, d>>}) \in SUBSET ({"kt", "java"} \X Targets)
        BY <2>2, <4>2, <4>3 DEF SymDiff
      <4>5. [src[t] EXCEPT !.uses = SymDiff(@, {<<lang, d>>})] \in Source
        BY <2>2, <4>4
      <4> QED
        BY <4>1, <4>5
    <3>2. ASSUME NEW n \in {"abi", "body", "resource"}, what = n
          PROVE  \E s \in Source : src' = [src EXCEPT ![t] = s]
      <4>1. src' = [src EXCEPT ![t] = [src[t] EXCEPT ![n] = src[t][n] + 1]]
        BY <1>5, <3>2 DEF Edit
      <4>2. [src[t] EXCEPT ![n] = src[t][n] + 1] \in Source
        BY <2>2
      <4> QED
        BY <4>1, <4>2
    <3> QED
      BY <3>1, <3>2
  <2>4. src' \in [Targets -> Source]
    BY <2>2, <2>3
  <2>5. edits' \in 0..MaxEdits
    BY <2>1, EditsAssumption DEF TypeOK
  <2>6. edited' \subseteq Targets \X {"abi", "body", "resource", "uses"}
    BY <2>1 DEF TypeOK
  <2> QED
    BY <1>3, <2>1, <2>4, <2>5, <2>6
<1>6. ASSUME UNCHANGED <<src, edited, edits>>, phase' \in {"edit", "build", "built"},
             DOMAIN file' = DOMAIN file, DOMAIN cache' = DOMAIN cache,
             \A i \in DOMAIN file : file'[i] # None => file'[i].classes \subseteq ClassKinds,
             \A a \in DOMAIN cache : cache'[a] # None =>
               /\ DOMAIN cache'[a] \subseteq registered[a].inputs
               /\ registered[a].inputs \ DOMAIN cache'[a] \subseteq Jars(a[1], a[2])
      PROVE  TypeOK'
  BY <1>1, <1>2, <1>6 DEF TypeOK
<1>7. ASSUME NEW a \in Due, Run(a)
      PROVE  TypeOK'
  <2>1. PICK m : /\ cache' = [cache EXCEPT ![a] = m]
                 /\ DOMAIN m \subseteq registered[a].inputs
                 /\ registered[a].inputs \ DOMAIN m \subseteq Jars(a[1], a[2])
                 /\ \A o \in registered[a].outputs : Typed(file'[o])
                 /\ DOMAIN file' = DOMAIN file
                 /\ \A o \in DOMAIN file \ registered[a].outputs : file'[o] = file[o]
    BY <1>7, RunFacts
  <2>2. \A i \in DOMAIN file : file'[i] # None => file'[i].classes \subseteq ClassKinds
    BY <2>1 DEF TypeOK, Typed
  <2>3. \A b \in DOMAIN cache : cache'[b] # None =>
          /\ DOMAIN cache'[b] \subseteq registered[b].inputs
          /\ registered[b].inputs \ DOMAIN cache'[b] \subseteq Jars(b[1], b[2])
    BY <2>1 DEF TypeOK
  <2>4. UNCHANGED <<src, edited, edits, phase>>
    BY <1>7 DEF Run
  <2>5. phase' \in {"edit", "build", "built"} /\ DOMAIN cache' = DOMAIN cache
    BY <2>1, <2>4 DEF TypeOK
  <2> QED
    BY <1>6, <2>1, <2>2, <2>3, <2>4, <2>5
<1>8. ASSUME NEW a \in Due, Fail(a)
      PROVE  TypeOK'
  <2>1. /\ UNCHANGED <<src, edited, edits>> /\ phase' = "edit" /\ cache' = [cache EXCEPT ![a] = None]
        /\ file' = [i \in DOMAIN file |-> IF i \in registered[a].outputs THEN None ELSE file[i]]
    BY <1>8 DEF Fail
  <2>2. DOMAIN file' = DOMAIN file /\ DOMAIN cache' = DOMAIN cache
    BY <2>1
  <2>3. \A i \in DOMAIN file : file'[i] # None => file'[i].classes \subseteq ClassKinds
    BY <2>1 DEF TypeOK
  <2>4. \A b \in DOMAIN cache : cache'[b] # None =>
          /\ DOMAIN cache'[b] \subseteq registered[b].inputs
          /\ registered[b].inputs \ DOMAIN cache'[b] \subseteq Jars(b[1], b[2])
    BY <2>1 DEF TypeOK
  <2> QED
    BY <1>6, <2>1, <2>2, <2>3, <2>4
<1>9. CASE UNCHANGED vars
  BY <1>3, <1>9 DEF vars, TypeOK
<1> QED
  BY <1>4, <1>5, <1>7, <1>8, <1>9 DEF Next

---------------------------------------------------------------------------
(* The properties.                                                         *)

InductiveInvariant == TypeOK /\ Planned /\ Remembered /\ Settled

\* Nothing is built at first: every action is yet to run.
LEMMA InitHolds ==
  ASSUME Init
  PROVE  InductiveInvariant
<1>1. PICK g \in Graphs : rules = g.rules /\ settings = g.settings
  BY DEF Init
<1>2. \A t \in Targets : rules[t].deps \subseteq Targets /\ rules[t].srcs \subseteq {"kt", "java"}
  BY <1>1, GraphsAssumption DEF Rule
<1>3. DOMAIN registered = Actions
  BY DEF Init, Registered
<1>4. \A a \in Actions :
        /\ registered[a].inputs = Inputs(a[1], a[2])
        /\ registered[a].outputs = Outputs(a[1], a[2])
        /\ registered[a].follows = Following(a)
  BY DEF Init, Registered
<1>5. \A a \in Actions : Before(a) \subseteq Following(a)
  <2> SUFFICES ASSUME NEW a \in Actions
               PROVE  Before(a) \subseteq Following(a)
    OBVIOUS
  <2>1. Before(a) \in SUBSET DOMAIN [b \in Actions |-> Before(b)]
    BY DEF Before
  <2> QED
    BY <2>1, ReachedFacts DEF Following
<1>6. Planned
  BY <1>3, <1>4, <1>5 DEF Planned
<1>7. DOMAIN cache = DOMAIN registered /\ \A a \in DOMAIN cache : cache[a] = None
  BY DEF Init
<1>8. Remembered /\ Settled
  BY <1>7 DEF Remembered, Settled, Init
<1>9. src \in [Targets -> [abi : Nat, body : Nat, resource : Nat,
                           uses : SUBSET ({"kt", "java"} \X Targets)]]
  <2>1. PICK idle \in Targets :
          src = [t \in Targets |->
                   [abi |-> 0, body |-> 0, resource |-> 0,
                    uses |-> If(t # idle, rules[t].srcs \X rules[t].deps)]]
    BY DEF Init
  <2>2. \A t \in Targets :
          If(t # idle, rules[t].srcs \X rules[t].deps) \subseteq {"kt", "java"} \X Targets
    BY <1>2 DEF If
  <2> QED
    BY <2>1, <2>2
<1>10. DOMAIN registered \subseteq Targets \X Kinds
  BY <1>3 DEF Actions
<1>11. DOMAIN file = Targets \X Names /\ \A i \in DOMAIN file : file[i] = None
  BY DEF Init
<1>12. phase = "edit" /\ edited = {} /\ edits \in 0..MaxEdits
  BY EditsAssumption DEF Init
<1>13. TypeOK
  <2>1. \E h \in Graphs : rules = h.rules /\ settings = h.settings
    BY <1>1
  <2> QED
    BY <1>7, <1>9, <1>10, <1>11, <1>12, <2>1 DEF TypeOK
<1> QED
  BY <1>6, <1>8, <1>13 DEF InductiveInvariant

(* Every action remembers what it looked into, and its outputs are made of *)
(* that.                                                                   *)
THEOREM RemembersWhatItRead == Spec => []InductiveInvariant
<1>1. InductiveInvariant /\ [Next]_vars => InductiveInvariant'
  BY StepTypes, StepPlans, StepRemembers, StepSettles DEF InductiveInvariant
<1> QED
  BY <1>1, InitHolds, PTL DEF Spec

(* Every variable keeps its type, the actions' memories among them: an     *)
(* action forgets jars only.                                               *)
THEOREM TypeCorrect == Spec => []TypeOK
<1> QED
  BY RemembersWhatItRead, PTL DEF InductiveInvariant

\* A complete build leaves nothing stale, so nothing an action remembers changed.
LEMMA BuiltIsCurrent ==
  ASSUME InductiveInvariant
  PROVE  Current
<1> SUFFICES ASSUME phase = "built", NEW a \in DOMAIN registered, NEW i \in registered[a].outputs
             PROVE  file[i] = Made(a[1], a[2], i)
  BY DEF Current
<1>1. TypeOK /\ Planned /\ Remembered /\ Stale = {} /\ a \in DOMAIN cache
  BY DEF InductiveInvariant, Settled, TypeOK
<1>2. cache[a] # None /\ \A j \in DOMAIN cache[a] : cache[a][j] = Digest(j)
  BY <1>1 DEF Stale
<1>3. Needed(cache[a], a[1], a[2]) \subseteq DOMAIN cache[a] /\ file[i] = MadeOf(cache[a], a[1], a[2], i)
  BY <1>1, <1>2 DEF Remembered
<1>4. a[2] \in Kinds /\ i \in Outputs(a[1], a[2])
  BY <1>1, ActionType
<1> QED
  BY <1>2, <1>3, <1>4, UpToDate

(* After every build, of any graph and after any edits, reuse, forgotten   *)
(* inputs and failures, each output is what its action would make of the   *)
(* present sources and jars (compile_common.bzl 133-142, 222).             *)
THEOREM BuildsAreCurrent == Spec => []Current
<1> QED
  BY BuiltIsCurrent, RemembersWhatItRead, PTL

\* After a build, each output is what its action makes, and declares classes.
LEMMA BuiltOutput ==
  ASSUME InductiveInvariant, phase = "built", NEW t \in Targets, NEW k \in KindsOf(t),
         NEW i \in Outputs(t, k)
  PROVE  file[i] = Made(t, k, i) /\ Typed(file[i])
<1> DEFINE a == <<t, k>>
<1>1. k \in Kinds
  BY DEF KindsOf, If, Kinds
<1>2. a \in Actions
  BY <1>1 DEF Actions
<1>3. a \in DOMAIN cache /\ a \in DOMAIN registered /\ i \in registered[a].outputs
  BY <1>2 DEF InductiveInvariant, Planned, TypeOK
<1>4. file[i] = Made(t, k, i)
  BY <1>3, BuiltIsCurrent DEF Current
<1>5. cache[a] # None
  BY <1>3 DEF InductiveInvariant, Settled, Stale
<1> QED
  BY <1>3, <1>4, <1>5 DEF InductiveInvariant, Remembered

\* So a header has the classes of the full jar, whichever action makes them.
LEMMA BuiltHeaders ==
  ASSUME InductiveInvariant
  PROVE  JavaHeadersComplete
<1> SUFFICES ASSUME phase = "built", NEW t \in Targets, rules[t].kind = "java"
             PROVE  file[CompileJar(t)].classes = file[<<t, "jar">>].classes
  BY DEF JavaHeadersComplete
<1>1. /\ rules[t] \in Rule /\ rules[t].srcs = {"java"} /\ ~rules[t].builtin
      /\ rules[t].kotlinc_opts = "plain"
  BY RulesType DEF InductiveInvariant
<1>2. /\ "compile" \in KindsOf(t) /\ "aux" \notin KindsOf(t)
      /\ "merge" \in KindsOf(t) <=> HasRes(t)
      /\ "abi" \in KindsOf(t) <=> HasAbi(t) /\ ~Fused(t)
      /\ "ijar" \in KindsOf(t) <=> ~HasAbi(t)
  BY DEF KindsOf, If
<1> DEFINE full == <<t, "jar">>
           maker == IF HasRes(t) THEN "merge" ELSE "compile"
<1>3. maker \in KindsOf(t) /\ full \in Outputs(t, maker)
  BY <1>2 DEF Outputs, MainJar
<1>4. file[full] = Made(t, maker, full) /\ Typed(file[full])
  BY <1>3, BuiltOutput
<1>5. CASE ~HasAbi(t)
  <2>1. CompileJar(t) = <<t, "ijar">> /\ <<t, "ijar">> \in Outputs(t, "ijar")
    BY <1>5 DEF CompileJar, Outputs
  <2>2. file[<<t, "ijar">>] = Made(t, "ijar", <<t, "ijar">>)
    BY <1>2, <1>5, <2>1, BuiltOutput
  <2>3. file[<<t, "ijar">>] = [file[full] EXCEPT !.code = Nothing]
    BY <2>2 DEF Made
  <2> QED
    BY <1>4, <2>1, <2>3 DEF Typed
<1>6. CASE HasAbi(t)
  <2>1. CompileJar(t) = <<t, "abi">>
    BY <1>6 DEF CompileJar
  <2>2. \E k \in KindsOf(t) : <<t, "abi">> \in Outputs(t, k)
    BY <1>2, <1>6 DEF Outputs, If
  <2>3. file[<<t, "abi">>].classes = {"java"}
    <3>1. PICK k \in KindsOf(t) : <<t, "abi">> \in Outputs(t, k)
      BY <2>2
    <3>2. file[<<t, "abi">>] = Made(t, k, <<t, "abi">>)
      BY <3>1, BuiltOutput
    <3>3. file[<<t, "abi">>] = Header(t, k)
      BY <3>2 DEF Made
    <3> QED
      BY <1>1, <3>3 DEF Header
  <2>4. ~rules[t].resourceJars /\ Generated(t, "compile") = {}
    <3>1. ~rules[t].resourceJars /\ ~ReadsAll(t)
      BY <1>1, <1>6 DEF HasAbi, ReadsAll, Processed
    <3> QED
      BY <3>1 DEF Generated, If
  <2>5. Compiled(t, "compile").classes = {"java"}
    BY <2>4 DEF Compiled
  <2>6. file[full].classes = {"java"}
    <3>1. CASE ~HasRes(t)
      BY <1>4, <2>5, <3>1 DEF Made
    <3>2. CASE HasRes(t)
      <4>1. <<t, "classes">> \in Outputs(t, "compile") /\ ClassJars(t) = {<<t, "classes">>}
        BY <1>2, <3>2 DEF Outputs, MainJar, ClassJars, If
      <4>2. file[<<t, "classes">>].classes = {"java"}
        <5>1. file[<<t, "classes">>] = Made(t, "compile", <<t, "classes">>)
          BY <1>2, <4>1, BuiltOutput
        <5>2. file[<<t, "classes">>] = Compiled(t, "compile")
          BY <5>1 DEF Made
        <5> QED
          BY <2>5, <5>2
      <4>3. UNION {file[j].classes : j \in ClassJars(t)} = {"java"}
        BY <4>1, <4>2
      <4>4. If(rules[t].resourceJars, {"supplied"}) = {}
        BY <2>4 DEF If
      <4>5. Merged(t).classes = {"java"}
        BY <4>3, <4>4 DEF Merged
      <4> QED
        BY <1>4, <3>2, <4>5 DEF Made
    <3> QED
      BY <3>1, <3>2
  <2> QED
    BY <2>1, <2>3, <2>6
<1> QED
  BY <1>5, <1>6

(* What a dependent of a Java target may compile against declares every    *)
(* class of the full jar, generated and supplied ones too, whether it is a *)
(* header of an action of its own, of the compile, or an ijar.             *)
THEOREM HeadersDeclareAll == Spec => []JavaHeadersComplete
<1> QED
  BY BuiltHeaders, RemembersWhatItRead, PTL

---------------------------------------------------------------------------
(* Edits of bodies.                                                        *)

\* What is reached leads to nothing else, once it is complete.
LEMMA ReachedClosed ==
  ASSUME NEW next, NEW from \in SUBSET DOMAIN next,
         \A y \in DOMAIN next : next[y] \subseteq DOMAIN next
  PROVE  /\ from \subseteq Reached(from, next)
         /\ \A y \in Reached(from, next) : next[y] \subseteq Reached(from, next)
BY DEF Reached

\* What a target is built with, and what is loaded into that.
LEMMA UpstreamFacts ==
  ASSUME TypeOK, NEW t \in Targets
  PROVE  /\ t \in Upstream(t) /\ Upstream(t) \subseteq Targets
         /\ \A u \in Upstream(t) :
              /\ rules[u].associates \subseteq Upstream(t) /\ DepsOf(u) \subseteq Upstream(t)
              /\ PluginTargets(u) \subseteq Upstream(t) /\ Loads(u) \subseteq Upstream(t)
              /\ Upstream(u) \subseteq Upstream(t) /\ Loaded(u) \subseteq Loaded(t)
<1> DEFINE next == [d \in Targets |-> rules[d].deps \cup rules[d].associates
                                         \cup rules[d].plugins \cup Loads(d)]
           deps == [d \in Targets |-> rules[d].deps]
           U == Upstream(t)
<1>1. \A d \in Targets : /\ rules[d].deps \subseteq Targets /\ rules[d].associates \subseteq Targets
                         /\ rules[d].plugins \subseteq Targets /\ Loads(d) \subseteq Targets
  <2> SUFFICES ASSUME NEW d \in Targets
               PROVE  /\ rules[d].deps \subseteq Targets /\ rules[d].associates \subseteq Targets
                      /\ rules[d].plugins \subseteq Targets /\ Loads(d) \subseteq Targets
    OBVIOUS
  <2>1. \A k : \A j \in Plugins(d, k) : j[1] \in Targets
    BY RuleTargets, PluginNames
  <2> QED
    BY <2>1, RuleTargets DEF Loads
<1>2. /\ DOMAIN next = Targets /\ DOMAIN deps = Targets
      /\ \A d \in Targets : next[d] \subseteq Targets /\ deps[d] \subseteq next[d]
                            /\ rules[d].associates \subseteq next[d] /\ rules[d].plugins \subseteq next[d]
                            /\ Loads(d) \subseteq next[d]
      /\ \A d \in Targets : deps[d] = rules[d].deps
  BY <1>1
<1>3. \A u : Upstream(u) = Reached({u}, next) /\ DepsOf(u) = Reached(rules[u].deps, deps)
  BY DEF Upstream, DepsOf
<1> HIDE DEF next, deps
<1>4. \A u \in Targets :
        /\ u \in Upstream(u) /\ Upstream(u) \subseteq Targets
        /\ \A y \in Upstream(u) : next[y] \subseteq Upstream(u)
  <2> SUFFICES ASSUME NEW u \in Targets
               PROVE  /\ u \in Upstream(u) /\ Upstream(u) \subseteq Targets
                      /\ \A y \in Upstream(u) : next[y] \subseteq Upstream(u)
    OBVIOUS
  <2>1. {u} \in SUBSET DOMAIN next
    BY <1>2
  <2>2. {u} \subseteq Reached({u}, next) /\ Reached({u}, next) \subseteq DOMAIN next
    BY <2>1, ReachedFacts
  <2>3. \A y \in Reached({u}, next) : next[y] \subseteq Reached({u}, next)
    BY <1>2, <2>1, ReachedClosed
  <2> QED
    BY <1>2, <1>3, <2>2, <2>3
<1>5. \A u \in U : /\ rules[u].deps \subseteq U /\ rules[u].associates \subseteq U
                   /\ rules[u].plugins \subseteq U /\ Loads(u) \subseteq U
  BY <1>2, <1>4
<1>6. \A u \in U : DepsOf(u) \subseteq U
  <2> SUFFICES ASSUME NEW u \in U
               PROVE  Reached(rules[u].deps, deps) \subseteq U
    BY <1>3
  <2>1. U \in SUBSET DOMAIN deps /\ rules[u].deps \in SUBSET DOMAIN deps
    BY <1>2, <1>4, <1>5
  <2>2. rules[u].deps \subseteq U /\ \A y \in U : deps[y] \subseteq U
    BY <1>2, <1>4, <1>5
  <2> QED
    BY <2>1, <2>2 DEF Reached
<1>7. \A u \in U : PluginTargets(u) \subseteq U
  BY <1>5, <1>6 DEF PluginTargets, AtRuntime
<1>8. \A u \in U : Upstream(u) \subseteq U
  <2> SUFFICES ASSUME NEW u \in U
               PROVE  Reached({u}, next) \subseteq U
    BY <1>3
  <2>1. U \in SUBSET DOMAIN next /\ {u} \subseteq U /\ \A y \in U : next[y] \subseteq U
    BY <1>2, <1>4
  <2> QED
    BY <2>1 DEF Reached
<1>9. \A u \in U : Loaded(u) \subseteq Loaded(t)
  BY <1>8 DEF Loaded
<1> QED
  BY <1>4, <1>5, <1>6, <1>7, <1>8, <1>9

---------------------------------------------------------------------------
(* Contents that no edit of a body in the targets T tells apart: headers    *)
(* are the same, and so are the jars of other targets.                     *)
Alike(i, v, w, T) ==
  /\ IsContent(v) /\ IsContent(w)
  /\ v.decl = w.decl /\ v.classes = w.classes
  /\ i[2] \in {"abi", "ijar"} \/ i[1] \notin T => v.code = w.code

\* The sources of t, as action k reads them, in two memories.
AlikeSources(m, n, t, k, T) ==
  IF k = "merge"
  THEN rules[t].resourceJars \/ t \notin T => m[<<t, "resources">>] = n[<<t, "resources">>]
  ELSE k # "ijar" =>
         /\ m[<<t, "srcs">>][1] = n[<<t, "srcs">>][1] /\ m[<<t, "srcs">>][3] = n[<<t, "srcs">>][3]
         /\ t \notin T => m[<<t, "srcs">>][2] = n[<<t, "srcs">>][2]

(* Of inputs that are alike an action makes outputs that are, if no plugin *)
(* it loads was edited.                                                    *)
LEMMA MadeAlike ==
  ASSUME NEW t, NEW k \in Kinds, k \in KindsOf(t), NEW T, Loads(t) \cap T = {}, NEW m, NEW n,
         AlikeSources(m, n, t, k, T),
         \A j \in Jars(t, k) \cup Plugins(t, k) : Alike(j, m[j], n[j], T),
         NEW o \in Outputs(t, k)
  PROVE  Alike(o, MadeOf(m, t, k, o), MadeOf(n, t, k, o), T)
<1>1. \A j \in Jars(t, k) \cup Plugins(t, k) : m[j].decl = n[j].decl /\ m[j].classes = n[j].classes
  BY DEF Alike
<1>2. \A j \in Plugins(t, k) : m[j].code = n[j].code
  <2>1. \A j \in Plugins(t, k) : j[1] \in Loads(t)
    BY DEF Loads
  <2> QED
    BY <2>1 DEF Alike
<1>3. o[1] = t
  BY JarNames
<1>4. \A own : TreeOf(m, own, {}) = TreeOf(n, own, {})
  BY DEF TreeOf
<1>5. CASE k \notin {"merge", "ijar"}
  <2> DEFINE parts == ReadPartsOf(m, t, k)
  <2>1. m[<<t, "srcs">>][1] = n[<<t, "srcs">>][1] /\ m[<<t, "srcs">>][3] = n[<<t, "srcs">>][3]
        /\ (t \notin T => m[<<t, "srcs">>][2] = n[<<t, "srcs">>][2])
    BY <1>5 DEF AlikeSources
  <2>2. UsedJarsOf(m, t, k) = UsedJarsOf(n, t, k)
    BY <2>1 DEF UsedJarsOf, UsesOf
  <2>3. ReadPartsOf(n, t, k) = parts
    BY <2>2 DEF ReadPartsOf
  <2>4. \A p \in parts :
          \/ p[1] \in Jars(t, k) /\ p[2] = "decl"
          \/ p[1] \in Plugins(t, k) /\ p[2] \in {"decl", "code"}
    BY DEF ReadPartsOf, UsedJarsOf
  <2>5. \A p \in parts : m[p[1]][p[2]] = n[p[1]][p[2]]
    <3> SUFFICES ASSUME NEW p \in parts
                 PROVE  m[p[1]][p[2]] = n[p[1]][p[2]]
      OBVIOUS
    <3>1. CASE p[2] = "decl"
      BY <1>1, <2>4, <3>1
    <3>2. CASE p[2] = "code" /\ p[1] \in Plugins(t, k)
      BY <1>2, <3>2
    <3> QED
      BY <2>4, <3>1, <3>2
  <2> HIDE DEF parts
  <2>6. \A own : TreeOf(m, own, parts) = TreeOf(n, own, parts)
    BY <2>5 DEF TreeOf
  <2>7. HeaderOf(m, t, k) = HeaderOf(n, t, k) /\ IsContent(HeaderOf(m, t, k))
    BY <1>4, <2>1, <2>3, <2>6, TypedFacts DEF HeaderOf, parts
  <2>8. /\ CompiledOf(m, t, k).decl = CompiledOf(n, t, k).decl
        /\ CompiledOf(m, t, k).classes = CompiledOf(n, t, k).classes
        /\ t \notin T => CompiledOf(m, t, k).code = CompiledOf(n, t, k).code
        /\ IsContent(CompiledOf(m, t, k)) /\ IsContent(CompiledOf(n, t, k))
    BY <1>4, <2>1, <2>3, <2>6, TypedFacts DEF CompiledOf, parts
  <2>9. CASE o = <<t, "abi">>
    BY <2>7, <2>9 DEF MadeOf, Alike
  <2>10. CASE o # <<t, "abi">>
    <3>1. o[2] \notin {"abi", "ijar"}
      BY <1>5, <2>10 DEF Outputs, If, MainJar, Kinds
    <3>2. MadeOf(m, t, k, o) = CompiledOf(m, t, k) /\ MadeOf(n, t, k, o) = CompiledOf(n, t, k)
      BY <1>5, <2>10 DEF MadeOf
    <3> QED
      BY <1>3, <2>8, <3>1, <3>2 DEF Alike
  <2> QED
    BY <2>9, <2>10
<1>6. CASE k = "merge"
  <2> DEFINE jars == ClassJars(t)
             own(m1) == m1[<<t, "resources">>]
  <2>1. jars = Jars(t, k) /\ o = <<t, "jar">>
    BY <1>6 DEF Jars, Outputs
  <2>2. \A j \in jars : j[1] = t /\ j[2] \notin {"abi", "ijar"}
    BY DEF ClassJars, If, MainJar
  <2>3. rules[t].resourceJars \/ t \notin T => own(m) = own(n)
    BY <1>6 DEF AlikeSources
  <2>4. \A x : TreeOf(m, x, jars \X {"decl"}) = TreeOf(n, x, jars \X {"decl"})
    <3>1. \A p \in jars \X {"decl"} : m[p[1]][p[2]] = n[p[1]][p[2]]
      BY <1>1, <2>1
    <3> QED
      BY <3>1 DEF TreeOf
  <2>5. t \notin T => \A x : TreeOf(m, x, jars \X {"code"}) = TreeOf(n, x, jars \X {"code"})
    <3>1. t \notin T => \A p \in jars \X {"code"} : m[p[1]][p[2]] = n[p[1]][p[2]]
      BY <2>1, <2>2 DEF Alike
    <3> QED
      BY <3>1 DEF TreeOf
  <2>6. {m[j].classes : j \in jars} = {n[j].classes : j \in jars}
    BY <1>1, <2>1
  <2>7. \A m1 : IsContent(MergedOf(m1, t)) /\ MadeOf(m1, t, k, o) = MergedOf(m1, t)
    BY <1>6, <2>1, TypedFacts DEF MergedOf, MadeOf
  <2>8. /\ MergedOf(m, t).decl = MergedOf(n, t).decl /\ MergedOf(m, t).classes = MergedOf(n, t).classes
        /\ t \notin T => MergedOf(m, t).code = MergedOf(n, t).code
    BY <2>3, <2>4, <2>5, <2>6 DEF MergedOf
  <2>9. o[1] = t /\ o[2] \notin {"abi", "ijar"}
    BY <2>1
  <2> HIDE DEF jars, own
  <2> QED
    BY <2>7, <2>8, <2>9 DEF Alike
<1>7. CASE k = "ijar"
  <2> DEFINE j == <<t, "jar">>
  <2>1. j \in Jars(t, k) /\ o = <<t, "ijar">>
    BY <1>7 DEF Jars, Outputs
  <2>2. IsContent(m[j]) /\ IsContent(n[j]) /\ m[j].decl = n[j].decl /\ m[j].classes = n[j].classes
    BY <2>1 DEF Alike
  <2> DEFINE made(m1) == [decl |-> m1[j].decl, code |-> TreeOf(m1, 0, {}), classes |-> m1[j].classes]
  <2>3. MadeOf(m, t, k, o) = made(m) /\ MadeOf(n, t, k, o) = made(n)
    BY <1>7, <2>1, <2>2, StrippedFacts DEF MadeOf
  <2>4. made(m) = made(n) /\ IsContent(made(m))
    BY <1>4, <2>2, TypedFacts
  <2> HIDE DEF made
  <2> QED
    BY <2>3, <2>4 DEF Alike
<1> QED
  BY <1>5, <1>6, <1>7

---------------------------------------------------------------------------
SourceNames == {"srcs", "resources"}
Items == Targets \X (Names \cup SourceNames)
Touched == {e[1] : e \in edited}

\* Nothing that is loaded into t or what it is built with is in T.
Steady(t, T) == Loaded(t) \cap T = {}

\* What an action remembers, alike what m has for it.
Recalls(c, m, T, digest) ==
  \A i \in DOMAIN c :
    IF i[2] \in SourceNames THEN i[1] \notin T => c[i] = digest[i]
                            ELSE Steady(i[1], T) => Alike(i, c[i], m[i], T)

\* Of every source and jar.
Digests == [i \in Items |-> Digest(i)]

(* One content m of every jar that the actions D made since the last       *)
(* build, which explains all that is on disk and remembered: m has the     *)
(* present sources, and each output in it is made of its inputs in it, but *)
(* for what edits of bodies may have changed.                              *)
Ledger(m, D) ==
  /\ DOMAIN m = Items /\ D \subseteq Actions
  /\ \A i \in Items : i[2] \in SourceNames => m[i] = Digests[i]
  /\ \A b \in D : Before(b) \subseteq D
  /\ \A b \in D : Steady(b[1], Touched) =>
       \A o \in Outputs(b[1], b[2]) : Alike(o, m[o], MadeOf(m, b[1], b[2], o), Touched)
  /\ \A b \in D : cache[b] # None /\ Steady(b[1], Touched) =>
       \A o \in Outputs(b[1], b[2]) : Alike(o, file[o], m[o], Touched)
  /\ \A a \in DOMAIN cache : cache[a] # None =>
       a \in D /\ Recalls(cache[a], m, Touched, Digests)

Quiet == \A e \in edited : OfBody(e)

\* As long as only bodies were edited since the last build there is a ledger.
Explained == Quiet => \E m, D : Ledger(m, D)

\* Alike is an equivalence of contents, and coarser for more edits.
LEMMA AlikeFacts ==
  ASSUME NEW i, NEW T
  PROVE  /\ \A v : IsContent(v) => Alike(i, v, v, T)
         /\ \A v, w : Alike(i, v, w, T) => Alike(i, w, v, T)
         /\ \A v, w, x : Alike(i, v, w, T) /\ Alike(i, w, x, T) => Alike(i, v, x, T)
         /\ \A v, w, U : Alike(i, v, w, T) /\ T \subseteq U => Alike(i, v, w, U)
BY DEF Alike

\* Jars are of targets upstream, so what they are made of is as steady.
LEMMA ReadIsSteady ==
  ASSUME TypeOK, NEW a \in Actions, NEW j \in Jars(a[1], a[2]) \cup Plugins(a[1], a[2]), NEW T
  PROVE  /\ Steady(a[1], T) => Steady(j[1], T)
         /\ j[2] \notin SourceNames /\ j \in Items
         /\ \/ j[2] \in {"abi", "ijar"} \/ j[1] = a[1] \/ j[1] \in Loaded(a[1])
<1> DEFINE t == a[1]
<1>1. t \in Targets /\ a[2] \in Kinds /\ a[2] \in KindsOf(t)
  BY DEF Actions
<1>2. PICK b \in Before(a) : j \in Outputs(b[1], b[2])
  BY ReadIsMade
<1>3. b[1] \in Targets /\ b[2] \in Kinds
  BY DEF Before, Actions
<1>4. j[1] \in Targets /\ j[2] \in Names /\ j = <<j[1], j[2]>>
  <2>1. \A i \in Outputs(b[1], b[2]) : i[1] = b[1] /\ i[2] \in Names /\ i = <<b[1], i[2]>>
    BY <1>3, JarNames, Zenon
  <2> QED
    BY <1>2, <1>3, <2>1
<1>5. \/ j[2] \in {"abi", "ijar"} /\ j[1] \in DepsOf(t) \cup rules[t].associates \cup PluginTargets(t)
      \/ j[1] = t
      \/ j[1] \in Loads(t)
  <2>1. j \in Plugins(t, a[2]) => j[1] \in Loads(t)
    BY <1>1 DEF Loads
  <2>2. \A d : CompileJar(d)[1] = d /\ CompileJar(d)[2] \in {"abi", "ijar"}
    BY DEF CompileJar
  <2>3. j \in Classpath(t) \cup FriendJars(t) =>
          j[2] \in {"abi", "ijar"} /\ j[1] \in DepsOf(t) \cup rules[t].associates
    BY <2>2 DEF Classpath, FriendJars
  <2>6. j \in {CompileJar(p) : p \in PluginTargets(t)} =>
          j[2] \in {"abi", "ijar"} /\ j[1] \in PluginTargets(t)
    BY <2>2
  <2>4. MainJar(t)[1] = t /\ \A i \in ClassJars(t) : i[1] = t
    BY DEF MainJar, ClassJars, If
  <2>5. j \in Jars(t, a[2]) =>
          \/ j \in Classpath(t) \cup FriendJars(t) \/ j[1] = t
          \/ j \in {CompileJar(p) : p \in PluginTargets(t)}
    BY <1>1, <2>4 DEF Jars, If, Kinds
  <2> QED
    BY <2>1, <2>3, <2>5, <2>6
<1>6. t \in Upstream(t) /\ \A u \in Upstream(t) :
        /\ rules[u].associates \subseteq Upstream(t) /\ DepsOf(u) \subseteq Upstream(t)
        /\ PluginTargets(u) \subseteq Upstream(t) /\ Loads(u) \subseteq Upstream(t)
        /\ Loaded(u) \subseteq Loaded(t)
  BY <1>1, UpstreamFacts
<1>7. j[1] \in Upstream(t)
  BY <1>5, <1>6
<1>8. Loaded(j[1]) \subseteq Loaded(t)
  BY <1>6, <1>7
<1>9. Loads(t) \subseteq Loaded(t)
  BY <1>6 DEF Loaded
<1>10. j[2] \notin SourceNames /\ j \in Items
  BY <1>4 DEF SourceNames, Names, Items
<1> QED
  BY <1>5, <1>8, <1>9, <1>10 DEF Steady

\* The decisions stand, so only contents make a difference.
LEMMA LedgerNext ==
  ASSUME UNCHANGED <<rules, settings>>, NEW m, NEW D, NEW T, T = Touched', NEW g, g = Digests',
         DOMAIN m = Items, D \subseteq Actions,
         \A i \in Items : i[2] \in SourceNames => m[i] = g[i],
         \A b \in D : Before(b) \subseteq D,
         \A b \in D : Steady(b[1], T) =>
           \A o \in Outputs(b[1], b[2]) : Alike(o, m[o], MadeOf(m, b[1], b[2], o), T),
         \A b \in D : cache'[b] # None /\ Steady(b[1], T) =>
           \A o \in Outputs(b[1], b[2]) : Alike(o, file'[o], m[o], T),
         \A a \in DOMAIN cache' : cache'[a] # None =>
           a \in D /\ Recalls(cache'[a], m, T, g)
  PROVE  Ledger(m, D)'
<1>1. Actions' = Actions
  BY SameDecisions DEF Actions
<1>2. \A a : Inputs(a[1], a[2])' = Inputs(a[1], a[2]) /\ Outputs(a[1], a[2])' = Outputs(a[1], a[2])
  BY SameJars
<1>3. \A a : Before(a)' = Before(a)
  BY <1>1, <1>2 DEF Before
<1>4. \A b, o : MadeOf(m, b[1], b[2], o)' = MadeOf(m, b[1], b[2], o)
  BY SameMade
<1>5. \A d : DepsOf(d)' = DepsOf(d)
  BY DEF DepsOf
<1>6. \A d : Loads(d)' = Loads(d)
  BY SameJars, SameDecisions DEF Loads
<1>7. \A d : Loaded(d)' = Loaded(d)
  BY <1>6 DEF Loaded, Upstream
<1>8. \A d : Steady(d, T)' = Steady(d, T)
  BY <1>7 DEF Steady
<1>9. \A c : Recalls(c, m, T, g)' <=> Recalls(c, m, T, g)
  BY <1>8 DEF Recalls, Alike
<1>10. (DOMAIN m = Items /\ D \subseteq Actions)'
  BY <1>1 DEF Items
<1>11. (\A i \in Items : i[2] \in SourceNames => m[i] = Digests[i])'
  BY DEF Items, SourceNames
<1>12. (\A b \in D : Before(b) \subseteq D)'
  BY <1>3
<1>13. (\A b \in D : Steady(b[1], Touched) =>
          \A o \in Outputs(b[1], b[2]) : Alike(o, m[o], MadeOf(m, b[1], b[2], o), Touched))'
  <2>1. ASSUME NEW b \in D, Steady(b[1], T), NEW o \in Outputs(b[1], b[2])
        PROVE  Alike(o, m[o], MadeOf(m, b[1], b[2], o), Touched)'
    <3> DEFINE w == MadeOf(m, b[1], b[2], o)
    <3>1. Alike(o, m[o], w, T)
      BY <2>1
    <3>2. w' = w
      BY <1>4
    <3> HIDE DEF w
    <3>3. Alike(o, m[o], w, Touched)'
      BY <3>1, <3>2 DEF Alike, IsContent
    <3> QED
      BY <3>3 DEF w
  <2>2. \A b \in D : Steady(b[1], Touched)' <=> Steady(b[1], T)
    BY <1>7 DEF Steady
  <2> QED
    BY <1>2, <2>1, <2>2
<1>14. (\A b \in D : cache[b] # None /\ Steady(b[1], Touched) =>
          \A o \in Outputs(b[1], b[2]) : Alike(o, file[o], m[o], Touched))'
  <2>1. ASSUME NEW b \in D, cache'[b] # None, Steady(b[1], T), NEW o \in Outputs(b[1], b[2])
        PROVE  Alike(o, file[o], m[o], Touched)'
    BY <2>1 DEF Alike, IsContent
  <2>2. \A b \in D : Steady(b[1], Touched)' <=> Steady(b[1], T)
    BY <1>7 DEF Steady
  <2> QED
    BY <1>2, <2>1, <2>2
<1>15. (\A a \in DOMAIN cache : cache[a] # None =>
          a \in D /\ Recalls(cache[a], m, Touched, Digests))'
  BY <1>7 DEF Recalls, Steady, Alike, IsContent
<1> QED
  BY <1>10, <1>11, <1>12, <1>13, <1>14, <1>15 DEF Ledger

\* An output of an action is a jar of its target.
LEMMA OutputNames ==
  ASSUME NEW b \in Actions, NEW o \in Outputs(b[1], b[2])
  PROVE  /\ b[1] \in Targets /\ b[2] \in Kinds /\ b[2] \in KindsOf(b[1])
         /\ o \in Items /\ o[2] \notin SourceNames /\ o[1] = b[1]
<1>1. b[1] \in Targets /\ b[2] \in Kinds /\ b[2] \in KindsOf(b[1])
  BY DEF Actions
<1>2. \A i \in Outputs(b[1], b[2]) : i[1] = b[1] /\ i[2] \in Names /\ i = <<b[1], i[2]>>
  BY <1>1, JarNames, Zenon
<1>3. o[1] = b[1] /\ o[2] \in Names /\ o = <<b[1], o[2]>>
  BY <1>2
<1> QED
  BY <1>1, <1>3 DEF Items, Names, SourceNames

\* What is steady under more edits is steady under fewer, and loads none of them.
LEMMA SteadyFacts ==
  ASSUME TypeOK, NEW t \in Targets, NEW U, Steady(t, U)
  PROVE  /\ Loads(t) \cap U = {}
         /\ \A T : T \subseteq U => Steady(t, T)
<1>1. Loads(t) \subseteq Loaded(t)
  BY UpstreamFacts DEF Loaded
<1> QED
  BY <1>1 DEF Steady

\* What an action of the ledger reads is in the ledger.
LEMMA LedgerReads ==
  ASSUME TypeOK, NEW m, NEW D, Ledger(m, D), NEW b \in Actions, Before(b) \subseteq D,
         Steady(b[1], Touched), NEW j \in Jars(b[1], b[2]) \cup Plugins(b[1], b[2])
  PROVE  /\ j \in Items /\ j[2] \notin SourceNames /\ Steady(j[1], Touched)
         /\ IsContent(m[j]) /\ \E c \in D : j \in Outputs(c[1], c[2])
<1>1. j \in Items /\ j[2] \notin SourceNames /\ Steady(j[1], Touched)
  BY ReadIsSteady
<1>2. PICK c \in Before(b) : j \in Outputs(c[1], c[2])
  BY ReadIsMade
<1>3. c \in D /\ c \in Actions
  BY <1>2 DEF Before
<1>4. j[1] = c[1]
  BY <1>2, <1>3, OutputNames
<1>5. Alike(j, m[j], MadeOf(m, c[1], c[2], j), Touched)
  BY <1>1, <1>2, <1>3, <1>4 DEF Ledger
<1> QED
  BY <1>1, <1>2, <1>3, <1>5 DEF Alike

\* An edit of a body is seen in the sources of its target only.
LEMMA EditFacts ==
  ASSUME TypeOK, NEW t \in Targets, NEW what \in {"abi", "body", "resource", "uses"}, Edit(t, what), Quiet'
  PROVE  /\ Quiet /\ Touched' = Touched \cup {t} /\ UNCHANGED <<rules, settings, file, cache>>
         /\ \A u \in Targets : \A k \in Kinds : AlikeSources(Digests, Digests', u, k, Touched')
         /\ \A i \in Items : i[2] \in SourceNames /\ i[1] \notin Touched' => Digests'[i] = Digests[i]
<1> DEFINE E == <<t, what>>
<1>1. UNCHANGED <<rules, settings, file, cache>> /\ edited' = edited \cup {E}
  BY DEF Edit
<1>2. \A e : OfBody(e)' <=> OfBody(e)
  BY <1>1 DEF OfBody
<1>3. Quiet /\ OfBody(E)
  BY <1>1, <1>2 DEF Quiet
<1>4. Touched' = Touched \cup {t}
  <2>1. E[1] = t
    OBVIOUS
  <2>2. {e[1] : e \in edited \cup {E}} = {e[1] : e \in edited} \cup {E[1]}
    <3> HIDE DEF E
    <3> QED
      OBVIOUS
  <2> HIDE DEF E
  <2> QED
    BY <1>1, <2>1, <2>2 DEF Touched
<1>5. what = "body" \/ (what = "resource" /\ ~rules[t].resourceJars)
  BY <1>3 DEF OfBody
<1>6. src' = [src EXCEPT ![t][what] = @ + 1]
  BY <1>5 DEF Edit
<1>7. /\ src \in [Targets -> [abi : Nat, body : Nat, resource : Nat,
                             uses : SUBSET ({"kt", "java"} \X Targets)]]
  BY DEF TypeOK
<1>8. \A u \in Targets : /\ src'[u].abi = src[u].abi /\ src'[u].uses = src[u].uses
                         /\ u # t => src'[u] = src[u]
                         /\ rules[u].resourceJars => src'[u].resource = src[u].resource
  BY <1>5, <1>6, <1>7
<1>9. \A u \in Targets : <<u, "srcs">> \in Items /\ <<u, "resources">> \in Items
  BY DEF Items, SourceNames
<1>10. Items' = Items
  BY DEF Items
<1>11. \A u \in Targets :
         /\ Digests[<<u, "srcs">>] = <<src[u].abi, src[u].body, src[u].uses>>
         /\ Digests[<<u, "resources">>] = src[u].resource
         /\ Digests'[<<u, "srcs">>] = <<src'[u].abi, src'[u].body, src'[u].uses>>
         /\ Digests'[<<u, "resources">>] = src'[u].resource
  BY <1>9, <1>10 DEF Digests, Digest
<1>12. \A u \in Targets : \A k \in Kinds : AlikeSources(Digests, Digests', u, k, Touched')
  <2> SUFFICES ASSUME NEW u \in Targets, NEW k \in Kinds
               PROVE  AlikeSources(Digests, Digests', u, k, Touched')
    OBVIOUS
  <2> DEFINE g == Digests
             h == Digests'
  <2>1. /\ h[<<u, "srcs">>][1] = g[<<u, "srcs">>][1] /\ h[<<u, "srcs">>][3] = g[<<u, "srcs">>][3]
        /\ u # t => h[<<u, "srcs">>] = g[<<u, "srcs">>] /\ h[<<u, "resources">>] = g[<<u, "resources">>]
        /\ rules[u].resourceJars => h[<<u, "resources">>] = g[<<u, "resources">>]
    <3>1. /\ src'[u].abi = src[u].abi /\ src'[u].uses = src[u].uses
          /\ u # t => src'[u] = src[u]
          /\ rules[u].resourceJars => src'[u].resource = src[u].resource
      BY <1>8
    <3>2. /\ g[<<u, "srcs">>] = <<src[u].abi, src[u].body, src[u].uses>>
          /\ h[<<u, "srcs">>] = <<src'[u].abi, src'[u].body, src'[u].uses>>
          /\ g[<<u, "resources">>] = src[u].resource
          /\ h[<<u, "resources">>] = src'[u].resource
      BY <1>11
    <3> HIDE DEF g, h
    <3> QED
      BY <3>1, <3>2
  <2>2. u \notin Touched' => u # t
    BY <1>4
  <2> HIDE DEF g, h
  <2>3. AlikeSources(g, h, u, k, Touched')
    BY <2>1, <2>2 DEF AlikeSources
  <2> QED
    BY <2>3 DEF g, h
<1>13. \A i \in Items : i[2] \in SourceNames /\ i[1] \notin Touched' => Digests'[i] = Digests[i]
  <2> SUFFICES ASSUME NEW i \in Items, i[2] \in SourceNames, i[1] \notin Touched'
               PROVE  Digests'[i] = Digests[i]
    OBVIOUS
  <2>1. i[1] \in Targets /\ i = <<i[1], i[2]>>
    BY DEF Items
  <2>2. i = <<i[1], "srcs">> \/ i = <<i[1], "resources">>
    BY <2>1 DEF SourceNames
  <2>3. src'[i[1]] = src[i[1]]
    BY <1>4, <1>8, <2>1
  <2> QED
    BY <1>11, <2>1, <2>2, <2>3
<1> QED
  BY <1>1, <1>3, <1>4, <1>12, <1>13

\* The inputs of an action are its own files and the jars it reads.
LEMMA InputNames ==
  ASSUME TypeOK, NEW b \in Actions, NEW i \in Inputs(b[1], b[2])
  PROVE  /\ i \in Items
         /\ i[2] \in SourceNames => i[1] = b[1]
         /\ i[2] \notin SourceNames => i \in Jars(b[1], b[2]) \cup Plugins(b[1], b[2])
<1>1. CASE i \in Jars(b[1], b[2]) \cup Plugins(b[1], b[2])
  BY <1>1, ReadIsSteady
<1>2. CASE i \in Own(b[1], b[2])
  <2>1. i = <<b[1], "srcs">> \/ i = <<b[1], "resources">>
    BY <1>2 DEF Own, If
  <2>2. b[1] \in Targets
    BY DEF Actions
  <2> QED
    BY <2>1, <2>2 DEF Items, SourceNames
<1> QED
  BY <1>1, <1>2 DEF Inputs

\* And so is what it remembers.
LEMMA RememberedNames ==
  ASSUME TypeOK, Planned, NEW a \in DOMAIN cache, cache[a] # None, NEW i \in DOMAIN cache[a]
  PROVE  /\ a \in Actions /\ i \in Items
         /\ i[2] \in SourceNames => i[1] = a[1]
         /\ i[2] \notin SourceNames => i \in Jars(a[1], a[2]) \cup Plugins(a[1], a[2])
<1>1. a \in Actions /\ i \in Inputs(a[1], a[2])
  BY ActionType DEF TypeOK
<1> QED
  BY <1>1, InputNames

\* After an edit the ledger has the new sources, and the jars it had.
LEMMA EditExplains ==
  ASSUME TypeOK, Planned, NEW t \in Targets, NEW what \in {"abi", "body", "resource", "uses"},
         Edit(t, what), Quiet', NEW m, NEW D, Ledger(m, D)
  PROVE  \E n : Ledger(n, D)'
<1>1. PICK U, g : U = Touched' /\ g = Digests'
  OBVIOUS
<1>2. /\ UNCHANGED <<rules, settings, file, cache>> /\ Touched \subseteq U
      /\ \A u \in Targets : \A k \in Kinds : AlikeSources(Digests, g, u, k, U)
      /\ \A i \in Items : i[2] \in SourceNames /\ i[1] \notin U => g[i] = Digests[i]
  BY <1>1, EditFacts
<1> DEFINE n == [i \in Items |-> IF i[2] \in SourceNames THEN g[i] ELSE m[i]]
<1>3. /\ DOMAIN n = Items
      /\ \A i \in Items : i[2] \in SourceNames => n[i] = g[i]
      /\ \A i \in Items : i[2] \notin SourceNames => n[i] = m[i]
  OBVIOUS
<1>4. /\ D \subseteq Actions /\ (\A b \in D : Before(b) \subseteq D)
      /\ \A i \in Items : i[2] \in SourceNames => m[i] = Digests[i]
  BY DEF Ledger
<1> HIDE DEF n
<1>5. \A u \in Targets : \A k \in Kinds : AlikeSources(m, n, u, k, U)
  <2> SUFFICES ASSUME NEW u \in Targets, NEW k \in Kinds
               PROVE  AlikeSources(m, n, u, k, U)
    OBVIOUS
  <2>1. <<u, "srcs">> \in Items /\ <<u, "resources">> \in Items
    BY DEF Items, SourceNames
  <2>2. /\ m[<<u, "srcs">>] = Digests[<<u, "srcs">>] /\ n[<<u, "srcs">>] = g[<<u, "srcs">>]
        /\ m[<<u, "resources">>] = Digests[<<u, "resources">>]
        /\ n[<<u, "resources">>] = g[<<u, "resources">>]
    BY <1>3, <1>4, <2>1 DEF SourceNames
  <2>3. AlikeSources(Digests, g, u, k, U)
    BY <1>2
  <2> QED
    BY <2>2, <2>3 DEF AlikeSources
<1>6. \A u \in Targets : Steady(u, U) => Steady(u, Touched) /\ Loads(u) \cap U = {}
  BY <1>2, SteadyFacts
<1>7. ASSUME NEW b \in D, Steady(b[1], U), NEW o \in Outputs(b[1], b[2])
      PROVE  Alike(o, n[o], MadeOf(n, b[1], b[2], o), U)
  <2>1. b \in Actions /\ b[1] \in Targets /\ b[2] \in Kinds /\ b[2] \in KindsOf(b[1]) /\ o \in Items /\ o[2] \notin SourceNames
    BY <1>4, <1>7, OutputNames
  <2>2. Steady(b[1], Touched) /\ Loads(b[1]) \cap U = {} /\ Before(b) \subseteq D
    BY <1>4, <1>6, <1>7, <2>1
  <2>3. \A j \in Jars(b[1], b[2]) \cup Plugins(b[1], b[2]) :
          j \in Items /\ j[2] \notin SourceNames /\ IsContent(m[j])
    BY <2>1, <2>2, LedgerReads
  <2>4. \A j \in Jars(b[1], b[2]) \cup Plugins(b[1], b[2]) : Alike(j, m[j], n[j], U)
    BY <1>3, <2>3, AlikeFacts
  <2>5. AlikeSources(m, n, b[1], b[2], U)
    BY <1>5, <2>1
  <2>6. Alike(o, MadeOf(m, b[1], b[2], o), MadeOf(n, b[1], b[2], o), U)
    BY <1>7, <2>1, <2>2, <2>4, <2>5, MadeAlike
  <2>7. Alike(o, m[o], MadeOf(m, b[1], b[2], o), U)
    <3>1. Alike(o, m[o], MadeOf(m, b[1], b[2], o), Touched)
      BY <1>7, <2>2 DEF Ledger
    <3> QED
      BY <1>2, <3>1, AlikeFacts
  <2>8. n[o] = m[o]
    BY <1>3, <2>1
  <2> QED
    BY <2>6, <2>7, <2>8, AlikeFacts
<1>8. ASSUME NEW b \in D, cache'[b] # None, Steady(b[1], U), NEW o \in Outputs(b[1], b[2])
      PROVE  Alike(o, file'[o], n[o], U)
  <2>1. b[1] \in Targets /\ o \in Items /\ o[2] \notin SourceNames
    BY <1>4, <1>8, OutputNames
  <2>2. Steady(b[1], Touched) /\ cache[b] # None
    BY <1>2, <1>6, <1>8, <2>1
  <2>3. Alike(o, file[o], m[o], Touched)
    BY <1>8, <2>2 DEF Ledger
  <2>4. file'[o] = file[o] /\ n[o] = m[o]
    BY <1>2, <1>3, <2>1
  <2> QED
    BY <1>2, <2>3, <2>4, AlikeFacts
<1>9. ASSUME NEW a \in DOMAIN cache', cache'[a] # None
      PROVE  a \in D /\ Recalls(cache'[a], n, U, g)
  <2>1. cache'[a] = cache[a] /\ a \in D /\ Recalls(cache[a], m, Touched, Digests)
    BY <1>2, <1>9 DEF Ledger
  <2>2. \A i \in DOMAIN cache[a] : i \in Items
    BY <1>2, <1>9, RememberedNames
  <2> SUFFICES ASSUME NEW i \in DOMAIN cache[a]
               PROVE  IF i[2] \in SourceNames THEN i[1] \notin U => cache[a][i] = g[i]
                      ELSE Steady(i[1], U) => Alike(i, cache[a][i], n[i], U)
    BY <2>1 DEF Recalls
  <2>3. i \in Items /\ i[1] \in Targets
    BY <2>2 DEF Items
  <2>4. CASE i[2] \in SourceNames
    BY <1>2, <2>1, <2>3, <2>4 DEF Recalls
  <2>5. CASE i[2] \notin SourceNames
    <3>1. Steady(i[1], U) => Alike(i, cache[a][i], m[i], Touched)
      BY <1>6, <2>1, <2>3, <2>5 DEF Recalls
    <3> QED
      BY <1>2, <1>3, <2>3, <2>5, <3>1, AlikeFacts
  <2> QED
    BY <2>4, <2>5
<1>10. Ledger(n, D)'
  BY <1>1, <1>2, <1>3, <1>4, <1>7, <1>8, <1>9, LedgerNext
<1> QED
  BY <1>10

\* The actions that made what a due action reads are in the ledger.
LEMMA DueReads ==
  ASSUME TypeOK, Planned, Remembered, NEW a \in Due, NEW m, NEW D, Ledger(m, D)
  PROVE  /\ a \in Actions /\ a \in DOMAIN cache /\ Before(a) \subseteq D
         /\ \A j \in Jars(a[1], a[2]) \cup Plugins(a[1], a[2]) :
              Steady(j[1], Touched) => Alike(j, file[j], m[j], Touched)
<1>1. a \in DOMAIN cache /\ registered[a].follows \cap Stale = {}
  BY DEF Due, Stale
<1>2. a \in Actions /\ Actions = DOMAIN cache
  BY <1>1, ActionType DEF Planned, TypeOK
<1>3. Before(a) \subseteq D
  <2> SUFFICES ASSUME NEW b \in Before(a)
               PROVE  b \in D
    OBVIOUS
  <2>1. b \in DOMAIN cache /\ b \notin Stale
    BY <1>1, <1>2 DEF Before, Planned
  <2>2. cache[b] # None
    BY <2>1 DEF Stale
  <2> QED
    BY <2>1, <2>2 DEF Ledger
<1>4. ASSUME NEW j \in Jars(a[1], a[2]) \cup Plugins(a[1], a[2]), Steady(j[1], Touched)
      PROVE  Alike(j, file[j], m[j], Touched)
  <2>1. PICK b \in Before(a) : cache[b] # None /\ j \in Outputs(b[1], b[2])
    BY <1>4, ReadIsTyped
  <2>2. b \in D /\ b \in Actions
    BY <1>3, <2>1 DEF Before
  <2>3. j[1] = b[1]
    BY <2>1, <2>2, OutputNames
  <2> QED
    BY <1>4, <2>1, <2>2, <2>3 DEF Ledger
<1> QED
  BY <1>1, <1>2, <1>3, <1>4

\* An action that runs makes its outputs of the present inputs.
LEMMA RunMakes ==
  ASSUME TypeOK, Planned, Remembered, NEW a \in Due, Run(a)
  PROVE  /\ UNCHANGED <<rules, settings>> /\ Touched' = Touched
         /\ \A i \in Items : i[2] \in SourceNames => Digests'[i] = Digests[i]
         /\ \A o \in Outputs(a[1], a[2]) :
              file'[o] = MadeOf(Digests, a[1], a[2], o) /\ IsContent(file'[o])
         /\ \A b \in Actions : b # a =>
              cache'[b] = cache[b] /\ \A o \in Outputs(b[1], b[2]) : file'[o] = file[o]
         /\ DOMAIN cache' = DOMAIN cache
         /\ DOMAIN cache'[a] \subseteq Inputs(a[1], a[2])
         /\ \A i \in DOMAIN cache'[a] : cache'[a][i] = Digests[i]
<1>1. UNCHANGED <<rules, settings, registered, src, edited>>
  BY DEF Run
<1>2. Touched' = Touched
  BY <1>1 DEF Touched
<1>3. \A i \in Items : i[2] \in SourceNames => Digests'[i] = Digests[i]
  <2>1. Items' = Items
    BY DEF Items
  <2>2. \A i \in Items : i[2] \in SourceNames => Digest(i)' = Digest(i)
    BY <1>1 DEF Digest, SourceNames
  <2> QED
    BY <2>1, <2>2 DEF Digests
<1>4. a \in DOMAIN cache /\ DOMAIN cache = Actions
  BY DEF Due, Stale, Planned, TypeOK
<1>5. /\ a \in Actions /\ a[2] \in Kinds /\ registered[a].inputs = Inputs(a[1], a[2])
      /\ registered[a].outputs = Outputs(a[1], a[2])
  BY <1>4, ActionType
<1>6. \A i \in Inputs(a[1], a[2]) : i \in Items /\ Digests[i] = Digest(i)
  <2>1. \A i \in Inputs(a[1], a[2]) : i \in Items
    BY <1>5, InputNames
  <2> QED
    BY <2>1 DEF Digests
<1>7. PICK c : /\ cache' = [cache EXCEPT ![a] = c]
               /\ DOMAIN c \subseteq registered[a].inputs
               /\ \A o \in registered[a].outputs : o \in DOMAIN file /\ Typed(file'[o])
               /\ \A o \in DOMAIN file \ registered[a].outputs : file'[o] = file[o]
  BY RunFacts
<1>8. cache'[a] = c /\ DOMAIN cache' = DOMAIN cache /\ \A b \in Actions : b # a => cache'[b] = cache[b]
  BY <1>4, <1>7
<1>9. \A i \in DOMAIN cache'[a] : cache'[a][i] = Digests[i]
  <2>1. PICK unused \in Reported(a[1], a[2]) :
          cache' = [cache EXCEPT ![a] = [i \in registered[a].inputs \ unused |-> Digest(i)]]
    BY DEF Run
  <2>2. cache'[a] = [i \in Inputs(a[1], a[2]) \ unused |-> Digest(i)]
    BY <1>4, <1>5, <2>1
  <2> QED
    BY <1>6, <2>2
<1>10. ASSUME NEW b \in Actions, b # a, NEW o \in Outputs(b[1], b[2])
       PROVE  file'[o] = file[o]
  <2>1. o \in DOMAIN file
    BY <1>4, <1>10, ActionType
  <2>2. a = <<a[1], a[2]>> /\ b = <<b[1], b[2]>> /\ a[2] \in KindsOf(a[1]) /\ b[2] \in KindsOf(b[1])
    BY <1>4, <1>10, ActionType
  <2>3. o \notin Outputs(a[1], a[2])
    <3> SUFFICES ASSUME o \in Outputs(a[1], a[2])
                 PROVE  FALSE
      OBVIOUS
    <3>1. a[1] = b[1] /\ a[2] = b[2]
      BY <1>10, <2>2, OutputsDiffer
    <3> QED
      BY <1>10, <2>2, <3>1
  <2> QED
    BY <1>5, <1>7, <2>1, <2>3
<1>11. ASSUME NEW o \in Outputs(a[1], a[2])
       PROVE  file'[o] = MadeOf(Digests, a[1], a[2], o) /\ IsContent(file'[o])
  <2>1. o \in DOMAIN file /\ Typed(file'[o])
    BY <1>5, <1>7, <1>11
  <2>2. file'[o] = Made(a[1], a[2], o)
    BY <1>5, <1>11, <2>1 DEF Run
  <2>3. Needed(Digests, a[1], a[2]) \subseteq Inputs(a[1], a[2])
    BY DEF Needed, ReadPartsOf, UsedJarsOf, Inputs
  <2>4. DOMAIN Digests = Items /\ \A i \in Items : Digests[i] = Digest(i)
    BY DEF Digests
  <2>5. MadeOf(Digests, a[1], a[2], o) = Made(a[1], a[2], o)
    BY <1>5, <1>6, <1>11, <2>3, <2>4, UpToDate
  <2> QED
    BY <2>1, <2>2, <2>5 DEF Typed
<1> QED
  BY <1>1, <1>2, <1>3, <1>5, <1>7, <1>8, <1>9, <1>10, <1>11

(* When an action runs for the first time since the last build its outputs *)
(* enter the ledger; when it runs again they are alike what it has.        *)
LEMMA RunExplains ==
  ASSUME TypeOK, Planned, Remembered, NEW a \in Due, Run(a), NEW m, NEW D, Ledger(m, D)
  PROVE  \E n, E : Ledger(n, E)'
<1>1. PICK T, g, h, f : T = Touched /\ g = Digests' /\ h = Digests /\ f = file'
  OBVIOUS
<1>2. /\ UNCHANGED <<rules, settings>> /\ T = Touched'
      /\ \A i \in Items : i[2] \in SourceNames => g[i] = h[i]
      /\ \A o \in Outputs(a[1], a[2]) : file'[o] = MadeOf(h, a[1], a[2], o) /\ IsContent(file'[o])
      /\ \A b \in Actions : b # a =>
           cache'[b] = cache[b] /\ \A o \in Outputs(b[1], b[2]) : file'[o] = file[o]
      /\ DOMAIN cache' = DOMAIN cache
      /\ DOMAIN cache'[a] \subseteq Inputs(a[1], a[2])
      /\ \A i \in DOMAIN cache'[a] : cache'[a][i] = h[i]
  BY <1>1, RunMakes
<1>3. /\ a \in Actions /\ a \in DOMAIN cache /\ Before(a) \subseteq D
      /\ \A j \in Jars(a[1], a[2]) \cup Plugins(a[1], a[2]) :
           Steady(j[1], T) => Alike(j, file[j], m[j], T)
  BY <1>1, DueReads
<1>4. /\ D \subseteq Actions /\ (\A b \in D : Before(b) \subseteq D)
      /\ \A i \in Items : i[2] \in SourceNames => m[i] = h[i]
  BY <1>1 DEF Ledger
<1> DEFINE made == [i \in Items |-> IF a \notin D /\ i \in Outputs(a[1], a[2]) THEN f[i] ELSE m[i]]
<1>5. PICK n, E : /\ DOMAIN n = Items /\ E = D \cup {a}
                  /\ \A i \in Items : i \notin Outputs(a[1], a[2]) => n[i] = m[i]
                  /\ a \in D => \A i \in Items : n[i] = m[i]
                  /\ a \notin D => \A i \in Items : i \in Outputs(a[1], a[2]) => n[i] = file'[i]
  <2>1. /\ DOMAIN made = Items
        /\ \A i \in Items : i \notin Outputs(a[1], a[2]) => made[i] = m[i]
        /\ a \in D => \A i \in Items : made[i] = m[i]
        /\ a \notin D => \A i \in Items : i \in Outputs(a[1], a[2]) => made[i] = file'[i]
    BY <1>1
  <2> HIDE DEF made
  <2> QED
    BY <2>1
<1> HIDE DEF made
<1>6. \A b \in E : b \in Actions /\ Before(b) \subseteq D
  BY <1>3, <1>4, <1>5
<1>7. E \subseteq Actions /\ \A b \in E : Before(b) \subseteq E
  BY <1>5, <1>6
<1>8. a \in E /\ D \subseteq E /\ \A b \in E : b \in D \/ b = a
  BY <1>5
<1>9. \A c \in D : \A o \in Outputs(c[1], c[2]) : n[o] = m[o]
  <2> SUFFICES ASSUME NEW c \in D, NEW o \in Outputs(c[1], c[2])
               PROVE  n[o] = m[o]
    OBVIOUS
  <2>1. c \in Actions /\ o \in Items
    BY <1>4, OutputNames
  <2>2. CASE a \in D
    BY <1>5, <2>1, <2>2
  <2>3. CASE a \notin D
    <3>1. a = <<a[1], a[2]>> /\ c = <<c[1], c[2]>> /\ a[2] \in KindsOf(a[1]) /\ c[2] \in KindsOf(c[1])
      BY <1>3, <2>1 DEF Actions
    <3>2. o \notin Outputs(a[1], a[2])
      <4> SUFFICES ASSUME o \in Outputs(a[1], a[2])
                   PROVE  FALSE
        OBVIOUS
      <4>1. a[1] = c[1] /\ a[2] = c[2]
        BY <3>1, OutputsDiffer
      <4> QED
        BY <2>3, <3>1, <4>1
    <3> QED
      BY <1>5, <2>1, <3>2
  <2> QED
    BY <2>2, <2>3
<1>10. \A i \in Items : i[2] \in SourceNames => n[i] = h[i] /\ n[i] = g[i]
  <2> SUFFICES ASSUME NEW i \in Items, i[2] \in SourceNames
               PROVE  n[i] = h[i] /\ n[i] = g[i]
    OBVIOUS
  <2>1. i \notin Outputs(a[1], a[2])
    BY <1>3, OutputNames
  <2> QED
    BY <1>2, <1>4, <1>5, <2>1
\* The jars an action of the ledger reads are as they were in it.
<1>11. \A b \in E : \A j \in Jars(b[1], b[2]) \cup Plugins(b[1], b[2]) :
         j \in Items /\ j[2] \notin SourceNames /\ n[j] = m[j]
  <2> SUFFICES ASSUME NEW b \in E, NEW j \in Jars(b[1], b[2]) \cup Plugins(b[1], b[2])
               PROVE  j \in Items /\ j[2] \notin SourceNames /\ n[j] = m[j]
    OBVIOUS
  <2>1. b \in Actions /\ Before(b) \subseteq D
    BY <1>6
  <2>2. \E c \in Before(b) : j \in Outputs(c[1], c[2])
    BY <2>1, ReadIsMade
  <2>3. n[j] = m[j]
    BY <1>9, <2>1, <2>2
  <2> QED
    BY <2>1, <2>3, ReadIsSteady
<1>12. \A u \in Targets : <<u, "srcs">> \in Items /\ <<u, "resources">> \in Items
  BY DEF Items, SourceNames
<1>13. \A u \in Targets : \A k \in Kinds : AlikeSources(m, n, u, k, T) /\ AlikeSources(h, m, u, k, T)
                                         /\ AlikeSources(h, n, u, k, T)
  <2> SUFFICES ASSUME NEW u \in Targets, NEW k \in Kinds
               PROVE  AlikeSources(m, n, u, k, T) /\ AlikeSources(h, m, u, k, T) /\ AlikeSources(h, n, u, k, T)
    OBVIOUS
  <2>1. /\ m[<<u, "srcs">>] = h[<<u, "srcs">>] /\ n[<<u, "srcs">>] = h[<<u, "srcs">>]
        /\ m[<<u, "resources">>] = h[<<u, "resources">>] /\ n[<<u, "resources">>] = h[<<u, "resources">>]
    BY <1>4, <1>10, <1>12 DEF SourceNames
  <2> QED
    BY <2>1 DEF AlikeSources
\* What the action makes of the present inputs is alike what it makes of those of the ledger.
<1>14. ASSUME NEW o \in Outputs(a[1], a[2]), Steady(a[1], T)
       PROVE  /\ Alike(o, file'[o], MadeOf(m, a[1], a[2], o), T)
              /\ Alike(o, file'[o], MadeOf(n, a[1], a[2], o), T)
  <2>1. a[1] \in Targets /\ a[2] \in Kinds /\ a[2] \in KindsOf(a[1])
    BY <1>3, OutputNames
  <2>2. Loads(a[1]) \cap T = {}
    BY <1>14, <2>1, SteadyFacts
  <2>3. \A j \in Jars(a[1], a[2]) \cup Plugins(a[1], a[2]) :
          Alike(j, h[j], m[j], T) /\ Alike(j, h[j], n[j], T)
    <3> SUFFICES ASSUME NEW j \in Jars(a[1], a[2]) \cup Plugins(a[1], a[2])
                 PROVE  Alike(j, h[j], m[j], T) /\ Alike(j, h[j], n[j], T)
      OBVIOUS
    <3>1. Steady(j[1], T)
      BY <1>3, <1>14, ReadIsSteady
    <3>2. j \in Items /\ j[2] \notin SourceNames /\ n[j] = m[j]
      BY <1>8, <1>11
    <3>3. h[j] = file[j]
      BY <1>1, <3>2 DEF Digests, Digest, SourceNames
    <3> QED
      BY <1>3, <3>1, <3>2, <3>3
  <2>4. Alike(o, MadeOf(h, a[1], a[2], o), MadeOf(m, a[1], a[2], o), T)
    BY <1>13, <2>1, <2>2, <2>3, MadeAlike
  <2>5. Alike(o, MadeOf(h, a[1], a[2], o), MadeOf(n, a[1], a[2], o), T)
    BY <1>13, <2>1, <2>2, <2>3, MadeAlike
  <2> QED
    BY <1>2, <2>4, <2>5
<1>15. ASSUME NEW b \in E, Steady(b[1], T), NEW o \in Outputs(b[1], b[2])
       PROVE  Alike(o, n[o], MadeOf(n, b[1], b[2], o), T)
  <2>1. b \in Actions /\ b[1] \in Targets /\ b[2] \in Kinds /\ b[2] \in KindsOf(b[1]) /\ o \in Items
    BY <1>6, OutputNames
  <2>2. CASE b = a /\ a \notin D
    <3>1. n[o] = file'[o]
      BY <1>5, <2>1, <2>2
    <3> QED
      BY <1>14, <1>15, <2>2, <3>1
  <2>3. CASE b \in D
    <3>1. Alike(o, m[o], MadeOf(m, b[1], b[2], o), T)
      BY <1>1, <1>15, <2>3 DEF Ledger
    <3>2. \A j \in Jars(b[1], b[2]) \cup Plugins(b[1], b[2]) : Alike(j, m[j], n[j], T)
      <4>1. \A j \in Jars(b[1], b[2]) \cup Plugins(b[1], b[2]) : IsContent(m[j])
        BY <1>1, <1>6, <1>15, <2>1, LedgerReads
      <4> QED
        BY <1>11, <4>1, AlikeFacts
    <3>3. Loads(b[1]) \cap T = {}
      BY <1>15, <2>1, SteadyFacts
    <3>4. Alike(o, MadeOf(m, b[1], b[2], o), MadeOf(n, b[1], b[2], o), T)
      BY <1>13, <2>1, <3>2, <3>3, MadeAlike
    <3>5. n[o] = m[o]
      BY <1>9, <2>3
    <3> QED
      BY <3>1, <3>4, <3>5, AlikeFacts
  <2> QED
    BY <1>8, <2>2, <2>3
<1>16. ASSUME NEW b \in E, cache'[b] # None, Steady(b[1], T), NEW o \in Outputs(b[1], b[2])
       PROVE  Alike(o, file'[o], n[o], T)
  <2>1. b \in Actions /\ o \in Items
    BY <1>6, OutputNames
  <2>2. CASE b = a /\ a \notin D
    BY <1>2, <1>5, <2>1, <2>2, AlikeFacts
  <2>3. CASE b = a /\ a \in D
    <3>1. Alike(o, file'[o], MadeOf(m, a[1], a[2], o), T)
      BY <1>14, <1>16, <2>3
    <3>2. Alike(o, m[o], MadeOf(m, a[1], a[2], o), T)
      BY <1>1, <1>16, <2>3 DEF Ledger
    <3>3. n[o] = m[o]
      BY <1>9, <2>3
    <3> QED
      BY <3>1, <3>2, <3>3, AlikeFacts
  <2>4. CASE b # a /\ b \in D
    <3>1. file'[o] = file[o] /\ cache[b] # None
      BY <1>2, <1>16, <2>1, <2>4
    <3>2. Alike(o, file[o], m[o], T)
      BY <1>1, <1>16, <2>4, <3>1 DEF Ledger
    <3>3. n[o] = m[o]
      BY <1>9, <2>4
    <3> QED
      BY <3>1, <3>2, <3>3
  <2> QED
    BY <1>8, <2>2, <2>3, <2>4
<1>17. ASSUME NEW b \in DOMAIN cache', cache'[b] # None
       PROVE  b \in E /\ Recalls(cache'[b], n, T, g)
  <2>1. CASE b = a
    <3> SUFFICES ASSUME NEW i \in DOMAIN cache'[a]
                 PROVE  IF i[2] \in SourceNames THEN i[1] \notin T => cache'[a][i] = g[i]
                        ELSE Steady(i[1], T) => Alike(i, cache'[a][i], n[i], T)
      BY <1>8, <2>1 DEF Recalls
    <3>1. i \in Items /\ (i[2] \notin SourceNames => i \in Jars(a[1], a[2]) \cup Plugins(a[1], a[2]))
      BY <1>2, <1>3, InputNames
    <3>2. cache'[a][i] = h[i]
      BY <1>2
    <3>3. CASE i[2] \in SourceNames
      BY <1>2, <3>1, <3>2, <3>3
    <3>4. CASE i[2] \notin SourceNames
      <4>1. h[i] = file[i]
        BY <1>1, <3>1, <3>4 DEF Digests, Digest, SourceNames
      <4>2. n[i] = m[i]
        BY <1>8, <1>11, <3>1, <3>4
      <4> QED
        BY <1>3, <3>1, <3>2, <3>4, <4>1, <4>2
    <3> QED
      BY <3>3, <3>4
  <2>2. CASE b # a
    <3>1. b \in DOMAIN cache /\ b \in Actions
      BY <1>2, ActionType
    <3>2. cache'[b] = cache[b] /\ cache[b] # None
      BY <1>2, <1>17, <2>2, <3>1
    <3>3. b \in D /\ Recalls(cache[b], m, T, h)
      BY <1>1, <3>1, <3>2 DEF Ledger
    <3>4. \A i \in DOMAIN cache[b] :
            i \in Items /\ (i[2] \notin SourceNames => i \in Jars(b[1], b[2]) \cup Plugins(b[1], b[2]))
      BY <3>1, <3>2, RememberedNames
    <3>5. \A i \in DOMAIN cache[b] : IF i[2] \in SourceNames THEN g[i] = h[i] ELSE n[i] = m[i]
      BY <1>2, <1>8, <1>11, <3>3, <3>4
    <3>6. Recalls(cache[b], n, T, g)
      BY <3>3, <3>5 DEF Recalls
    <3> QED
      BY <1>8, <3>2, <3>3, <3>6
  <2> QED
    BY <2>1, <2>2
<1>18. Ledger(n, E)'
  <2>1. UNCHANGED <<rules, settings>> /\ T = Touched' /\ g = Digests' /\ DOMAIN n = Items /\ E \subseteq Actions
    BY <1>1, <1>2, <1>5, <1>7
  <2>2. \A i \in Items : i[2] \in SourceNames => n[i] = g[i]
    BY <1>10
  <2>3. \A b \in E : Before(b) \subseteq E
    BY <1>7
  <2>4. \A b \in E : Steady(b[1], T) =>
          \A o \in Outputs(b[1], b[2]) : Alike(o, n[o], MadeOf(n, b[1], b[2], o), T)
    BY <1>15
  <2>5. \A b \in E : cache'[b] # None /\ Steady(b[1], T) =>
          \A o \in Outputs(b[1], b[2]) : Alike(o, file'[o], n[o], T)
    BY <1>16
  <2>6. \A b \in DOMAIN cache' : cache'[b] # None => b \in E /\ Recalls(cache'[b], n, T, g)
    BY <1>17
  <2> QED
    BY <2>1, <2>2, <2>3, <2>4, <2>5, <2>6, LedgerNext
<1> QED
  BY <1>18

\* The ledger only looks at what is built and edited.
LEMMA LedgerStays ==
  ASSUME UNCHANGED <<rules, settings, src, edited, file, cache>>, NEW m, NEW D, Ledger(m, D)
  PROVE  Ledger(m, D)'
<1>1. Touched' = Touched
  BY DEF Touched
<1>2. Digests' = Digests
  BY DEF Digests, Digest, Items
<1>3. PICK T, g : T = Touched /\ g = Digests
  OBVIOUS
<1>4. UNCHANGED <<rules, settings>> /\ T = Touched' /\ g = Digests'
  BY <1>1, <1>2, <1>3
<1>5. /\ DOMAIN m = Items /\ D \subseteq Actions
      /\ \A i \in Items : i[2] \in SourceNames => m[i] = g[i]
      /\ \A b \in D : Before(b) \subseteq D
      /\ \A b \in D : Steady(b[1], T) =>
           \A o \in Outputs(b[1], b[2]) : Alike(o, m[o], MadeOf(m, b[1], b[2], o), T)
      /\ \A b \in D : cache'[b] # None /\ Steady(b[1], T) =>
           \A o \in Outputs(b[1], b[2]) : Alike(o, file'[o], m[o], T)
      /\ \A b \in DOMAIN cache' : cache'[b] # None => b \in D /\ Recalls(cache'[b], m, T, g)
  BY <1>3 DEF Ledger
<1> QED
  BY <1>4, <1>5, LedgerNext

\* A failed action leaves nothing for the ledger to explain.
LEMMA FailExplains ==
  ASSUME TypeOK, Planned, NEW a \in Due, Fail(a), NEW m, NEW D, Ledger(m, D)
  PROVE  Ledger(m, D)'
<1>1. PICK T, g : T = Touched /\ g = Digests'
  OBVIOUS
<1>2. /\ UNCHANGED <<rules, settings, src, edited>> /\ cache' = [cache EXCEPT ![a] = None]
      /\ file' = [i \in DOMAIN file |-> IF i \in registered[a].outputs THEN None ELSE file[i]]
  BY DEF Fail
<1>3. Touched' = T
  BY <1>1, <1>2 DEF Touched
<1>4. a \in DOMAIN cache /\ DOMAIN cache = Actions /\ DOMAIN cache' = DOMAIN cache
  BY <1>2 DEF Due, Stale, Planned, TypeOK
<1>5. \A b \in DOMAIN cache : cache'[b] # None => b # a /\ cache'[b] = cache[b]
  BY <1>2, <1>4
<1>6. /\ DOMAIN m = Items /\ D \subseteq Actions /\ (\A b \in D : Before(b) \subseteq D)
      /\ \A i \in Items : i[2] \in SourceNames => m[i] = Digests[i]
  BY DEF Ledger
<1>7. \A i \in Items : i[2] \in SourceNames => g[i] = Digests[i]
  <2>1. Items' = Items
    BY DEF Items
  <2>2. \A i \in Items : i[2] \in SourceNames => Digest(i)' = Digest(i)
    BY <1>2 DEF Digest, SourceNames
  <2> QED
    BY <1>1, <2>1, <2>2 DEF Digests
<1>8. \A b \in D : Steady(b[1], T) =>
        \A o \in Outputs(b[1], b[2]) : Alike(o, m[o], MadeOf(m, b[1], b[2], o), T)
  BY <1>1 DEF Ledger
<1>9. ASSUME NEW b \in D, cache'[b] # None, Steady(b[1], T), NEW o \in Outputs(b[1], b[2])
      PROVE  Alike(o, file'[o], m[o], T)
  <2>1. b \in DOMAIN cache /\ b # a /\ cache[b] # None
    BY <1>4, <1>5, <1>6, <1>9
  <2>2. Alike(o, file[o], m[o], T)
    BY <1>1, <1>9, <2>1 DEF Ledger
  <2>3. /\ a = <<a[1], a[2]>> /\ b = <<b[1], b[2]>> /\ a[2] \in KindsOf(a[1]) /\ b[2] \in KindsOf(b[1])
        /\ o \in DOMAIN file /\ registered[a].outputs = Outputs(a[1], a[2])
    BY <1>4, <1>9, <2>1, ActionType
  <2>4. o \notin Outputs(a[1], a[2])
    <3> SUFFICES ASSUME o \in Outputs(a[1], a[2])
                 PROVE  FALSE
      OBVIOUS
    <3>1. a[1] = b[1] /\ a[2] = b[2]
      BY <1>9, <2>3, OutputsDiffer
    <3> QED
      BY <2>1, <2>3, <3>1
  <2> QED
    BY <1>2, <2>2, <2>3, <2>4
<1>10. ASSUME NEW b \in DOMAIN cache', cache'[b] # None
       PROVE  b \in D /\ Recalls(cache'[b], m, T, g)
  <2>1. b \in DOMAIN cache /\ cache[b] # None /\ cache'[b] = cache[b]
    BY <1>4, <1>5, <1>10
  <2>2. b \in D /\ Recalls(cache[b], m, T, Digests)
    BY <1>1, <2>1 DEF Ledger
  <2>3. \A i \in DOMAIN cache[b] : i \in Items
    BY <2>1, RememberedNames
  <2>4. Recalls(cache[b], m, T, g)
    BY <1>7, <2>2, <2>3 DEF Recalls
  <2> QED
    BY <2>1, <2>2, <2>4
<1>11. \A i \in Items : i[2] \in SourceNames => m[i] = g[i]
  BY <1>6, <1>7
<1>12. \A b \in D : cache'[b] # None /\ Steady(b[1], T) =>
         \A o \in Outputs(b[1], b[2]) : Alike(o, file'[o], m[o], T)
  BY <1>9
<1>13. \A b \in DOMAIN cache' : cache'[b] # None => b \in D /\ Recalls(cache'[b], m, T, g)
  BY <1>10
<1>14. UNCHANGED <<rules, settings>> /\ T = Touched' /\ g = Digests'
  BY <1>1, <1>2, <1>3
<1>15. DOMAIN m = Items /\ D \subseteq Actions /\ \A b \in D : Before(b) \subseteq D
  BY <1>6
<1> QED
  BY <1>8, <1>11, <1>12, <1>13, <1>14, <1>15, LedgerNext

\* After a complete build the ledger is what is there.
LEMMA BuiltExplains ==
  ASSUME TypeOK, Planned, Remembered, Built
  PROVE  \E m : Ledger(m, Actions)'
<1>1. PICK m : m = Digests
  OBVIOUS
<1>2. UNCHANGED <<rules, settings, src, file, cache>> /\ edited' = {} /\ Stale = {}
  BY DEF Built
<1>3. Touched' = {} /\ Digests' = m /\ DOMAIN m = Items /\ \A i \in Items : m[i] = Digest(i)
  BY <1>1, <1>2 DEF Touched, Digests, Digest, Items
<1>4. DOMAIN cache = Actions /\ \A a \in Actions : Before(a) \subseteq Actions
  BY DEF Planned, TypeOK, Before
<1>5. \A a \in Actions : cache[a] # None /\ \A i \in DOMAIN cache[a] : cache[a][i] = Digest(i)
  BY <1>2, <1>4 DEF Stale
<1>6. ASSUME NEW a \in Actions, NEW o \in Outputs(a[1], a[2])
      PROVE  file[o] = m[o] /\ m[o] = MadeOf(m, a[1], a[2], o) /\ IsContent(file[o])
  <2>1. a[2] \in Kinds /\ o \in registered[a].outputs
    BY <1>4, <1>6, ActionType
  <2>2. /\ Needed(cache[a], a[1], a[2]) \subseteq DOMAIN cache[a]
        /\ file[o] = MadeOf(cache[a], a[1], a[2], o) /\ IsContent(file[o])
    BY <1>4, <1>5, <1>6, <2>1 DEF Remembered, Typed
  <2>3. MadeOf(cache[a], a[1], a[2], o) = Made(a[1], a[2], o)
    BY <1>5, <1>6, <2>1, <2>2, UpToDate
  <2>4. Needed(m, a[1], a[2]) \subseteq DOMAIN m
    <3>1. Needed(m, a[1], a[2]) \subseteq Inputs(a[1], a[2])
      BY DEF Needed, ReadPartsOf, UsedJarsOf, Inputs
    <3> QED
      BY <1>3, <3>1, InputNames
  <2>5. MadeOf(m, a[1], a[2], o) = Made(a[1], a[2], o)
    BY <1>3, <1>6, <2>1, <2>4, UpToDate
  <2>6. m[o] = file[o]
    <3>1. o \in Items /\ o[2] \notin SourceNames
      BY <1>6, OutputNames
    <3> QED
      BY <1>3, <3>1 DEF Digest, SourceNames
  <2> QED
    BY <2>2, <2>3, <2>5, <2>6
<1>7. ASSUME NEW a \in Actions
      PROVE  Recalls(cache[a], m, {}, m)
  <2> SUFFICES ASSUME NEW i \in DOMAIN cache[a]
               PROVE  IF i[2] \in SourceNames THEN i[1] \notin {} => cache[a][i] = m[i]
                      ELSE Steady(i[1], {}) => Alike(i, cache[a][i], m[i], {})
    BY DEF Recalls
  <2>1. /\ i \in Items
        /\ i[2] \notin SourceNames => i \in Jars(a[1], a[2]) \cup Plugins(a[1], a[2])
    BY <1>4, <1>5, RememberedNames
  <2>2. cache[a][i] = m[i]
    BY <1>3, <1>5, <2>1
  <2>3. i[2] \notin SourceNames => IsContent(m[i])
    <3> SUFFICES ASSUME i[2] \notin SourceNames
                 PROVE  IsContent(m[i])
      OBVIOUS
    <3>1. PICK b \in Before(a) : i \in Outputs(b[1], b[2])
      BY <2>1, ReadIsMade
    <3> QED
      BY <1>4, <1>6, <3>1
  <2> QED
    BY <2>2, <2>3, AlikeFacts
<1>8. \A b \in Actions : \A o \in Outputs(b[1], b[2]) : Alike(o, m[o], MadeOf(m, b[1], b[2], o), {})
  BY <1>6, AlikeFacts
<1>9. \A b \in Actions : \A o \in Outputs(b[1], b[2]) : Alike(o, file'[o], m[o], {})
  BY <1>2, <1>6, AlikeFacts
<1>10. PICK D : D = Actions
  OBVIOUS
<1>11. Ledger(m, D)'
  BY <1>2, <1>3, <1>4, <1>7, <1>8, <1>9, <1>10, LedgerNext
<1>12. Actions' = Actions
  BY <1>2, SameDecisions DEF Actions
<1> QED
  BY <1>10, <1>11, <1>12

\* Nothing is built at first, and nothing remembered.
LEMMA InitExplains ==
  ASSUME Init
  PROVE  Explained
<1>1. \A a \in DOMAIN cache : cache[a] = None
  BY DEF Init
<1>2. Ledger(Digests, {})
  BY <1>1 DEF Ledger, Digests
<1> QED
  BY <1>2 DEF Explained

\* Every step keeps the ledger, as long as only bodies are edited.
LEMMA StepExplains ==
  ASSUME TypeOK, Planned, Remembered, Explained, [Next]_vars
  PROVE  Explained'
<1>1. SUFFICES ASSUME Quiet'
               PROVE  \E m, D : Ledger(m, D)'
  BY DEF Explained
<1>2. ASSUME NEW t \in Targets, NEW what \in {"abi", "body", "resource", "uses"}, Edit(t, what)
      PROVE  \E m, D : Ledger(m, D)'
  <2>1. Quiet
    BY <1>1, <1>2, EditFacts
  <2>2. PICK m, D : Ledger(m, D)
    BY <2>1 DEF Explained
  <2> QED
    BY <1>1, <1>2, <2>2, EditExplains
<1>3. UNCHANGED <<rules, edited>> => Quiet
  BY <1>1 DEF Quiet, OfBody
<1>4. ASSUME NEW a \in Due, Run(a)
      PROVE  \E m, D : Ledger(m, D)'
  <2>1. Quiet
    BY <1>3, <1>4 DEF Run
  <2>2. PICK m, D : Ledger(m, D)
    BY <2>1 DEF Explained
  <2> QED
    BY <1>4, <2>2, RunExplains
<1>5. ASSUME NEW a \in Due, Fail(a)
      PROVE  \E m, D : Ledger(m, D)'
  <2>1. Quiet
    BY <1>3, <1>5 DEF Fail
  <2>2. PICK m, D : Ledger(m, D)
    BY <2>1 DEF Explained
  <2> QED
    BY <1>5, <2>2, FailExplains
<1>6. CASE Built
  <2>1. PICK m : Ledger(m, Actions)'
    BY <1>6, BuiltExplains
  <2> QED
    BY <2>1
<1>7. CASE Build \/ UNCHANGED vars
  <2>1. UNCHANGED <<rules, settings, src, edited, file, cache>>
    BY <1>7 DEF Build, vars
  <2>2. Quiet
    BY <1>3, <2>1
  <2>3. PICK m, D : Ledger(m, D)
    BY <2>2 DEF Explained
  <2> QED
    BY <2>1, <2>3, LedgerStays
<1> QED
  BY <1>2, <1>4, <1>5, <1>6, <1>7 DEF Next

(* An action into whose compile nothing edited was loaded, and of whose    *)
(* own target nothing was edited, remembers what is there.                 *)
LEMMA NotStale ==
  ASSUME TypeOK, Planned, Remembered, Explained, Quiet, NEW a \in Due, cache[a] # None
  PROVE  \E e \in edited : e[1] = a[1] \/ e[1] \in Loaded(a[1])
<1> SUFFICES ASSUME a[1] \notin Touched, Steady(a[1], Touched)
             PROVE  FALSE
  BY DEF Touched, Steady
<1>1. PICK m, D : Ledger(m, D)
  BY DEF Explained
<1>2. PICK i \in DOMAIN cache[a] : cache[a][i] # Digest(i)
  BY DEF Due, Stale
<1>3. /\ a \in Actions /\ a \in DOMAIN cache
      /\ \A j \in Jars(a[1], a[2]) \cup Plugins(a[1], a[2]) :
           Steady(j[1], Touched) => Alike(j, file[j], m[j], Touched)
  BY <1>1, DueReads
<1>4. /\ i \in Items /\ (i[2] \in SourceNames => i[1] = a[1])
      /\ i[2] \notin SourceNames => i \in Jars(a[1], a[2]) \cup Plugins(a[1], a[2])
  BY <1>2, <1>3, RememberedNames
<1>5. Recalls(cache[a], m, Touched, Digests)
  BY <1>1, <1>3 DEF Ledger
<1>6. CASE i[2] \in SourceNames
  BY <1>2, <1>4, <1>5, <1>6 DEF Recalls, Digests
<1>7. CASE i[2] \notin SourceNames
  <2>1. /\ Steady(i[1], Touched)
        /\ i[2] \in {"abi", "ijar"} \/ i[1] = a[1] \/ i[1] \in Loaded(a[1])
    BY <1>3, <1>4, <1>7, ReadIsSteady
  <2>2. i[2] \in {"abi", "ijar"} \/ i[1] \notin Touched
    BY <2>1 DEF Steady
  <2>3. Alike(i, cache[a][i], m[i], Touched) /\ Alike(i, file[i], m[i], Touched)
    BY <1>2, <1>3, <1>4, <1>5, <1>7, <2>1 DEF Recalls
  <2>4. cache[a][i] = file[i]
    BY <2>2, <2>3 DEF Alike, IsContent
  <2>5. Digest(i) = file[i]
    BY <1>7 DEF Digest, SourceNames
  <2> QED
    BY <1>2, <2>4, <2>5
<1> QED
  BY <1>6, <1>7

\* An action changes what it remembers, but to forget all, only when it runs.
LEMMA OnlyRunRemembers ==
  ASSUME [Next]_vars, NEW a \in DOMAIN cache, cache'[a] \notin {None, cache[a]}
  PROVE  a \in Due
<1>1. ASSUME NEW b \in Due, Run(b) \/ Fail(b)
      PROVE  a \in Due
  <2>1. PICK c : cache' = [cache EXCEPT ![b] = c]
    BY <1>1 DEF Run, Fail
  <2> QED
    BY <2>1
<1>2. cache' = cache => FALSE
  OBVIOUS
<1> QED
  BY <1>1, <1>2 DEF Next, Build, Built, Edit, vars

(* However edits of bodies and packed resources, builds, failures and      *)
(* forgotten inputs are mixed since the last complete build, no action     *)
(* that has succeeded runs again unless its own target was edited, or a    *)
(* plugin loaded into its compile or into one that it is compiled against: *)
(* headers and ijars stop the rest (compile_common.bzl 383-385).           *)
THEOREM BodyEditsStayHome == Spec => BodyEditsStayLocal
<1> DEFINE Inv == InductiveInvariant /\ Explained
<1>1. Init => Inv
  BY InitHolds, InitExplains
<1>2. Inv /\ [Next]_vars => Inv'
  BY StepTypes, StepPlans, StepRemembers, StepSettles, StepExplains DEF InductiveInvariant
<1>3. Inv /\ [Next]_vars =>
        [\A a \in DOMAIN cache :
           (/\ cache[a] # None /\ cache'[a] \notin {None, cache[a]}
            /\ \A e \in edited : OfBody(e))
           => \E e \in edited : e[1] = a[1] \/ e[1] \in Loaded(a[1])]_vars
  <2> SUFFICES ASSUME Inv, [Next]_vars, NEW a \in DOMAIN cache, cache[a] # None,
                      cache'[a] \notin {None, cache[a]}, \A e \in edited : OfBody(e)
               PROVE  \E e \in edited : e[1] = a[1] \/ e[1] \in Loaded(a[1])
    OBVIOUS
  <2>1. a \in Due
    BY OnlyRunRemembers
  <2> QED
    BY <2>1, NotStale DEF InductiveInvariant, Quiet
<1> QED
  BY <1>1, <1>2, <1>3, PTL DEF Spec, BodyEditsStayLocal

=============================================================================
