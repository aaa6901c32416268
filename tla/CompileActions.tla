--------------------------- MODULE CompileActions ---------------------------
(***************************************************************************)
(* The compile rules (elide/private/compile_common.bzl): the actions that  *)
(* elide_java_* and elide_kotlin_* targets register, which jar their       *)
(* dependents compile against, and which inputs an action may forget,      *)
(* under Bazel, which runs an action again only if an input it did not     *)
(* forget has changed.                                                     *)
(*                                                                         *)
(* Bazel, the Elide compilers, ijar and singlejar are not in this          *)
(* repository.  A compiler reads the declarations of the classes its       *)
(* sources use, a processor or plugin may read whatever is on the          *)
(* classpath, and the report of unused inputs names the jars no source     *)
(* uses; a compile from incremental state reports on what it recompiled.   *)
(***************************************************************************)
EXTENDS Naturals, FiniteSets, SequencesExt

CONSTANTS
  Targets,
  Graphs,    \* the build graphs: the rule of every target, and the settings
  MaxEdits,  \* a bound on the edits of one behaviour
  None

Rule ==
  [kind : {"java", "kotlin"}, srcs : (SUBSET {"kt", "java"}) \ {{}},
   deps : SUBSET Targets, plugins : SUBSET Targets, associates : SUBSET Targets,
   processors : SUBSET Targets,   \* what the deps export as annotation processors
   javac_opts : {"plain", "processing"}, kotlinc_opts : {"plain", "processing"},
   builtin : BOOLEAN,
   resources : BOOLEAN, resourceJars : BOOLEAN,
   abi : {"inherit", "off", "separate", "combined"},
   incremental : {"inherit", "on", "off"}]

Setting ==
  [abi : BOOLEAN, combined : BOOLEAN, incremental : BOOLEAN, prune : BOOLEAN,
   jdeps : BOOLEAN]

ASSUME GraphsAssumption ==
  \A g \in Graphs :
    /\ g.rules \in [Targets -> Rule] /\ g.settings \in Setting
    /\ \A t \in Targets :
         g.rules[t].kind = "java" =>
           /\ g.rules[t].srcs = {"java"} /\ ~g.rules[t].builtin
           /\ g.rules[t].kotlinc_opts = "plain"
ASSUME EditsAssumption == MaxEdits \in Nat

VARIABLES
  rules, settings,   \* the graph built, chosen once
  registered,        \* its actions: what they read and write, and what they follow
  src,               \* the sources and resources of every target
  phase,             \* "edit", "build", or "built" until the next edit
  edited,            \* what was edited since the last complete build
  edits,
  file,              \* what each output of an action holds
  cache              \* what each action remembers of the inputs it read

vars == <<rules, settings, registered, src, phase, edited, edits, file, cache>>

Names == {"abi", "classes", "java", "jar", "ijar"}
Kinds == {"abi", "compile", "aux", "merge", "ijar"}
ClassKinds == {"kt", "java", "generated", "supplied"}

---------------------------------------------------------------------------
(* What the rules decide when they are analysed.                           *)
If(c, S) == IF c THEN S ELSE {}

Incremental(t) ==
  IF rules[t].incremental = "inherit" THEN settings.incremental
                                      ELSE rules[t].incremental = "on"

Processed(t) == rules[t].plugins # {} \/ rules[t].processors # {}

\* Processors and plugins can read what no class signature shows.
ReadsAll(t) ==
  \/ Processed(t) \/ rules[t].builtin
  \/ "processing" \in {rules[t].javac_opts, rules[t].kotlinc_opts}

\* A mutant: the reports of incremental compiles are trusted.
OpaqueToProcessors(t) == ReadsAll(t)

\* _metadata: a target whose compiles must keep all their inputs.
Opaque(t) == ReadsAll(t) \/ Incremental(t)

\* _abi_selection
AbiRequested(t) ==
  IF rules[t].abi = "inherit" THEN settings.abi ELSE rules[t].abi # "off"
AbiCombined(t) ==
  IF rules[t].abi = "inherit" THEN settings.abi /\ settings.combined
                              ELSE rules[t].abi = "combined"

HasKt(t) == "kt" \in rules[t].srcs
HasRes(t) == rules[t].resources \/ rules[t].resourceJars
SingleKt(t) == rules[t].srcs = {"kt"} /\ ~HasRes(t)

\* A mutant: resource_jars do not bring back the ijar of a Java target.
AbiWithResourceJars(t) ==
  /\ AbiRequested(t)
  /\ IF rules[t].kind = "java"
     THEN ~Processed(t) /\ rules[t].javac_opts = "plain"
     ELSE HasKt(t)

\* Whether the jar dependents compile against is a header (285, 391).
HasAbi(t) ==
  /\ AbiRequested(t)
  /\ IF rules[t].kind = "java"
     THEN ~Processed(t) /\ rules[t].javac_opts = "plain" /\ ~rules[t].resourceJars
     ELSE HasKt(t)

\* Whether the full compile writes the header as well (287, 395-399).
Fused(t) ==
  /\ HasAbi(t) /\ AbiCombined(t)
  /\ rules[t].kind = "kotlin" =>
       /\ SingleKt(t) /\ ~Incremental(t) /\ ~Processed(t) /\ ~rules[t].builtin
       /\ rules[t].kotlinc_opts = "plain" /\ rules[t].associates = {}

\* The actions a target registers.
KindsOf(t) ==
  LET kotlin == rules[t].kind = "kotlin" IN
    If(HasAbi(t) /\ ~Fused(t), {"abi"})
    \cup If(~kotlin \/ HasKt(t), {"compile"})
    \cup If(kotlin /\ "java" \in rules[t].srcs, {"aux"})
    \cup If(IF kotlin THEN ~SingleKt(t) ELSE HasRes(t), {"merge"})
    \cup If(~HasAbi(t), {"ijar"})

Actions == {a \in Targets \X Kinds : a[2] \in KindsOf(a[1])}

\* A mutant: dependents compile against the full jar.
FullJar(t) == <<t, "jar">>

\* make_java_info: the header, else what ijar makes of the full jar.
CompileJar(t) == IF HasAbi(t) THEN <<t, "abi">> ELSE <<t, "ijar">>

\* What a graph leads to from some of its nodes: they, what follows, and so on.
Reached(from, next) ==
  {x \in DOMAIN next : \A S \in SUBSET DOMAIN next :
     from \subseteq S /\ (\A y \in S : next[y] \subseteq S) => x \in S}

\* The deps of a target and theirs: its transitive compile jars.
DepsOf(t) == Reached(rules[t].deps, [d \in Targets |-> rules[d].deps])

Classpath(t) == {CompileJar(d) : d \in DepsOf(t)}
AtRuntime(S) == S \cup UNION {DepsOf(p) : p \in S}
PluginTargets(t) == AtRuntime(rules[t].plugins)
FriendJars(t) == {CompileJar(d) : d \in rules[t].associates}
MainJar(t) == <<t, IF "merge" \in KindsOf(t) THEN "classes" ELSE "jar">>
ClassJars(t) ==
  If("compile" \in KindsOf(t), {MainJar(t)}) \cup If("aux" \in KindsOf(t), {<<t, "java">>})

\* With exported processors java_common.compile takes the place of elide javac.
ByBazel(t, k) == k = "aux" /\ rules[t].processors # {}

\* The jars an action reads for the classes in them.
Jars(t, k) ==
  CASE k = "abi"     -> Classpath(t) \cup FriendJars(t)
    [] k = "compile" -> Classpath(t) \cup FriendJars(t)
    [] k = "aux"     -> Classpath(t) \cup If(HasKt(t), {MainJar(t)})
                          \cup If(ByBazel(t, k), {CompileJar(p) : p \in PluginTargets(t)})
    [] k = "merge"   -> ClassJars(t)
    [] k = "ijar"    -> {<<t, "jar">>}

\* The jars it loads: those of the plugins, or the processors the deps export.
Plugins(t, k) ==
  {<<p, "jar">> : p \in
     IF ByBazel(t, k) THEN AtRuntime(rules[t].processors)
     ELSE If(k \in {"compile", "aux"} \/ (k = "abi" /\ rules[t].kind = "kotlin"),
             PluginTargets(t))}

Own(t, k) == If(k # "ijar", {<<t, IF k = "merge" THEN "resources" ELSE "srcs">>})

Inputs(t, k) == Own(t, k) \cup Jars(t, k) \cup Plugins(t, k)

Outputs(t, k) ==
  CASE k = "abi"     -> {<<t, "abi">>}
    [] k = "compile" -> {MainJar(t)} \cup If(Fused(t), {<<t, "abi">>})
    [] k = "aux"     -> {<<t, "java">>}
    [] k = "merge"   -> {<<t, "jar">>}
    [] k = "ijar"    -> {<<t, "ijar">>}

\* The actions whose outputs an action reads, or theirs, and so on.
Before(a) == {b \in Actions : Outputs(b[1], b[2]) \cap Inputs(a[1], a[2]) # {}}
Following(a) == Reached(Before(a), [b \in Actions |-> Before(b)])

Registered ==
  [a \in Actions |-> [inputs |-> Inputs(a[1], a[2]), outputs |-> Outputs(a[1], a[2]),
                      follows |-> Following(a)]]

---------------------------------------------------------------------------
(* What the outputs hold.  A content has declarations, which are all a     *)
(* header or an ijar keeps, and code; each is what the action adds itself  *)
(* and what it saw in the parts of the jars it read.                       *)
Uses(t, langs) == {u[2] : u \in {v \in src[t].uses : v[1] \in langs}}

\* The languages whose sources action k compiles: kotlinc resolves Java.
Langs(t, k) ==
  CASE k = "abi"     -> rules[t].srcs
    [] k = "compile" -> IF rules[t].kind = "java" THEN {"java"} ELSE {"kt"}
    [] OTHER         -> {"java"}

\* What the compile k of t finds the classes it uses in.
UsedJars(t, k) ==
  {i \in Jars(t, k) : i[1] = t \/ i[1] \in Uses(t, Langs(t, k))}

ReadParts(t, k) ==
  LET jars == IF k \in {"merge", "ijar"} \/ ReadsAll(t) THEN Jars(t, k) ELSE UsedJars(t, k)
  IN jars \X {"decl"} \cup Plugins(t, k) \X {"decl", "code"}

Tree(own, parts) == [own |-> own, seen |-> [p \in parts |-> file[p[1]][p[2]]]]
Nothing == Tree(0, {})

Generated(t, k) ==
  If(IF k = "aux" THEN ByBazel(t, k) ELSE ReadsAll(t), {"generated"})

Compiled(t, k) ==
  [decl |-> Tree(src[t].abi, ReadParts(t, k)),
   code |-> Tree(src[t].body, {}),
   classes |-> IF rules[t].kind = "java"
               THEN {"java"} \cup Generated(t, k)
               ELSE IF k = "aux" THEN {"java"} \cup Generated(t, k) ELSE {"kt"}]

Header(t, k) ==
  [decl |-> Tree(src[t].abi, ReadParts(t, k)), code |-> Nothing, classes |-> rules[t].srcs]

Merged(t) ==
  LET jars == ClassJars(t) IN
    [decl |-> Tree(IF rules[t].resourceJars THEN src[t].resource ELSE 0, jars \X {"decl"}),
     code |-> Tree(src[t].resource, jars \X {"code"}),
     classes |-> (UNION {file[j].classes : j \in jars})
                   \cup If(rules[t].resourceJars, {"supplied"})]

Made(t, k, i) ==
  CASE i = <<t, "abi">>               -> Header(t, k)
    [] i # <<t, "abi">> /\ k = "merge" -> Merged(t)
    [] i # <<t, "abi">> /\ k = "ijar"  -> [file[<<t, "jar">>] EXCEPT !.code = Nothing]
    [] OTHER                          -> Compiled(t, k)

Digest(i) ==
  CASE i[2] = "srcs"      -> <<src[i[1]].abi, src[i[1]].body, src[i[1]].uses>>
    [] i[2] = "resources" -> src[i[1]].resource
    [] OTHER              -> file[i]

\* A mutant: a report that names sources and plugins as well as jars.
ReportedOfEveryInput(t, k) ==
  IF k \in {"merge", "ijar"} \/ ~settings.prune \/ Opaque(t) THEN {{}}
  ELSE {Inputs(t, k) \ UsedJars(t, k)}

(* The jars the report of a compile may call unused; without one (no       *)
(* unused_inputs_list) the action keeps all its inputs.                    *)
Reported(t, k) ==
  IF k \in {"merge", "ijar"} \/ ~settings.prune \/ Opaque(t) THEN {{}}
  ELSE IF Incremental(t) /\ k = "compile" THEN SUBSET Jars(t, k)
  ELSE {Jars(t, k) \ UsedJars(t, k)}

TypeOK ==
  /\ \E g \in Graphs : rules = g.rules /\ settings = g.settings
  /\ src \in [Targets -> [abi : Nat, body : Nat, resource : Nat,
                          uses : SUBSET ({"kt", "java"} \X Targets)]]
  /\ phase \in {"edit", "build", "built"}
  /\ edited \subseteq Targets \X {"abi", "body", "resource", "uses"}
  /\ edits \in 0..MaxEdits
  /\ DOMAIN file = Targets \X Names
  /\ \A i \in DOMAIN file : file[i] # None => file[i].classes \subseteq ClassKinds
  /\ DOMAIN registered \subseteq Targets \X Kinds /\ DOMAIN cache = DOMAIN registered
  /\ \A a \in DOMAIN cache :
       cache[a] # None =>
         /\ DOMAIN cache[a] \subseteq registered[a].inputs
         /\ registered[a].inputs \ DOMAIN cache[a] \subseteq Jars(a[1], a[2])

Init ==
  /\ \E g \in Graphs : rules = g.rules /\ settings = g.settings
  /\ registered = Registered
  \* Sources use every dep of their target, but for one target at most.
  /\ \E idle \in Targets :
       src = [t \in Targets |->
                [abi |-> 0, body |-> 0, resource |-> 0,
                 uses |-> If(t # idle, rules[t].srcs \X rules[t].deps)]]
  /\ phase = "edit" /\ edited = {} /\ edits = 0
  /\ file = [i \in Targets \X Names |-> None]
  /\ cache = [a \in DOMAIN registered |-> None]

---------------------------------------------------------------------------
\* A developer changes a body, a signature, a resource or what is used.
Edit(t, what) ==
  /\ phase # "build" /\ edits < MaxEdits
  /\ \/ /\ what # "uses"
        /\ src' = [src EXCEPT ![t][what] = @ + 1]
     \/ /\ what = "uses"
        /\ \E lang \in rules[t].srcs, d \in DepsOf(t) :
             src' = [src EXCEPT ![t].uses = SymDiff(@, {<<lang, d>>})]
  /\ phase' = "edit"
  /\ edits' = edits + 1
  /\ edited' = edited \cup {<<t, what>>}
  /\ UNCHANGED <<rules, settings, registered, file, cache>>

Build ==
  /\ phase = "edit"
  /\ phase' = "build"
  /\ UNCHANGED <<rules, settings, registered, src, edited, edits, file, cache>>

\* It never succeeded, or an input it did not forget has changed.
Stale ==
  {a \in DOMAIN cache :
     IF cache[a] = None THEN TRUE ELSE \E i \in DOMAIN cache[a] : cache[a][i] # Digest(i)}

\* The actions this build can start: all they follow is settled.
Due ==
  LET stale == Stale IN
    {a \in stale : phase = "build" /\ registered[a].follows \cap stale = {}}

Run(a) ==
  /\ file' = [i \in DOMAIN file |->
                IF i \in registered[a].outputs THEN Made(a[1], a[2], i) ELSE file[i]]
  /\ \E unused \in Reported(a[1], a[2]) :
       cache' = [cache EXCEPT ![a] = [i \in registered[a].inputs \ unused |-> Digest(i)]]
  /\ UNCHANGED <<rules, settings, registered, src, phase, edited, edits>>

\* A compile fails: its outputs are gone and the build stops.
Fail(a) ==
  /\ a[2] \in {"abi", "compile", "aux"} /\ edits < MaxEdits
  /\ file' = [i \in DOMAIN file |-> IF i \in registered[a].outputs THEN None ELSE file[i]]
  /\ cache' = [cache EXCEPT ![a] = None]
  /\ phase' = "edit"
  /\ UNCHANGED <<rules, settings, registered, src, edited, edits>>

Built ==
  /\ phase = "build" /\ Stale = {}
  /\ phase' = "built" /\ edited' = {}
  /\ UNCHANGED <<rules, settings, registered, src, edits, file, cache>>

Next ==
  \/ Build \/ Built
  \/ \E t \in Targets, what \in {"abi", "body", "resource", "uses"} : Edit(t, what)
  \/ \E a \in Due : Run(a) \/ Fail(a)

Spec == Init /\ [][Next]_vars

---------------------------------------------------------------------------
(* After a build every output is what its action makes of the present      *)
(* sources and jars, as after a clean build, whatever was edited, reused,  *)
(* forgotten or failed on the way (compile_common.bzl 133-142, 222).       *)
Current ==
  phase = "built" =>
    \A a \in DOMAIN registered : \A i \in registered[a].outputs : file[i] = Made(a[1], a[2], i)

\* What is loaded into the compiles of t: plugins and processors.
Loads(t) == {i[1] : i \in UNION {Plugins(t, k) : k \in KindsOf(t)}}

\* The targets that t is built with, and all that are loaded into their compiles.
Upstream(t) ==
  Reached({t}, [d \in Targets |-> rules[d].deps \cup rules[d].associates
                                    \cup rules[d].plugins \cup Loads(d)])
Loaded(t) == UNION {Loads(u) : u \in Upstream(t)}

\* An edit that no declaration shows.
OfBody(e) == e[2] = "body" \/ (e[2] = "resource" /\ ~rules[e[1]].resourceJars)

(* "a body-only edit yields a byte-identical header ... so Bazel prunes    *)
(* every dependent rebuild" (compile_common.bzl 383-385); an ijar does the *)
(* same.  An action that had succeeded runs again after edits of bodies    *)
(* and packed resources only for its own target, or for a plugin loaded    *)
(* into its compile or one it is compiled against: a plugin may generate   *)
(* what others see.                                                        *)
BodyEditsStayLocal ==
  [][\A a \in DOMAIN cache :
       (/\ cache[a] # None /\ cache'[a] \notin {None, cache[a]}
        /\ \A e \in edited : OfBody(e))
       => \E e \in edited : e[1] = a[1] \/ e[1] \in Loaded(a[1])]_vars

(* "Java targets with compiler plugins, annotation-processing options, or  *)
(* `resource_jars` retain `ijar` so their compile jars include generated   *)
(* or supplied classes" (README.md 180-182): what a dependent may compile  *)
(* against declares every class of the full jar.                           *)
JavaHeadersComplete ==
  phase = "built" =>
    \A t \in Targets : rules[t].kind = "java" =>
      file[CompileJar(t)].classes = file[<<t, "jar">>].classes

\* make_java_info (590-599): the compiles whose jdeps JavaInfo may advertise.
Reports(t) ==
  If(settings.jdeps, KindsOf(t) \cap ({"compile"} \cup If(rules[t].processors = {}, {"aux"})))

(* "mixed targets expose separate Java and Kotlin reports rather than an   *)
(* incomplete combined proto" (README.md 245-246): the jdeps a JavaInfo    *)
(* advertises list every dependency the sources of the target use.         *)
AdvertisedJdepsComplete ==
  phase = "built" =>
    \A t \in Targets : \A k \in Kinds :
      Reports(t) = {k} => Uses(t, rules[t].srcs) \subseteq Uses(t, Langs(t, k))
=============================================================================
