---------------------------- MODULE KotlinRouting ----------------------------
(***************************************************************************)
(* One request through the Kotlin builder (elide/kotlin/builder: Flagfile, *)
(* Router, BuiltinPlugins, ElideCompile.plan, Jdeps): rules_kotlin writes  *)
(* a flagfile, the builder reads it back, chooses between Elide and the    *)
(* stock builder, plans commands, runs them and sees to the jdeps.  Workers*)
(* and failures are the subject of KotlinBuilder.                          *)
(*                                                                         *)
(* Tokens are strings; what the code finds out about one by looking into   *)
(* it is a constant: whether it begins with "--", is a processor option,   *)
(* loads a plugin jar, and whether a jar holds KSP or a plugin built in.   *)
(***************************************************************************)
EXTENDS Integers, FiniteSets, SequencesExt

CONSTANTS
  Requests,   \* what rules_kotlin asks: sequences of [flag, values]
  Longs,      \* the values that begin with "--"
  AOptions,   \* what follows the "-A" of each javac option that begins so
  Xplugin,    \* the -Xplugin=<jar> flag of each plugin jar
  KspJars,    \* jars whose path holds a KSP marker
  BuiltinFor, \* the Elide builtin of each jar that duplicates one
  Unlisted,   \* a jar compilers report on that is on no classpath
  None

Flags ==
  {"--output", "--abi_jar", "--kotlin_output_jdeps", "--kotlin_output_srcjar",
   "--kotlin_module_name", "--module_name", "--sources", "--classpath", "--libraries",
   "--direct_dependencies", "--kotlin_friend_paths", "--kotlin_passthrough_flags",
   "--javacopts", "--strict_kotlin_deps", "--processors", "--processorpath",
   "--processor_classpath", "--compiler_plugin_classpath", "--compiler_plugin_options",
   "--stubs_plugin_classpath", "--stubs_plugin_options", "--kotlin_api_version",
   "--api_version", "--kotlin_jvm_target", "--jvm_target", "--generated_java_srcjar",
   "--kapt_generated_class_jar", "--kapt_generated_stub_jar", "--generated_sources_output",
   "--generated_classes_output", "--ksp_options", "--experimental_psi_resolution",
   "--source_jars", "--target_label", "--kotlin_language_version", "--language_version"}

\* What stands on a line of the flagfile: empty lines are not read (43).
Line == STRING \ {""}

ASSUME TokensAssumption ==
  /\ Requests \subseteq Seq([flag : Flags, values : Seq(Line)])
  /\ Flags \subseteq Line /\ None \notin Line \cup {"FAST", "FALLBACK"}
  /\ Longs \cap DOMAIN AOptions = {}
ASSUME JarsAssumption ==
  DOMAIN BuiltinFor \subseteq DOMAIN Xplugin /\ KspJars \subseteq DOMAIN Xplugin

VARIABLES
  native,   \* whether the toolchain has native_tools
  abiGen,   \* whether the distribution holds jvm-abi-gen.jar
  asked,    \* the request as rules_kotlin means it
  req,      \* the request as the builder understands it
  pc, route,
  cmds,     \* the commands still to be run
  made,     \* the artifacts written, by their paths
  refs,     \* what the compiler found used: jar -> "EXPLICIT" or "IMPLICIT"
  jdeps,    \* what the jdeps say: jar -> kind; None while there are none
  code

vars == <<native, abiGen, asked, req, pc, route, cmds, made, refs, jdeps, code>>
config == <<native, abiGen, asked>>

---------------------------------------------------------------------------
(* The flagfile: every flag on a line, then its values, one on each.       *)
Tokens(fields) == FlattenSeq([i \in DOMAIN fields |-> <<fields[i].flag>> \o fields[i].values])

List(m, f) == IF f \in DOMAIN m THEN m[f] ELSE <<>>

\* One token more: it opens a list, or goes to the one that is open (48-53).
Take(acc, t) ==
  IF t \in Flags \cup Longs
  THEN [map |-> [f \in DOMAIN acc.map \cup {t} |-> List(acc.map, f)], cur |-> t]
  ELSE IF acc.cur = None THEN acc
  ELSE [acc EXCEPT !.map[acc.cur] = Append(@, t)]

\* Flagfile.parse: a token that begins with "--" is a flag (49).
Parse(tokens) ==
  LET read[n \in 0..Len(tokens)] ==
        IF n = 0 THEN [map |-> [f \in {} |-> <<>>], cur |-> None]
        ELSE Take(read[n - 1], tokens[n])
  IN read[Len(tokens)].map

\* A mutant: the names the separate KSP2 action uses are not known.
OnlyTheFirst(m, f, g) == List(m, f)

\* The values under one name of a flag, or else under its other name.
Either(m, f, g) == IF List(m, f) # <<>> THEN List(m, f) ELSE List(m, g)
First(m, f) == IF List(m, f) = <<>> THEN None ELSE Head(List(m, f))
FirstOf(m, f, g) == IF First(m, f) # None THEN First(m, f) ELSE First(m, g)
Present(s) == ToSet(s) \ {None}

\* The fields of a CompileRequest (57-88).
Typed(m) ==
  [output |-> First(m, "--output"), abiJar |-> First(m, "--abi_jar"),
   jdeps |-> First(m, "--kotlin_output_jdeps"), srcjar |-> First(m, "--kotlin_output_srcjar"),
   moduleName |-> FirstOf(m, "--kotlin_module_name", "--module_name"),
   targetLabel |-> First(m, "--target_label"),
   sources |-> List(m, "--sources"), sourceJars |-> List(m, "--source_jars"),
   classpath |-> Either(m, "--classpath", "--libraries"),
   direct |-> ToSet(List(m, "--direct_dependencies")),
   friends |-> List(m, "--kotlin_friend_paths"),
   passthrough |-> List(m, "--kotlin_passthrough_flags"),
   javacOpts |-> ToSet(List(m, "--javacopts")),
   strict |-> IF First(m, "--strict_kotlin_deps") = None
              THEN "off" ELSE First(m, "--strict_kotlin_deps"),
   processors |-> ToSet(List(m, "--processors")),
   processorPath |-> Either(m, "--processorpath", "--processor_classpath"),
   plugins |-> List(m, "--compiler_plugin_classpath"),
   pluginOptions |-> List(m, "--compiler_plugin_options"),
   stubsPlugins |-> ToSet(List(m, "--stubs_plugin_classpath")),
   stubsOptions |-> ToSet(List(m, "--stubs_plugin_options")),
   apiVersion |-> FirstOf(m, "--kotlin_api_version", "--api_version"),
   languageVersion |-> FirstOf(m, "--kotlin_language_version", "--language_version"),
   jvmTarget |-> FirstOf(m, "--kotlin_jvm_target", "--jvm_target"),
   kapt |-> <<First(m, "--generated_java_srcjar"), First(m, "--kapt_generated_class_jar"),
              First(m, "--kapt_generated_stub_jar")>>,
   ksp |-> <<First(m, "--generated_sources_output"), First(m, "--generated_classes_output")>>,
   processorOptions |->
     ToSet(List(m, "--ksp_options"))
       \cup {AOptions[o] : o \in ToSet(List(m, "--javacopts")) \cap DOMAIN AOptions},
   psi |-> "true" \in ToSet(List(m, "--experimental_psi_resolution"))]

---------------------------------------------------------------------------
(* Router.route                                                            *)
RouteOf(r) ==
  IF r.ksp[1] # None THEN IF ~native \/ r.psi THEN "FALLBACK" ELSE "FAST"
  ELSE IF /\ native /\ r.kapt[1] # None
          /\ r.stubsPlugins = {} /\ r.stubsOptions = {} /\ r.javacOpts \subseteq DOMAIN AOptions
       THEN "FAST"
  ELSE IF r.processors # {} \/ (ToSet(r.plugins) \cup r.stubsPlugins) \cap KspJars # {}
       THEN "FALLBACK"
  ELSE "FAST"

---------------------------------------------------------------------------
(* ElideCompile.plan                                                       *)
Processing(r) == r.kapt[1] # None \/ r.ksp[1] # None

\* BuiltinPlugins.detect: the jars Elide has a builtin for, by either channel.
Rewritten(r) ==
  {j \in DOMAIN BuiltinFor : j \in ToSet(r.plugins) \/ Xplugin[j] \in ToSet(r.passthrough)}

Times(s, x) == Cardinality({i \in DOMAIN s : s[i] = x})

\* A mutant: plugins of the passthrough flags are loaded twice.
LoadsAll(r) ==
  [j \in DOMAIN Xplugin |->
     IF j \in Rewritten(r) THEN 0 ELSE Times(r.passthrough, Xplugin[j]) + Times(r.plugins, j)]

(* How often a plugin jar is loaded as it is, from its classpath or from   *)
(* the passthrough flags (168-172, 182).                                   *)
Loads(r) ==
  [j \in DOMAIN Xplugin |->
     IF j \in Rewritten(r) THEN 0
     ELSE IF Xplugin[j] \in ToSet(r.passthrough) THEN Times(r.passthrough, Xplugin[j])
     ELSE Times(r.plugins, j)]

\* A mutant: KAPT leaves out the stub jar.
EmitsNoStubs(r) ==
  Present(IF ~native THEN IF Processing(r) THEN <<r.abiJar>> ELSE <<r.abiJar, r.output>>
          ELSE IF r.ksp[1] # None THEN r.ksp
          ELSE IF r.kapt[1] # None THEN SubSeq(r.kapt, 1, 2)
          ELSE <<r.jdeps, r.abiJar, r.output>>)

\* The artifacts the compile is told to write (108-137, 152-162).
Emits(r) ==
  Present(IF ~native THEN IF Processing(r) THEN <<r.abiJar>> ELSE <<r.abiJar, r.output>>
          ELSE IF r.ksp[1] # None THEN r.ksp
          ELSE IF r.kapt[1] # None THEN r.kapt
          ELSE <<r.jdeps, r.abiJar, r.output>>)

\* Values on a command line, by the option or the place they stand under.
Under(name, values) == {<<name, v>> : v \in values}

(* Everything else on its command line (118-129, 138-185); a source jar    *)
(* stands for the files unpacked from it (Main.kt 76).                     *)
Args(r) ==
  Under("source", ToSet(r.sources)) \cup Under("sourcejar", ToSet(r.sourceJars))
  \cup Under("classpath", ToSet(r.classpath)) \cup Under("friend", ToSet(r.friends))
  \cup Under("module", Present(<<r.moduleName>>)) \cup Under("P", ToSet(r.pluginOptions))
  \cup Under("target", Present(<<r.jvmTarget>>)) \cup Under("api", Present(<<r.apiVersion>>))
  \cup Under("language", Present(<<r.languageVersion>>))
  \cup Under("passthrough", ToSet(r.passthrough) \ {Xplugin[j] : j \in Rewritten(r)})
  \cup (IF ~native THEN {}
        ELSE IF Processing(r)
        THEN Under("processorpath", ToSet(r.processorPath))
               \cup Under("option", r.processorOptions)
               \cup (IF r.ksp[1] = None THEN Under("processor", r.processors) ELSE {})
        ELSE Under("label", Present(<<r.targetLabel>>)))

Compile(r) ==
  [emits |-> Emits(r), loads |-> Loads(r),
   builtins |-> {BuiltinFor[j] : j \in Rewritten(r)}, args |-> Args(r)]

Plan(r) ==
  <<Compile(r)>> \o
  (IF r.srcjar # None /\ ~Processing(r)
   THEN <<[emits |-> {r.srcjar}, loads |-> [j \in DOMAIN Xplugin |-> 0], builtins |-> {},
           args |-> Under("source", ToSet(r.sources))]>>
   ELSE <<>>)

\* error("--output required"), and an ABI jar without the plugin (137, 155).
Plannable(r) ==
  /\ Processing(r) \/ r.output # None
  /\ native \/ r.abiJar = None \/ abiGen

---------------------------------------------------------------------------
(* Jdeps                                                                   *)
\* A mutant: write lists what the report names instead of the classpath.
KindsOfUsed(r) ==
  [e \in DOMAIN refs |-> IF e \in r.direct THEN "EXPLICIT" ELSE "IMPLICIT"]

\* write, from the report of used jars; a stub without a classpath (28-43).
Kinds(r) ==
  [e \in ToSet(r.classpath) |->
     IF e \notin DOMAIN refs THEN "UNUSED"
     ELSE IF e \in r.direct THEN "EXPLICIT" ELSE "IMPLICIT"]

\* The references check calls missing: native Elide's jdeps hold refs (11-13).
Missing(r) ==
  {e \in ToSet(r.classpath) \cap DOMAIN refs : refs[e] = "EXPLICIT" /\ e \notin r.direct}

\* A mutant: check fails the request whatever the mode.
FailsAlways(r) == Missing(r) # {}

\* check: "warn" only says so, "off" does not look.
Fails(r) == r.strict = "error" /\ Missing(r) # {}

---------------------------------------------------------------------------
TypeOK ==
  /\ native \in BOOLEAN /\ abiGen \in BOOLEAN /\ asked \in Requests
  /\ pc \in {"asked", "parsed", "routed", "run", "deps", "done"}
  /\ route \in {None, "FAST", "FALLBACK"}
  /\ Len(cmds) <= 2
  /\ pc # "asked" => None \notin made
  /\ jdeps # None => DOMAIN jdeps \subseteq ToSet(req.classpath)
  /\ code \in {0, 1}

Init ==
  /\ native \in BOOLEAN /\ abiGen \in BOOLEAN /\ asked \in Requests
  /\ req = None /\ pc = "asked" /\ route = None /\ cmds = <<>> /\ made = {}
  /\ refs = [j \in {} |-> "EXPLICIT"] /\ jdeps = None /\ code = 0

\* The artifacts of the request, as rules_kotlin declared them to Bazel.
Artifacts ==
  {"--output", "--abi_jar", "--kotlin_output_jdeps", "--kotlin_output_srcjar",
   "--generated_java_srcjar", "--kapt_generated_class_jar", "--kapt_generated_stub_jar",
   "--generated_sources_output", "--generated_classes_output"}
Of(a, f) == UNION {ToSet(a[i].values) : i \in {k \in DOMAIN a : a[k].flag = f}}
Asked(f) == Of(asked, f)
Declared == UNION {Asked(f) : f \in Artifacts}

(* The toolchain gives every action to the builder but KSP2's: that tool   *)
(* is replaced with native tools only (toolchain.bzl).                     *)
Launched == native \/ Asked("--generated_sources_output") = {}

StockKsp2 ==
  /\ pc = "asked" /\ ~Launched
  /\ pc' = "done"
  /\ \/ code' = 0 /\ made' = Declared
     \/ code' = 1 /\ UNCHANGED made
  /\ UNCHANGED <<config, req, route, cmds, refs, jdeps>>

Read ==
  /\ pc = "asked" /\ Launched
  /\ pc' = "parsed"
  /\ req' = Typed(Parse(Tokens(asked)))
  /\ UNCHANGED <<config, route, cmds, made, refs, jdeps, code>>

Choose ==
  /\ pc = "parsed"
  /\ pc' = "routed"
  /\ route' = RouteOf(req)
  /\ UNCHANGED <<config, req, cmds, made, refs, jdeps, code>>

\* The stock builder reads the same flagfile, and does what is asked or fails.
Stock ==
  /\ pc = "routed" /\ route = "FALLBACK"
  /\ pc' = "done"
  /\ \/ code' = 0 /\ made' = Declared
     \/ code' = 1 /\ UNCHANGED made
  /\ UNCHANGED <<config, req, route, cmds, refs, jdeps>>

MakePlan ==
  /\ pc = "routed" /\ route = "FAST"
  /\ \/ Plannable(req) /\ pc' = "run" /\ cmds' = Plan(req) /\ UNCHANGED code
     \/ ~Plannable(req) /\ pc' = "done" /\ code' = 1 /\ UNCHANGED cmds
  /\ UNCHANGED <<config, req, route, made, refs, jdeps>>

\* Elide does what it is told, or fails; the compile finds out what is used.
RunCommand ==
  /\ pc = "run" /\ cmds # <<>>
  /\ \/ /\ made' = made \cup Head(cmds).emits
        /\ cmds' = Tail(cmds)
        /\ pc' = IF Len(cmds) = 1 THEN "deps" ELSE "run"
        /\ IF made = {}
           THEN \E used \in SUBSET (ToSet(req.classpath) \cup {Unlisted}) :
                  refs' \in [used -> {"EXPLICIT", "IMPLICIT"}]
           ELSE UNCHANGED refs
        /\ UNCHANGED code
     \/ pc' = "done" /\ code' = 1 /\ UNCHANGED <<cmds, made, refs>>
  /\ UNCHANGED <<config, req, route, jdeps>>

\* Main.handle after the commands (80-95).
Deps ==
  /\ pc = "deps"
  /\ pc' = "done"
  /\ IF req.jdeps = None THEN UNCHANGED <<made, jdeps, code>>
     ELSE IF native
          THEN code' = (IF Fails(req) THEN 1 ELSE 0) /\ UNCHANGED <<made, jdeps>>
          ELSE jdeps' = Kinds(req) /\ made' = made \cup {req.jdeps} /\ UNCHANGED code
  /\ UNCHANGED <<config, req, route, cmds, refs>>

Next == StockKsp2 \/ Read \/ Choose \/ Stock \/ MakePlan \/ RunCommand \/ Deps

Spec == Init /\ [][Next]_vars

---------------------------------------------------------------------------
(* What rules_kotlin writes: no value looks like a flag, one file for each *)
(* output, one name for each setting, no plugin twice, one kind of action. *)
Plain(a) == \A i \in DOMAIN a : ToSet(a[i].values) \cap (Flags \cup Longs) = {}

SecondNames ==
  {<<"--classpath", "--libraries">>, <<"--processorpath", "--processor_classpath">>,
   <<"--kotlin_module_name", "--module_name">>, <<"--kotlin_api_version", "--api_version">>,
   <<"--kotlin_jvm_target", "--jvm_target">>,
   <<"--kotlin_language_version", "--language_version">>}

\* The artifacts of KSP2, of KAPT and of a compile.
Ksp2s == {"--generated_sources_output", "--generated_classes_output"}
Kapts ==
  {"--generated_java_srcjar", "--kapt_generated_class_jar", "--kapt_generated_stub_jar"}

\* Under flag f no value stands twice.
Distinct(a, f) ==
  \A i, j \in {k \in DOMAIN a : a[k].flag = f} :
    \A x \in DOMAIN a[i].values, y \in DOMAIN a[j].values :
      a[i].values[x] = a[j].values[y] => i = j /\ x = y

Ordinary(a) ==
  /\ Plain(a)
  /\ Distinct(a, "--compiler_plugin_classpath") /\ Distinct(a, "--kotlin_passthrough_flags")
  /\ \A f \in Artifacts
            \cup {"--kotlin_module_name", "--module_name", "--kotlin_api_version",
                  "--api_version", "--kotlin_jvm_target", "--jvm_target",
                  "--kotlin_language_version", "--language_version", "--target_label",
                  "--strict_kotlin_deps"} :
       \A v, w \in Of(a, f) : v = w
  /\ \A names \in SecondNames : Of(a, names[1]) = {} \/ Of(a, names[2]) = {}
  /\ Of(a, "--kotlin_output_jdeps") # {} => Of(a, "--libraries") = {}
  /\ \/ /\ Of(a, "--generated_sources_output") # {}
        /\ \A f \in Artifacts \ Ksp2s : Of(a, f) = {}
     \/ /\ Of(a, "--generated_java_srcjar") # {} /\ Of(a, "--processors") # {}
        /\ \A f \in Artifacts \ Kapts : Of(a, f) = {}
     \/ \A f \in Ksp2s \cup Kapts : Of(a, f) = {}

---------------------------------------------------------------------------
IsProcessing == Asked("--generated_java_srcjar") \cup Asked("--generated_sources_output") # {}

(* "Processing requests produce their declared source/class/stub jars      *)
(* only; compilation requests produce implementation/ABI jars and optional *)
(* srcjar" (ElideCompile.kt 85-86): a success leaves every artifact Bazel  *)
(* was promised, whichever route and mode made it.                         *)
DeclaredMade == pc = "done" /\ code = 0 => Declared \subseteq made

(* Every compiler plugin of a request runs exactly once: its builtin, or   *)
(* its jar, whether it came on the plugin classpath, in the passthrough    *)
(* flags or in both (ElideCompile.kt 163-172, BuiltinPlugins.kt 48-61).    *)
PluginsOnce ==
  pc = "run" /\ made = {} =>
    \A j \in DOMAIN Xplugin :
      j \in Asked("--compiler_plugin_classpath")
        \/ Xplugin[j] \in Asked("--kotlin_passthrough_flags")
      => IF j \in DOMAIN BuiltinFor
         THEN Head(cmds).loads[j] = 0 /\ BuiltinFor[j] \in Head(cmds).builtins
         ELSE Head(cmds).loads[j] = 1

\* What is asked under any of the names of a flag.
Wants(name, flags) == Under(name, UNION {Asked(f) : f \in flags})

(* What a compile must be given of what was asked.  The flags that load    *)
(* plugins are PluginsOnce's; only native Elide takes a label (122), and   *)
(* only processing takes processors and their options.                     *)
Owed ==
  Wants("source", {"--sources"}) \cup Wants("sourcejar", {"--source_jars"})
  \cup Wants("classpath", {"--classpath", "--libraries"})
  \cup Wants("friend", {"--kotlin_friend_paths"})
  \cup Wants("module", {"--kotlin_module_name", "--module_name"})
  \cup Wants("P", {"--compiler_plugin_options"})
  \cup Wants("target", {"--kotlin_jvm_target", "--jvm_target"})
  \cup Wants("api", {"--kotlin_api_version", "--api_version"})
  \cup Wants("language", {"--kotlin_language_version", "--language_version"})
  \cup Under("passthrough", Asked("--kotlin_passthrough_flags")
                              \ {Xplugin[j] : j \in DOMAIN Xplugin})
  \cup (IF IsProcessing
        THEN Wants("processorpath", {"--processorpath", "--processor_classpath"})
               \cup Wants("option", {"--ksp_options"})
               \cup Under("option",
                          {AOptions[o] : o \in Asked("--javacopts") \cap DOMAIN AOptions})
        ELSE IF native THEN Wants("label", {"--target_label"}) ELSE {})
  \cup (IF Asked("--generated_java_srcjar") # {} THEN Wants("processor", {"--processors"})
        ELSE {})

(* "optioned plugins (e.g. Metro) silently lose their options"             *)
(* (ElideCompile.kt 166): what a request asks of the compile that the      *)
(* builder plans, settings and processors included, is on the command      *)
(* line, through the flagfile, the two names of a flag and the plan.       *)
NothingLost == pc = "run" /\ made = {} => Owed \subseteq Head(cmds).args

(* Strict dependencies of native mode: after commands that succeed the     *)
(* request fails exactly if it asked for errors and a jar it does not      *)
(* declare is referred to (Jdeps.kt 8-18, Main.kt 91-94).                  *)
StrictDeps ==
  (pc = "done" /\ route = "FAST" /\ native /\ Asked("--kotlin_output_jdeps") # {} /\ cmds = <<>>
     /\ Declared \subseteq made) =>
    (code = 1 <=>
       /\ "error" \in Asked("--strict_kotlin_deps")
       /\ \E j \in Asked("--classpath") \cap DOMAIN refs :
            refs[j] = "EXPLICIT" /\ j \notin Asked("--direct_dependencies"))

(* "Requests with custom stub plugins or other javac options retain the    *)
(* stock fallback rather than silently dropping those settings"            *)
(* (docs/kotlin_builder.md 119-120).                                       *)
RetainsSettings ==
  (/\ Asked("--generated_java_srcjar") # {} /\ route # None
   /\ \/ Asked("--stubs_plugin_classpath") \cup Asked("--stubs_plugin_options") # {}
      \/ \E o \in Asked("--javacopts") : o \notin DOMAIN AOptions) =>
    route = "FALLBACK"
=============================================================================
