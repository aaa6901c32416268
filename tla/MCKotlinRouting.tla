--------------------------- MODULE MCKotlinRouting ---------------------------
(* Requests as rules_kotlin's three kinds of action write them: a compile, *)
(* KAPT and KSP2, each with a few of the settings a target may add.        *)
EXTENDS KotlinRouting

F(flag, values) == [flag |-> flag, values |-> values]

MCXplugin ==
  [j \in {"ser.jar", "metro.jar", "ksp.jar"} |->
     CASE j = "ser.jar" -> "-Xplugin=ser.jar" [] j = "metro.jar" -> "-Xplugin=metro.jar"
       [] j = "ksp.jar" -> "-Xplugin=ksp.jar"]
MCAOptions == [o \in {"-Ax=1"} |-> "x=1"]
MCBuiltinFor == [j \in {"ser.jar"} |-> "serialization"]

Base == <<F("--sources", <<"A.kt", "B.kt">>), F("--kotlin_module_name", <<"m">>),
          F("--classpath", <<"a.jar", "b.jar">>), F("--direct_dependencies", <<"a.jar">>),
          F("--compiler_plugin_options", <<"metro:x=1">>), F("--target_label", <<"//:m">>),
          F("--source_jars", <<"gen.srcjar">>), F("--kotlin_language_version", <<"2.3">>)>>

\* Every way to append one choice of each setting.
Or(a, b) == {a, b}
Extend(asks, choices) == {ask \o choice : ask \in asks, choice \in choices}

Compiling ==
  Extend(Extend(Extend(Extend(Extend(
    {Base \o <<F("--output", <<"out">>), F("--kotlin_jvm_target", <<"21">>),
               F("--kotlin_friend_paths", <<"f.jar">>)>>},
    Or(<<>>, <<F("--abi_jar", <<"abi">>)>>)),
    Or(<<>>, <<F("--kotlin_output_srcjar", <<"srcs">>)>>)),
    {<<>>, <<F("--kotlin_output_jdeps", <<"jdeps">>)>>,
     <<F("--kotlin_output_jdeps", <<"jdeps">>), F("--strict_kotlin_deps", <<"warn">>)>>,
     <<F("--kotlin_output_jdeps", <<"jdeps">>), F("--strict_kotlin_deps", <<"error">>)>>}),
    {<<>>, <<F("--compiler_plugin_classpath", <<"ser.jar", "metro.jar">>)>>,
     <<F("--compiler_plugin_classpath", <<"ksp.jar">>)>>}),
    {<<>>, <<F("--kotlin_passthrough_flags",
              <<"-Xplugin=metro.jar", "-progressive", "-Xplugin=ser.jar">>)>>})

Kapting ==
  Extend(Extend(
    {Base \o <<F("--generated_java_srcjar", <<"gen">>),
               F("--kapt_generated_class_jar", <<"genclasses">>),
               F("--kapt_generated_stub_jar", <<"stubs">>), F("--processorpath", <<"p.jar">>),
               F("--processors", <<"P">>)>>},
    {<<>>, <<F("--javacopts", <<"-Ax=1">>)>>, <<F("--javacopts", <<"-Ax=1", "-nowarn">>)>>}),
    {<<>>, <<F("--stubs_plugin_options", <<"s=1">>)>>})

Ksping ==
  Extend(
    {<<F("--generated_sources_output", <<"gen">>), F("--generated_classes_output", <<"genclasses">>),
       F("--sources", <<"A.kt">>), F("--libraries", <<"a.jar">>), F("--module_name", <<"m">>),
       F("--processor_classpath", <<"p.jar">>), F("--ksp_options", <<"k=v">>),
       F("--jvm_target", <<"21">>), F("--api_version", <<"2.4">>),
       F("--language_version", <<"2.3">>), F("--target_label", <<"//:m">>)>>},
    Or(<<>>, <<F("--experimental_psi_resolution", <<"true">>)>>))

MCRequests == Compiling \cup Kapting \cup Ksping

\* The theorems' hypothesis holds of what rules_kotlin asks.
ASSUME OrdinaryRequests == \A a \in MCRequests : Ordinary(a)

\* KAPT whose javac options come with a value of their own.
MCReleases ==
  {ask \o <<F("--javacopts", <<"--release", "21">>)>> :
     ask \in {a \in Kapting : \A i \in DOMAIN a : a[i].flag # "--javacopts"}}
=============================================================================
