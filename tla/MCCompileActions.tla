-------------------------- MODULE MCCompileActions --------------------------
(* Small build graphs: a library, a target between, and one that uses both. *)
EXTENDS CompileActions

Plain(kind, deps) ==
  [kind |-> kind, srcs |-> {IF kind = "java" THEN "java" ELSE "kt"}, deps |-> deps,
   plugins |-> {}, associates |-> {}, processors |-> {}, javac_opts |-> "plain",
   kotlinc_opts |-> "plain", builtin |-> FALSE, resources |-> FALSE, resourceJars |-> FALSE,
   abi |-> "inherit", incremental |-> "inherit"]

Flags(abi, combined, incremental, prune) ==
  [abi |-> abi, combined |-> combined, incremental |-> incremental, prune |-> prune,
   jdeps |-> TRUE]

Chain(lib, mid, app, flags) ==
  [rules |-> [t \in {"lib", "mid", "app"} |->
                CASE t = "lib" -> lib [] t = "mid" -> mid [] t = "app" -> app],
   settings |-> flags]

Java(deps) == Plain("java", deps)
Kotlin(deps) == Plain("kotlin", deps)
Mixed(deps) == [Kotlin(deps) EXCEPT !.srcs = {"kt", "java"}]

MCGraphs ==
  { \* no headers; headers from separate actions; headers from the compiles
    Chain(Java({}), Kotlin({"lib"}), Java({"mid"}), Flags(FALSE, FALSE, FALSE, TRUE)),
    Chain(Java({}), Mixed({"lib"}), Kotlin({"mid"}), Flags(TRUE, FALSE, FALSE, TRUE)),
    Chain(Kotlin({}), Java({"lib"}), Kotlin({"mid", "lib"}), Flags(TRUE, TRUE, FALSE, TRUE)),
    \* an incremental target, one with a plugin, one with processors and jars
    Chain(Kotlin({}), [Kotlin({"lib"}) EXCEPT !.incremental = "on"], Kotlin({"mid"}),
          Flags(TRUE, TRUE, FALSE, TRUE)),
    Chain(Kotlin({}), [Kotlin({}) EXCEPT !.plugins = {"lib"}],
          [Kotlin({"mid"}) EXCEPT !.associates = {"mid"}, !.resources = TRUE],
          Flags(TRUE, FALSE, FALSE, FALSE)),
    Chain([Java({}) EXCEPT !.resourceJars = TRUE, !.abi = "separate"],
          [Java({"lib"}) EXCEPT !.processors = {"lib"}],
          [Mixed({"mid"}) EXCEPT !.srcs = {"java"}, !.abi = "off", !.incremental = "off"],
          Flags(TRUE, TRUE, TRUE, TRUE)),
    \* a plugin that a plugin takes part in compiling
    Chain(Kotlin({}), [Kotlin({}) EXCEPT !.plugins = {"lib"}],
          [Kotlin({}) EXCEPT !.plugins = {"mid"}], Flags(FALSE, FALSE, FALSE, TRUE)),
    \* Java options of a Kotlin target with a header from its compile; a mixed
    \* target with a plugin, whose Java sources exported processors process
    Chain([Kotlin({}) EXCEPT !.kotlinc_opts = "processing"],
          [Kotlin({"lib"}) EXCEPT !.javac_opts = "processing"],
          [Java({"mid"}) EXCEPT !.javac_opts = "processing"],
          Flags(TRUE, TRUE, FALSE, TRUE)),
    Chain(Java({}), Kotlin({}),
          [Mixed({}) EXCEPT !.processors = {"lib"}, !.plugins = {"mid"}],
          Flags(FALSE, FALSE, FALSE, TRUE)) }

\* A mixed target whose Java sources are processed by a dep's processors.
MCProcessed ==
  {Chain(Java({}), Java({}), [Mixed({"lib"}) EXCEPT !.processors = {"mid"}],
         Flags(FALSE, FALSE, FALSE, FALSE))}
=============================================================================
