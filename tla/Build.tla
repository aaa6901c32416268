------------------------------- MODULE Build -------------------------------
(***************************************************************************)
(* What a Kotlin compile request is and what a clean build of it yields:   *)
(* the vocabulary shared by the incremental worker and by the service it   *)
(* promises to be.                                                         *)
(*                                                                         *)
(* Bazel sends a WorkRequest: the kotlinc arguments and the action's input *)
(* files with their digests.  A digest stands for a content, so a file has *)
(* one of the contents in Digests.  A jar is the function from the sources *)
(* compiled into it to their classes; a class records everything the       *)
(* compiler read to emit it, which is all that tells two classes apart.    *)
(***************************************************************************)
EXTENDS Naturals

CONSTANTS
  Outputs,       \* output jars, by absolute normalized path
  NoOutput,      \* "out" of arguments without a usable `-- ... -d <jar>`
  Sources,       \* input paths that end in .kt or .java
  Jars,          \* input paths that end in .jar and may be on the classpath
  Others,        \* every other input path (plugins, directories, resources)
  Digests,       \* contents of a file
  NoDigest,      \* recorded for a file whose digest the request did not carry
  Options,       \* everything else in the argument list
  Conservative,  \* the options with a plugin, -P, --plugins or friend path
  Ids            \* request ids

ASSUME OutputsAssumption == NoOutput \notin Outputs
ASSUME FilesAssumption ==
  /\ Sources \cap Jars = {}
  /\ (Sources \cup Jars) \cap Others = {}
ASSUME DigestAssumption == NoDigest \notin Digests
ASSUME OptionsAssumption == Conservative \subseteq Options

\* A function on no file, class or digest.
Nothing == [f \in {} |-> NoDigest]

(* The argument list: the options, the sources named in it and the jars    *)
(* after -classpath / -cp.                                                 *)
Arguments ==
  [opt : Options, srcs : (SUBSET Sources) \ {{}}, cp : SUBSET Jars]

\* The files of an action: the named sources and every jar and other input.
FilesOf(args) == args.srcs \cup Jars \cup Others

(* A request. "content" is what its files hold while it runs; "digests"    *)
(* says whether Bazel sent the inputs with their digests or none at all    *)
(* (the one-shot path builds a request from an argument file).             *)
Request ==
  {r \in [id : Ids, out : Outputs \cup {NoOutput}, args : Arguments,
          content : UNION {[FilesOf(a) -> Digests] : a \in Arguments},
          digests : BOOLEAN] :
     r.content \in [FilesOf(r.args) -> Digests]}

\* WorkRequest.inputs: the path and the digest of every input file.
Inputs(r) == IF r.digests THEN r.content ELSE Nothing

\* The class a compiler emits for source s: it may read every library file.
ClassOf(s, args, content) ==
  [opt |-> args.opt,
   cp  |-> args.cp,
   src |-> content[s],
   lib |-> [f \in Jars \cup Others |-> content[f]]]

Class ==
  [opt : Options, cp : SUBSET Jars, src : Digests,
   lib : [Jars \cup Others -> Digests]]

\* The classes of a build from nothing.
CleanClasses(args, content) ==
  [s \in args.srcs |-> ClassOf(s, args, content)]

CleanJar(r) == CleanClasses(r.args, r.content)

\* Sets of classes, as a classes directory or a jar holds them.
ClassSet == UNION {[S -> Class] : S \in SUBSET Sources}
=============================================================================
