------------------------ MODULE MCIncrementalWorker ------------------------
(* Small instances of IncrementalWorker: two output jars, two sources, one *)
(* jar, one other input, two contents.                                     *)
EXTENDS IncrementalWorker

CONSTANTS o1, o2, s1, s2, jar, plugin, plain, friends

Ask(out, opt, srcs, cp, edited, digests) ==
  LET args == [opt |-> opt, srcs |-> srcs, cp |-> cp] IN
    [id |-> 0, out |-> out, args |-> args, digests |-> digests,
     content |-> [f \in FilesOf(args) |-> IF f \in edited THEN 2 ELSE 1]]

(* What Bazel may ask of o1: edits of a source, of the jar and of the      *)
(* other input; a deleted and an added source; another option, under which *)
(* the jar is edited too; a jar taken off the classpath; two requests      *)
(* without digests around an edit.  o2 is built once as it stands and once *)
(* edited, and one request names no output.                                *)
MCRequests ==
  LET both == {s1, s2} IN
    {Ask(o1, plain, both, {jar}, edited, TRUE) : edited \in {{}, {s1}, {jar}, {plugin}}}
    \cup {Ask(o1, plain, {s1}, {jar}, {}, TRUE), Ask(o1, plain, {s1}, {}, {}, TRUE)}
    \cup {Ask(o1, friends, both, {jar}, edited, TRUE) : edited \in {{}, {jar}}}
    \cup {Ask(o1, plain, {s1}, {jar}, edited, FALSE) : edited \in {{}, {s1}}}
    \cup {Ask(o2, plain, {s1}, {jar}, edited, TRUE) : edited \in {{}, {s1}}}
    \cup {Ask(NoOutput, plain, both, {jar}, {}, TRUE)}
=============================================================================
