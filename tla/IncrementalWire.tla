--------------------------- MODULE IncrementalWire ---------------------------
(***************************************************************************)
(* The incremental worker with the codec of its two pipes.  Its own module *)
(* takes requests and responses as decoded; these are the promises of the  *)
(* codec it rests on, each at the point of the main loop that uses it, for *)
(* any bytes the other end may have written.                               *)
(***************************************************************************)
EXTENDS IncrementalWorker, WorkerProtocol

\* The ids of the worker's requests are those the codec carries, Java ints.
ASSUME WireIdsAssumption == Ids \subseteq Word

(***************************************************************************)
(* When main reads a request, the parser accepts exactly the messages of   *)
(* the wire format, cut as it cuts them, and loses no byte of them.        *)
(***************************************************************************)
ParsesLegalMessages == pc = "idle" => ParserIsExact

(***************************************************************************)
(* When main reads a request or compile() a response, it takes one frame   *)
(* and leaves the next untouched; a frame cut anywhere is an error, never  *)
(* a shorter message or the end of the input.                              *)
(***************************************************************************)
FramesKeptApart == pc \in {"idle", "ready"} => FramesAreApart

(***************************************************************************)
(* When a request is forwarded to the compiler with other arguments, its   *)
(* id, inputs and every field the worker does not know go with it.         *)
(***************************************************************************)
RewritingKeepsRest == pc = "ready" => RewritesArgumentsOnly

(***************************************************************************)
(* When an error is answered, Bazel reads back the id the worker read, for *)
(* the id of this request and every other of 32 bits.                      *)
(***************************************************************************)
ErrorsCarryTheirId ==
  pc = "done" /\ result.code = 1 =>
    IdsSurvive /\ ResponseOf(ErrorBytes(result.id, <<>>)).requestId = result.id
=============================================================================
