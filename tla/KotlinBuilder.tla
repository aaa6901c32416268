---------------------------- MODULE KotlinBuilder ----------------------------
(***************************************************************************)
(* The Kotlin builder worker (elide/kotlin/builder: Main.kt, ElideWorker.kt*)
(* and ElideCompile.run): a singleplex Bazel worker that hands a request   *)
(* to the stock builder or plans Elide commands for it, a compile and      *)
(* perhaps a source jar, and runs them one-shot or, when it was started    *)
(* with a resident, sends the compile to one long-lived Elide process.     *)
(* Whatever goes wrong with the resident, the request is run one-shot.     *)
(*                                                                         *)
(* Elide and the stock builder are not in this repository: they write the  *)
(* outputs they are asked for or fail.  The resident answers under the     *)
(* request's id or leaves the id unset, which reads as 0.                  *)
(***************************************************************************)
EXTENDS Naturals, Sequences

CONSTANTS
  Outputs,   \* the targets requests build
  Builds,    \* what tells the inputs of two requests apart
  Requests,  \* the requests Bazel may send
  None,
  MaxId,     \* a bound on the compiles sent to the resident
  Faults     \* what may go wrong, a subset of FaultKinds

(* "exit" a command fails            "throw"  a process cannot be started  *)
(* "death" the resident dies         "twice"  it sends a response twice    *)
(* "unset" it leaves ids unset       "plan"   the request cannot be planned *)
(* "deps"  the jdeps cannot be written or show a missing direct dependency *)
(* "sink"  the file that records the requests cannot be opened or written  *)
(* "temp"  a temporary directory or file cannot be created                 *)
(* "noreport" the compiler writes no used-dependency report                *)
FaultKinds ==
  {"exit", "throw", "death", "twice", "unset", "plan", "deps", "sink", "temp",
   "noreport"}

ASSUME FaultsAssumption == Faults \subseteq FaultKinds
ASSUME MaxIdAssumption == MaxId \in Nat

Artifacts == {"jar", "srcjar", "jdeps"}

(* "stock" is the Router's FALLBACK; "jdeps" says who writes the jdeps:    *)
(* native Elide, this builder from a report or (without a classpath, hence *)
(* without a report) as a stub, or nobody.                                 *)
Request ==
  [id : Nat, out : Outputs, build : Builds, stock : BOOLEAN, srcjar : BOOLEAN,
   unpack : BOOLEAN, jdeps : {"native", "report", "stub", "none"}, resident : BOOLEAN]

ASSUME RequestsAssumption == Requests \subseteq Request /\ None \notin Requests

Wanted(r) ==
  {"jar"} \cup (IF r.srcjar THEN {"srcjar"} ELSE {})
          \cup (IF r.jdeps # "none" THEN {"jdeps"} ELSE {})

\* What one command leaves of the artifacts of r: the compile and the source jar.
ByCompile(r) == {"jar"} \cup (IF r.jdeps = "native" THEN {"jdeps"} ELSE {})
BySrcjar(r) == Wanted(r) \cap {"srcjar"}

VARIABLES
  pc, req,
  resident,   \* whether the ElideWorker exists
  process,    \* its process: "none", "alive" or "dead"
  nextId,
  todo,       \* whether the process has still to compile the request sent
  pipe,       \* the responses it has written and nobody has read
  taken,      \* the ids of the requests a process has been given
  recorded,   \* what the record file holds: requests, whole or torn
  report,     \* the used-dependency report: "absent", "empty" or "filled"
  unpacked,   \* whether the request's directory of unpacked source jars exists
  leaked,     \* whether such a directory was left behind by an earlier request
  outs,       \* what the outputs hold
  depsKind,   \* what the last jdeps this builder wrote says
  code,       \* the exit code of the commands run so far
  answer

vars == <<pc, req, resident, process, nextId, todo, pipe, taken, recorded, report, unpacked,
          leaked, outs, depsKind, code, answer>>
elide == <<resident, process, nextId, todo, pipe, taken, recorded>>
temps == <<report, unpacked, leaked>>
written == <<outs, depsKind>>

Blank == [a \in Artifacts |-> None]
NoProcess == /\ process' = "none" /\ todo' = FALSE /\ pipe' = <<>>

TypeOK ==
  /\ pc \in {"read", "handle", "report", "plan", "start", "write", "tee", "sent", "rest",
             "oneshot", "deps", "close", "answer", "down"}
  /\ req \in Requests \cup {None}
  /\ resident \in BOOLEAN
  /\ process \in {"none", "alive", "dead"}
  /\ nextId \in 1..(MaxId + 1)
  /\ todo \in BOOLEAN
  /\ pipe \in Seq([id : 0..MaxId, code : {0, 1}])
  /\ taken \subseteq 1..MaxId
  /\ recorded \in Seq([id : 1..MaxId, whole : BOOLEAN])
  /\ report \in {"absent", "empty", "filled"} /\ unpacked \in BOOLEAN /\ leaked \in BOOLEAN
  /\ outs \in [Outputs -> [Artifacts -> Builds \cup {None}]]
  /\ depsKind \in {"none", "stub", "classified", "allunused"}
  /\ code \in {0, 1}
  /\ answer \in {None} \cup [id : Nat, code : {0, 1}]

Init ==
  /\ pc = "read" /\ req = None
  /\ resident = FALSE /\ process = "none" /\ nextId = 1 /\ todo = FALSE /\ pipe = <<>>
  /\ taken = {} /\ recorded = <<>> /\ report = "absent" /\ unpacked = FALSE /\ leaked = FALSE
  /\ outs = [o \in Outputs |-> Blank] /\ depsKind = "none" /\ code = 0 /\ answer = None

---------------------------------------------------------------------------
(* The main loop (lines 141-162).  The resident is created once, for the   *)
(* first request that asks for it, and stays for all later ones; a record  *)
(* file that cannot be opened throws out of the loop.                      *)
Receive ==
  /\ pc = "read"
  /\ nextId <= MaxId
  /\ req' \in Requests
  /\ answer' = None
  /\ code' = 0
  /\ \/ /\ pc' = "handle"
        /\ resident' = (resident \/ req'.resident)
     \/ /\ "sink" \in Faults
        /\ ~resident /\ req'.resident
        /\ pc' = "close"
        /\ UNCHANGED resident
  /\ UNCHANGED <<process, nextId, todo, pipe, taken, recorded, temps, written>>

\* The end of the try (lines 96-99), or an exception while there is nothing to remove.
Finish(c) == /\ pc' = "answer" /\ code' = c /\ report' = "absent" /\ unpacked' = FALSE
             /\ UNCHANGED leaked

\* The outputs o of the request are written, wholly or up to a failure.
Write(artifacts) ==
  outs' = [outs EXCEPT ![req.out] =
             [a \in Artifacts |-> IF a \in artifacts THEN req.build ELSE @[a]]]

WriteSome(artifacts) == \E some \in SUBSET artifacts : Write(some)

\* Router.route says FALLBACK: the stock builder does it all (line 57).
Stock ==
  /\ pc = "handle" /\ req.stock
  /\ \/ Write(Wanted(req)) /\ Finish(0)
     \/ Faults \cap {"exit", "throw"} # {} /\ WriteSome(Wanted(req)) /\ Finish(1)
  /\ UNCHANGED <<req, elide, depsKind, answer>>

\* The directory for the source jars is made before the try (line 66) ...
Unpack ==
  /\ pc = "handle" /\ ~req.stock
  /\ \/ /\ pc' = "report"
        /\ unpacked' = req.unpack
        /\ UNCHANGED <<report, leaked, code>>
     \/ "temp" \in Faults /\ req.unpack /\ Finish(1)
  /\ UNCHANGED <<req, elide, written, answer>>

(* ... and so is the report, an empty file (lines 70-74): if it cannot be, *)
(* the exception is answered with code 1 and the directory stays.          *)
NewReport ==
  /\ pc = "report"
  /\ \/ /\ pc' = "plan"
        /\ report' = IF req.jdeps = "report" THEN "empty" ELSE "absent"
        /\ UNCHANGED <<unpacked, leaked, code>>
     \/ /\ "temp" \in Faults /\ req.jdeps = "report"
        /\ pc' = "answer" /\ code' = 1
        /\ leaked' = (leaked \/ unpacked) /\ unpacked' = FALSE
        /\ UNCHANGED report
  /\ UNCHANGED <<req, elide, written, answer>>

\* The source jars are unpacked, the commands planned, or neither (lines 76-78).
Plan ==
  /\ pc = "plan"
  /\ \/ pc' = (IF resident THEN "start" ELSE "oneshot") /\ UNCHANGED <<temps, code>>
     \/ "plan" \in Faults /\ Finish(1)
  /\ UNCHANGED <<req, elide, written, answer>>

---------------------------------------------------------------------------
(* ElideWorker.compile (lines 67-96).  A live process is used again, any   *)
(* other replaced (ensureStarted, outside the try).                        *)
Start ==
  /\ pc = "start"
  /\ \/ /\ pc' = "write"
        /\ nextId' = nextId + 1
        /\ process' = "alive"
        /\ pipe' = IF process = "alive" THEN pipe ELSE <<>>
     \/ /\ "throw" \in Faults /\ process # "alive"
        /\ pc' = "oneshot"
        /\ UNCHANGED <<process, nextId, pipe>>
  /\ UNCHANGED <<req, resident, todo, taken, recorded, temps, written, code, answer>>

\* Request id, as the record file holds it.
Entry(id, whole) == [id |-> id, whole |-> whole]

\* A mutant: the request is recorded before it is written.
SendTeesFirst ==
  /\ pc = "write"
  /\ recorded' = Append(recorded, Entry(nextId - 1, TRUE))
  /\ IF process = "alive"
     THEN /\ pc' = "sent" /\ todo' = TRUE /\ taken' = taken \cup {nextId - 1}
          /\ UNCHANGED <<process, pipe>>
     ELSE pc' = "oneshot" /\ NoProcess /\ UNCHANGED taken
  /\ UNCHANGED <<req, resident, nextId, temps, written, code, answer>>

(* The request is in the hands of the process once the flush (lines 78-79) *)
(* returns; writing to a dead one throws.                                  *)
Send ==
  /\ pc = "write"
  /\ IF process = "alive"
     THEN /\ pc' = "tee" /\ todo' = TRUE /\ taken' = taken \cup {nextId - 1}
          /\ UNCHANGED <<process, pipe>>
     ELSE pc' = "oneshot" /\ NoProcess /\ UNCHANGED taken
  /\ UNCHANGED <<req, resident, nextId, recorded, temps, written, code, answer>>

\* The process stops wherever it is with the compile it was given.
CutShort ==
  IF todo /\ req # None
  THEN /\ WriteSome(ByCompile(req))
       /\ report' \in {report} \cup (IF report = "absent" THEN {} ELSE {"filled"})
  ELSE UNCHANGED <<outs, report>>

(* Only then is it recorded (line 80), while the process already compiles. *)
(* A file that takes the request in part, or not at all, throws: the       *)
(* process is killed, and the file kept for the requests to come.          *)
Tee ==
  /\ pc = "tee"
  /\ \/ /\ pc' = "sent"
        /\ recorded' = Append(recorded, Entry(nextId - 1, TRUE))
        /\ UNCHANGED <<process, todo, pipe, outs, report>>
     \/ /\ "sink" \in Faults
        /\ pc' = "oneshot"
        /\ recorded' \in {recorded, Append(recorded, Entry(nextId - 1, FALSE))}
        /\ NoProcess /\ CutShort
  /\ UNCHANGED <<req, resident, nextId, taken, unpacked, leaked, depsKind, code, answer>>

(* The resident compiles the request it was sent, fails at it, or dies; it *)
(* may also die between two requests.  A response without an id is sent    *)
(* once: a second one could not be told from the next request's.           *)
Reply(c) ==
  LET one == [id |-> nextId - 1, code |-> c] IN
    \/ pipe' = Append(pipe, one)
    \/ "unset" \in Faults /\ pipe' = Append(pipe, [one EXCEPT !.id = 0])
    \/ "twice" \in Faults /\ Len(pipe) = 0 /\ pipe' = <<one, one>>

ResidentCompiles ==
  /\ pc \in {"tee", "sent"} /\ process = "alive" /\ todo
  /\ todo' = FALSE
  /\ \/ /\ Write(ByCompile(req)) /\ Reply(0)
        /\ report' \in IF report = "absent" THEN {report}
                       ELSE {"filled"} \cup (IF "noreport" \in Faults THEN {report} ELSE {})
     \/ "exit" \in Faults /\ WriteSome(ByCompile(req)) /\ Reply(1) /\ UNCHANGED report
  /\ UNCHANGED <<pc, req, resident, process, nextId, taken, recorded, unpacked, leaked,
                 depsKind, code, answer>>

\* A death while the builder does something else shows at the next Start only.
ResidentDies ==
  /\ "death" \in Faults
  /\ pc \in {"read", "write", "tee", "sent"} /\ process = "alive"
  /\ process' = "dead" /\ todo' = FALSE
  /\ CutShort
  /\ UNCHANGED <<pc, req, resident, nextId, pipe, taken, recorded, unpacked, leaked, depsKind,
                 code, answer>>

\* A mutant: any response is taken for the one expected.
AnyResponse == pipe # <<>>

\* The id must line up, or be unset (line 88).
Expected == pipe # <<>> /\ Head(pipe).id \in {nextId - 1, 0}

Accept ==
  /\ pc = "sent" /\ Expected
  /\ pipe' = Tail(pipe)
  /\ IF Head(pipe).code # 0
     THEN Finish(1)
     ELSE /\ pc' = IF req.srcjar THEN "rest" ELSE "deps"
          /\ UNCHANGED <<code, temps>>
  /\ UNCHANGED <<req, resident, process, nextId, todo, taken, recorded, written, answer>>

\* A mutant: the end of the stream is not noticed.
BailOnMismatchOnly ==
  /\ pc = "sent"
  /\ pipe # <<>> /\ ~Expected
  /\ NoProcess /\ CutShort
  /\ pc' = "oneshot"
  /\ UNCHANGED <<req, resident, nextId, taken, recorded, unpacked, leaked, depsKind, code, answer>>

\* A mutant: the request is sent to a new process instead.
BailSendsAgain ==
  /\ pc = "sent"
  /\ IF pipe = <<>> THEN process = "dead" ELSE ~Expected
  /\ NoProcess /\ CutShort
  /\ pc' = "start"
  /\ UNCHANGED <<req, resident, nextId, taken, recorded, unpacked, leaked, depsKind, code, answer>>

\* The stream ended or is out of step: kill the process, run one-shot (92-94).
Bail ==
  /\ pc = "sent"
  /\ IF pipe = <<>> THEN process = "dead" ELSE ~Expected
  /\ NoProcess /\ CutShort
  /\ pc' = "oneshot"
  /\ UNCHANGED <<req, resident, nextId, taken, recorded, unpacked, leaked, depsKind, code, answer>>

---------------------------------------------------------------------------
(* compileCmds (lines 108-128): what remains after the resident's compile; *)
(* an exception here runs the whole plan again.                            *)
Rest ==
  /\ pc = "rest"
  /\ \/ Write(BySrcjar(req)) /\ pc' = "deps" /\ UNCHANGED <<code, temps>>
     \/ "exit" \in Faults /\ WriteSome(BySrcjar(req)) /\ Finish(1)
     \/ "throw" \in Faults /\ pc' = "oneshot" /\ UNCHANGED <<outs, code, temps>>
  /\ UNCHANGED <<req, elide, depsKind, answer>>

\* ElideCompile.run (lines 219-237) stops at the first command that fails.
OneShot ==
  /\ pc = "oneshot"
  /\ \/ /\ Write(ByCompile(req) \cup BySrcjar(req)) /\ pc' = "deps"
        /\ report' \in IF report = "absent" THEN {report}
                       ELSE {"filled"} \cup (IF "noreport" \in Faults THEN {report} ELSE {})
        /\ UNCHANGED <<code, unpacked, leaked>>
     \/ /\ Faults \cap {"exit", "throw"} # {}
        /\ \/ WriteSome(ByCompile(req))
           \/ \E some \in SUBSET BySrcjar(req) : Write(ByCompile(req) \cup some)
        /\ Finish(1)
  /\ UNCHANGED <<req, elide, depsKind, answer>>

\* A mutant: the temporary files of a request whose jdeps fail are kept.
DepsKeepsTemps ==
  /\ pc = "deps"
  /\ Write(Wanted(req) \cap {"jdeps"})
  /\ \/ Finish(0)
     \/ "deps" \in Faults /\ pc' = "answer" /\ code' = 1 /\ UNCHANGED temps
  /\ UNCHANGED <<req, elide, depsKind, answer>>

(* The jdeps (lines 80-98): this builder writes them, from the report if   *)
(* its file exists, or checks those native Elide wrote.                    *)
Deps ==
  /\ pc = "deps"
  /\ \/ /\ req.jdeps = "none"
        /\ Finish(0)
        /\ UNCHANGED written
     \/ /\ req.jdeps = "native"
        /\ \E c \in {0} \cup (IF "deps" \in Faults THEN {1} ELSE {}) : Finish(c)
        /\ UNCHANGED written
     \/ /\ req.jdeps \in {"report", "stub"}
        /\ depsKind' = CASE report = "absent" -> "stub"
                         [] report = "empty"  -> "allunused"
                         [] report = "filled" -> "classified"
        /\ \/ Write({"jdeps"}) /\ Finish(0)
           \/ "deps" \in Faults /\ UNCHANGED outs /\ Finish(1)
  /\ UNCHANGED <<req, elide, answer>>

Answer ==
  /\ pc = "answer"
  /\ pc' = "read"
  /\ answer' = [id |-> req.id, code |-> code]
  /\ req' = None
  /\ UNCHANGED <<elide, temps, written, code>>

---------------------------------------------------------------------------
(* End of input, or a throw out of the loop: resident.close() (lines       *)
(* 104-112) closes the process's input and destroys it after 30 seconds.   *)
EndOfInput ==
  /\ pc = "read"
  /\ pc' = "close"
  /\ UNCHANGED <<req, elide, temps, written, code, answer>>

Close ==
  /\ pc = "close"
  /\ pc' = "down" /\ req' = None
  /\ NoProcess
  /\ UNCHANGED <<resident, nextId, taken, recorded, temps, written, code, answer>>

Work ==
  \/ Stock \/ Unpack \/ NewReport \/ Plan \/ Start \/ Send \/ Tee \/ Accept \/ Bail
  \/ Rest \/ OneShot \/ Deps \/ Answer \/ Close

Elide == ResidentCompiles
Next == Receive \/ Work \/ Elide \/ ResidentDies \/ EndOfInput

(* The builder's one thread runs, and a resident that lives compiles: the  *)
(* builder reads its response without a timeout.                           *)
Spec == Init /\ [][Next]_vars /\ WF_vars(Work) /\ WF_vars(Elide)

---------------------------------------------------------------------------
(* A success means every artifact the request wanted was built from it,    *)
(* by the resident, one-shot, or by both, and no other target was touched; *)
(* each request gets one response under its own id (Main.kt 48-128).       *)
Good(r, made) == \A a \in Wanted(r) : made[a] = r.build

Service == INSTANCE CleanBuild WITH
  pending <- IF pc \in {"read", "down"} THEN None ELSE req

ImplementsService == Service!Spec

(* A request handled is answered, whatever the resident does: "A dead pipe *)
(* never wedges" (ElideWorker.kt 31).                                      *)
Answered == (pc = "handle") ~> (pc = "read" /\ answer # None)

(* From the try on (line 75), whatever then fails, in the plan, in the     *)
(* resident, in a command or in the jdeps, and however often the request   *)
(* is run again, both temporaries are gone before the next request.        *)
TryCleansUp == pc \in {"read", "down"} => report = "absent" /\ ~unpacked

(* "clean up the temp dir after" (Main.kt 65): no request, whatever fails, *)
(* leaves the directory its source jars are unpacked to.                   *)
NoTempsLeft == TryCleansUp /\ ~leaked

(* The record file is for replay (ElideWorker.kt 34-36): it lists, in the  *)
(* order they were sent, requests a process took and no other, and never   *)
(* lacks the one whose response is awaited.                                *)
RecordedWasSent ==
  /\ \A k \in DOMAIN recorded :
       /\ recorded[k].id \in taken
       /\ \A j \in 1..(k - 1) : recorded[j].id < recorded[k].id
  /\ pc = "sent" =>
       recorded # <<>> /\ recorded[Len(recorded)] = Entry(nextId - 1, TRUE)

(* "The optional [recordSink] tees every forwarded request byte-for-byte   *)
(* for offline PGO replay" (ElideWorker.kt 34-36): a request torn by a     *)
(* failed write can only be the last thing the file holds, or what follows *)
(* it cannot be read back.                                                 *)
Replayable == \A k \in 1..(Len(recorded) - 1) : recorded[k].whole

(* "Fallback for when no used-deps report is available (no classpath, or   *)
(* the report could not be produced)" (Jdeps.kt 47-48): without a report   *)
(* the jdeps are a stub, never a claim that nothing was used.              *)
StubWithoutReport == depsKind # "allunused"
=============================================================================
