-------------------------- MODULE IncrementalWorker --------------------------
(***************************************************************************)
(* elide/private/ic_worker/IncrementalWorker.java: a singleplex Bazel      *)
(* worker that keeps, per output jar, a scratch directory with the classes *)
(* and the incremental-compilation (IC) cache of the last build, and       *)
(* forwards every request to one resident compiler process.  It wipes a    *)
(* directory when the request's signature differs from the one it was      *)
(* built under; what the signature leaves out the compiler's IC must       *)
(* notice by itself.                                                       *)
(*                                                                         *)
(* The compiler is not in this repository.  It is modelled from what the   *)
(* worker relies on (lines 60-61 and 82-83): it records the digests of the *)
(* sources and the ordinary classpath jars in its cache and recompiles     *)
(* what changed, and it notices nothing else.                              *)
(***************************************************************************)
EXTENDS Build

CONSTANTS
  Requests,  \* the requests Bazel may send
  None,      \* no request, signature, reply, answer or jar
  Torn,      \* a jar whose writing was cut short
  Faults     \* what may go wrong, a subset of FaultKinds

(* "exit"    the compiler reports an error   "death"  the compiler dies     *)
(* "badid"   it answers with another id      "pack"   writing the jar fails *)
(* "mktemp"  createTempDirectory fails       "mkdirs" createDirectories fails *)
(* "remove"  removing a directory fails, before it deletes anything when a *)
(*           request resets its target; "midway" is that removal failing   *)
(*           after some of the files are gone                              *)
FaultKinds ==
  {"exit", "death", "badid", "pack", "mktemp", "mkdirs", "remove", "midway"}

ASSUME FaultsAssumption == Faults \subseteq FaultKinds
ASSUME RequestsAssumption == Requests \subseteq Request /\ None \notin Request
ASSUME AnswersAssumption ==
  None \notin [id : Ids, code : {0, 1}] /\ None \notin ClassSet
ASSUME TornAssumption == Torn \notin ClassSet

VARIABLES
  pc,        \* where the main thread is; "down" between two processes
  req,       \* the request being handled
  states,    \* the signature of each retained State, by output jar
  roots,     \* what each State's directory holds
  compiler,  \* the resident compiler process
  scratch,   \* whether the scratch directory exists
  reply,     \* what the compiler sent back, None for a closed stream
  result,    \* the response handle() produced
  answer,    \* the WorkResponse last written to Bazel
  jars       \* the output jars

vars == <<pc, req, states, roots, compiler, scratch, reply, result, answer, jars>>
memory == <<states, compiler>>
disk == <<roots, scratch, jars>>

---------------------------------------------------------------------------
(* The signature of a request (lines 59-92): every argument, and the path  *)
(* and digest of every input except sources and, unless an option makes    *)
(* the target conservative, the jars of the classpath.                     *)
\* A mutant: plugins and friends do not make a target conservative.
ExemptEveryJar(args) == Sources \cup args.cp

Exempt(args) ==
  Sources \cup (IF args.opt \in Conservative THEN {} ELSE args.cp)

Hashed(r) == DOMAIN Inputs(r) \ Exempt(r.args)

\* A mutant: it hashes files the request has no digest for.
SignatureOfEveryFile(r) ==
  [args |-> r.args,
   hashed |-> [f \in FilesOf(r.args) \ Exempt(r.args) |->
                 IF f \in DOMAIN Inputs(r) THEN Inputs(r)[f] ELSE NoDigest]]

Signature(r) ==
  [args |-> r.args, hashed |-> [f \in Hashed(r) |-> Inputs(r)[f]]]

Signatures ==
  [args : Arguments,
   hashed : UNION {[S -> Digests] : S \in SUBSET (Sources \cup Jars \cup Others)}]

ASSUME SignatureAssumption == None \notin Signatures

(* What the compiler's cache records: plugins and friend paths make it     *)
(* read jars in ways its classpath snapshot does not cover.                *)
Tracked(args) ==
  args.srcs \cup (IF args.opt \in Conservative THEN {} ELSE args.cp)

Snapshot(r) ==
  [f \in Tracked(r.args) |-> IF f \in DOMAIN Inputs(r) THEN Inputs(r)[f] ELSE NoDigest]

Snapshots ==
  UNION {[S -> Digests \cup {NoDigest}] : S \in SUBSET (Sources \cup Jars)}

Root == [classes : ClassSet, cache : Snapshots]
EmptyRoot == [classes |-> Nothing, cache |-> Nothing]

(* The sources an incremental compile recompiles: those it has no record   *)
(* of, those whose digest moved, and all of them when a tracked jar moved. *)
Moved(f, r, cache) ==
  \/ f \notin DOMAIN cache
  \/ f \in DOMAIN Inputs(r) /\ cache[f] # Inputs(r)[f]

Dirty(r, cache) ==
  {s \in r.args.srcs :
     \/ Moved(s, r, cache)
     \/ \E j \in Tracked(r.args) \ Sources : Moved(j, r, cache)}

Incremental(r, root) ==
  [classes |->
     [s \in DOMAIN root.classes \cup Dirty(r, root.cache) |->
        IF s \in Dirty(r, root.cache)
        THEN ClassOf(s, r.args, r.content)
        ELSE root.classes[s]],
   cache |-> Snapshot(r)]

---------------------------------------------------------------------------
TypeOK ==
  /\ pc \in {"idle", "received", "ready", "replied", "done", "down"}
  /\ req \in Requests \cup {None}
  /\ states \in [Outputs -> Signatures \cup {None}]
  /\ roots \in [Outputs -> Root]
  /\ compiler \in {"none", "alive", "dead"}
  /\ scratch \in BOOLEAN
  /\ reply \in [id : Ids, code : {0, 1}] \cup {None}
  /\ result \in [id : Ids, code : {0, 1}] \cup {None}
  /\ answer \in [id : Ids, code : {0, 1}] \cup {None}
  /\ jars \in [Outputs -> ClassSet \cup {None, Torn}]

Init ==
  /\ pc = "idle"
  /\ req = None
  /\ states = [o \in Outputs |-> None]
  /\ roots = [o \in Outputs |-> EmptyRoot]
  /\ compiler = "none"
  /\ scratch = TRUE
  /\ reply = None
  /\ result = None
  /\ answer = None
  /\ jars = [o \in Outputs |-> None]

---------------------------------------------------------------------------
(* The main loop: read a request, handle it, write the response.           *)
Receive ==
  /\ pc = "idle"
  /\ pc' = "received"
  /\ req' \in Requests
  /\ answer' = None
  /\ UNCHANGED <<memory, disk, reply, result>>

Done(response) == pc' = "done" /\ result' = response

Failed == Done([id |-> req.id, code |-> 1])

\* An exception of handle() becomes an error response with the request's id.
Reject ==
  /\ pc = "received"
  /\ req.out = NoOutput
  /\ Failed
  /\ UNCHANGED <<req, memory, disk, reply, answer>>

Reusable ==
  /\ states[req.out] # None
  /\ states[req.out] = Signature(req)
  /\ DOMAIN Inputs(req) # {}

Reuse ==
  /\ pc = "received"
  /\ req.out \in Outputs
  /\ Reusable
  /\ pc' = "ready"
  /\ UNCHANGED <<req, memory, disk, reply, result, answer>>

(* A new State in a new empty directory replaces the old one, whose        *)
(* directory is removed first.                                             *)
Reset ==
  /\ pc = "received"
  /\ req.out \in Outputs
  /\ ~Reusable
  /\ scratch
  /\ states' = [states EXCEPT ![req.out] = Signature(req)]
  /\ roots' = [roots EXCEPT ![req.out] = EmptyRoot]
  /\ pc' = "ready"
  /\ UNCHANGED <<req, compiler, scratch, jars, reply, result, answer>>

(* remove() deletes in reverse path order, classes before cache, so a      *)
(* removal that fails midway leaves the cache of classes that are gone.    *)
Survivors(classes) ==
  {DOMAIN classes} \cup (IF "midway" \in Faults THEN SUBSET DOMAIN classes ELSE {})

ResetFails ==
  /\ "remove" \in Faults
  /\ pc = "received"
  /\ req.out \in Outputs
  /\ ~Reusable
  /\ states[req.out] # None
  /\ \E kept \in Survivors(roots[req.out].classes) :
       roots' = [roots EXCEPT ![req.out].classes = [s \in kept |-> @[s]]]
  /\ Failed
  /\ UNCHANGED <<req, memory, scratch, jars, reply, answer>>

(* createTempDirectory fails, as it always does without scratch: the old   *)
(* State stays in the map although its directory is gone.                  *)
TempDirFails ==
  /\ "mktemp" \in Faults \/ ~scratch
  /\ pc = "received"
  /\ req.out \in Outputs
  /\ ~Reusable
  /\ roots' = [roots EXCEPT ![req.out] = EmptyRoot]
  /\ Failed
  /\ UNCHANGED <<req, memory, scratch, jars, reply, answer>>

MkdirsFails ==
  /\ "mkdirs" \in Faults
  /\ pc = "ready"
  /\ Failed
  /\ UNCHANGED <<req, memory, disk, reply, answer>>

---------------------------------------------------------------------------
(* compile(): start the compiler if there is none, forward the request and *)
(* read one response.                                                      *)
Forwarded ==
  /\ pc = "ready"
  /\ pc' = "replied"
  /\ UNCHANGED <<req, states, scratch, result, answer, jars>>

Compiles ==
  /\ Forwarded
  /\ compiler # "dead"
  /\ compiler' = "alive"
  /\ roots' = [roots EXCEPT ![req.out] = Incremental(req, @)]
  /\ \E id \in {req.id} \cup (IF "badid" \in Faults THEN Ids ELSE {}) :
       reply' = [id |-> id, code |-> 0]

\* A compile that ends early has updated any part of the directory.
HalfCompiled ==
  \E classes \in {roots[req.out].classes, Incremental(req, roots[req.out]).classes} :
    \E cache \in {roots[req.out].cache, Snapshot(req)} :
      roots' = [roots EXCEPT ![req.out] = [classes |-> classes, cache |-> cache]]

CompileError ==
  /\ Forwarded
  /\ "exit" \in Faults
  /\ compiler # "dead"
  /\ compiler' = "alive"
  /\ HalfCompiled
  /\ \E id \in {req.id} \cup (IF "badid" \in Faults THEN Ids ELSE {}) :
       reply' = [id |-> id, code |-> 1]

CompilerDies ==
  /\ Forwarded
  /\ "death" \in Faults
  /\ compiler # "dead"
  /\ compiler' = "dead"
  /\ HalfCompiled
  /\ reply' = None

\* compile() does not ask whether the process still lives: the pipe breaks.
BrokenPipe ==
  /\ Forwarded
  /\ compiler = "dead"
  /\ reply' = None
  /\ UNCHANGED <<compiler, roots>>

DiesIdle ==
  /\ "death" \in Faults
  /\ pc \in {"idle", "received"}
  /\ compiler = "alive"
  /\ compiler' = "dead"
  /\ UNCHANGED <<pc, req, states, disk, reply, result, answer>>

---------------------------------------------------------------------------
\* A mutant: the id of the compiler's response is not compared.
AnyReply == reply # None

Matched == reply # None /\ reply.id = req.id

Publish ==
  /\ pc = "replied"
  /\ Matched
  /\ reply.code = 0
  /\ jars' = [jars EXCEPT ![req.out] = roots[req.out].classes]
  /\ Done(reply)
  /\ reply' = None
  /\ UNCHANGED <<req, memory, roots, scratch, answer>>

\* A mutant: a failed compile keeps its State.
KeepsFailedState ==
  /\ pc = "replied" /\ Matched /\ reply.code # 0
  /\ Done(reply)
  /\ reply' = None
  /\ UNCHANGED <<req, memory, roots, scratch, jars, answer>>

Forget ==
  /\ pc = "replied"
  /\ Matched
  /\ reply.code # 0
  /\ states' = [states EXCEPT ![req.out] = None]
  /\ roots' = [roots EXCEPT ![req.out] = EmptyRoot]
  /\ Done(reply)
  /\ reply' = None
  /\ UNCHANGED <<req, compiler, scratch, jars, answer>>

\* A mutant: the catch block drops only the State of the failed request.
AbandonOneTarget ==
  /\ states' = [states EXCEPT ![req.out] = None]
  /\ roots' = [roots EXCEPT ![req.out] = EmptyRoot]
  /\ compiler' = "none"
  /\ scratch' = TRUE
  /\ Failed
  /\ reply' = None
  /\ UNCHANGED <<req, answer>>

(* The catch block (lines 151-159): every State is dropped, the compiler   *)
(* is killed and scratch is removed and made again; either may fail.  A    *)
(* directory no State names is never used again, so it counts as empty.    *)
Abandon ==
  /\ states' = [o \in Outputs |-> None]
  /\ roots' = [o \in Outputs |-> EmptyRoot]
  /\ compiler' = "none"
  /\ scratch' \in {TRUE} \cup (IF "mkdirs" \in Faults THEN {FALSE} ELSE {})
  /\ Failed
  /\ reply' = None
  /\ UNCHANGED <<req, answer>>

\* A mutant: a broken transport is tried again instead of reported.
TransportRetries ==
  /\ pc = "replied" /\ ~Matched
  /\ pc' = "ready"
  /\ states' = [o \in Outputs |-> IF o = req.out THEN Signature(req) ELSE None]
  /\ roots' = [o \in Outputs |-> EmptyRoot]
  /\ compiler' = "none"
  /\ reply' = None
  /\ UNCHANGED <<req, scratch, result, answer, jars>>

TransportFails ==
  /\ pc = "replied"
  /\ ~Matched
  /\ Abandon
  /\ UNCHANGED jars

PublishFails ==
  /\ "pack" \in Faults
  /\ pc = "replied"
  /\ Matched
  /\ reply.code = 0
  /\ jars' = [jars EXCEPT ![req.out] = Torn]
  /\ Abandon

ForgetFails ==
  /\ "remove" \in Faults
  /\ pc = "replied"
  /\ Matched
  /\ reply.code # 0
  /\ Abandon
  /\ UNCHANGED jars

Respond ==
  /\ pc = "done"
  /\ pc' = "idle"
  /\ answer' = result
  /\ result' = None
  /\ req' = None
  /\ UNCHANGED <<memory, disk, reply>>

---------------------------------------------------------------------------
(* The process ends: Bazel kills or stops it, or a request it cannot parse *)
(* or a response it cannot write throws out of main.  Its scratch          *)
(* directory has a random name and is never found again.                   *)
Die ==
  /\ pc # "down"
  /\ pc' = "down"
  /\ states' = [o \in Outputs |-> None]
  /\ roots' = [o \in Outputs |-> EmptyRoot]
  /\ compiler' = "none"
  /\ scratch' = TRUE
  /\ req' = None /\ reply' = None /\ result' = None
  /\ UNCHANGED <<answer, jars>>

Restart ==
  /\ pc = "down"
  /\ pc' = "idle"
  /\ UNCHANGED <<req, memory, disk, reply, result, answer>>

Handle ==
  \/ Reject \/ Reuse \/ Reset \/ ResetFails \/ TempDirFails \/ MkdirsFails
  \/ Publish \/ Forget \/ TransportFails \/ PublishFails \/ ForgetFails
  \/ Respond

Compiler == Compiles \/ CompileError \/ CompilerDies \/ BrokenPipe

Next == Receive \/ Handle \/ Compiler \/ DiesIdle \/ Die \/ Restart

Spec == Init /\ [][Next]_vars

(* The main thread runs to the next response, and the compiler answers or  *)
(* dies: the worker reads its pipe without a timeout.                      *)
FairSpec == Spec /\ WF_vars(Handle) /\ WF_vars(Compiler)

---------------------------------------------------------------------------
(* A directory agrees with the signature it is kept under when it is empty *)
(* or when some contents explain everything at once: the classes are their *)
(* clean build, the cache records them, the signature hashed the rest.     *)
Explains(content, sig, root) ==
  /\ root.classes = CleanClasses(sig.args, content)
  /\ DOMAIN root.cache = Tracked(sig.args)
  /\ \A f \in DOMAIN root.cache : root.cache[f] \in {content[f], NoDigest}
  /\ \A f \in DOMAIN sig.hashed : sig.hashed[f] = content[f]

Agrees(sig, root) ==
  \/ root = EmptyRoot
  \/ \E content \in [FilesOf(sig.args) -> Digests] : Explains(content, sig, root)

\* The target whose directory is in the hands of a compile that went wrong.
InDoubt(o) == pc = "replied" /\ o = req.out /\ (~Matched \/ reply.code # 0)

(* "Keeps Kotlin IC classes and caches together" (line 24): whenever a     *)
(* State is retained, its directory holds the classes its cache describes, *)
(* built under its signature, whatever failed, was reset or died before.   *)
KeptTogether ==
  \A o \in Outputs :
    states[o] # None /\ ~InDoubt(o) => Agrees(states[o], roots[o])

(* "Unknown compiler state is never reused" (line 152): a directory handed *)
(* to the compiler for an incremental compile is empty or holds classes    *)
(* and cache of one build under the request's own signature.               *)
NeverReusesUnknown ==
  pc = "ready" => Agrees(states[req.out], roots[req.out])

(* A request answered with success has left in its jar exactly the classes *)
(* of a clean build of that request: none stale, none of a deleted source, *)
(* whatever the worker compiled before (handle, lines 122-160).            *)
SuccessIsClean ==
  pc = "done" /\ result.code = 0 => jars[req.out] = CleanJar(req)

(* No State outlives the compiler that built it: once a compiler was given *)
(* up, the next request of every target starts from an empty directory     *)
(* (lines 152-157).                                                        *)
NoStateWithoutCompiler ==
  compiler = "none" =>
    \A o \in Outputs : states[o] # None => roots[o] = EmptyRoot

(* A request read is answered unless the process ends, whichever step of   *)
(* the handler or of the compiler fails (main, lines 197-206).             *)
Answered == pc = "received" ~> (pc = "down" \/ (pc = "idle" /\ answer # None))

(* The worker is the compile service CleanBuild describes: one answer per  *)
(* request, under its id, a success only over a clean jar.                 *)
Good(r, jar) == jar = CleanJar(r)

Service == INSTANCE CleanBuild WITH
  pending <- IF pc \in {"idle", "down"} THEN None ELSE req,
  outs <- jars,
  Blank <- None

ImplementsService == Service!Spec
=============================================================================
