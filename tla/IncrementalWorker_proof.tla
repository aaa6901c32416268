------------------------ MODULE IncrementalWorker_proof ------------------------
(***************************************************************************)
(* What the incremental worker guarantees for every set of outputs, files, *)
(* options, requests and faults, and its codec for all messages, texts and *)
(* ids.  The worker comes first, then the codec from its numbers up to     *)
(* whole messages, then the grammar of the wire format beside the parser.  *)
(***************************************************************************)
EXTENDS IncrementalWire, Lemmas

---------------------------------------------------------------------------
(* Facts about requests and clean builds.                                  *)

\* A request has the fields the worker reads, and a content for each file.
LEMMA RequestFields ==
  ASSUME NEW r \in Request
  PROVE  /\ r.id \in Ids
         /\ r.out \in Outputs \cup {NoOutput}
         /\ r.args \in Arguments
         /\ r.digests \in BOOLEAN
         /\ r.content \in [FilesOf(r.args) -> Digests]
  BY DEF Request

\* The arguments name at least one source.
LEMMA ArgumentFields ==
  ASSUME NEW args \in Arguments
  PROVE  /\ args.opt \in Options
         /\ args.srcs \subseteq Sources
         /\ args.srcs # {}
         /\ args.cp \subseteq Jars
         /\ args.srcs \subseteq FilesOf(args)
         /\ Jars \cup Others \subseteq FilesOf(args)
         /\ Tracked(args) \subseteq FilesOf(args)
  BY DEF Arguments, FilesOf, Tracked

\* What a source compiles to is a class.
LEMMA ClassType ==
  ASSUME NEW args \in Arguments, NEW content \in [FilesOf(args) -> Digests],
         NEW s \in args.srcs
  PROVE  ClassOf(s, args, content) \in Class
<1>1. /\ args.opt \in Options
      /\ args.cp \in SUBSET Jars
      /\ content[s] \in Digests
  BY ArgumentFields
<1>2. [f \in Jars \cup Others |-> content[f]] \in [Jars \cup Others -> Digests]
  BY ArgumentFields
<1> QED
  BY <1>1, <1>2 DEF ClassOf, Class

\* A clean build makes a set of classes.
LEMMA CleanType ==
  ASSUME NEW args \in Arguments, NEW content \in [FilesOf(args) -> Digests]
  PROVE  CleanClasses(args, content) \in ClassSet
<1>1. CleanClasses(args, content) \in [args.srcs -> Class]
  BY ClassType DEF CleanClasses
<1>2. args.srcs \in SUBSET Sources
  BY ArgumentFields
<1> QED
  BY <1>1, <1>2 DEF ClassSet

\* What the cache remembers of a request is a snapshot.
LEMMA SnapshotType ==
  ASSUME NEW r \in Request
  PROVE  Snapshot(r) \in Snapshots
<1>1. Tracked(r.args) \in SUBSET (Sources \cup Jars)
  BY RequestFields, ArgumentFields DEF Tracked
<1>2. Snapshot(r) \in [Tracked(r.args) -> Digests \cup {NoDigest}]
  BY RequestFields, ArgumentFields DEF Snapshot, Inputs, Nothing
<1> QED
  BY <1>1, <1>2 DEF Snapshots

\* The signature of a request is one.
LEMMA SignatureType ==
  ASSUME NEW r \in Request
  PROVE  Signature(r) \in Signatures
<1>1. Hashed(r) \in SUBSET (Sources \cup Jars \cup Others)
  <2>1. DOMAIN Inputs(r) \subseteq FilesOf(r.args)
    BY RequestFields DEF Inputs, Nothing
  <2>2. FilesOf(r.args) \subseteq Sources \cup Jars \cup Others
    BY RequestFields, ArgumentFields DEF FilesOf
  <2> QED
    BY <2>1, <2>2 DEF Hashed
<1>2. [f \in Hashed(r) |-> Inputs(r)[f]] \in [Hashed(r) -> Digests]
  BY RequestFields DEF Hashed, Inputs, Nothing
<1> QED
  BY <1>1, <1>2, RequestFields DEF Signature, Signatures

\* A fresh directory is one the type allows.
LEMMA EmptyType == EmptyRoot \in Root
<1>1. Nothing \in [{} -> Class] /\ Nothing \in [{} -> Digests \cup {NoDigest}]
  BY DEF Nothing
<1>2. Nothing \in ClassSet /\ Nothing \in Snapshots
  BY <1>1 DEF ClassSet, Snapshots
<1> QED
  BY <1>2 DEF EmptyRoot, Root

---------------------------------------------------------------------------
(* The reason incremental builds are right: what the signature leaves out  *)
(* is what the compiler's cache records.                                   *)

\* A library file is hashed into the signature or recorded in the cache.
LEMMA HashedOrTracked ==
  ASSUME NEW args \in Arguments, NEW f \in Jars \cup Others,
         f \notin Tracked(args)
  PROVE  f \notin Exempt(args)
<1>1. f \notin Sources
  BY FilesAssumption
<1> QED
  BY <1>1 DEF Tracked, Exempt

\* A clean build agrees with the signature and the cache of its request.
LEMMA CleanAgrees ==
  ASSUME NEW r \in Request
  PROVE  Agrees(Signature(r), [classes |-> CleanJar(r), cache |-> Snapshot(r)])
<1> DEFINE root == [classes |-> CleanJar(r), cache |-> Snapshot(r)]
<1>1. Explains(r.content, Signature(r), root)
  <2>1. root.classes = CleanClasses(Signature(r).args, r.content)
    BY DEF Signature, CleanJar
  <2>2. DOMAIN root.cache = Tracked(Signature(r).args)
    BY DEF Signature, Snapshot
  <2>3. \A f \in DOMAIN root.cache : root.cache[f] \in {r.content[f], NoDigest}
    <3>1. ASSUME NEW f \in Tracked(r.args)
          PROVE  root.cache[f] \in {r.content[f], NoDigest}
      <4>1. f \in DOMAIN Inputs(r) => Inputs(r)[f] = r.content[f]
        BY DEF Inputs, Nothing
      <4> QED
        BY <4>1 DEF Snapshot
    <3> QED
      BY <3>1 DEF Snapshot
  <2>4. \A f \in DOMAIN Signature(r).hashed : Signature(r).hashed[f] = r.content[f]
    BY DEF Signature, Hashed, Inputs, Nothing
  <2> QED
    BY <2>1, <2>2, <2>3, <2>4 DEF Explains
<1>2. r.content \in [FilesOf(Signature(r).args) -> Digests]
  BY RequestFields DEF Signature
<1> QED
  BY <1>1, <1>2 DEF Agrees

(* An incremental compile in a directory that agrees with the request's    *)
(* signature leaves what a clean build would.                              *)
LEMMA IncrementalIsClean ==
  ASSUME NEW r \in Request, NEW root,
         Agrees(Signature(r), root),
         DOMAIN Inputs(r) # {} \/ root = EmptyRoot
  PROVE  Incremental(r, root) = [classes |-> CleanJar(r), cache |-> Snapshot(r)]
<1> DEFINE srcs == r.args.srcs
           dirty == Dirty(r, root.cache)
<1>0. r.args \in Arguments
  BY RequestFields
<1>1. dirty \subseteq srcs
  BY DEF Dirty
<1>2. SUFFICES /\ DOMAIN root.classes \cup dirty = srcs
               /\ \A s \in srcs \ dirty :
                    root.classes[s] = ClassOf(s, r.args, r.content)
  BY <1>1 DEF Incremental, CleanJar, CleanClasses
<1>3. CASE root = EmptyRoot
  <2>1. dirty = srcs
    BY <1>3 DEF Dirty, Moved, EmptyRoot, Nothing
  <2>2. DOMAIN root.classes = {}
    BY <1>3 DEF EmptyRoot, Nothing
  <2> QED
    BY <2>1, <2>2
<1>4. CASE root # EmptyRoot
  <2>1. r.digests /\ Inputs(r) = r.content
    BY <1>4 DEF Inputs, Nothing
  <2>2. PICK old \in [FilesOf(r.args) -> Digests] : Explains(old, Signature(r), root)
    BY <1>4 DEF Agrees, Signature
  <2>3. root.classes = CleanClasses(r.args, old)
    BY <2>2 DEF Explains, Signature
  <2>4. ASSUME NEW f \in Tracked(r.args), ~Moved(f, r, root.cache)
        PROVE  old[f] = r.content[f]
    <3>1. f \in FilesOf(r.args)
      BY <1>0, ArgumentFields
    <3>2. r.content[f] \in Digests /\ f \in DOMAIN Inputs(r)
      BY <2>1, <3>1, RequestFields
    <3>3. root.cache[f] = r.content[f]
      BY <2>1, <2>4, <3>2 DEF Moved
    <3>4. root.cache[f] \in {old[f], NoDigest}
      BY <2>2, <2>4 DEF Explains, Moved
    <3> QED
      BY <3>2, <3>3, <3>4, DigestAssumption
  <2>5. ASSUME NEW s \in srcs \ dirty
        PROVE  ClassOf(s, r.args, old) = ClassOf(s, r.args, r.content)
    <3>1. old[s] = r.content[s]
      BY <2>4, <2>5 DEF Dirty, Tracked
    <3>2. ASSUME NEW f \in Jars \cup Others
          PROVE  old[f] = r.content[f]
      <4>1. CASE f \in Tracked(r.args)
        <5>1. f \notin Sources
          BY FilesAssumption
        <5>2. ~Moved(f, r, root.cache)
          BY <2>5, <4>1, <5>1 DEF Dirty
        <5> QED
          BY <2>4, <4>1, <5>2
      <4>2. CASE f \notin Tracked(r.args)
        <5>1. f \in FilesOf(r.args) /\ f \notin Exempt(r.args)
          BY <1>0, <3>2, <4>2, ArgumentFields, HashedOrTracked
        <5>2. f \in Hashed(r)
          BY <2>1, <5>1, RequestFields DEF Hashed
        <5>3. Signature(r).hashed[f] = r.content[f] /\ f \in DOMAIN Signature(r).hashed
          BY <2>1, <5>2 DEF Signature
        <5> QED
          BY <2>2, <5>3 DEF Explains
      <4> QED
        BY <4>1, <4>2
    <3> QED
      BY <3>1, <3>2 DEF ClassOf
  <2> QED
    BY <1>1, <2>3, <2>5 DEF CleanClasses
<1> QED
  BY <1>3, <1>4

---------------------------------------------------------------------------
(* Types and control, whatever faults may happen.                          *)

\* An incremental compile leaves a directory and classes to pack.
LEMMA IncrementalType ==
  ASSUME NEW r \in Request, NEW root \in Root
  PROVE  /\ Incremental(r, root) \in Root
         /\ Incremental(r, root).classes \in ClassSet
<1> DEFINE dirty == Dirty(r, root.cache)
<1>1. PICK S \in SUBSET Sources : root.classes \in [S -> Class]
  BY DEF Root, ClassSet
<1>2. dirty \subseteq r.args.srcs /\ dirty \subseteq Sources
  BY RequestFields, ArgumentFields DEF Dirty
<1>3. \A s \in dirty : ClassOf(s, r.args, r.content) \in Class
  BY <1>2, RequestFields, ClassType
<1>4. Incremental(r, root).classes \in [S \cup dirty -> Class]
  BY <1>1, <1>3 DEF Incremental
<1>5. Incremental(r, root).classes \in ClassSet
  BY <1>1, <1>2, <1>4 DEF ClassSet
<1> QED
  BY <1>5, SnapshotType DEF Root, Incremental

\* Some of the classes of a set of classes are one too.
LEMMA RestrictType ==
  ASSUME NEW classes \in ClassSet, NEW kept \in SUBSET DOMAIN classes
  PROVE  [s \in kept |-> classes[s]] \in ClassSet
<1>1. PICK S \in SUBSET Sources : classes \in [S -> Class]
  BY DEF ClassSet
<1>2. [s \in kept |-> classes[s]] \in [kept -> Class] /\ kept \in SUBSET Sources
  BY <1>1
<1> QED
  BY <1>2 DEF ClassSet

\* Where the main thread is says what it has in hand.
AtEachPoint ==
  /\ pc \in {"received", "ready", "replied", "done"} => req \in Requests
  /\ pc \in {"ready", "replied"} =>
       req.out \in Outputs /\ states[req.out] = Signature(req)
  /\ pc = "done" => result # None

\* The catch block keeps the types, whatever is left of the jar.
LEMMA AbandonTypes ==
  ASSUME TypeOK, req \in Requests, Abandon, jars' \in [Outputs -> ClassSet \cup {None, Torn}]
  PROVE  TypeOK' /\ AtEachPoint'
<1>1. [id |-> req.id, code |-> 1] \in [id : Ids, code : {0, 1}]
  BY RequestsAssumption, RequestFields
<1> QED
  BY <1>1, EmptyType, AnswersAssumption
  DEF TypeOK, AtEachPoint, Abandon, Failed, Done

\* What the compiler does keeps the types.
LEMMA ForwardTypes ==
  ASSUME TypeOK, AtEachPoint, Compiler
  PROVE  TypeOK' /\ AtEachPoint'
<1> USE DEF TypeOK, AtEachPoint, Forwarded
<1>0. req \in Request /\ req.id \in Ids /\ req.out \in Outputs
  BY RequestsAssumption, RequestFields DEF Compiler, Compiles, CompileError, CompilerDies, BrokenPipe
<1>1. Incremental(req, roots[req.out]) \in Root
  BY <1>0, IncrementalType
<1>2. ASSUME HalfCompiled
      PROVE  roots' \in [Outputs -> Root]
  BY <1>0, <1>1, <1>2, SnapshotType, IncrementalType DEF HalfCompiled, Root
<1>3. CASE Compiles
  BY <1>0, <1>1, <1>3 DEF Compiles
<1>4. CASE CompileError
  BY <1>0, <1>2, <1>4 DEF CompileError
<1>5. CASE CompilerDies
  BY <1>0, <1>2, <1>5 DEF CompilerDies
<1>6. CASE BrokenPipe
  BY <1>0, <1>6 DEF BrokenPipe
<1> QED
  BY <1>3, <1>4, <1>5, <1>6 DEF Compiler

\* What the main thread does keeps the types.
LEMMA HandleTypes ==
  ASSUME TypeOK, AtEachPoint, Handle
  PROVE  TypeOK' /\ AtEachPoint'
<1> USE DEF TypeOK, AtEachPoint, Failed, Done, memory, disk
<1>1. /\ req \in Requests /\ req \in Request
      /\ [id |-> req.id, code |-> 1] \in [id : Ids, code : {0, 1}]
      /\ None \notin [id : Ids, code : {0, 1}]
  BY RequestsAssumption, AnswersAssumption, RequestFields
  DEF Handle, Reject, Reuse, Reset, ResetFails, TempDirFails, MkdirsFails, Publish,
      Forget, TransportFails, PublishFails, ForgetFails, Respond
<1>2. CASE Reject
  BY <1>1, <1>2 DEF Reject
<1>3. CASE Reuse
  BY <1>1, <1>3 DEF Reuse, Reusable
<1>4. CASE Reset
  BY <1>1, <1>4, SignatureType, EmptyType DEF Reset
<1>5. CASE ResetFails
  <2>1. PICK kept \in Survivors(roots[req.out].classes) :
          roots' = [roots EXCEPT ![req.out].classes = [s \in kept |-> @[s]]]
    BY <1>5 DEF ResetFails
  <2>2. req.out \in Outputs /\ kept \in SUBSET DOMAIN roots[req.out].classes
    BY <1>5, <2>1 DEF ResetFails, Survivors
  <2>3. [s \in kept |-> roots[req.out].classes[s]] \in ClassSet
    BY <2>2, RestrictType DEF Root
  <2>4. roots' \in [Outputs -> Root]
    BY <2>1, <2>2, <2>3 DEF Root
  <2> QED
    BY <1>1, <1>5, <2>4 DEF ResetFails
<1>6. CASE TempDirFails
  BY <1>1, <1>6, EmptyType DEF TempDirFails
<1>7. CASE MkdirsFails
  BY <1>1, <1>7 DEF MkdirsFails
<1>8. CASE Publish
  BY <1>1, <1>8 DEF Publish, Matched, Root
<1>9. CASE Forget
  BY <1>1, <1>9, EmptyType DEF Forget, Matched
<1>10. CASE TransportFails
  BY <1>1, <1>10, AbandonTypes DEF TransportFails
<1>11. CASE PublishFails
  BY <1>1, <1>11, AbandonTypes DEF PublishFails
<1>12. CASE ForgetFails
  BY <1>1, <1>12, AbandonTypes DEF ForgetFails
<1>13. CASE Respond
  BY <1>1, <1>13 DEF Respond
<1> QED
  BY <1>2, <1>3, <1>4, <1>5, <1>6, <1>7, <1>8, <1>9, <1>10, <1>11, <1>12, <1>13
  DEF Handle

\* Every step keeps the types.
LEMMA StepTypes == TypeOK /\ AtEachPoint /\ [Next]_vars => TypeOK' /\ AtEachPoint'
<1> SUFFICES ASSUME TypeOK, AtEachPoint, [Next]_vars
             PROVE  TypeOK' /\ AtEachPoint'
  OBVIOUS
<1> USE DEF TypeOK, AtEachPoint, memory, disk
<1>1. CASE Receive
  BY <1>1 DEF Receive
<1>2. CASE DiesIdle
  BY <1>2 DEF DiesIdle
<1>3. CASE Die
  BY <1>3, EmptyType DEF Die
<1>4. CASE Restart
  BY <1>4 DEF Restart
<1>5. CASE UNCHANGED vars
  BY <1>5 DEF vars
<1> QED
  BY <1>1, <1>2, <1>3, <1>4, <1>5, HandleTypes, ForwardTypes DEF Next

\* The variables keep their types, and a request in hand is a request of Bazel.
THEOREM TypeCorrect == Spec => [](TypeOK /\ AtEachPoint)
<1>1. Init => TypeOK /\ AtEachPoint
  BY EmptyType DEF Init, TypeOK, AtEachPoint
<1> QED
  BY <1>1, StepTypes, PTL DEF Spec

---------------------------------------------------------------------------
(* Clean jars, as long as a removal fails before it deletes anything.      *)

\* A compile starts from a directory its request can build on ...
ReadyToBuild ==
  pc = "ready" => DOMAIN Inputs(req) # {} \/ roots[req.out] = EmptyRoot

\* ... and when it succeeds the directory holds a clean build.
BuiltClean ==
  pc = "replied" /\ Matched /\ reply.code = 0 =>
    roots[req.out] = [classes |-> CleanJar(req), cache |-> Snapshot(req)]

Control == TypeOK /\ AtEachPoint
CleanInv == ReadyToBuild /\ BuiltClean /\ KeptTogether /\ SuccessIsClean

\* Whatever the compiler does, what is kept can be explained and a success is clean.
LEMMA CompilerKeepsClean ==
  ASSUME Control, CleanInv, Compiler
  PROVE  CleanInv'
<1> USE DEF Control, Forwarded
<1>0. /\ pc = "ready" /\ pc' = "replied" /\ req' = req /\ states' = states
      /\ req \in Request /\ req.out \in Outputs
      /\ states[req.out] = Signature(req) /\ states[req.out] # None
  BY RequestsAssumption, SignatureAssumption, SignatureType
  DEF AtEachPoint, Compiler, Compiles, CompileError, CompilerDies, BrokenPipe
<1>1. \A o \in Outputs : states[o] # None => Agrees(states[o], roots[o])
  BY <1>0 DEF CleanInv, KeptTogether, InDoubt
<1>2. \A o \in Outputs \ {req.out} : roots'[o] = roots[o]
  BY DEF TypeOK, Compiler, Compiles, CompileError, CompilerDies, BrokenPipe, HalfCompiled
<1>3. CASE Compiles
  <2>1. roots'[req.out] = Incremental(req, roots[req.out])
    BY <1>0, <1>3 DEF Compiles, TypeOK
  <2>2. roots'[req.out] = [classes |-> CleanJar(req), cache |-> Snapshot(req)]
    BY <1>0, <1>1, <2>1, IncrementalIsClean DEF CleanInv, ReadyToBuild
  <2>3. Agrees(states[req.out], roots'[req.out])
    BY <1>0, <2>2, CleanAgrees
  <2> QED
    BY <1>0, <1>1, <1>2, <2>2, <2>3
    DEF CleanInv, ReadyToBuild, BuiltClean, KeptTogether, SuccessIsClean
<1>4. CASE ~Compiles
  <2>1. ~(Matched' /\ reply'.code = 0)
    BY <1>4 DEF Compiler, CompileError, CompilerDies, BrokenPipe, Matched
  <2> QED
    BY <1>0, <1>1, <1>2, <2>1
    DEF CleanInv, ReadyToBuild, BuiltClean, KeptTogether, InDoubt, SuccessIsClean
<1> QED
  BY <1>3, <1>4

\* The same for the main thread, if no removal fails midway.
LEMMA HandlerKeepsClean ==
  ASSUME "midway" \notin Faults, Control, CleanInv, Handle
  PROVE  CleanInv'
<1> USE DEF Control, CleanInv, ReadyToBuild, BuiltClean, KeptTogether, SuccessIsClean,
            InDoubt, Failed, Done, memory, disk
<1>0. ASSUME NEW sig PROVE Agrees(sig, EmptyRoot)
  BY DEF Agrees
<1>1. CASE Reject
  BY <1>1 DEF Reject
<1>2. CASE Reuse
  BY <1>2 DEF Reuse, Reusable
<1>3. CASE Reset
  <2>1. roots'[req.out] = EmptyRoot
    BY <1>3 DEF Reset, TypeOK
  <2>2. \A o \in Outputs \ {req.out} : roots'[o] = roots[o] /\ states'[o] = states[o]
    BY <1>3 DEF Reset, TypeOK
  <2> QED
    BY <1>0, <1>3, <2>1, <2>2 DEF Reset
<1>4. CASE ResetFails
  <2>1. roots' = [roots EXCEPT ![req.out].classes =
                    [s \in DOMAIN roots[req.out].classes |-> @[s]]]
    BY <1>4 DEF ResetFails, Survivors
  <2>2. [s \in DOMAIN roots[req.out].classes |-> roots[req.out].classes[s]]
          = roots[req.out].classes
    BY <1>4 DEF ResetFails, TypeOK, Root, ClassSet
  <2>3. roots' = roots
    BY <1>4, <2>1, <2>2 DEF ResetFails, TypeOK, Root
  <2> QED
    BY <1>4, <2>3 DEF ResetFails
<1>5. CASE TempDirFails
  BY <1>0, <1>5 DEF TempDirFails, TypeOK
<1>6. CASE MkdirsFails
  BY <1>6 DEF MkdirsFails
<1>7. CASE Publish
  BY <1>7 DEF Publish, TypeOK, AtEachPoint
<1>8. CASE Forget
  BY <1>8 DEF Forget, TypeOK
<1>9. CASE TransportFails \/ PublishFails \/ ForgetFails
  <2>1. /\ pc' = "done"
        /\ result' = [id |-> req.id, code |-> 1]
        /\ states' = [o \in Outputs |-> None]
    BY <1>9 DEF TransportFails, PublishFails, ForgetFails, Abandon
  <2>2. result'.code # 0 /\ \A o \in Outputs : states'[o] = None
    BY <2>1
  <2> QED
    BY <2>1, <2>2
<1>10. CASE Respond
  BY <1>10 DEF Respond
<1> QED
  BY <1>1, <1>2, <1>3, <1>4, <1>5, <1>6, <1>7, <1>8, <1>9, <1>10 DEF Handle

\* The same for every step.
LEMMA StepKeepsClean ==
  ASSUME "midway" \notin Faults
  PROVE  Control /\ CleanInv /\ [Next]_vars => CleanInv'
<1> SUFFICES ASSUME Control, CleanInv, [Next]_vars
             PROVE  CleanInv'
  OBVIOUS
<1> USE DEF Control, CleanInv, ReadyToBuild, BuiltClean, KeptTogether, SuccessIsClean,
            InDoubt, memory, disk
<1>1. CASE Receive
  BY <1>1 DEF Receive
<1>2. CASE DiesIdle
  BY <1>2 DEF DiesIdle
<1>3. CASE Die
  BY <1>3 DEF Die
<1>4. CASE Restart
  BY <1>4 DEF Restart
<1>5. CASE UNCHANGED vars
  BY <1>5 DEF vars, Matched
<1> QED
  BY <1>1, <1>2, <1>3, <1>4, <1>5, HandlerKeepsClean, CompilerKeepsClean DEF Next

\* The inductive invariant of the worker holds in every state.
LEMMA CleanAlways ==
  ASSUME "midway" \notin Faults
  PROVE  Spec => [](Control /\ CleanInv)
<1>1. Init => Control /\ CleanInv
  BY EmptyType DEF Init, Control, TypeOK, AtEachPoint, CleanInv, ReadyToBuild, BuiltClean,
     KeptTogether, SuccessIsClean
<1>2. Control /\ CleanInv /\ [Next]_vars => (Control /\ CleanInv)'
  BY StepTypes, StepKeepsClean DEF Control
<1> QED
  BY <1>1, <1>2, PTL DEF Spec

(* A retained directory always holds the classes its cache describes.      *)
THEOREM ClassesAndCacheTogether ==
  ASSUME "midway" \notin Faults
  PROVE  Spec => []KeptTogether
<1>1. Control /\ CleanInv => KeptTogether
  BY DEF CleanInv
<1> QED
  BY <1>1, CleanAlways, PTL

(* Whatever the worker was asked before, and whatever failed or died in    *)
(* between, a success means the jar of a clean build.                      *)
THEOREM SuccessfulJarsAreClean ==
  ASSUME "midway" \notin Faults
  PROVE  Spec => []SuccessIsClean
<1>1. Control /\ CleanInv => SuccessIsClean
  BY DEF CleanInv
<1> QED
  BY <1>1, CleanAlways, PTL

---------------------------------------------------------------------------
(* Giving a compiler up leaves nothing it built.                           *)

\* Restricting the classes of an empty directory leaves it empty.
LEMMA RestrictEmpty ==
  ASSUME NEW kept \in SUBSET DOMAIN EmptyRoot.classes
  PROVE  [EmptyRoot EXCEPT !.classes = [s \in kept |-> @[s]]] = EmptyRoot
<1>1. kept = {} /\ EmptyRoot.classes = Nothing
  BY DEF EmptyRoot, Nothing
<1>2. [s \in kept |-> EmptyRoot.classes[s]] = Nothing
  BY <1>1 DEF Nothing
<1> QED
  BY <1>1, <1>2 DEF EmptyRoot

\* No step gives up the compiler and keeps a State.
LEMMA StepEmptiesWithCompiler ==
  ASSUME TypeOK, NoStateWithoutCompiler, [Next]_vars
  PROVE  NoStateWithoutCompiler'
<1> USE DEF TypeOK, NoStateWithoutCompiler, Failed, Done, memory, disk
<1>1. ASSUME compiler' = compiler, states' = states, roots' = roots
      PROVE  NoStateWithoutCompiler'
  BY <1>1
<1>2. ASSUME compiler' = compiler, req.out \in Outputs,
             roots' = [roots EXCEPT ![req.out] = EmptyRoot],
             \A o \in Outputs \ {req.out} : states'[o] = states[o]
      PROVE  NoStateWithoutCompiler'
  BY <1>2
<1>3. ASSUME states' = [o \in Outputs |-> None]
      PROVE  NoStateWithoutCompiler'
  BY <1>3
<1>4. CASE Reset
  <2>1. \A o \in Outputs \ {req.out} : states'[o] = states[o]
    BY <1>4 DEF Reset
  <2> QED
    BY <1>2, <1>4, <2>1 DEF Reset
<1>5. CASE ResetFails
  <2>1. PICK kept \in SUBSET DOMAIN roots[req.out].classes :
          roots' = [roots EXCEPT ![req.out].classes = [s \in kept |-> @[s]]]
    BY <1>5 DEF ResetFails, Survivors
  <2>2. ASSUME compiler' = "none", NEW o \in Outputs, states'[o] # None
        PROVE  roots'[o] = EmptyRoot
    <3>1. roots[o] = EmptyRoot
      BY <1>5, <2>2 DEF ResetFails
    <3>2. CASE o = req.out
      <4>1. roots'[o] = [EmptyRoot EXCEPT !.classes = [s \in kept |-> @[s]]]
        BY <2>1, <3>1, <3>2
      <4> QED
        BY <2>1, <3>1, <3>2, <4>1, RestrictEmpty
    <3>3. CASE o # req.out
      BY <2>1, <3>1, <3>3
    <3> QED
      BY <3>2, <3>3
  <2> QED
    BY <2>2
<1>6. CASE TempDirFails
  BY <1>2, <1>6 DEF TempDirFails
<1>7. CASE Forget
  <2>1. \A o \in Outputs : states'[o] # None => states'[o] = states[o] /\ roots'[o] = roots[o]
    BY <1>7 DEF Forget
  <2> QED
    BY <1>7, <2>1 DEF Forget
<1>8. CASE TransportFails \/ PublishFails \/ ForgetFails \/ Die
  BY <1>3, <1>8 DEF TransportFails, PublishFails, ForgetFails, Abandon, Die
<1>9. CASE Compiler
  <2>1. CASE BrokenPipe
    BY <1>1, <2>1 DEF BrokenPipe, Forwarded
  <2>2. CASE ~BrokenPipe
    BY <1>9, <2>2 DEF Compiler, Compiles, CompileError, CompilerDies
  <2> QED
    BY <2>1, <2>2
<1>10. CASE Reject \/ Reuse \/ MkdirsFails \/ Publish \/ Respond \/ Receive \/ Restart
  BY <1>1, <1>10 DEF Reject, Reuse, MkdirsFails, Publish, Respond, Receive, Restart
<1>11. CASE DiesIdle
  BY <1>11 DEF DiesIdle
<1>12. CASE UNCHANGED vars
  BY <1>1, <1>12 DEF vars
<1> QED
  BY <1>4, <1>5, <1>6, <1>7, <1>8, <1>9, <1>10, <1>11, <1>12 DEF Next, Handle

(* Once a compiler is given up no State refers to a directory with         *)
(* anything in it, so the next build of each target starts from nothing.   *)
THEOREM NothingOutlivesCompiler == Spec => []NoStateWithoutCompiler
<1>1. Init => NoStateWithoutCompiler
  BY DEF Init, NoStateWithoutCompiler
<1>2. TypeOK /\ NoStateWithoutCompiler /\ [Next]_vars => NoStateWithoutCompiler'
  BY StepEmptiesWithCompiler
<1> QED
  BY <1>1, <1>2, TypeCorrect, PTL DEF Spec

---------------------------------------------------------------------------
(* The worker implements the compile service of CleanBuild.                *)

\* The response of a finished request is under its id, and a success has a jar.
ResultIsOurs ==
  pc = "done" => result.id = req.id /\ (result.code = 0 => req.out \in Outputs)

\* A result is of the request being handled.
LEMMA StepAnswersOurs ==
  ASSUME Control, ResultIsOurs, [Next]_vars
  PROVE  ResultIsOurs'
<1> USE DEF Control, TypeOK, AtEachPoint, ResultIsOurs, memory, disk
<1>1. ASSUME pc' # "done"
      PROVE  ResultIsOurs'
  BY <1>1
<1>2. ASSUME Failed, req' = req
      PROVE  ResultIsOurs'
  BY <1>2 DEF Failed, Done
<1>3. CASE Reject \/ ResetFails \/ TempDirFails \/ MkdirsFails
  BY <1>2, <1>3 DEF Reject, ResetFails, TempDirFails, MkdirsFails
<1>4. CASE TransportFails \/ PublishFails \/ ForgetFails
  BY <1>2, <1>4 DEF TransportFails, PublishFails, ForgetFails, Abandon
<1>5. CASE Publish \/ Forget
  BY <1>5 DEF Publish, Forget, Matched, Done
<1>6. CASE Reuse \/ Reset \/ Respond \/ Receive \/ Compiler \/ Die \/ Restart
  BY <1>1, <1>6 DEF Reuse, Reset, Respond, Receive, Compiler, Compiles, CompileError,
     CompilerDies, BrokenPipe, Forwarded, Die, Restart
<1>7. CASE DiesIdle
  BY <1>1, <1>7 DEF DiesIdle
<1>8. CASE UNCHANGED vars
  BY <1>8 DEF vars
<1> QED
  BY <1>3, <1>4, <1>5, <1>6, <1>7, <1>8 DEF Next, Handle

\* Every step of the worker is a step of the service or changes nothing of it.
LEMMA StepServes ==
  ASSUME Control, SuccessIsClean, ResultIsOurs, [Next]_vars
  PROVE  [Service!Next]_(Service!cvars)
<1> USE DEF Control, TypeOK, AtEachPoint, memory, disk, Service!cvars
<1>0. None \notin Requests
  BY RequestsAssumption
<1>1. ASSUME pc \notin {"idle", "down"}, pc' \notin {"idle", "down"},
             req' = req, answer' = answer, jars' = jars
      PROVE  UNCHANGED Service!cvars
  BY <1>1
<1>2. ASSUME pc \in {"idle", "down"}, pc' \in {"idle", "down"}, answer' = answer, jars' = jars
      PROVE  UNCHANGED Service!cvars
  BY <1>2
<1>3. CASE Receive
  <2>1. Service!Submit
    BY <1>3 DEF Receive, Service!Submit
  <2> QED
    BY <2>1 DEF Service!Next
<1>4. CASE Reject \/ Reuse \/ Reset \/ ResetFails \/ TempDirFails \/ MkdirsFails \/ Forget
             \/ TransportFails \/ ForgetFails
  BY <1>1, <1>4 DEF Reject, Reuse, Reset, ResetFails, TempDirFails, MkdirsFails, Forget,
     TransportFails, ForgetFails, Abandon, Failed, Done
<1>5. CASE Compiler
  BY <1>1, <1>5 DEF Compiler, Compiles, CompileError, CompilerDies, BrokenPipe, Forwarded
<1>6. CASE Publish \/ PublishFails
  <2>1. /\ pc = "replied" /\ pc' = "done" /\ req' = req /\ answer' = answer
        /\ \E jar : jars' = [jars EXCEPT ![req.out] = jar]
    BY <1>6 DEF Publish, PublishFails, Abandon, Failed, Done
  <2>2. Service!Work
    BY <1>0, <2>1 DEF Service!Work
  <2> QED
    BY <2>2 DEF Service!Next
<1>7. CASE Respond
  <2>1. /\ pc = "done" /\ pc' = "idle" /\ answer' = result /\ jars' = jars
        /\ req \in Requests /\ result.id = req.id
        /\ result = [id |-> result.id, code |-> result.code] /\ result.code \in {0, 1}
    BY <1>7, AnswersAssumption DEF Respond, ResultIsOurs
  <2>2. CASE result.code = 1
    <3>1. Service!Fail
      BY <1>0, <2>1, <2>2 DEF Service!Fail
    <3> QED
      BY <3>1 DEF Service!Next
  <2>3. CASE result.code = 0
    <3>1. req.out \in Outputs /\ Good(req, jars[req.out])
      BY <2>1, <2>3 DEF ResultIsOurs, SuccessIsClean, Good
    <3>2. Service!Succeed
      BY <1>0, <2>1, <2>3, <3>1 DEF Service!Succeed
    <3> QED
      BY <3>2 DEF Service!Next
  <2> QED
    BY <2>1, <2>2, <2>3
<1>8. CASE DiesIdle
  BY <1>1, <1>2, <1>8 DEF DiesIdle
<1>9. CASE Die
  <2>1. CASE pc = "idle"
    BY <1>2, <1>9, <2>1 DEF Die
  <2>2. CASE pc # "idle"
    <3>1. Service!Die
      BY <1>0, <1>9, <2>2 DEF Die, Service!Die
    <3> QED
      BY <3>1 DEF Service!Next
  <2> QED
    BY <2>1, <2>2
<1>10. CASE Restart
  BY <1>2, <1>10 DEF Restart
<1>11. CASE UNCHANGED vars
  BY <1>11 DEF vars
<1> QED
  BY <1>3, <1>4, <1>5, <1>6, <1>7, <1>8, <1>9, <1>10, <1>11 DEF Next, Handle

(* Seen from Bazel the worker is a service that answers a request once,    *)
(* under its id, writes its jar only, and says success over a clean build. *)
THEOREM WorkerImplementsService ==
  ASSUME "midway" \notin Faults
  PROVE  Spec => ImplementsService
<1>1. Init => Service!Init
  BY DEF Init, Service!Init
<1>2. Init => ResultIsOurs
  BY DEF Init, ResultIsOurs
<1>3. Control /\ ResultIsOurs /\ [Next]_vars => ResultIsOurs'
  BY StepAnswersOurs
<1>4. Control /\ CleanInv /\ ResultIsOurs /\ [Next]_vars => [Service!Next]_(Service!cvars)
  BY StepServes DEF CleanInv
<1> QED
  BY <1>1, <1>2, <1>3, <1>4, CleanAlways, PTL DEF Spec, ImplementsService, Service!Spec

---------------------------------------------------------------------------
(* Longs.                                                                  *)

\* The digits of an int: above the fifth they are the sign.
LEMMA DigitAt ==
  ASSUME NEW n \in Int
  PROVE  /\ \A i \in 1..9 : Long(n)[i] = ShiftRight(n, i - 1) % 128
         /\ \A i \in 6..9 : Long(n)[i] = IF n < 0 THEN 127 ELSE 0
         /\ Long(n)[10] = IF n < 0 THEN 1 ELSE 0
<1>1. ASSUME NEW i \in 1..9 PROVE Long(n)[i] = ShiftRight(n, i - 1) % 128
  BY <1>1, SMT DEF Long, Digits
<1>2. Long(n)[10] = IF n < 0 THEN 1 ELSE 0
  BY SMT DEF Long, Digits
<1>3. ASSUME NEW i \in 6..9 PROVE Long(n)[i] = IF n < 0 THEN 127 ELSE 0
  <2>1. ShiftRight(n, i - 1) = IF n < 0 THEN -1 ELSE 0
    BY <1>3, SMT DEF ShiftRight
  <2>2. ShiftRight(n, i - 1) % 128 = IF n < 0 THEN 127 ELSE 0
    BY <2>1, SMT
  <2>3. i \in 1..9
    BY SMT
  <2> QED
    BY <1>1, <2>2, <2>3
<1> QED
  BY <1>1, <1>2, <1>3

\* A number is its four lowest digits and the rest of it.
LEMMA Expansion ==
  ASSUME NEW n \in Int
  PROVE  /\ Long(n)[1] \in 0..127 /\ Long(n)[2] \in 0..127
         /\ Long(n)[3] \in 0..127 /\ Long(n)[4] \in 0..127
         /\ \E e \in Int : /\ n = Low(Long(n)) + 2^28 * e
                           /\ Low(Long(n)) \in Nat /\ Low(Long(n)) < 2^28
                           /\ Long(n)[5] = e % 128
<1> DEFINE p == n \div 128
           q == p \div 128
           r == q \div 128
           e == r \div 128
<1>1. n = (n % 128) + 128 * p /\ p \in Int /\ n % 128 \in 0..127
  BY SMT
<1>2. p = (p % 128) + 128 * q /\ q \in Int /\ p % 128 \in 0..127
  BY <1>1, SMT
<1>3. q = (q % 128) + 128 * r /\ r \in Int /\ q % 128 \in 0..127
  BY <1>2, SMT
<1>4. r = (r % 128) + 128 * e /\ e \in Int /\ r % 128 \in 0..127
  BY <1>3, SMT
<1>5. /\ Long(n)[1] = n % 128 /\ Long(n)[2] = p % 128 /\ Long(n)[3] = q % 128
      /\ Long(n)[4] = r % 128 /\ Long(n)[5] = e % 128
  <2>1. p = n \div 128 /\ q = p \div 128 /\ r = q \div 128 /\ e = r \div 128
    OBVIOUS
  <2> HIDE DEF p, q, r, e
  <2>2. ShiftRight(n, 0) = n /\ ShiftRight(n, 1) = p
    BY <2>1, SMT DEF ShiftRight
  <2>3. ShiftRight(n, 2) = q
    BY <2>1, SMT DEF ShiftRight
  <2>4. ShiftRight(n, 3) = r
    BY <2>1, SMT DEF ShiftRight
  <2>5. ShiftRight(n, 4) = e
    BY <2>1, SMT DEF ShiftRight
  <2>6. /\ Long(n)[1] = ShiftRight(n, 0) % 128 /\ Long(n)[2] = ShiftRight(n, 1) % 128
        /\ Long(n)[3] = ShiftRight(n, 2) % 128 /\ Long(n)[4] = ShiftRight(n, 3) % 128
        /\ Long(n)[5] = ShiftRight(n, 4) % 128
    <3>1. \A i \in 1..9 : Long(n)[i] = ShiftRight(n, i - 1) % 128
      BY DigitAt
    <3> QED
      BY <3>1, SMT
  <2> QED
    BY <2>2, <2>3, <2>4, <2>5, <2>6
<1> HIDE DEF p, q, r, e
<1> DEFINE a == n % 128
           b == p % 128
           c == q % 128
           d == r % 128
<1>6. n = a + 128 * p /\ p = b + 128 * q /\ q = c + 128 * r /\ r = d + 128 * e
      /\ a \in 0..127 /\ b \in 0..127 /\ c \in 0..127 /\ d \in 0..127 /\ e \in Int
  BY <1>1, <1>2, <1>3, <1>4
<1>7. Long(n)[1] = a /\ Long(n)[2] = b /\ Long(n)[3] = c /\ Long(n)[4] = d /\ Long(n)[5] = e % 128
  BY <1>5
<1> HIDE DEF a, b, c, d
<1>8. n = (a + 128 * (b + 128 * (c + 128 * d))) + 2^28 * e
  BY <1>1, <1>2, <1>3, <1>6, SMT
<1> DEFINE l == Low(Long(n))
<1>9. l = a + 128 * (b + 128 * (c + 128 * d))
  BY <1>7, Zenon DEF Low
<1> HIDE DEF l
<1>10. n = l + 2^28 * e /\ l \in Nat /\ l < 2^28
  BY <1>6, <1>8, <1>9, SMT
<1>11. \E f \in Int : n = l + 2^28 * f /\ Long(n)[5] = f % 128
  BY <1>6, <1>7, <1>10, Zenon
<1>12. /\ Long(n)[1] \in 0..127 /\ Long(n)[2] \in 0..127
       /\ Long(n)[3] \in 0..127 /\ Long(n)[4] \in 0..127
  BY <1>6, <1>7
<1>13. \E f \in Int : n = l + 2^28 * f /\ l \in Nat /\ l < 2^28 /\ Long(n)[5] = f % 128
  BY <1>10, <1>11, Zenon
<1> QED
  BY <1>12, <1>13, Zenon DEF l

\* An int widened is a long.
LEMMA LongType ==
  ASSUME NEW n \in Int
  PROVE  Long(n) \in Longs
<1> DEFINE l == Long(n)
<1>1. /\ l[1] \in 0..127 /\ l[2] \in 0..127 /\ l[3] \in 0..127 /\ l[4] \in 0..127
      /\ \E e \in Int : l[5] = e % 128
  BY Expansion
<1>2. /\ \A i \in 6..9 : l[i] = IF n < 0 THEN 127 ELSE 0
      /\ l[10] = IF n < 0 THEN 1 ELSE 0
  BY DigitAt
<1>3. l = [i \in Digits |-> l[i]]
  BY Zenon DEF Long
<1> HIDE DEF l
<1>4. l[5] \in 0..127
  <2>1. \A e \in Int : e % 128 \in 0..127
    BY SMT
  <2> QED
    BY <1>1, <2>1
<1>5. \A i \in Digits : l[i] \in 0..127
  BY <1>1, <1>2, <1>4, SMT DEF Digits
<1>6. l[10] <= 1
  BY <1>2, SMT
<1>7. l \in [Digits -> 0..127]
  BY <1>3, <1>5
<1>8. l \in Longs
  BY <1>6, <1>7 DEF Longs
<1> QED
  BY <1>8 DEF l

\* A length below 256 MiB survives the way to a long and back.
LEMMA LongSmall ==
  ASSUME NEW n \in Size
  PROVE  n \in Nat /\ IsSmall(Long(n)) /\ Low(Long(n)) = n
<1>1. n \in Int /\ 0 <= n /\ n < 2^28
  BY SMT DEF Size
<1>2. PICK e \in Int : /\ n = Low(Long(n)) + 2^28 * e
                       /\ Low(Long(n)) \in Nat /\ Low(Long(n)) < 2^28
                       /\ Long(n)[5] = e % 128
  BY <1>1, Expansion, Zenon
<1> DEFINE l == Low(Long(n))
           f == Long(n)
<1> HIDE DEF l
<1>3. e = 0 /\ n = l
  BY <1>1, <1>2, SMT DEF l
<1>4. f[5] = 0
  <2>1. e % 128 = 0
    BY <1>3, SMT
  <2> QED
    BY <1>2, <2>1, Zenon
<1>5. (\A i \in 6..9 : f[i] = IF n < 0 THEN 127 ELSE 0) /\ f[10] = IF n < 0 THEN 1 ELSE 0
  BY <1>1, DigitAt
<1> HIDE DEF f
<1>6. \A i \in 5..10 : f[i] = 0
  BY <1>1, <1>4, <1>5, SMT
<1> QED
  BY <1>1, <1>3, <1>6, SMT DEF IsSmall, f, l

\* The cast of an int to a long and back, which looks at five digits.
LEMMA AsIntLong ==
  ASSUME NEW n \in Word
  PROVE  n \in Int /\ AsInt(Long(n)) = n
<1>1. n \in Int /\ 0 <= n + 2^31 /\ n < 2^31
  BY SMT DEF Word
<1>2. PICK e \in Int : /\ n = Low(Long(n)) + 2^28 * e
                       /\ Low(Long(n)) \in Nat /\ Low(Long(n)) < 2^28
                       /\ Long(n)[5] = e % 128
  BY <1>1, Expansion, Zenon
<1> DEFINE l == Low(Long(n))
           top == (e % 128) % 16
<1>3. AsInt(Long(n)) = (IF top >= 8 THEN top - 16 ELSE top) * 2^28 + l
  BY <1>2, Zenon DEF AsInt
<1> HIDE DEF l
<1>4. e \in -8..7
  BY <1>1, <1>2, SMT DEF l
<1>5. (IF top >= 8 THEN top - 16 ELSE top) = e
  BY <1>4, SMT
<1>6. AsInt(Long(n)) = e * 2^28 + l
  BY <1>3, <1>5, SMT
<1> QED
  BY <1>1, <1>2, <1>6, SMT DEF l

---------------------------------------------------------------------------
(* Varints.                                                                *)

\* A byte has its top bit set or has not.
LEMMA ByteFacts ==
  ASSUME NEW b \in Byte
  PROVE  b \in Nat /\ b < 256 /\ (b < 128 \/ b >= 128) /\ ~(b < 128 /\ b >= 128)
BY SMT DEF Byte

\* A varint begins behind cursor at and ends n bytes further on.
EndsAt(data, at, n) ==
  /\ at + n <= Len(data) /\ data[at + n] < 128
  /\ \A i \in 1..(n - 1) : data[at + i] >= 128

ValueAt(data, at, n) == [i \in Digits |-> IF i <= n THEN data[at + i] % 128 ELSE 0]

ReadAt(data, at, n) == [next |-> at + n, value |-> ValueAt(data, at, n)]

\* The value of some bytes is that of the varint read at their place.
LEMMA VarintOfPiece ==
  ASSUME NEW data \in Seq(Byte), NEW at \in 0..Len(data), NEW n \in Nat, at + n <= Len(data)
  PROVE  VarintOf(SubSeq(data, at + 1, at + n), at) = ReadAt(data, at, n)
<1> DEFINE b == SubSeq(data, at + 1, at + n)
<1>1. at \in Nat /\ Len(data) \in Nat /\ at + n \in at..Len(data) /\ (at + n) - at = n
  BY LenProperties, SMT
<1>2. Len(b) = n /\ \A i \in 1..n : b[i] = data[at + i]
  BY <1>1, PieceFacts
<1> HIDE DEF b
<1>3. \A i \in Digits : (IF i <= Len(b) THEN b[i] % 128 ELSE 0)
                          = (IF i <= n THEN data[at + i] % 128 ELSE 0)
  <2>1. \A i \in Digits : i <= n => i \in 1..n
    BY SMT DEF Digits
  <2> QED
    BY <1>2, <2>1, Zenon
<1>4. VarintOf(b, at) = ReadAt(data, at, n)
  BY <1>2, <1>3, Zenon DEF VarintOf, ReadAt, ValueAt
<1> QED
  BY <1>4 DEF b

\* A varint is read up to the first byte without the top bit.
LEMMA VarintEnds ==
  ASSUME NEW data \in Seq(Byte), NEW at \in 0..Len(data), NEW limit \in Nat,
         NEW n \in 1..limit, EndsAt(data, at, n)
  PROVE  Varint(data, at, limit) = ReadAt(data, at, n)
<1> DEFINE ends == {m \in 1..limit : at + m <= Len(data) /\ data[at + m] < 128}
<1>1. n \in ends /\ ends \subseteq Nat /\ n \in Nat /\ Len(data) \in Nat /\ at \in Nat
  BY LenProperties, SMT DEF EndsAt
<1>2. ASSUME NEW m \in ends PROVE n <= m
  <2>1. m \in Nat /\ m >= 1 /\ at + m <= Len(data) /\ data[at + m] < 128
    BY SMT
  <2>2. data[at + m] \in Nat
    <3>1. at + m \in 1..Len(data)
      BY <1>1, <2>1, SMT
    <3>2. data[at + m] \in Byte
      BY <3>1, ElementOfSeq
    <3> QED
      BY <3>2, ByteFacts, Zenon
  <2>3. ~(m \in 1..(n - 1))
    BY <2>1, <2>2, SMT DEF EndsAt
  <2> QED
    BY <1>1, <2>1, <2>3, SMT
<1>3. Min(ends) = n /\ ends # {}
  BY <1>1, <1>2, MinIs, Zenon
<1>4. Varint(data, at, limit) = VarintOf(SubSeq(data, at + 1, at + n), at)
  BY <1>3, Zenon DEF Varint
<1> QED
  BY <1>1, <1>4, VarintOfPiece DEF EndsAt

\* A varint that is read has such a byte within the limit.
LEMMA VarintStops ==
  ASSUME NEW data \in Seq(Byte), NEW at \in 0..Len(data), NEW limit \in Nat,
         Varint(data, at, limit) # Malformed
  PROVE  \E n \in 1..limit : EndsAt(data, at, n)
<1> DEFINE ends == {m \in 1..limit : at + m <= Len(data) /\ data[at + m] < 128}
           n == Min(ends)
<1>1. ends # {} /\ ends \subseteq Nat
  BY SMT DEF Varint
<1>2. n \in ends /\ \A m \in ends : n <= m
  BY <1>1, MinFacts, Zenon
<1> HIDE DEF n
<1>3. ASSUME NEW i \in 1..(n - 1) PROVE data[at + i] >= 128
  <2>1. n \in 1..limit /\ at + n <= Len(data) /\ at \in Nat /\ Len(data) \in Nat
    BY <1>2, LenProperties, SMT
  <2>2. i \in 1..limit /\ at + i <= Len(data) /\ at + i \in 1..Len(data) /\ ~(n <= i)
    BY <2>1, SMT
  <2>3. data[at + i] \in Byte
    BY <2>2, ElementOfSeq
  <2>4. ~(data[at + i] < 128)
    BY <1>2, <2>2
  <2> QED
    BY <2>3, <2>4, ByteFacts, Zenon
<1> QED
  BY <1>2, <1>3 DEF EndsAt

\* A value read has ten digits to the base 128.
LEMMA ValueType ==
  ASSUME NEW data \in Seq(Byte), NEW at \in 0..Len(data), NEW n \in Nat, at + n <= Len(data)
  PROVE  ValueAt(data, at, n) \in [Digits -> 0..127]
<1>1. ASSUME NEW i \in Digits, i <= n PROVE data[at + i] % 128 \in 0..127
  <2>1. at + i \in 1..Len(data)
    BY <1>1, LenProperties, SMT DEF Digits
  <2>2. data[at + i] \in Nat
    BY <2>1, ElementOfSeq, ByteFacts, Zenon
  <2>3. \A x \in Nat : x % 128 \in 0..127
    BY SMT
  <2> QED
    BY <2>2, <2>3, Zenon
<1>2. \A i \in Digits : (IF i <= n THEN data[at + i] % 128 ELSE 0) \in 0..127
  BY <1>1, SMT
<1> QED
  BY <1>2, Zenon DEF ValueAt

\* The cursor accepts a varint of ten bytes or less whose tenth is a bit.
Readable(data, at, n) ==
  /\ n \in 1..10 /\ EndsAt(data, at, n)
  /\ n = 10 => data[at + 10] % 128 <= 1

\* Where a varint can be read, ReadVarint reads it and moves on.
LEMMA ReadVarintIs ==
  ASSUME NEW data \in Seq(Byte), NEW at \in 0..Len(data), NEW n, Readable(data, at, n)
  PROVE  /\ ReadVarint(data, at) = ReadAt(data, at, n)
         /\ ValueAt(data, at, n) \in Longs
         /\ at + n \in (at + 1)..Len(data)
<1>1. n \in 1..10 /\ n \in Nat /\ 10 \in Nat /\ at + n <= Len(data)
  BY SMT DEF Readable, EndsAt
<1>2. Varint(data, at, 10) = ReadAt(data, at, n)
  BY <1>1, VarintEnds DEF Readable
<1>3. ValueAt(data, at, n)[10] <= 1 /\ ValueAt(data, at, n) \in [Digits -> 0..127]
  <2>1. ValueAt(data, at, n) \in [Digits -> 0..127]
    BY <1>1, ValueType
  <2>2. ValueAt(data, at, n)[10] = IF 10 <= n THEN data[at + 10] % 128 ELSE 0
    BY SMT DEF ValueAt, Digits
  <2> QED
    BY <1>1, <2>1, <2>2, SMT DEF Readable
<1>4. ValueAt(data, at, n) \in Longs
  BY <1>3 DEF Longs
<1>5. ~(ValueAt(data, at, n)[10] > 1)
  <2>1. ValueAt(data, at, n)[10] \in 0..127
    BY <1>3, SMT DEF Digits
  <2>2. \A x \in 0..127 : x <= 1 => ~(x > 1)
    BY SMT
  <2> QED
    BY <1>3, <2>1, <2>2, Zenon
<1>6. ReadVarint(data, at) = ReadAt(data, at, n)
  <2>1. ReadAt(data, at, n).value = ValueAt(data, at, n)
    BY DEF ReadAt
  <2> QED
    BY <1>2, <1>5, <2>1, Zenon DEF ReadVarint, FitsLong
<1>7. at + n \in (at + 1)..Len(data)
  BY <1>1, LenProperties, SMT
<1> QED
  BY <1>4, <1>6, <1>7

\* Where ReadVarint reads a varint one can be read.
LEMMA ReadVarintEnds ==
  ASSUME NEW data \in Seq(Byte), NEW at \in 0..Len(data), ReadVarint(data, at) # Malformed
  PROVE  \E n : Readable(data, at, n)
<1>1. Varint(data, at, 10) # Malformed /\ 10 \in Nat
  BY SMT DEF ReadVarint, FitsLong
<1>2. PICK n \in 1..10 : EndsAt(data, at, n)
  BY <1>1, VarintStops, Zenon
<1>3. Varint(data, at, 10) = ReadAt(data, at, n)
  BY <1>1, <1>2, VarintEnds
<1>4. ~(ReadAt(data, at, n).value[10] > 1)
  BY <1>1, <1>3, Zenon DEF ReadVarint, FitsLong
<1>5. ASSUME n = 10 PROVE data[at + 10] % 128 <= 1
  <2>1. ReadAt(data, at, n).value[10] = data[at + 10] % 128
    BY <1>5, SMT DEF ReadAt, ValueAt, Digits
  <2>2. at + 10 \in 1..Len(data)
    BY <1>2, <1>5, LenProperties, SMT DEF EndsAt
  <2>3. data[at + 10] \in Nat
    BY <2>2, ElementOfSeq, ByteFacts, Zenon
  <2> QED
    BY <1>4, <2>1, <2>3, SMT
<1> QED
  BY <1>2, <1>5 DEF Readable

---------------------------------------------------------------------------
(* What is written.                                                        *)

\* Behind the last digit written there are zeros only.
LEMMA SignificantFacts ==
  ASSUME NEW l \in Longs
  PROVE  /\ Significant(l) \in 1..10
         /\ Significant(l) # 1 => l[Significant(l)] # 0
         /\ \A i \in (Significant(l) + 1)..10 : l[i] = 0
<1> DEFINE T == {i \in Digits : i = 1 \/ l[i] # 0}
<1>1. T \subseteq 0..10 /\ T # {} /\ 10 \in Nat
  BY SMT DEF Digits
<1>2. Max(T) \in T /\ \A y \in T : Max(T) >= y
  BY <1>1, MaxFacts, Zenon
<1>3. Significant(l) = Max(T)
  BY Zenon DEF Significant
<1> DEFINE n == Significant(l)
<1> HIDE DEF n
<1>4. n \in 1..10 /\ (n # 1 => l[n] # 0) /\ \A i \in Digits : i = 1 \/ l[i] # 0 => n >= i
  BY <1>2, <1>3, SMT DEF Digits, n
<1>5. \A i \in (n + 1)..10 : l[i] = 0
  BY <1>4, SMT DEF Digits
<1> QED
  BY <1>4, <1>5 DEF n

\* A varint written has the top bit in all its bytes but the last.
LEMMA WriteVarintFacts ==
  ASSUME NEW l \in Longs
  PROVE  LET n == Significant(l)
             w == WriteVarint(l)
         IN  /\ n \in 1..10 /\ w \in Seq(Byte) /\ Len(w) = n
             /\ \A i \in 1..(n - 1) : w[i] = l[i] + 128
             /\ w[n] = l[n]
<1> DEFINE n == Significant(l)
           w == WriteVarint(l)
<1>1. n \in 1..10 /\ n \in Nat
  BY SignificantFacts, SMT
<1>2. w = [i \in 1..n |-> IF i < n THEN l[i] + 128 ELSE l[i]]
  BY Zenon DEF WriteVarint
<1> HIDE DEF n, w
<1>3. \A i \in 1..n : l[i] \in 0..127
  BY <1>1, SMT DEF Longs, Digits
<1>4. \A i \in 1..n : (IF i < n THEN l[i] + 128 ELSE l[i]) \in Byte
  BY <1>3, SMT DEF Byte
<1>5. w \in [1..n -> Byte]
  BY <1>2, <1>4
<1>6. w \in Seq(Byte) /\ Len(w) = n
  BY <1>1, <1>5
<1>7. w[n] = l[n] /\ \A i \in 1..(n - 1) : w[i] = l[i] + 128
  BY <1>1, <1>2, SMT
<1> QED
  BY <1>1, <1>6, <1>7 DEF n, w

\* What was written for a long is read as that long, wherever it stands.
LEMMA WrittenRead ==
  ASSUME NEW l \in Longs, NEW data \in Seq(Byte), NEW at \in 0..Len(data),
         Stands(data, at, WriteVarint(l))
  PROVE  /\ Readable(data, at, Len(WriteVarint(l)))
         /\ ValueAt(data, at, Len(WriteVarint(l))) = l
<1> DEFINE n == Significant(l)
           w == WriteVarint(l)
<1>1. n \in 1..10 /\ w \in Seq(Byte) /\ Len(w) = n /\ w[n] = l[n]
      /\ \A i \in 1..(n - 1) : w[i] = l[i] + 128
  BY WriteVarintFacts, Zenon
<1>2. \A i \in (n + 1)..10 : l[i] = 0
  BY SignificantFacts, Zenon
<1>3. at + n <= Len(data) /\ \A i \in 1..n : data[at + i] = w[i]
  BY <1>1, Zenon DEF Stands
<1> HIDE DEF n, w
<1>4. \A i \in Digits : l[i] \in 0..127
  BY DEF Longs
<1>5. l[10] <= 1 /\ \A i \in 1..10 : l[i] \in 0..127
  BY <1>4 DEF Longs, Digits
<1>6. data[at + n] = l[n] /\ \A i \in 1..(n - 1) : data[at + i] = l[i] + 128
  BY <1>1, <1>3, SMT
<1>7. EndsAt(data, at, n)
  <2>a. \A x \in 0..127 : x < 128 /\ x + 128 >= 128
    BY SMT
  <2>1. data[at + n] < 128
    BY <1>1, <1>5, <1>6, <2>a, Zenon
  <2>2. \A i \in 1..(n - 1) : data[at + i] >= 128
    <3> TAKE i \in 1..(n - 1)
    <3>1. i \in 1..10
      BY <1>1, SMT
    <3>2. l[i] \in 0..127 /\ data[at + i] = l[i] + 128
      BY <1>5, <1>6, <3>1
    <3> QED
      BY <2>a, <3>2, Zenon
  <2> QED
    BY <1>3, <2>1, <2>2 DEF EndsAt
<1>8. \A i \in Digits : (IF i <= n THEN data[at + i] % 128 ELSE 0) = l[i]
  <2>1. \A x \in 0..127 : x % 128 = x /\ (x + 128) % 128 = x
    BY SMT
  <2> TAKE i \in Digits
  <2>2. CASE i < n
    <3>1. i \in 1..(n - 1) /\ i <= n
      BY <1>1, <2>2, SMT DEF Digits
    <3>2. data[at + i] = l[i] + 128
      BY <1>6, <3>1, Zenon
    <3>3. (l[i] + 128) % 128 = l[i]
      BY <1>4, <2>1, Zenon
    <3> QED
      BY <3>1, <3>2, <3>3, Zenon
  <2>3. CASE i = n
    <3>1. n <= n
      BY <1>1, SMT
    <3>2. data[at + i] % 128 = l[i]
      BY <1>4, <1>6, <2>1, <2>3, Zenon
    <3> QED
      BY <2>3, <3>1, <3>2, Zenon
  <2>4. CASE i > n
    <3>1. i \in (n + 1)..10 /\ ~(i <= n)
      BY <1>1, <2>4, SMT DEF Digits
    <3> QED
      BY <1>2, <3>1, Zenon
  <2>5. i < n \/ i = n \/ i > n
    BY <1>1, SMT DEF Digits
  <2> QED
    BY <2>2, <2>3, <2>4, <2>5
<1>9. ValueAt(data, at, n) = l
  <2>1. l = [i \in Digits |-> l[i]]
    BY DEF Longs
  <2> QED
    BY <1>8, <2>1, Zenon DEF ValueAt
<1>10. n = 10 => data[at + 10] % 128 <= 1
  <2>1. 10 \in Digits /\ 10 <= 10
    BY SMT DEF Digits
  <2> QED
    BY <1>5, <1>8, <2>1
<1> QED
  BY <1>1, <1>7, <1>9, <1>10 DEF Readable, w

---------------------------------------------------------------------------
(* Frames.                                                                 *)

\* What a varint for l says to a reader that takes enough bytes.
LEMMA VarintWritten ==
  ASSUME NEW l \in Longs, NEW data \in Seq(Byte), NEW at \in 0..Len(data), NEW limit \in Nat,
         Stands(data, at, WriteVarint(l)), Len(WriteVarint(l)) <= limit
  PROVE  Varint(data, at, limit) = [next |-> at + Len(WriteVarint(l)), value |-> l]
<1> DEFINE n == Len(WriteVarint(l))
<1>1. Readable(data, at, n) /\ ValueAt(data, at, n) = l
  BY WrittenRead
<1>a. n <= limit
  OBVIOUS
<1> HIDE DEF n
<1>2. n \in 1..limit /\ EndsAt(data, at, n)
  BY <1>1, <1>a, SMT DEF Readable
<1>3. Varint(data, at, limit) = ReadAt(data, at, n)
  BY <1>2, VarintEnds
<1> QED
  BY <1>1, <1>3, Zenon DEF ReadAt, n

\* The length of a message takes four bytes at most.
LEMMA LengthWritten ==
  ASSUME NEW n \in Size
  PROVE  /\ n \in Nat /\ Long(n) \in Longs /\ IsSmall(Long(n)) /\ Low(Long(n)) = n
         /\ WriteVarint(Long(n)) \in Seq(Byte) /\ Len(WriteVarint(Long(n))) \in 1..4
         /\ \A i \in 1..(Len(WriteVarint(Long(n))) - 1) : WriteVarint(Long(n))[i] >= 128
<1> DEFINE l == Long(n)
           k == Significant(l)
           w == WriteVarint(l)
<1>1. n \in Nat /\ IsSmall(l) /\ Low(l) = n
  BY LongSmall
<1>2. l \in Longs
  BY <1>1, LongType
<1> HIDE DEF l
<1>3. k \in 1..10 /\ (k # 1 => l[k] # 0)
  BY <1>2, SignificantFacts, Zenon
<1>4. w \in Seq(Byte) /\ Len(w) = k /\ \A i \in 1..(k - 1) : w[i] = l[i] + 128
  BY <1>2, WriteVarintFacts, Zenon
<1> HIDE DEF k, w
<1>5. k \in 1..4
  <2>1. \A i \in 5..10 : l[i] = 0
    BY <1>1 DEF IsSmall
  <2>2. ~(k \in 5..10)
    BY <1>3, <2>1, SMT
  <2> QED
    BY <1>3, <2>2, SMT
<1>6. \A i \in 1..(k - 1) : w[i] >= 128
  <2>1. \A x \in 0..127 : x + 128 >= 128
    BY SMT
  <2> TAKE i \in 1..(k - 1)
  <2>2. l[i] \in 0..127
    BY <1>5, <1>2, SMT DEF Longs, Digits
  <2>3. w[i] = l[i] + 128
    BY <1>4
  <2> QED
    BY <2>1, <2>2, <2>3, Zenon
<1> QED
  BY <1>1, <1>2, <1>4, <1>5, <1>6, Zenon DEF l, w

\* A stream that begins with the length of a message.
LEMMA LengthRead ==
  ASSUME NEW n \in Size, NEW stream \in Seq(Byte), Stands(stream, 0, WriteVarint(Long(n)))
  PROVE  LET length == Varint(stream, 0, 5) IN
           /\ length = [next |-> Len(WriteVarint(Long(n))), value |-> Long(n)]
           /\ length # Malformed /\ stream # <<>>
<1> DEFINE w == WriteVarint(Long(n))
           k == Len(w)
           length == [next |-> k, value |-> Long(n)]
<1>1. Long(n) \in Longs /\ k \in 1..4
  BY LengthWritten
<1> HIDE DEF k
<1>a. Len(stream) \in Nat
  BY LenProperties
<1>2. Len(stream) \in Nat /\ 0 \in 0..Len(stream) /\ k <= 5 /\ 5 \in Nat /\ 0 + k = k /\ k \in Nat
  BY <1>1, <1>a, SMT
<1>3. Varint(stream, 0, 5) = length
  BY <1>1, <1>2, VarintWritten DEF k
<1>4. length # Malformed
  <2>1. length \in Varints
    BY <1>1, <1>2 DEF Varints, Longs
  <2> HIDE DEF length
  <2> QED
    BY <2>1, MalformedAssumption
<1>5. stream # <<>>
  <2>1. Len(stream) >= 1
    BY <1>1, <1>2, SMT DEF Stands, k
  <2> QED
    BY <2>1
<1> QED
  BY <1>3, <1>4, <1>5, Zenon DEF k

\* A whole frame is read, whatever follows it.
LEMMA FrameWhole ==
  ASSUME NEW m \in Seq(Byte), Len(m) \in Size, NEW rest \in Seq(Byte)
  PROVE  ReadFrame(Delimited(m) \o rest)
           = IF Len(m) > MaxMessage THEN Malformed ELSE [bytes |-> m, rest |-> rest]
<1> DEFINE w == WriteVarint(Long(Len(m)))
           frame == w \o m
           s == frame \o rest
           length == Varint(s, 0, 5)
           k == Len(w)
           n == Len(m)
<1>1. w \in Seq(Byte) /\ frame \in Seq(Byte) /\ s \in Seq(Byte) /\ k \in 1..4
  BY LengthWritten, ConcatProperties
<1>2. Stands(s, 0, w) /\ Stands(s, k, m) /\ Stands(s, k + n, rest) /\ Len(s) = (k + n) + Len(rest)
  <2>a. Stands(s, 0, s)
    BY <1>1, StandsItself, Zenon
  <2>b. \A x \in 1..4 : 0 \in Nat /\ x \in Nat /\ 0 + x = x
    BY SMT
  <2>1. Stands(s, 0, s) /\ 0 \in Nat /\ k \in Nat /\ 0 + k = k
    BY <1>1, <2>a, <2>b, Zenon
  <2>2. Stands(s, 0, frame) /\ Stands(s, 0 + Len(frame), rest)
    BY <1>1, <2>1, StandingParts, Zenon
  <2>3. Stands(s, 0, w) /\ Stands(s, 0 + k, m)
    BY <1>1, <2>1, <2>2, StandingParts, Zenon
  <2>4. Len(frame) = k + n /\ 0 + Len(frame) = k + n /\ Len(s) = (k + n) + Len(rest)
    <3>1. Len(frame) = k + n /\ Len(s) = Len(frame) + Len(rest) /\ k \in Nat /\ n \in Nat
      BY <1>1, ConcatProperties, LenProperties
    <3> HIDE DEF frame, s, k, n
    <3> QED
      BY <3>1, SMT
  <2> QED
    BY <2>1, <2>2, <2>3, <2>4, Zenon
<1>3. length = [next |-> k, value |-> Long(n)] /\ length # Malformed /\ s # <<>>
  BY <1>1, <1>2, LengthRead
<1>4. IsSmall(Long(n)) /\ Low(Long(n)) = n /\ n \in Nat
  BY LengthWritten
<1> HIDE DEF s, frame, w, k, n
<1>5. ReadFrame(s) = Framed(s, length)
  BY <1>3, Zenon DEF ReadFrame
<1> HIDE DEF length
<1>6. length.next = k /\ length.value = Long(n)
  BY <1>3
<1>7. CASE n > MaxMessage
  BY <1>4, <1>5, <1>6, <1>7, Zenon DEF Framed, frame, s, n, w, Delimited
<1>8. CASE ~(n > MaxMessage)
  <2>1. Len(s) \in Nat /\ Len(rest) \in Nat /\ k \in Nat
    BY <1>1, LenProperties, SMT
  <2>2. Available(s, length) /\ k + n <= Len(s)
    BY <1>2, <1>4, <1>6, <2>1, SMT DEF Available
  <2>3. Min({k + n, Len(s)}) = k + n
    <3> DEFINE T == {k + n, Len(s)}
               x == k + n
    <3>1. T \subseteq Nat /\ x \in T /\ \A y \in T : x <= y
      BY <1>4, <2>1, <2>2, SMT
    <3> HIDE DEF T, x
    <3>2. Min(T) = x
      BY <3>1, MinIs, Zenon
    <3> QED
      BY <3>2 DEF T, x
  <2>4. SubSeq(s, k + 1, k + n) = m
    <3>1. k \in 0..Len(s)
      BY <1>4, <2>1, <2>2, SMT
    <3>2. SubSeq(s, k + 1, k + Len(m)) = m
      BY <1>1, <1>2, <3>1, StandingPiece
    <3> QED
      BY <3>2 DEF n
  <2>5. SubSeq(s, (k + n) + 1, Len(s)) = rest
    <3> DEFINE a == k + n
    <3>1. a \in 0..Len(s) /\ Stands(s, a, rest)
      BY <1>2, <1>4, <2>1, <2>2, SMT
    <3> HIDE DEF a
    <3>2. SubSeq(s, a + 1, a + Len(rest)) = rest
      BY <1>1, <3>1, StandingPiece
    <3> QED
      BY <1>2, <3>2, Zenon DEF a
  <2>6. ReadFrame(s) = [bytes |-> SubSeq(s, k + 1, Min({k + n, Len(s)})),
                        rest |-> SubSeq(s, (k + n) + 1, Len(s))]
    BY <1>3, <1>4, <1>5, <1>6, <1>8, <2>2, Zenon DEF Framed
  <2>7. ReadFrame(s) = [bytes |-> m, rest |-> rest]
    BY <2>3, <2>4, <2>5, <2>6, Zenon
  <2> QED
    BY <1>8, <2>7, Zenon DEF s, frame, w, n, Delimited
<1> QED
  BY <1>7, <1>8

\* A cut frame is neither a shorter message nor the end of the input.
LEMMA FrameCut ==
  ASSUME NEW m \in Seq(Byte), Len(m) \in Size, NEW n \in 1..(Len(Delimited(m)) - 1)
  PROVE  ReadFrame(First(Delimited(m), n)) = Malformed
<1> DEFINE w == WriteVarint(Long(Len(m)))
           k == Len(w)
           frame == w \o m
           s == First(frame, n)
           length == Varint(s, 0, 5)
<1>1. /\ w \in Seq(Byte) /\ frame \in Seq(Byte) /\ k \in 1..4 /\ \A i \in 1..(k - 1) : w[i] >= 128
      /\ IsSmall(Long(Len(m))) /\ Low(Long(Len(m))) = Len(m) /\ Len(m) \in Nat
  BY LengthWritten, ConcatProperties
<1>2. Len(frame) = k + Len(m) /\ \A i \in 1..k : frame[i] = w[i]
  <2>1. Len(frame) = k + Len(m)
        /\ \A i \in 1..(k + Len(m)) : frame[i] = IF i <= k THEN w[i] ELSE m[i - k]
    BY <1>1, ConcatProperties
  <2> HIDE DEF frame, w, k
  <2> QED
    BY <1>1, <2>1, SMT
<1>3. n \in 1..(Len(frame) - 1)
  BY DEF Delimited
<1> HIDE DEF frame, k, w
<1>4. n \in Nat /\ n >= 1 /\ n < k + Len(m)
  BY <1>1, <1>2, <1>3, SMT
<1>5. s \in Seq(Byte) /\ Len(s) = n /\ \A i \in 1..n : s[i] = frame[i]
  <2>1. s = SubSeq(frame, 1, n)
    BY DEF First, Piece
  <2> HIDE DEF s
  <2> QED
    BY <1>1, <1>2, <1>4, <2>1, SMT DEF frame
<1> HIDE DEF s
<1>6. s # <<>> /\ Len(s) \in Nat /\ 0 \in 0..Len(s) /\ 5 \in Nat
  BY <1>4, <1>5, SMT
<1>7. ReadFrame(s) = Framed(s, length)
  BY <1>6, Zenon DEF ReadFrame
<1>8. CASE n < k
  <2>1. ASSUME NEW j \in 1..5 PROVE ~EndsAt(s, 0, j)
    <3>1. CASE j <= n
      <4>1. j \in 1..(k - 1) /\ j \in 1..n /\ j \in 1..k /\ 0 + j = j /\ j \in 1..Len(s)
        BY <1>1, <1>4, <1>5, <1>8, <3>1, SMT
      <4>2. s[0 + j] >= 128 /\ s[j] \in Byte
        BY <1>1, <1>2, <1>5, <4>1, ElementOfSeq
      <4>3. ~(s[0 + j] < 128)
        BY <4>1, <4>2, ByteFacts, Zenon
      <4> QED
        BY <4>3, Zenon DEF EndsAt
    <3>2. CASE ~(j <= n)
      <4>1. ~(0 + j <= Len(s))
        BY <1>4, <1>5, <3>2, SMT
      <4> QED
        BY <4>1, Zenon DEF EndsAt
    <3> QED
      BY <3>1, <3>2
  <2>2. length = Malformed
    BY <1>5, <1>6, <2>1, VarintStops, Zenon
  <2> QED
    BY <1>7, <2>2, Zenon DEF Framed, s, frame, w, Delimited
<1>9. CASE ~(n < k)
  <2>1. Stands(s, 0, w)
    <3>1. 0 + k <= Len(s) /\ \A i \in 1..k : i \in 1..n /\ 0 + i = i
      BY <1>1, <1>4, <1>5, <1>9, SMT
    <3> QED
      BY <1>2, <1>5, <3>1, Zenon DEF Stands, k
  <2>2. length = [next |-> k, value |-> Long(Len(m))]
    BY <1>5, <2>1, LengthRead DEF w, k
  <2> HIDE DEF length
  <2>3. ~Available(s, length)
    <3>1. ~(k + Len(m) <= Len(s))
      BY <1>1, <1>4, <1>5, SMT
    <3> QED
      BY <1>1, <2>2, <3>1, Zenon DEF Available
  <2>4. ReadFrame(s) = Malformed
    BY <1>7, <2>3, Zenon DEF Framed
  <2> QED
    BY <2>4, Zenon DEF s, frame, w, Delimited
<1> QED
  BY <1>8, <1>9

\* Lengths that are too long are refused.
LEMMA LengthRefused ==
  ASSUME NEW length \in Lengths, NEW rest \in Seq(Byte)
  PROVE  ReadFrame(length \o rest) = Malformed
<1> DEFINE s == length \o rest
           k == Len(length)
           value == VarintOf(length, 0).value
<1>1. /\ length \in Seq(Byte) /\ length # <<>> /\ \A i \in 1..(k - 1) : length[i] >= 128
      /\ k > 5 \/ (length[k] < 128 /\ (~IsSmall(value) \/ Low(value) > MaxMessage))
  BY LengthsAssumption, Zenon
<1>2. /\ s \in Seq(Byte) /\ Len(s) \in Nat /\ k \in Nat /\ k >= 1 /\ k <= Len(s)
      /\ \A i \in 1..k : s[i] = length[i]
  <2>1. /\ s \in Seq(Byte) /\ Len(s) = k + Len(rest) /\ k \in Nat /\ k # 0 /\ Len(rest) \in Nat
        /\ \A i \in 1..(k + Len(rest)) : s[i] = IF i <= k THEN length[i] ELSE rest[i - k]
    BY <1>1, ConcatProperties, LenProperties, EmptySeq
  <2> HIDE DEF s, k
  <2> QED
    BY <2>1, SMT
<1> HIDE DEF s, k
<1>3. s # <<>> /\ 0 \in 0..Len(s) /\ 5 \in Nat
  BY <1>2, SMT
<1>4. ReadFrame(s) = Framed(s, Varint(s, 0, 5))
  BY <1>3, Zenon DEF ReadFrame
<1>5. CASE k > 5
  <2>1. ASSUME NEW j \in 1..5 PROVE ~EndsAt(s, 0, j)
    <3>1. j \in 1..(k - 1) /\ j \in 1..k /\ 0 + j = j /\ j \in 1..Len(s)
      BY <1>2, <1>5, SMT
    <3>2. s[0 + j] >= 128 /\ s[j] \in Byte
      BY <1>1, <1>2, <3>1, ElementOfSeq
    <3>3. ~(s[0 + j] < 128)
      BY <3>1, <3>2, ByteFacts, Zenon
    <3> QED
      BY <3>3, Zenon DEF EndsAt
  <2>2. Varint(s, 0, 5) = Malformed
    BY <1>2, <1>3, <2>1, VarintStops, Zenon
  <2> QED
    BY <1>4, <2>2, Zenon DEF Framed, s
<1>6. CASE ~(k > 5)
  <2>1. k \in 1..5 /\ 0 + k = k
    BY <1>2, <1>6, SMT
  <2>2. \A i \in 1..k : 0 + i = i
    BY <1>2, SMT
  <2>3. \A i \in 1..(k - 1) : i \in 1..k
    BY <1>2, SMT
  <2>4. s[k] < 128 /\ k \in 1..k
    <3>1. k \in 1..k
      BY <1>2, SMT
    <3> QED
      BY <1>1, <1>2, <1>6, <3>1, Zenon
  <2>5. EndsAt(s, 0, k)
    BY <1>1, <1>2, <2>1, <2>2, <2>3, <2>4, Zenon DEF EndsAt
  <2>6. Varint(s, 0, 5) = ReadAt(s, 0, k)
    BY <1>2, <1>3, <2>1, <2>5, VarintEnds, Zenon
  <2>7. ReadAt(s, 0, k).value = value
    <3>1. \A i \in Digits : i <= k => i \in 1..k
      BY <1>2, SMT DEF Digits
    <3>2. \A i \in Digits : (IF i <= k THEN s[0 + i] % 128 ELSE 0)
                              = (IF i <= k THEN length[i] % 128 ELSE 0)
      BY <1>2, <2>2, <3>1, Zenon
    <3>3. ReadAt(s, 0, k).value = [i \in Digits |-> IF i <= k THEN s[0 + i] % 128 ELSE 0]
      BY Zenon DEF ReadAt, ValueAt
    <3>4. value = [i \in Digits |-> IF i <= k THEN length[i] % 128 ELSE 0]
      BY Zenon DEF VarintOf, k
    <3> QED
      BY <3>2, <3>3, <3>4, Zenon
  <2> HIDE DEF value
  <2> QED
    BY <1>1, <1>4, <1>6, <2>6, <2>7, Zenon DEF Framed, s
<1> QED
  BY <1>5, <1>6

(* Frames are kept apart, for all messages and lengths.                    *)
LEMMA FramesApart == FramesAreApart
<1>1. ReadFrame(<<>>) = EndOfInput
  BY DEF ReadFrame
<1>2. ASSUME NEW message \in Samples
      PROVE  Apart(message, Delimited(message))
  <2>1. message \in Seq(Byte) /\ Len(message) \in Size
    BY SamplesAssumption
  <2>2. <<>> \in Seq(Byte) /\ <<0>> \in Seq(Byte) /\ Delimited(message) \in Seq(Byte)
    <3>1. 0 \in Byte
      BY SMT DEF Byte
    <3>2. WriteVarint(Long(Len(message))) \in Seq(Byte)
      BY <2>1, LengthWritten
    <3> QED
      BY <2>1, <3>1, <3>2, ConcatProperties DEF Delimited
  <2>3. CASE Len(message) > MaxMessage
    <3>1. ReadFrame(Delimited(message) \o <<>>) = Malformed
      BY <2>1, <2>2, <2>3, FrameWhole, Zenon
    <3>2. Delimited(message) \o <<>> = Delimited(message)
      BY <2>2, ConcatEmptySeq
    <3> QED
      BY <2>3, <3>1, <3>2, Zenon DEF Apart
  <2>4. CASE ~(Len(message) > MaxMessage)
    <3>1. \A rest \in {<<>>, <<0>>, Delimited(message)} :
            ReadFrame(Delimited(message) \o rest) = [bytes |-> message, rest |-> rest]
      BY <2>1, <2>2, <2>4, FrameWhole, Zenon
    <3>2. \A n \in 1..(Len(Delimited(message)) - 1) : ReadFrame(First(Delimited(message), n)) = Malformed
      BY <2>1, FrameCut
    <3> QED
      BY <2>4, <3>1, <3>2, Zenon DEF Apart
  <2> QED
    BY <2>3, <2>4
<1>3. ASSUME NEW length \in Lengths, NEW message \in {<<>>, <<0, 0>>}
      PROVE  ReadFrame(length \o message) = Malformed
  <2>1. 0 \in Byte
    BY SMT DEF Byte
  <2>2. <<>> \in Seq(Byte) /\ <<0, 0>> \in Seq(Byte)
    BY <2>1
  <2>3. message \in Seq(Byte)
    BY <2>2
  <2> QED
    BY <2>3, LengthRefused
<1> QED
  BY <1>1, <1>2, <1>3, Zenon DEF FramesAreApart

---------------------------------------------------------------------------
(* Fields.                                                                 *)

\* Fields within the data, one or none at each cursor.
Table(data) ==
  {f \in [0..Len(data) -> ParsedField \cup {Malformed}] :
     \A s \in 0..Len(data) : f[s] # Malformed =>
       f[s].next \in (s + 1)..Len(data) /\ f[s].raw = SubSeq(data, s + 1, f[s].next)}

\* A field in a table ends behind its start and is as long as its raw bytes.
LEMMA TableFacts ==
  ASSUME NEW data \in Seq(Byte), NEW table \in Table(data), NEW s \in 0..Len(data),
         table[s] # Malformed
  PROVE  /\ table[s] \in ParsedField /\ Len(data) \in Nat /\ s \in Nat
         /\ table[s].next \in (s + 1)..Len(data) /\ table[s].next \in 0..Len(data)
         /\ table[s].next \in Nat /\ table[s].next > s
         /\ table[s].raw = SubSeq(data, s + 1, table[s].next)
<1>1. table[s] \in ParsedField
  BY DEF Table
<1>2. table[s].next \in (s + 1)..Len(data) /\ table[s].raw = SubSeq(data, s + 1, table[s].next)
  BY DEF Table
<1>3. Len(data) \in Nat
  BY LenProperties
<1> DEFINE n == table[s].next
<1> HIDE DEF n
<1>4. n \in 0..Len(data) /\ n \in Nat /\ n > s /\ s \in Nat
  BY <1>2, <1>3, SMT DEF n
<1> QED
  BY <1>1, <1>2, <1>3, <1>4 DEF n

Closes(close, data, number, inner) ==
  \A from \in 0..Len(data) :
    /\ close[from] = Nested(inner[from], number, close)
    /\ GroupEnd(data, from, number, inner) = close[from]

\* GroupEnd is defined by the fields of the group, one after another.
LEMMA GroupEndIs ==
  ASSUME NEW data \in Seq(Byte), NEW number, NEW inner \in Table(data)
  PROVE  \E close : Closes(close, data, number, inner)
<1> DEFINE N == Len(data)
           V == Nat \cup {Malformed}
           later == [i \in 0..N |-> IF inner[i] = Malformed \/ inner[i].wire = 4
                                   THEN N + 1 ELSE inner[i].next]
           step == [i \in 0..N |-> [v \in V |-> v]]
           base == [i \in 0..N |-> IF inner[i] = Malformed \/ ~EndsGroup(inner[i], number)
                                   THEN Malformed ELSE inner[i].next]
           close[from \in 0..N] == Nested(inner[from], number, close)
<1>1. N \in Nat
  BY LenProperties
<1>2. ASSUME NEW i \in 0..N, inner[i] # Malformed
      PROVE  inner[i].next \in Nat /\ inner[i].next > i /\ inner[i].next \in 0..N
             /\ inner[i].next <= N
  <2>1. inner[i].next \in 0..N /\ inner[i].next > i /\ inner[i].next \in Nat
    BY <1>2, TableFacts
  <2> HIDE DEF N
  <2> QED
    BY <2>1, <1>1, SMT
<1> HIDE DEF N
<1>3. \A i \in 0..N : later[i] \in Nat /\ later[i] > i
  <2>1. \A i \in 0..N : N + 1 \in Nat /\ N + 1 > i
    BY <1>1, SMT
  <2> QED
    BY <1>2, <2>1
<1>4. step \in [0..N -> [V -> V]] /\ base \in [0..N -> V]
  BY <1>2
<1> HIDE DEF later, step, base
<1>a. PICK g \in [0..N -> V] : Recurs(g, N, later, step, base)
  BY <1>1, <1>3, <1>4, Recursion, Zenon
<1>5. \A i \in 0..N : g[i] = IF later[i] <= N THEN step[i][g[later[i]]] ELSE base[i]
  BY <1>a DEF Recurs
<1>6. ASSUME NEW i \in 0..N
      PROVE  g[i] = Nested(inner[i], number, g)
  <2>a. ~(N + 1 <= N)
    BY <1>1, SMT
  <2>1. CASE inner[i] = Malformed \/ inner[i].wire = 4
    <3>1. ~(later[i] <= N)
      BY <2>1, <2>a DEF later
    <3>2. g[i] = base[i]
      BY <1>5, <3>1
    <3>3. base[i] = IF inner[i] = Malformed \/ ~EndsGroup(inner[i], number)
                    THEN Malformed ELSE inner[i].next
      BY DEF base
    <3> QED
      BY <2>1, <3>2, <3>3, Zenon DEF Nested
  <2>2. CASE ~(inner[i] = Malformed \/ inner[i].wire = 4)
    <3>1. later[i] = inner[i].next /\ later[i] <= N /\ g[later[i]] \in V
      BY <1>2, <2>2 DEF later
    <3>2. g[i] = g[inner[i].next]
      BY <1>5, <3>1 DEF step
    <3>3. ~EndsGroup(inner[i], number)
      BY <2>2 DEF EndsGroup
    <3> QED
      BY <2>2, <3>2, <3>3, Zenon DEF Nested
  <2> QED
    BY <2>1, <2>2
<1>7. g = [from \in 0..N |-> Nested(inner[from], number, g)]
  <2>1. g = [from \in 0..N |-> g[from]]
    OBVIOUS
  <2> QED
    BY <1>6, <2>1, Zenon
<1>8. close = [from \in 0..N |-> Nested(inner[from], number, close)]
  BY <1>7, Zenon DEF close
<1> HIDE DEF close
<1>9. ASSUME NEW from \in 0..N
      PROVE  close[from] = Nested(inner[from], number, close)
  BY <1>8, Zenon
<1>10. \A from \in 0..N : GroupEnd(data, from, number, inner) = close[from]
  BY Zenon DEF GroupEnd, close, N
<1> QED
  BY <1>9, <1>10, Zenon DEF N, Closes

\* A group ends at the first field that is none, is its close or is another's.
LEMMA GroupEndStep ==
  ASSUME NEW data \in Seq(Byte), NEW number, NEW inner \in Table(data), NEW from \in 0..Len(data)
  PROVE  GroupEnd(data, from, number, inner)
           = IF inner[from] = Malformed THEN Malformed
             ELSE IF EndsGroup(inner[from], number) THEN inner[from].next
             ELSE IF inner[from].wire = 4 THEN Malformed
             ELSE GroupEnd(data, inner[from].next, number, inner)
<1>a. PICK close : Closes(close, data, number, inner)
  BY GroupEndIs, Zenon
<1>1. \A f \in 0..Len(data) :
        close[f] = Nested(inner[f], number, close) /\ GroupEnd(data, f, number, inner) = close[f]
  BY <1>a, Zenon DEF Closes
<1>2. inner[from] # Malformed => inner[from].next \in 0..Len(data)
  BY TableFacts
<1> QED
  BY <1>1, <1>2, Zenon DEF Nested

\* A group ends behind its start and within the data.
LEMMA GroupEndType ==
  ASSUME NEW data \in Seq(Byte), NEW number, NEW inner \in Table(data), NEW from \in 0..Len(data)
  PROVE  LET e == GroupEnd(data, from, number, inner) IN
           e # Malformed => e \in (from + 1)..Len(data)
<1> DEFINE N == Len(data)
           E(f) == GroupEnd(data, f, number, inner)
           D == {k \in Nat : \A f \in 0..N : f + k >= N /\ E(f) # Malformed => E(f) \in (f + 1)..N}
<1>1. N \in Nat
  BY LenProperties
<1> HIDE DEF E
<1>2. ASSUME NEW f \in 0..N, E(f) # Malformed
      PROVE  /\ inner[f].next \in (f + 1)..N /\ inner[f].next \in Nat /\ inner[f].next > f /\ f \in Nat
             /\ inner[f].next \in 0..N
             /\ E(f) = inner[f].next \/ E(f) = E(inner[f].next)
  <2>1. inner[f] # Malformed
    BY <1>2, GroupEndStep, Zenon DEF E
  <2>2. E(f) = inner[f].next \/ E(f) = E(inner[f].next)
    BY <1>2, GroupEndStep, Zenon DEF E
  <2> QED
    BY <2>1, <2>2, TableFacts
<1> HIDE DEF N
<1>3. 0 \in D
  <2>1. ASSUME NEW f \in 0..N, f + 0 >= N PROVE ~(\E x \in (f + 1)..N : TRUE)
    BY <1>1, <2>1, SMT
  <2>2. \A f \in 0..N : f + 0 >= N /\ E(f) # Malformed => E(f) \in (f + 1)..N
    BY <1>2, <2>1
  <2> QED
    BY <2>2
<1>4. ASSUME NEW k \in Nat, k \in D
      PROVE  k + 1 \in D
  <2>1. ASSUME NEW f \in 0..N, f + (k + 1) >= N, E(f) # Malformed
        PROVE  E(f) \in (f + 1)..N
    <3> DEFINE n == inner[f].next
    <3>1. /\ n \in (f + 1)..N /\ n \in Nat /\ n > f /\ f \in Nat /\ n \in 0..N
          /\ E(f) = n \/ E(f) = E(n)
      BY <1>2, <2>1
    <3> HIDE DEF n
    <3>2. n + k >= N
      BY <1>1, <2>1, <3>1, SMT
    <3>3. CASE E(f) = n
      BY <3>1, <3>3
    <3>4. CASE E(f) = E(n)
      <4>1. E(n) \in (n + 1)..N
        BY <1>4, <2>1, <3>1, <3>2, <3>4
      <4>2. \A x \in (n + 1)..N : x \in (f + 1)..N
        BY <1>1, <3>1, SMT
      <4> QED
        BY <3>4, <4>1, <4>2
    <3> QED
      BY <3>1, <3>3, <3>4
  <2> HIDE DEF E
  <2>2. k + 1 \in Nat
    OBVIOUS
  <2> QED
    BY <2>1, <2>2
<1> HIDE DEF D
<1>5. N \in D
  BY <1>1, <1>3, <1>4, SetInduction
<1>6. \A f \in 0..N : f + N >= N
  BY <1>1, SMT
<1> USE DEF D
<1>7. E(from) # Malformed => E(from) \in (from + 1)..N
  BY <1>5, <1>6 DEF N
<1> QED
  BY <1>7 DEF E, N

\* A field with a tag of n bytes, a scalar of m and the cursor behind it.
FieldOf(data, start, n, m, next) ==
  LET tag == ValueAt(data, start, n) IN
    [number |-> NumberOf(tag), wire |-> WireOf(tag),
     scalar |-> IF WireOf(tag) \in {0, 2} THEN ValueAt(data, start + n, m) ELSE Long(0),
     next |-> next,
     bytes |-> SubSeq(data, ((start + n) + m) + 1, next), raw |-> SubSeq(data, start + 1, next)]

PayloadIs(data, at, m, next, tag, inner) ==
  \/ WireOf(tag) \in {0, 4} /\ next = at + m
  \/ WireOf(tag) = 1 /\ next = (at + m) + 8
  \/ WireOf(tag) = 5 /\ next = (at + m) + 4
  \/ /\ WireOf(tag) = 2 /\ IsSmall(ValueAt(data, at, m))
     /\ next = (at + m) + Low(ValueAt(data, at, m))
  \/ WireOf(tag) = 3 /\ next = GroupEnd(data, at, NumberOf(tag), inner) /\ next # Malformed

FieldIs(data, start, inner, n, m, next) ==
  LET tag == ValueAt(data, start, n) IN
    /\ Readable(data, start, n) /\ LegalTag(tag)
    /\ IF WireOf(tag) \in {0, 2} THEN Readable(data, start + n, m) ELSE m = 0
    /\ PayloadIs(data, start + n, m, next, tag, inner)
    /\ next \in Nat /\ next <= Len(data)

\* What is known of a cursor behind a varint.
LEMMA ReadAtFacts ==
  ASSUME NEW data \in Seq(Byte), NEW at \in 0..Len(data), NEW n, Readable(data, at, n)
  PROVE  /\ ReadVarint(data, at) # Malformed /\ ReadVarint(data, at).next = at + n
         /\ ReadVarint(data, at).value = ValueAt(data, at, n)
         /\ ValueAt(data, at, n) \in Longs /\ at + n \in 0..Len(data)
         /\ n \in Nat /\ n >= 1 /\ at + n > at /\ at + n \in Nat
<1> DEFINE v == ValueAt(data, at, n)
           c == at + n
<1>1. ReadVarint(data, at) = [next |-> c, value |-> v] /\ v \in Longs /\ c \in (at + 1)..Len(data)
  BY ReadVarintIs, Zenon DEF ReadAt
<1>2. at \in Nat /\ Len(data) \in Nat
  BY LenProperties, SMT
<1>3. n \in 1..10
  BY DEF Readable
<1>4. n \in Nat /\ n >= 1 /\ c > at /\ c \in Nat /\ c \in 0..Len(data)
  BY <1>2, <1>3, <1>1, SMT
<1> HIDE DEF v, c
<1>5. [next |-> c, value |-> v] \in Varints
  BY <1>1, <1>4 DEF Varints, Longs
<1>6. ReadVarint(data, at) # Malformed
  BY <1>1, <1>5, MalformedAssumption
<1> QED
  BY <1>1, <1>4, <1>6 DEF v, c

\* A tag has a number and one of eight wire types.
LEMMA TagFacts ==
  ASSUME NEW tag \in Longs
  PROVE  WireOf(tag) \in 0..7 /\ NumberOf(tag) \in Nat
<1>1. \A x \in 0..127 : x % 8 \in 0..7 /\ x \div 8 \in Nat
  BY SMT
<1>2. \A i \in 1..10 : tag[i] \in 0..127
  BY DEF Longs, Digits
<1>3. tag[1] \in 0..127 /\ tag[2] \in Nat /\ tag[3] \in Nat /\ tag[4] \in Nat /\ tag[5] \in Nat
  BY <1>2, SMT
<1>4. tag[1] % 8 \in 0..7 /\ tag[1] \div 8 \in Nat
  BY <1>1, <1>3, Zenon
<1>5. \A a, b, c, d, e \in Nat :
        (a * 2^25) + (b * 2^18) + (c * 2^11) + (d * 16) + e \in Nat
  BY SMT
<1>6. NumberOf(tag) \in Nat
  BY <1>3, <1>4, <1>5, Zenon DEF NumberOf
<1> QED
  BY <1>4, <1>6 DEF WireOf

\* The size of a value that is small.
LEMMA LowFacts ==
  ASSUME NEW l \in Longs
  PROVE  Low(l) \in Nat
<1>1. \A i \in 1..10 : l[i] \in 0..127
  BY DEF Longs, Digits
<1>2. l[1] \in Nat /\ l[2] \in Nat /\ l[3] \in Nat /\ l[4] \in Nat
  BY <1>1, SMT
<1> DEFINE a == l[1]
           b == l[2]
           c == l[3]
           d == l[4]
<1>3. Low(l) = a + 128 * (b + 128 * (c + 128 * d))
  BY Zenon DEF Low
<1>4. a \in Nat /\ b \in Nat /\ c \in Nat /\ d \in Nat
  BY <1>2
<1> HIDE DEF a, b, c, d
<1> QED
  BY <1>3, <1>4, SMT

\* A skip succeeds exactly within the data.
LEMMA SkipFacts ==
  ASSUME NEW data \in Seq(Byte), NEW at \in 0..Len(data), NEW l \in Longs, NEW next
  PROVE  /\ Skip(data, at, l) # Malformed =>
              /\ IsSmall(l) /\ Skip(data, at, l) = at + Low(l)
              /\ at + Low(l) \in Nat /\ at + Low(l) <= Len(data)
         /\ IsSmall(l) /\ next = at + Low(l) /\ next <= Len(data) => Skip(data, at, l) = next
<1> DEFINE a == Low(l)
<1>1. a \in Nat /\ at \in Nat /\ Len(data) \in Nat
  BY LowFacts, LenProperties, SMT
<1>a. Skip(data, at, l) = IF IsSmall(l) /\ a <= Len(data) - at THEN at + a ELSE Malformed
  BY Zenon DEF Skip
<1> HIDE DEF a
<1>2. a <= Len(data) - at <=> at + a <= Len(data)
  BY <1>1, SMT
<1>3. at + a \in Nat
  BY <1>1, SMT
<1> QED
  BY <1>2, <1>3, <1>a, Zenon DEF a

\* What the parser takes for a field has the shape of one.
LEMMA ReadIsField ==
  ASSUME NEW data \in Seq(Byte), NEW inner \in Table(data), NEW start \in 0..Len(data),
         ReadField(data, start, ReadVarint(data, start), inner) # Malformed
  PROVE  \E n, m, next :
           /\ FieldIs(data, start, inner, n, m, next)
           /\ ReadField(data, start, ReadVarint(data, start), inner) = FieldOf(data, start, n, m, next)
<1> DEFINE read == ReadVarint(data, start)
<1>1. read # Malformed /\ LegalTag(read.value)
  BY Zenon DEF ReadField
<1>2. PICK n : Readable(data, start, n)
  BY <1>1, ReadVarintEnds, Zenon
<1> DEFINE tag == ValueAt(data, start, n)
           at == start + n
           w == WireOf(tag)
           scalar == Scalar(data, at, w)
           group == GroupEnd(data, at, NumberOf(tag), inner)
           next == PayloadEnd(data, w, scalar, group)
<1>3. read.value = tag /\ read.next = at /\ tag \in Longs /\ at \in 0..Len(data) /\ at \in Nat
  BY <1>2, ReadAtFacts, Zenon
<1>4. w \in 0..7 /\ NumberOf(tag) \in Nat
  BY <1>3, TagFacts, Zenon
<1>5. ReadField(data, start, read, inner) = Field(data, start, tag, scalar, next)
  BY <1>1, <1>3, Zenon DEF ReadField, Tagged
<1>6. next # Malformed
  BY <1>5, Zenon DEF Field
<1>7. scalar # Malformed
  BY <1>6, Zenon DEF PayloadEnd
<1> HIDE DEF read, tag, w
<1>8. PICK m : /\ IF w \in {0, 2} THEN Readable(data, at, m) ELSE m = 0
               /\ scalar.next = at + m /\ at + m \in 0..Len(data)
               /\ scalar.value = IF w \in {0, 2} THEN ValueAt(data, at, m) ELSE Long(0)
               /\ scalar.value \in Longs
  <2>1. CASE w \in {0, 2}
    <3>1. scalar = ReadVarint(data, at)
      BY <2>1, Zenon DEF Scalar
    <3> HIDE DEF at
    <3>2. PICK m : Readable(data, at, m)
      BY <1>3, <1>7, <3>1, ReadVarintEnds, Zenon
    <3>a. ReadVarint(data, at).next = at + m /\ ReadVarint(data, at).value = ValueAt(data, at, m)
          /\ ValueAt(data, at, m) \in Longs /\ at + m \in 0..Len(data)
      BY <1>3, <3>2, ReadAtFacts, Zenon
    <3> HIDE DEF scalar
    <3>3. scalar.next = at + m /\ scalar.value = ValueAt(data, at, m) /\ scalar.value \in Longs
          /\ at + m \in 0..Len(data)
      BY <3>1, <3>a, Zenon
    <3> HIDE DEF scalar, at
    <3> QED
      BY <2>1, <3>2, <3>3
  <2>2. CASE ~(w \in {0, 2})
    <3>1. scalar = [next |-> at, value |-> Long(0)]
      BY <2>2, Zenon DEF Scalar
    <3>2. Long(0) \in Longs /\ at + 0 = at
      <4>1. 0 \in Int /\ at + 0 = at
        BY <1>3, SMT
      <4> QED
        BY <4>1, LongType
    <3>3. scalar.next = at + 0 /\ scalar.value = Long(0) /\ scalar.value \in Longs
      BY <3>1, <3>2
    <3> HIDE DEF scalar
    <3> QED
      BY <1>3, <2>2, <3>2, <3>3
  <2> QED
    BY <2>1, <2>2
<1>9. PayloadIs(data, at, m, next, tag, inner) /\ next \in Nat /\ next <= Len(data)
  <2> DEFINE from == at + m
  <2>a. scalar.next = from /\ from \in 0..Len(data)
    BY <1>8
  <2>b. Long(8) \in Longs /\ Low(Long(8)) = 8 /\ Long(4) \in Longs /\ Low(Long(4)) = 4
    <3>1. 8 \in Size /\ 4 \in Size /\ 8 \in Int /\ 4 \in Int
      BY SMT DEF Size
    <3> QED
      BY <3>1, LongSmall, LongType
  <2> HIDE DEF scalar, at
  <2>0. from \in Nat /\ from <= Len(data)
    BY <2>a, LenProperties, SMT
  <2> HIDE DEF from
  <2>1. CASE w \in {0, 4}
    <3>1. next = from
      BY <1>7, <2>1, <2>a, SMT DEF PayloadEnd
    <3> QED
      BY <2>1, <3>1, <2>0 DEF PayloadIs, from, w
  <2>2. CASE w = 1
    <3>1. next = Skip(data, from, Long(8))
      BY <1>7, <2>2, <2>a, SMT DEF PayloadEnd
    <3>2. next = from + 8 /\ next \in Nat /\ next <= Len(data)
      BY <1>6, <2>a, <2>b, <3>1, SkipFacts
    <3> QED
      BY <2>2, <3>2 DEF PayloadIs, from, w
  <2>3. CASE w = 5
    <3>1. next = Skip(data, from, Long(4))
      BY <1>7, <2>3, <2>a, SMT DEF PayloadEnd
    <3>2. next = from + 4 /\ next \in Nat /\ next <= Len(data)
      BY <1>6, <2>a, <2>b, <3>1, SkipFacts
    <3> QED
      BY <2>3, <3>2 DEF PayloadIs, from, w
  <2>4. CASE w = 2
    <3>1. next = Skip(data, from, scalar.value) /\ scalar.value = ValueAt(data, at, m)
      BY <1>7, <1>8, <2>4, <2>a, SMT DEF PayloadEnd
    <3>2. IsSmall(scalar.value) /\ next = from + Low(scalar.value) /\ next \in Nat /\ next <= Len(data)
      BY <1>6, <1>8, <2>a, <3>1, SkipFacts
    <3> QED
      BY <2>4, <3>1, <3>2 DEF PayloadIs, from, w
  <2>5. CASE w = 3
    <3>1. next = group
      BY <1>7, <2>5, SMT DEF PayloadEnd
    <3>2. next \in Nat /\ next <= Len(data)
      <4>1. next \in (at + 1)..Len(data)
        BY <1>3, <1>6, <3>1, GroupEndType, Zenon
      <4> HIDE DEF next
      <4> QED
        BY <1>3, <4>1, LenProperties, SMT
    <3> QED
      BY <1>6, <2>5, <3>1, <3>2, Zenon DEF PayloadIs, w
  <2>6. w \in 0..5
    <3>1. w \in {6, 7} => next = Malformed
      BY <1>7, SMT DEF PayloadEnd
    <3> QED
      BY <1>4, <1>6, <3>1, SMT
  <2> QED
    BY <2>1, <2>2, <2>3, <2>4, <2>5, <2>6, SMT
<1>10. FieldIs(data, start, inner, n, m, next)
  BY <1>1, <1>2, <1>3, <1>8, <1>9, Zenon DEF FieldIs, tag, w, at
<1>11. Field(data, start, tag, scalar, next) = FieldOf(data, start, n, m, next)
  BY <1>6, <1>8, Zenon DEF Field, FieldOf, tag, w, at
<1> QED
  BY <1>5, <1>10, <1>11, Zenon DEF read

\* What has the shape of a field is read as that field.
LEMMA FieldIsRead ==
  ASSUME NEW data \in Seq(Byte), NEW inner \in Table(data), NEW start \in 0..Len(data),
         NEW n, NEW m, NEW next, FieldIs(data, start, inner, n, m, next)
  PROVE  /\ ReadField(data, start, ReadVarint(data, start), inner) = FieldOf(data, start, n, m, next)
         /\ FieldOf(data, start, n, m, next) \in ParsedField
         /\ FieldOf(data, start, n, m, next) # Malformed
         /\ next \in (start + 1)..Len(data)
         /\ n \in Nat /\ n >= 1 /\ m \in Nat /\ (start + n) + m <= next
<1> DEFINE read == ReadVarint(data, start)
           tag == ValueAt(data, start, n)
           at == start + n
           w == WireOf(tag)
           scalar == Scalar(data, at, w)
           group == GroupEnd(data, at, NumberOf(tag), inner)
           from == at + m
           value == IF w \in {0, 2} THEN ValueAt(data, at, m) ELSE Long(0)
<1>1. /\ Readable(data, start, n) /\ LegalTag(tag)
      /\ IF w \in {0, 2} THEN Readable(data, at, m) ELSE m = 0
      /\ PayloadIs(data, at, m, next, tag, inner)
      /\ next \in Nat /\ next <= Len(data)
  BY Zenon DEF FieldIs
<1>2. /\ read # Malformed /\ read.value = tag /\ read.next = at /\ tag \in Longs
      /\ at \in 0..Len(data) /\ at \in Nat /\ at > start /\ n \in Nat /\ n >= 1
  BY <1>1, ReadAtFacts, Zenon
<1>3. w \in 0..7 /\ NumberOf(tag) \in Nat
  BY <1>2, TagFacts, Zenon
<1>4. ReadField(data, start, read, inner)
        = Field(data, start, tag, scalar, PayloadEnd(data, w, scalar, group))
  BY <1>1, <1>2, Zenon DEF ReadField, Tagged
<1> HIDE DEF read, tag, w, at
<1>5. /\ m \in Nat /\ from \in 0..Len(data) /\ value \in Longs
      /\ scalar # Malformed /\ scalar.next = from /\ scalar.value = value
  <2>1. CASE w \in {0, 2}
    <3>1. scalar = ReadVarint(data, at)
      BY <2>1, Zenon DEF Scalar
    <3>2. Readable(data, at, m)
      BY <1>1, <2>1
    <3>3. /\ ReadVarint(data, at).next = at + m /\ ReadVarint(data, at).value = ValueAt(data, at, m)
          /\ ValueAt(data, at, m) \in Longs /\ at + m \in 0..Len(data) /\ m \in Nat
          /\ ReadVarint(data, at) # Malformed
      BY <1>2, <3>2, ReadAtFacts, Zenon
    <3> HIDE DEF scalar
    <3> QED
      BY <2>1, <3>1, <3>3
  <2>2. CASE ~(w \in {0, 2})
    <3>1. scalar = [next |-> at, value |-> Long(0)] /\ m = 0
      BY <1>1, <2>2, Zenon DEF Scalar
    <3>2. Long(0) \in Longs /\ at + 0 = at
      <4>1. 0 \in Int /\ at + 0 = at
        BY <1>2, SMT
      <4> QED
        BY <4>1, LongType
    <3>3. [next |-> at, value |-> Long(0)] \in Varints
      BY <1>2, <3>2 DEF Varints, Longs
    <3>4. scalar # Malformed
      BY <3>1, <3>3, MalformedAssumption
    <3> HIDE DEF scalar
    <3> QED
      BY <1>2, <2>2, <3>1, <3>2, <3>4
  <2> QED
    BY <2>1, <2>2
<1>6. Long(8) \in Longs /\ Low(Long(8)) = 8 /\ IsSmall(Long(8))
      /\ Long(4) \in Longs /\ Low(Long(4)) = 4 /\ IsSmall(Long(4))
  <2>1. 8 \in Size /\ 4 \in Size /\ 8 \in Int /\ 4 \in Int
    BY SMT DEF Size
  <2> QED
    BY <2>1, LongSmall, LongType
<1> HIDE DEF scalar
<1>7. from \in Nat /\ Len(data) \in Nat /\ from <= Len(data) /\ from >= at
  BY <1>2, <1>5, LenProperties, SMT
<1>a. w = 2 => value = ValueAt(data, at, m)
  BY SMT
<1> HIDE DEF from, value
<1>b. \/ w \in {0, 4} /\ next = from
      \/ w = 1 /\ next = from + 8
      \/ w = 5 /\ next = from + 4
      \/ w = 2 /\ IsSmall(value) /\ next = from + Low(value)
      \/ w = 3 /\ next = group /\ next # Malformed
  BY <1>1, <1>a, Zenon DEF PayloadIs, from, w
<1>8. PayloadEnd(data, w, scalar, group) = next /\ from <= next
  <2>1. CASE w \in {0, 4} /\ next = from
    BY <1>5, <1>7, <2>1, SMT DEF PayloadEnd
  <2>2. CASE w = 1 /\ next = from + 8
    <3>1. Skip(data, from, Long(8)) = next
      BY <1>1, <1>5, <1>6, <2>2, SkipFacts
    <3> QED
      BY <1>5, <1>7, <2>2, <3>1, SMT DEF PayloadEnd
  <2>3. CASE w = 5 /\ next = from + 4
    <3>1. Skip(data, from, Long(4)) = next
      BY <1>1, <1>5, <1>6, <2>3, SkipFacts
    <3> QED
      BY <1>5, <1>7, <2>3, <3>1, SMT DEF PayloadEnd
  <2>4. CASE w = 2 /\ IsSmall(value) /\ next = from + Low(value)
    <3>1. Skip(data, from, value) = next
      BY <1>1, <1>5, <2>4, SkipFacts
    <3>2. Low(value) \in Nat
      BY <1>5, LowFacts
    <3> QED
      BY <1>5, <1>7, <2>4, <3>1, <3>2, SMT DEF PayloadEnd
  <2>5. CASE w = 3 /\ next = group /\ next # Malformed
    <3>1. next \in (at + 1)..Len(data)
      BY <1>2, <2>5, GroupEndType, Zenon
    <3>2. m = 0 /\ from = at
      <4>1. m = 0
        BY <1>1, <2>5, SMT
      <4> QED
        BY <1>2, <4>1, SMT DEF from
    <3> HIDE DEF group
    <3>3. from <= next
      BY <1>2, <3>1, <3>2, SMT
    <3> QED
      BY <1>5, <2>5, <3>3, SMT DEF PayloadEnd
  <2> QED
    BY <1>b, <2>1, <2>2, <2>3, <2>4, <2>5, Zenon
<1>9. next \in (start + 1)..Len(data) /\ from <= next
  BY <1>1, <1>2, <1>7, <1>8, SMT
<1>10. FieldOf(data, start, n, m, next) =
         [number |-> NumberOf(tag), wire |-> w, scalar |-> value, next |-> next,
          bytes |-> SubSeq(data, from + 1, next), raw |-> SubSeq(data, start + 1, next)]
  BY Zenon DEF FieldOf, tag, w, at, from, value
<1>11. SubSeq(data, from + 1, next) \in Seq(Byte) /\ SubSeq(data, start + 1, next) \in Seq(Byte)
  <2>1. /\ from \in 0..Len(data) /\ next \in from..Len(data) /\ start \in 0..Len(data)
        /\ next \in start..Len(data)
    BY <1>1, <1>7, <1>9, SMT
  <2> QED
    BY <2>1, PieceFacts, Zenon
<1>12. FieldOf(data, start, n, m, next) \in ParsedField
  BY <1>1, <1>3, <1>5, <1>10, <1>11 DEF ParsedField
<1>13. next # Malformed
  BY <1>1, MalformedAssumption
<1>14. ReadField(data, start, read, inner) = FieldOf(data, start, n, m, next)
  BY <1>4, <1>5, <1>8, <1>10, <1>13, Zenon DEF Field, w
<1>15. FieldOf(data, start, n, m, next) # Malformed
  BY <1>12, MalformedAssumption
<1> QED
  BY <1>2, <1>5, <1>9, <1>12, <1>14, <1>15, Zenon DEF read, from, at

\* The fields at one depth of nesting, read with those one deeper.
Level(data, depth, inner) ==
  [start \in 0..Len(data) |->
    IF depth > MaxDepth THEN Malformed
    ELSE ReadField(data, start, ReadVarint(data, start), inner)]

NoFields(data) == [start \in 0..Len(data) |-> Malformed]

\* A table of fields comes of the table one group deeper; beyond MaxDepth nothing is read.
LEMMA LevelFacts ==
  ASSUME NEW data \in Seq(Byte), NEW depth \in 0..(MaxDepth + 1)
  PROVE  /\ NoFields(data) \in Table(data)
         /\ depth = MaxDepth + 1 => \A inner : Level(data, depth, inner) = NoFields(data)
         /\ \A inner \in Table(data) : Level(data, depth, inner) \in Table(data)
<1>1. NoFields(data) \in Table(data)
  BY DEF Table, NoFields
<1>2. ASSUME depth = MaxDepth + 1, NEW inner
      PROVE  Level(data, depth, inner) = NoFields(data)
  <2>1. depth > MaxDepth
    BY <1>2, LimitsAssumption, SMT
  <2> QED
    BY <2>1, Zenon DEF Level, NoFields
<1>3. ASSUME NEW inner \in Table(data)
      PROVE  Level(data, depth, inner) \in Table(data)
  <2> DEFINE f(s) == ReadField(data, s, ReadVarint(data, s), inner)
             g == Level(data, depth, inner)
  <2>1. ASSUME NEW s \in 0..Len(data), f(s) # Malformed
        PROVE  /\ f(s) \in ParsedField /\ f(s).next \in (s + 1)..Len(data)
               /\ f(s).raw = SubSeq(data, s + 1, f(s).next)
    <3>1. PICK n, m, next :
            /\ FieldIs(data, s, inner, n, m, next) /\ f(s) = FieldOf(data, s, n, m, next)
      BY <2>1, ReadIsField, Zenon
    <3>2. FieldOf(data, s, n, m, next) \in ParsedField /\ next \in (s + 1)..Len(data)
      BY <3>1, FieldIsRead, Zenon
    <3>3. FieldOf(data, s, n, m, next).next = next
          /\ FieldOf(data, s, n, m, next).raw = SubSeq(data, s + 1, next)
      BY DEF FieldOf
    <3> HIDE DEF f
    <3> QED
      BY <3>1, <3>2, <3>3
  <2>2. g = [s \in 0..Len(data) |-> IF depth > MaxDepth THEN Malformed ELSE f(s)]
    BY Zenon DEF Level
  <2> HIDE DEF f, g
  <2>3. g \in [0..Len(data) -> ParsedField \cup {Malformed}]
    BY <2>1, <2>2
  <2>4. \A s \in 0..Len(data) : g[s] # Malformed => g[s] = f(s)
    BY <2>2
  <2>5. ASSUME NEW s \in 0..Len(data), g[s] # Malformed
        PROVE  g[s].next \in (s + 1)..Len(data) /\ g[s].raw = SubSeq(data, s + 1, g[s].next)
    BY <2>1, <2>4, <2>5
  <2> QED
    BY <2>3, <2>5 DEF Table, g
<1> QED
  BY <1>1, <1>2, <1>3

IsTables(at, data) ==
  \A d \in 0..(MaxDepth + 1) : at[d] \in Table(data) /\ at[d] = Level(data, d, at[d + 1])

\* FieldAt is the table of fields outside all groups.
LEMMA FieldAtIs ==
  ASSUME NEW data \in Seq(Byte)
  PROVE  \E at : IsTables(at, data) /\ FieldAt(data) = at[0]
<1> DEFINE N == MaxDepth + 1
           V == Table(data)
           later == [d \in 0..N |-> d + 1]
           step == [d \in 0..N |-> [inner \in V |-> Level(data, d, inner)]]
           base == [d \in 0..N |-> NoFields(data)]
           at[depth \in 0..N] ==
             [start \in 0..Len(data) |->
               IF depth > MaxDepth THEN Malformed
               ELSE ReadField(data, start, ReadVarint(data, start), at[depth + 1])]
<1>1. N \in Nat /\ 0 \in 0..N /\ \A d \in 0..N : d \in Nat /\ d + 1 > d
      /\ (d + 1 <= N => d + 1 \in 0..N) /\ (d + 1 <= N \/ d = N)
  BY LimitsAssumption, SMT
<1>a. FieldAt(data) = at[0]
  BY Zenon DEF FieldAt
<1>2. \A d \in 0..N : /\ NoFields(data) \in V
                      /\ (d = N => \A inner : Level(data, d, inner) = NoFields(data))
                      /\ \A inner \in V : Level(data, d, inner) \in V
  BY LevelFacts, Zenon
<1> HIDE DEF N
<1>3. \A d \in 0..N : later[d] \in Nat /\ later[d] > d
  BY <1>1
<1> HIDE DEF V
<1>4. step \in [0..N -> [V -> V]] /\ base \in [0..N -> V]
  BY <1>1, <1>2
<1> HIDE DEF later, step, base
<1>5. PICK g \in [0..N -> V] : Recurs(g, N, later, step, base)
  BY <1>1, <1>3, <1>4, Recursion, Zenon
<1>6. ASSUME NEW d \in 0..N
      PROVE  g[d] = Level(data, d, g[d + 1])
  <2>0. g[d] = IF later[d] <= N THEN step[d][g[later[d]]] ELSE base[d]
    BY <1>5, Zenon DEF Recurs
  <2>1. CASE d + 1 <= N
    <3>1. later[d] = d + 1 /\ d + 1 \in 0..N
      BY <1>1, <2>1 DEF later
    <3>2. g[d] = step[d][g[d + 1]] /\ g[d + 1] \in V
      BY <2>0, <2>1, <3>1
    <3>3. \A v \in V : step[d][v] = Level(data, d, v)
      BY DEF step
    <3> QED
      BY <3>2, <3>3
  <2>2. CASE ~(d + 1 <= N)
    <3>1. later[d] = d + 1 /\ d = N
      BY <1>1, <2>2 DEF later
    <3>2. g[d] = NoFields(data)
      BY <2>0, <2>2, <3>1 DEF base
    <3> QED
      BY <1>2, <3>1, <3>2, Zenon
  <2> QED
    BY <2>1, <2>2
<1>7. g = [d \in 0..N |-> [start \in 0..Len(data) |->
               IF d > MaxDepth THEN Malformed
               ELSE ReadField(data, start, ReadVarint(data, start), g[d + 1])]]
  <2>1. g = [d \in 0..N |-> g[d]]
    OBVIOUS
  <2>2. \A d \in 0..N : g[d] = [start \in 0..Len(data) |->
               IF d > MaxDepth THEN Malformed
               ELSE ReadField(data, start, ReadVarint(data, start), g[d + 1])]
    BY <1>6, Zenon DEF Level
  <2> QED
    BY <2>1, <2>2, Zenon
<1>8. at = [d \in 0..N |-> [start \in 0..Len(data) |->
               IF d > MaxDepth THEN Malformed
               ELSE ReadField(data, start, ReadVarint(data, start), at[d + 1])]]
  BY <1>7, Zenon DEF at
<1> HIDE DEF at
<1>9. \A d \in 0..N : at[d] = Level(data, d, at[d + 1])
  BY <1>8, Zenon DEF Level
<1> DEFINE D == {k \in Nat : \A d \in 0..N : d + k >= N => at[d] \in V}
<1>10. 0 \in D
  <2>1. ASSUME NEW d \in 0..N, d + 0 >= N PROVE at[d] \in V
    <3>1. d = N
      BY <1>1, <2>1, SMT
    <3> QED
      BY <1>2, <1>9, <3>1, Zenon
  <2> QED
    BY <2>1
<1>11. ASSUME NEW k \in Nat, k \in D
       PROVE  k + 1 \in D
  <2>1. ASSUME NEW d \in 0..N, d + (k + 1) >= N PROVE at[d] \in V
    <3>1. CASE d + 1 <= N
      <4>1. d + 1 \in 0..N /\ (d + 1) + k >= N
        BY <1>1, <2>1, <3>1, SMT
      <4>2. at[d + 1] \in V
        BY <1>11, <4>1
      <4> QED
        BY <1>2, <1>9, <4>2, Zenon
    <3>2. CASE d = N
      BY <1>2, <1>9, <3>2, Zenon
    <3> QED
      BY <1>1, <3>1, <3>2
  <2>2. k + 1 \in Nat
    OBVIOUS
  <2> QED
    BY <2>1, <2>2
<1> HIDE DEF D
<1>12. N \in D
  BY <1>1, <1>10, <1>11, SetInduction
<1>13. \A d \in 0..N : at[d] \in V
  <2>1. \A d \in 0..N : d + N >= N
    BY <1>1, SMT
  <2> QED
    BY <1>12, <2>1 DEF D
<1>14. IsTables(at, data)
  BY <1>9, <1>13, Zenon DEF IsTables, N, V
<1> QED
  BY <1>14, <1>a, Zenon

---------------------------------------------------------------------------
(* A field is read the same wherever its bytes stand.                      *)

\* The bytes from a to b stand delta further on in data2.
Agree(data, data2, delta, a, b) ==
  /\ a + delta \in Nat /\ b + delta <= Len(data2)
  /\ \A i \in (a + 1)..b : data2[i + delta] = data[i]

\* Data that agree over a stretch agree over any part of it.
LEMMA AgreeWithin ==
  ASSUME NEW data, NEW data2, NEW delta \in Int, NEW a \in Nat, NEW b \in Nat,
         Len(data2) \in Nat, Agree(data, data2, delta, a, b),
         NEW c \in Nat, NEW d \in Nat, a <= c, d <= b
  PROVE  Agree(data, data2, delta, c, d)
<1>1. a + delta \in Nat /\ b + delta <= Len(data2)
  BY DEF Agree
<1>2. c + delta \in Nat /\ d + delta <= Len(data2) /\ \A i \in (c + 1)..d : i \in (a + 1)..b
  BY <1>1, SMT
<1> QED
  BY <1>2, Zenon DEF Agree

\* Over such a stretch they have the same pieces.
LEMMA AgreePiece ==
  ASSUME NEW data \in Seq(Byte), NEW data2 \in Seq(Byte), NEW delta \in Int,
         NEW a \in 0..Len(data), NEW b \in a..Len(data), Agree(data, data2, delta, a, b)
  PROVE  SubSeq(data2, (a + delta) + 1, b + delta) = SubSeq(data, a + 1, b)
<1> DEFINE a2 == a + delta
           b2 == b + delta
           s == SubSeq(data, a + 1, b)
           s2 == SubSeq(data2, a2 + 1, b2)
<1>1. a2 \in Nat /\ b2 <= Len(data2) /\ \A i \in (a + 1)..b : data2[i + delta] = data[i]
  BY Zenon DEF Agree
<1>2. Len(data) \in Nat /\ Len(data2) \in Nat
  BY LenProperties
<1>3. a2 \in 0..Len(data2) /\ b2 \in a2..Len(data2) /\ b2 - a2 = b - a
      /\ \A i \in 1..(b - a) : a + i \in (a + 1)..b /\ (a + i) + delta = a2 + i
  BY <1>1, <1>2, SMT
<1> HIDE DEF a2, b2
<1>4. s \in Seq(Byte) /\ Len(s) = b - a /\ \A i \in 1..(b - a) : s[i] = data[a + i]
  BY PieceFacts, Zenon
<1>5. s2 \in Seq(Byte) /\ Len(s2) = b2 - a2 /\ \A i \in 1..(b2 - a2) : s2[i] = data2[a2 + i]
  BY <1>3, PieceFacts
<1> HIDE DEF s, s2
<1>6. Len(s) = Len(s2) /\ \A i \in 1..Len(s) : s[i] = s2[i]
  <2>1. Len(s) = Len(s2) /\ Len(s) = b - a
    BY <1>3, <1>4, <1>5
  <2>2. ASSUME NEW i \in 1..(b - a) PROVE s[i] = s2[i]
    <3>1. s[i] = data[a + i] /\ s2[i] = data2[a2 + i]
      BY <1>3, <1>4, <1>5
    <3>2. data2[(a + i) + delta] = data[a + i] /\ (a + i) + delta = a2 + i
      BY <1>1, <1>3
    <3> QED
      BY <3>1, <3>2
  <2> QED
    BY <2>1, <2>2, Zenon
<1>7. s = s2
  BY <1>4, <1>5, <1>6, SeqEqual
<1> QED
  BY <1>7 DEF s, s2, a2, b2

\* A varint is read alike in both.
LEMMA VarintLocal ==
  ASSUME NEW data \in Seq(Byte), NEW data2 \in Seq(Byte), NEW delta \in Int,
         NEW at \in 0..Len(data), NEW n, Readable(data, at, n),
         Agree(data, data2, delta, at, at + n)
  PROVE  /\ Readable(data2, at + delta, n)
         /\ ValueAt(data2, at + delta, n) = ValueAt(data, at, n)
<1> DEFINE at2 == at + delta
<1>1. n \in 1..10 /\ n \in Nat /\ at + n <= Len(data) /\ at \in Nat
  BY SMT DEF Readable, EndsAt
<1>2. at2 \in Nat /\ (at + n) + delta <= Len(data2)
      /\ \A i \in (at + 1)..(at + n) : data2[i + delta] = data[i]
  BY Zenon DEF Agree
<1>3. \A i \in 1..n : at + i \in (at + 1)..(at + n) /\ (at + i) + delta = at2 + i
  BY <1>1, SMT
<1>4. at2 + n = (at + n) + delta /\ n \in 1..n /\ \A i \in 1..(n - 1) : i \in 1..n
  BY <1>1, SMT
<1> HIDE DEF at2
<1>5. \A i \in 1..n : data2[at2 + i] = data[at + i]
  BY <1>2, <1>3, Zenon
<1>6. EndsAt(data2, at2, n)
  BY <1>2, <1>4, <1>5, Zenon DEF EndsAt, Readable
<1>7. n = 10 => data2[at2 + 10] % 128 <= 1
  BY <1>4, <1>5, Zenon DEF Readable
<1>8. Readable(data2, at2, n)
  BY <1>1, <1>6, <1>7, Zenon DEF Readable
<1>9. ValueAt(data2, at2, n) = ValueAt(data, at, n)
  <2>1. \A i \in Digits : i <= n => i \in 1..n
    BY <1>1, SMT DEF Digits
  <2>2. \A i \in Digits : (IF i <= n THEN data2[at2 + i] % 128 ELSE 0)
                            = (IF i <= n THEN data[at + i] % 128 ELSE 0)
    BY <1>5, <2>1, Zenon
  <2> QED
    BY <2>2, Zenon DEF ValueAt
<1> QED
  BY <1>8, <1>9 DEF at2

Shifted(field, delta) == [field EXCEPT !.next = field.next + delta]

Local(data, data2, delta, inner, inner2) ==
  \A s \in 0..Len(data) :
    inner[s] # Malformed /\ Agree(data, data2, delta, s, inner[s].next) =>
      inner2[s + delta] = Shifted(inner[s], delta)

\* A field read elsewhere has another cursor and is the same otherwise.
LEMMA ShiftedFacts ==
  ASSUME NEW f \in ParsedField, NEW delta \in Int
  PROVE  /\ Shifted(f, delta).next = f.next + delta /\ Shifted(f, delta).number = f.number
         /\ Shifted(f, delta).wire = f.wire /\ Shifted(f, delta).scalar = f.scalar
         /\ Shifted(f, delta).bytes = f.bytes /\ Shifted(f, delta).raw = f.raw
         /\ (f.next + delta \in Nat => Shifted(f, delta) \in ParsedField /\ Shifted(f, delta) # Malformed)
<1>1. /\ Shifted(f, delta).next = f.next + delta /\ Shifted(f, delta).number = f.number
      /\ Shifted(f, delta).wire = f.wire /\ Shifted(f, delta).scalar = f.scalar
      /\ Shifted(f, delta).bytes = f.bytes /\ Shifted(f, delta).raw = f.raw
  BY DEF ParsedField, Shifted
<1>2. f.next + delta \in Nat => Shifted(f, delta) \in ParsedField
  BY DEF ParsedField, Shifted
<1> QED
  BY <1>1, <1>2, MalformedAssumption

\* So is the end of a group.
LEMMA GroupLocal ==
  ASSUME NEW data \in Seq(Byte), NEW data2 \in Seq(Byte), NEW delta \in Int,
         NEW inner \in Table(data), NEW inner2 \in Table(data2),
         Local(data, data2, delta, inner, inner2), NEW number, NEW from \in 0..Len(data),
         NEW e \in Nat, e = GroupEnd(data, from, number, inner),
         Agree(data, data2, delta, from, e)
  PROVE  GroupEnd(data2, from + delta, number, inner2) = e + delta
<1> DEFINE N == Len(data)
           E(f) == GroupEnd(data, f, number, inner)
           E2(f) == GroupEnd(data2, f, number, inner2)
           D == {k \in Nat : \A f \in 0..N : f + k >= N /\ E(f) = e /\ Agree(data, data2, delta, f, e)
                                              => E2(f + delta) = e + delta}
<1>1. N \in Nat /\ Len(data2) \in Nat
  BY LenProperties
<1>a. e # Malformed
  BY MalformedAssumption
<1> HIDE DEF E, E2
<1>2. ASSUME NEW f \in 0..N, E(f) = e, Agree(data, data2, delta, f, e)
      PROVE  LET n == inner[f].next IN
             /\ n \in Nat /\ n > f /\ n \in 0..N
             /\ \/ E2(f + delta) = e + delta
                \/ E(n) = e /\ Agree(data, data2, delta, n, e) /\ E2(f + delta) = E2(n + delta)
  <2> DEFINE n == inner[f].next
             f2 == f + delta
             n2 == n + delta
  <2>1. inner[f] # Malformed
    BY <1>2, <1>a, GroupEndStep, Zenon DEF E, N
  <2>2. inner[f] \in ParsedField /\ n \in Nat /\ n > f /\ n \in 0..N /\ f \in Nat
    BY <2>1, TableFacts, Zenon DEF N
  <2>3. \/ EndsGroup(inner[f], number) /\ e = n
        \/ ~EndsGroup(inner[f], number) /\ inner[f].wire # 4 /\ E(n) = e
    BY <1>2, <1>a, <2>1, GroupEndStep, Zenon DEF E, N
  <2>4. n <= e
    <3>1. CASE e = n
      BY <2>2, <3>1, SMT
    <3>2. CASE E(n) = e
      <4>1. e \in (n + 1)..N
        BY <1>a, <2>2, <3>2, GroupEndType, Zenon DEF E, N
      <4> HIDE DEF n, N
      <4> QED
        BY <2>2, <4>1, SMT
    <3> QED
      BY <2>3, <3>1, <3>2
  <2>5. f2 \in 0..Len(data2)
    <3>1. f2 \in Nat /\ e + delta <= Len(data2)
      BY <1>2, Zenon DEF Agree
    <3> HIDE DEF n
    <3> QED
      BY <1>1, <2>2, <2>4, <3>1, SMT
  <2> HIDE DEF n, N
  <2>6. Agree(data, data2, delta, f, n) /\ Agree(data, data2, delta, n, e)
    <3>1. f <= f /\ n <= n /\ e <= e /\ f <= n
      BY <2>2, SMT
    <3> QED
      BY <1>1, <1>2, <2>2, <2>4, <3>1, AgreeWithin, Zenon
  <2>7. inner2[f2] = Shifted(inner[f], delta)
    BY <2>1, <2>6, Zenon DEF Local, N, n
  <2>8. n2 \in Nat
    BY <2>6 DEF Agree
  <2> HIDE DEF f2, n2
  <2>9. /\ inner2[f2] # Malformed /\ inner2[f2].next = n2
        /\ inner2[f2].wire = inner[f].wire /\ inner2[f2].number = inner[f].number
    <3> DEFINE g == inner[f]
    <3>1. g \in ParsedField /\ g.next + delta = n2 /\ n2 \in Nat /\ inner2[f2] = Shifted(g, delta)
      BY <2>2, <2>7, <2>8 DEF n2, n
    <3> HIDE DEF g
    <3>2. Shifted(g, delta).next = n2 /\ Shifted(g, delta).number = g.number
          /\ Shifted(g, delta).wire = g.wire /\ Shifted(g, delta) # Malformed
      BY <3>1, ShiftedFacts, Zenon
    <3> QED
      BY <3>1, <3>2 DEF g
  <2>10. EndsGroup(inner2[f2], number) <=> EndsGroup(inner[f], number)
    BY <2>9, Zenon DEF EndsGroup
  <2>11. E2(f2) = IF EndsGroup(inner[f], number) THEN n2
                  ELSE IF inner[f].wire = 4 THEN Malformed ELSE E2(n2)
    BY <2>5, <2>9, <2>10, GroupEndStep, Zenon DEF E2
  <2>12. \/ E2(f2) = e + delta
         \/ E(n) = e /\ Agree(data, data2, delta, n, e) /\ E2(f2) = E2(n2)
    BY <2>3, <2>6, <2>11, Zenon DEF n2
  <2> QED
    BY <2>2, <2>12, Zenon DEF f2, n2, n
<1> HIDE DEF N
<1>3. 0 \in D
  <2>1. ASSUME NEW f \in 0..N, f + 0 >= N, E(f) = e, Agree(data, data2, delta, f, e)
        PROVE  E2(f + delta) = e + delta
    <3> DEFINE n == inner[f].next
    <3>1. n > f /\ n \in 0..N
      BY <1>2, <2>1, Zenon
    <3> HIDE DEF n
    <3> QED
      BY <1>1, <2>1, <3>1, SMT
  <2> QED
    BY <2>1
<1>4. ASSUME NEW k \in Nat, k \in D
      PROVE  k + 1 \in D
  <2>1. ASSUME NEW f \in 0..N, f + (k + 1) >= N, E(f) = e, Agree(data, data2, delta, f, e)
        PROVE  E2(f + delta) = e + delta
    <3> DEFINE n == inner[f].next
    <3>1. /\ n > f /\ n \in 0..N /\ n \in Nat
          /\ \/ E2(f + delta) = e + delta
             \/ E(n) = e /\ Agree(data, data2, delta, n, e) /\ E2(f + delta) = E2(n + delta)
      BY <1>2, <2>1, Zenon
    <3> HIDE DEF n
    <3>2. n + k >= N
      BY <1>1, <2>1, <3>1, SMT
    <3>3. E(n) = e /\ Agree(data, data2, delta, n, e) => E2(n + delta) = e + delta
      BY <1>4, <3>1, <3>2, Zenon
    <3> QED
      BY <3>1, <3>3, Zenon
  <2>2. k + 1 \in Nat
    OBVIOUS
  <2> QED
    BY <2>1, <2>2
<1> HIDE DEF D
<1>5. N \in D
  BY <1>1, <1>3, <1>4, SetInduction
<1>6. from + N >= N /\ from \in 0..N
  BY <1>1, SMT DEF N
<1>7. E(from) = e
  BY DEF E
<1>8. E2(from + delta) = e + delta
  BY <1>5, <1>6, <1>7, Zenon DEF D
<1> QED
  BY <1>8 DEF E2

\* A field is read alike in both, if the fields within it are.
LEMMA FieldLocal ==
  ASSUME NEW data \in Seq(Byte), NEW data2 \in Seq(Byte), NEW delta \in Int,
         NEW inner \in Table(data), NEW inner2 \in Table(data2),
         Local(data, data2, delta, inner, inner2),
         NEW start \in 0..Len(data), NEW n, NEW m, NEW next,
         FieldIs(data, start, inner, n, m, next), Agree(data, data2, delta, start, next)
  PROVE  /\ FieldIs(data2, start + delta, inner2, n, m, next + delta)
         /\ FieldOf(data2, start + delta, n, m, next + delta)
              = Shifted(FieldOf(data, start, n, m, next), delta)
<1> DEFINE tag == ValueAt(data, start, n)
           at == start + n
           from == at + m
           start2 == start + delta
           at2 == start2 + n
           from2 == at2 + m
           next2 == next + delta
           w == WireOf(tag)
<1>1. /\ Readable(data, start, n) /\ LegalTag(tag)
      /\ IF w \in {0, 2} THEN Readable(data, at, m) ELSE m = 0
      /\ PayloadIs(data, at, m, next, tag, inner)
      /\ next \in Nat /\ next <= Len(data)
  BY Zenon DEF FieldIs
<1>2. next \in (start + 1)..Len(data) /\ n \in Nat /\ n >= 1 /\ m \in Nat /\ from <= next
      /\ FieldOf(data, start, n, m, next) \in ParsedField
  BY FieldIsRead, Zenon
<1>3. Len(data) \in Nat /\ Len(data2) \in Nat /\ start \in Nat
  BY LenProperties, SMT
<1>4. start2 \in Nat /\ next2 <= Len(data2)
  BY Zenon DEF Agree
<1>5. /\ at \in 0..Len(data) /\ from \in 0..Len(data) /\ at \in Nat /\ from \in Nat
      /\ at2 = at + delta /\ from2 = from + delta /\ next2 \in Nat
      /\ start <= at /\ at <= from /\ at <= next /\ start <= start /\ next <= next
      /\ start2 \in 0..Len(data2) /\ at2 \in 0..Len(data2) /\ start <= next
      /\ next \in from..Len(data) /\ next \in start..Len(data) /\ from <= next
  BY <1>1, <1>2, <1>3, <1>4, SMT
<1> HIDE DEF tag, at, from, start2, at2, from2, next2, w
<1>6. /\ Agree(data, data2, delta, start, at) /\ Agree(data, data2, delta, at, from)
      /\ Agree(data, data2, delta, at, next) /\ Agree(data, data2, delta, from, next)
  <2>1. start <= from
    BY <1>3, <1>5, SMT
  <2> QED
    BY <1>1, <1>3, <1>5, <2>1, AgreeWithin, Zenon
<1>7. Readable(data2, start2, n) /\ ValueAt(data2, start2, n) = tag
  <2>1. Readable(data, start, n) /\ Agree(data, data2, delta, start, start + n)
    BY <1>1, <1>6 DEF at
  <2> QED
    BY <2>1, VarintLocal DEF start2, tag
<1>8. w \in {0, 2} => Readable(data2, at2, m) /\ ValueAt(data2, at2, m) = ValueAt(data, at, m)
  <2>1. ASSUME w \in {0, 2}
        PROVE  Readable(data, at, m)
    BY <1>1, <2>1
  <2>2. ASSUME w \in {0, 2}
        PROVE  /\ Readable(data2, at + delta, m)
               /\ ValueAt(data2, at + delta, m) = ValueAt(data, at, m)
    <3>1. /\ Readable(data, at, m) /\ Agree(data, data2, delta, at, at + m)
          /\ at \in 0..Len(data)
      BY <1>5, <1>6, <2>1, <2>2 DEF from
    <3> QED
      BY <3>1, VarintLocal
  <2> QED
    BY <1>5, <2>2, Zenon
<1>9. PayloadIs(data2, at2, m, next2, tag, inner2)
  <2>1. CASE w \in {0, 4} /\ next = from
    <3>1. next2 = from2
      BY <1>5, <2>1 DEF next2
    <3> QED
      BY <2>1, <3>1, Zenon DEF PayloadIs, w, from2
  <2>2. CASE w = 1 /\ next = from + 8
    <3>1. next2 = from2 + 8
      BY <1>3, <1>5, <2>2, SMT DEF next2
    <3> QED
      BY <2>2, <3>1, Zenon DEF PayloadIs, w, from2
  <2>3. CASE w = 5 /\ next = from + 4
    <3>1. next2 = from2 + 4
      BY <1>3, <1>5, <2>3, SMT DEF next2
    <3> QED
      BY <2>3, <3>1, Zenon DEF PayloadIs, w, from2
  <2>4. CASE w = 2 /\ IsSmall(ValueAt(data, at, m)) /\ next = from + Low(ValueAt(data, at, m))
    <3>1. w \in {0, 2}
      BY <2>4
    <3>2. Low(ValueAt(data, at, m)) \in Nat
      <4>1. Readable(data, at, m)
        BY <1>1, <3>1
      <4> QED
        BY <1>5, <4>1, ReadAtFacts, LowFacts, Zenon
    <3> DEFINE l == Low(ValueAt(data, at, m))
    <3>3. l \in Nat /\ next = from + l
      BY <2>4, <3>2
    <3> HIDE DEF l
    <3>4. next2 = from2 + l
      BY <1>3, <1>5, <3>3, SMT DEF next2
    <3> QED
      BY <1>8, <2>4, <3>1, <3>4, Zenon DEF PayloadIs, w, from2, l
  <2>5. CASE w = 3 /\ next = GroupEnd(data, at, NumberOf(tag), inner) /\ next # Malformed
    <3>1. GroupEnd(data2, at + delta, NumberOf(tag), inner2) = next + delta
      <4>1. /\ at \in 0..Len(data) /\ next \in Nat /\ next = GroupEnd(data, at, NumberOf(tag), inner)
            /\ Agree(data, data2, delta, at, next)
        BY <1>1, <1>5, <1>6, <2>5
      <4> QED
        BY <4>1, GroupLocal
    <3>2. next2 # Malformed
      BY <1>5, MalformedAssumption
    <3> QED
      BY <1>5, <2>5, <3>1, <3>2, Zenon DEF PayloadIs, w, next2
  <2>6. \/ w \in {0, 4} /\ next = from
        \/ w = 1 /\ next = from + 8
        \/ w = 5 /\ next = from + 4
        \/ w = 2 /\ IsSmall(ValueAt(data, at, m)) /\ next = from + Low(ValueAt(data, at, m))
        \/ w = 3 /\ next = GroupEnd(data, at, NumberOf(tag), inner) /\ next # Malformed
    BY <1>1, Zenon DEF PayloadIs, w, from
  <2> QED
    BY <2>1, <2>2, <2>3, <2>4, <2>5, <2>6, Zenon
<1>10. FieldIs(data2, start2, inner2, n, m, next2)
  BY <1>1, <1>4, <1>5, <1>7, <1>8, <1>9, Zenon DEF FieldIs, w, at2
<1>11. /\ SubSeq(data2, from2 + 1, next2) = SubSeq(data, from + 1, next)
       /\ SubSeq(data2, start2 + 1, next2) = SubSeq(data, start + 1, next)
  <2>1. SubSeq(data2, (from + delta) + 1, next + delta) = SubSeq(data, from + 1, next)
    BY <1>5, <1>6, AgreePiece, Zenon
  <2>2. SubSeq(data2, (start + delta) + 1, next + delta) = SubSeq(data, start + 1, next)
    BY <1>5, AgreePiece, Zenon
  <2> QED
    BY <1>5, <2>1, <2>2, Zenon DEF next2, start2
<1>12. FieldOf(data2, start2, n, m, next2) =
         [number |-> NumberOf(tag), wire |-> w,
          scalar |-> IF w \in {0, 2} THEN ValueAt(data, at, m) ELSE Long(0),
          next |-> next2,
          bytes |-> SubSeq(data, from + 1, next), raw |-> SubSeq(data, start + 1, next)]
  <2>1. FieldOf(data2, start2, n, m, next2) =
          [number |-> NumberOf(tag), wire |-> w,
           scalar |-> IF w \in {0, 2} THEN ValueAt(data2, at2, m) ELSE Long(0),
           next |-> next2,
           bytes |-> SubSeq(data2, from2 + 1, next2), raw |-> SubSeq(data2, start2 + 1, next2)]
    BY <1>7, Zenon DEF FieldOf, at2, from2, w
  <2>2. (IF w \in {0, 2} THEN ValueAt(data2, at2, m) ELSE Long(0))
          = IF w \in {0, 2} THEN ValueAt(data, at, m) ELSE Long(0)
    BY <1>8, Zenon
  <2> QED
    BY <1>11, <2>1, <2>2, Zenon
<1>13. FieldOf(data, start, n, m, next) =
         [number |-> NumberOf(tag), wire |-> w,
          scalar |-> IF w \in {0, 2} THEN ValueAt(data, at, m) ELSE Long(0),
          next |-> next,
          bytes |-> SubSeq(data, from + 1, next), raw |-> SubSeq(data, start + 1, next)]
  BY Zenon DEF FieldOf, tag, w, at, from
<1>14. FieldOf(data2, start2, n, m, next2) = Shifted(FieldOf(data, start, n, m, next), delta)
  <2> DEFINE c == NumberOf(tag)
             v == IF w \in {0, 2} THEN ValueAt(data, at, m) ELSE Long(0)
             b == SubSeq(data, from + 1, next)
             u == SubSeq(data, start + 1, next)
             f == [number |-> c, wire |-> w, scalar |-> v, next |-> next, bytes |-> b, raw |-> u]
             g == [number |-> c, wire |-> w, scalar |-> v, next |-> next2, bytes |-> b, raw |-> u]
  <2>1. FieldOf(data, start, n, m, next) = f /\ FieldOf(data2, start2, n, m, next2) = g
    BY <1>12, <1>13
  <2> HIDE DEF c, v, b, u
  <2>2. g = [f EXCEPT !.next = next2] /\ f.next = next
    OBVIOUS
  <2> HIDE DEF f, g
  <2>3. g = Shifted(f, delta)
    BY <2>2 DEF Shifted, next2
  <2> QED
    BY <2>1, <2>3
<1> QED
  BY <1>10, <1>14 DEF start2, next2

\* So is every field of a table, if those one group deeper are.
LEMMA LevelLocal ==
  ASSUME NEW data \in Seq(Byte), NEW data2 \in Seq(Byte), NEW delta \in Int, NEW depth,
         NEW inner, NEW inner2,
         \/ depth > MaxDepth
         \/ inner \in Table(data) /\ inner2 \in Table(data2) /\ Local(data, data2, delta, inner, inner2)
  PROVE  Local(data, data2, delta, Level(data, depth, inner), Level(data2, depth, inner2))
<1> DEFINE f == Level(data, depth, inner)
           f2 == Level(data2, depth, inner2)
<1>1. ASSUME NEW s \in 0..Len(data), f[s] # Malformed, Agree(data, data2, delta, s, f[s].next)
      PROVE  f2[s + delta] = Shifted(f[s], delta)
  <2>1. f[s] = IF depth > MaxDepth THEN Malformed
               ELSE ReadField(data, s, ReadVarint(data, s), inner)
    BY Zenon DEF Level
  <2>2. /\ ~(depth > MaxDepth) /\ f[s] = ReadField(data, s, ReadVarint(data, s), inner)
        /\ inner \in Table(data) /\ inner2 \in Table(data2) /\ Local(data, data2, delta, inner, inner2)
    BY <1>1, <2>1, Zenon
  <2> HIDE DEF f
  <2>3. PICK n, m, next : FieldIs(data, s, inner, n, m, next) /\ f[s] = FieldOf(data, s, n, m, next)
    <3>1. /\ inner \in Table(data)
          /\ ReadField(data, s, ReadVarint(data, s), inner) # Malformed
      BY <1>1, <2>2
    <3> QED
      BY <2>2, <3>1, ReadIsField
  <2>4. f[s].next = next /\ next \in (s + 1)..Len(data)
    <3>1. next \in (s + 1)..Len(data)
      BY <2>2, <2>3, FieldIsRead, Zenon
    <3> QED
      BY <2>3, <3>1 DEF FieldOf
  <2>5. /\ FieldIs(data2, s + delta, inner2, n, m, next + delta)
        /\ FieldOf(data2, s + delta, n, m, next + delta) = Shifted(FieldOf(data, s, n, m, next), delta)
    <3>1. /\ inner \in Table(data) /\ inner2 \in Table(data2)
          /\ Local(data, data2, delta, inner, inner2)
          /\ FieldIs(data, s, inner, n, m, next) /\ Agree(data, data2, delta, s, next)
      BY <1>1, <2>2, <2>3, <2>4 DEF f
    <3> QED
      BY <3>1, FieldLocal
  <2>6. s + delta \in 0..Len(data2)
    <3>1. s + delta \in Nat /\ next + delta <= Len(data2) /\ Len(data2) \in Nat /\ Len(data) \in Nat
      BY <1>1, <2>4, LenProperties, Zenon DEF Agree
    <3> QED
      BY <2>4, <3>1, SMT
  <2>7. ReadField(data2, s + delta, ReadVarint(data2, s + delta), inner2)
          = FieldOf(data2, s + delta, n, m, next + delta)
    <3> DEFINE s2 == s + delta
               next2 == next + delta
    <3>1. s2 \in 0..Len(data2) /\ inner2 \in Table(data2) /\ FieldIs(data2, s2, inner2, n, m, next2)
      BY <2>2, <2>5, <2>6
    <3> HIDE DEF s2, next2
    <3>2. ReadField(data2, s2, ReadVarint(data2, s2), inner2) = FieldOf(data2, s2, n, m, next2)
      BY <3>1, FieldIsRead
    <3> QED
      BY <3>2 DEF s2, next2
  <2>8. f2[s + delta] = ReadField(data2, s + delta, ReadVarint(data2, s + delta), inner2)
    BY <2>2, <2>6, Zenon DEF Level
  <2> QED
    BY <2>3, <2>5, <2>7, <2>8, Zenon
<1> QED
  BY <1>1, Zenon DEF Local

\* A field is read the same in other data, and so are those nested in it.
LEMMA FieldAtLocal ==
  ASSUME NEW data \in Seq(Byte), NEW data2 \in Seq(Byte), NEW delta \in Int
  PROVE  /\ FieldAt(data) \in Table(data) /\ FieldAt(data2) \in Table(data2)
         /\ Local(data, data2, delta, FieldAt(data), FieldAt(data2))
<1> DEFINE N == MaxDepth + 1
<1>1. PICK at : IsTables(at, data) /\ FieldAt(data) = at[0]
  BY FieldAtIs, Zenon
<1>2. PICK at2 : IsTables(at2, data2) /\ FieldAt(data2) = at2[0]
  BY FieldAtIs, Zenon
<1>3. \A d \in 0..N : /\ at[d] \in Table(data) /\ at[d] = Level(data, d, at[d + 1])
                      /\ at2[d] \in Table(data2) /\ at2[d] = Level(data2, d, at2[d + 1])
  BY <1>1, <1>2, Zenon DEF IsTables
<1>4. N \in Nat /\ 0 \in 0..N
      /\ \A d \in 0..N : d \in Nat /\ (d > MaxDepth \/ d + 1 \in 0..N) /\ (d + 0 >= N => d > MaxDepth)
  BY LimitsAssumption, SMT
<1> HIDE DEF N
<1> DEFINE D == {k \in Nat : \A d \in 0..N : d + k >= N => Local(data, data2, delta, at[d], at2[d])}
<1>5. 0 \in D
  <2>1. ASSUME NEW d \in 0..N, d + 0 >= N PROVE Local(data, data2, delta, at[d], at2[d])
    <3>1. d > MaxDepth /\ at[d] = Level(data, d, at[d + 1]) /\ at2[d] = Level(data2, d, at2[d + 1])
      BY <1>3, <1>4, <2>1
    <3> QED
      BY <3>1, LevelLocal
  <2> QED
    BY <2>1
<1>6. ASSUME NEW k \in Nat, k \in D
      PROVE  k + 1 \in D
  <2>1. ASSUME NEW d \in 0..N, d + (k + 1) >= N PROVE Local(data, data2, delta, at[d], at2[d])
    <3>1. CASE d > MaxDepth
      BY <1>3, <3>1, LevelLocal, Zenon
    <3>2. CASE d + 1 \in 0..N
      <4>1. (d + 1) + k >= N
        BY <1>4, <2>1, SMT
      <4>2. Local(data, data2, delta, at[d + 1], at2[d + 1])
        BY <1>6, <3>2, <4>1
      <4> QED
        BY <1>3, <3>2, <4>2, LevelLocal, Zenon
    <3> QED
      BY <1>4, <3>1, <3>2
  <2>2. k + 1 \in Nat
    OBVIOUS
  <2> QED
    BY <2>1, <2>2
<1> HIDE DEF D
<1>7. N \in D
  BY <1>4, <1>5, <1>6, SetInduction
<1>8. 0 + N >= N
  BY <1>4, SMT
<1>9. Local(data, data2, delta, at[0], at2[0])
  BY <1>4, <1>7, <1>8 DEF D
<1> QED
  BY <1>1, <1>2, <1>3, <1>4, <1>9, Zenon

---------------------------------------------------------------------------
(* Messages.                                                               *)

\* The fields from each cursor to the end of the data.
FieldsFrom(fields, data) ==
  \A s \in 0..Len(data) :
    fields[s] = IF s = Len(data) THEN <<>> ELSE From(FieldAt(data)[s], fields)

\* Fields is what is collected from each cursor on, at the beginning.
LEMMA FieldsAre ==
  ASSUME NEW data \in Seq(Byte)
  PROVE  \E fields : FieldsFrom(fields, data) /\ Fields(data) = fields[0]
<1> DEFINE N == Len(data)
           F == FieldAt(data)
           V == Seq(ParsedField) \cup {Malformed}
           Stops(s) == s = N \/ F[s] = Malformed \/ F[s].wire = 4
           later == [s \in 0..N |-> IF Stops(s) THEN N + 1 ELSE F[s].next]
           step == [s \in 0..N |-> [v \in V |-> IF Stops(s) THEN Malformed ELSE Followed(F[s], v)]]
           base == [s \in 0..N |-> IF s = N THEN <<>> ELSE Malformed]
           fields[s \in 0..N] == IF s = N THEN <<>> ELSE From(F[s], fields)
<1>1. N \in Nat /\ 0 \in 0..N
  <2>1. N \in Nat
    BY LenProperties
  <2> HIDE DEF N
  <2> QED
    BY <2>1, SMT
<1>a. Fields(data) = fields[0]
  BY Zenon DEF Fields
<1>b. F \in Table(data)
  <2>1. 0 \in Int
    OBVIOUS
  <2> QED
    BY <2>1, FieldAtLocal
<1>2. ASSUME NEW s \in 0..N, F[s] # Malformed
      PROVE  /\ F[s] \in ParsedField /\ F[s].next \in Nat /\ F[s].next > s /\ F[s].next \in 0..N
             /\ F[s].next <= N
  <2>1. F[s] \in ParsedField /\ F[s].next \in Nat /\ F[s].next > s /\ F[s].next \in 0..N
    BY <1>2, <1>b, TableFacts
  <2> HIDE DEF N, F
  <2> QED
    BY <1>1, <2>1, SMT
<1> HIDE DEF N, F
<1>3. \A s \in 0..N : later[s] \in Nat /\ later[s] > s
  <2>1. \A s \in 0..N : N + 1 \in Nat /\ N + 1 > s
    BY <1>1, SMT
  <2> QED
    BY <1>2, <2>1
<1>4. step \in [0..N -> [V -> V]] /\ base \in [0..N -> V]
  <2>1. ASSUME NEW s \in 0..N, NEW v \in V, F[s] \in ParsedField
        PROVE  Followed(F[s], v) \in V
    <3>1. CASE v = Malformed
      BY <3>1 DEF Followed
    <3>2. CASE v \in Seq(ParsedField)
      <4>1. <<F[s]>> \o v \in Seq(ParsedField)
        BY <2>1, <3>2
      <4> QED
        BY <4>1 DEF Followed
    <3> QED
      BY <3>1, <3>2
  <2>2. <<>> \in V /\ Malformed \in V
    OBVIOUS
  <2>3. base \in [0..N -> V]
    BY <2>2
  <2>4. ASSUME NEW s \in 0..N, NEW v \in V
        PROVE  (IF Stops(s) THEN Malformed ELSE Followed(F[s], v)) \in V
    <3>1. CASE Stops(s)
      BY <2>2, <3>1
    <3>2. CASE ~Stops(s)
      <4>1. F[s] \in ParsedField
        BY <1>2, <3>2
      <4>2. Followed(F[s], v) \in V
        BY <2>1, <4>1
      <4> HIDE DEF V, Stops
      <4> QED
        BY <3>2, <4>2
    <3> QED
      BY <3>1, <3>2
  <2> HIDE DEF V, Stops
  <2>5. step \in [0..N -> [V -> V]]
    BY <2>4
  <2> QED
    BY <2>3, <2>5
<1> HIDE DEF later, step, base, V
<1>5. PICK g \in [0..N -> V] : Recurs(g, N, later, step, base)
  BY <1>1, <1>3, <1>4, Recursion, Zenon
<1>6. ASSUME NEW s \in 0..N
      PROVE  g[s] = IF s = N THEN <<>> ELSE From(F[s], g)
  <2>0. g[s] = IF later[s] <= N THEN step[s][g[later[s]]] ELSE base[s]
    BY <1>5, Zenon DEF Recurs
  <2>1. CASE Stops(s)
    <3>1. later[s] = N + 1 /\ ~(N + 1 <= N)
      BY <1>1, <2>1, SMT DEF later
    <3>2. g[s] = base[s]
      BY <2>0, <3>1
    <3>3. base[s] = IF s = N THEN <<>> ELSE Malformed
      BY DEF base
    <3> QED
      BY <2>1, <3>2, <3>3, Zenon DEF From
  <2>2. CASE ~Stops(s)
    <3>1. later[s] = F[s].next /\ later[s] <= N /\ later[s] \in 0..N
      BY <1>2, <2>2 DEF later
    <3>2. g[later[s]] \in V
      BY <3>1
    <3>3. \A v \in V : step[s][v] = Followed(F[s], v)
      BY <2>2 DEF step
    <3>4. g[s] = Followed(F[s], g[F[s].next])
      BY <2>0, <3>1, <3>2, <3>3
    <3> QED
      BY <2>2, <3>4, Zenon DEF From
  <2> QED
    BY <2>1, <2>2
<1>7. g = [s \in 0..N |-> IF s = N THEN <<>> ELSE From(F[s], g)]
  <2>1. g = [s \in 0..N |-> g[s]]
    OBVIOUS
  <2> QED
    BY <1>6, <2>1, Zenon
<1>8. fields = [s \in 0..N |-> IF s = N THEN <<>> ELSE From(F[s], fields)]
  BY <1>7, Zenon DEF fields
<1> HIDE DEF fields
<1>9. FieldsFrom(fields, data)
  BY <1>8, Zenon DEF FieldsFrom, N, F
<1> QED
  BY <1>9, <1>a, Zenon

\* Fields one behind another, with the cursors between them, to the end of the data.
Cut(data, start, fs, cur) ==
  /\ cur \in [0..Len(fs) -> 0..Len(data)] /\ cur[0] = start /\ cur[Len(fs)] = Len(data)
  /\ \A i \in 1..Len(fs) :
       /\ fs[i] = FieldAt(data)[cur[i - 1]] /\ fs[i] # Malformed
       /\ fs[i].wire # 4 /\ fs[i].next = cur[i]

\* A sequence is an element and what follows it.
LEMMA TailFacts ==
  ASSUME NEW S, NEW s \in Seq(S)
  PROVE  /\ SubSeq(s, 1, Len(s)) = s /\ SubSeq(s, Len(s) + 1, Len(s)) = <<>>
         /\ \A i \in 1..Len(s) : <<s[i]>> \o SubSeq(s, i + 1, Len(s)) = SubSeq(s, i, Len(s))
<1> DEFINE n == Len(s)
<1>1. n \in Nat /\ \A i \in 1..n : s[i] \in S
  BY LenProperties, ElementOfSeq
<1>2. SubSeq(s, 1, Len(s)) = s /\ SubSeq(s, Len(s) + 1, Len(s)) = <<>>
  <2>a. n \in 0..n /\ 0 \in 0..n /\ n \in 0..n /\ n \in n..n /\ n - n = 0 /\ n - 0 = n /\ 0 + 1 = 1
    BY <1>1, SMT
  <2> DEFINE t == SubSeq(s, 0 + 1, n)
             e == SubSeq(s, n + 1, n)
  <2>1. t \in Seq(S) /\ Len(t) = n - 0 /\ \A i \in 1..(n - 0) : t[i] = s[0 + i]
    BY <2>a, PieceFacts
  <2>2. e \in Seq(S) /\ Len(e) = n - n
    BY <2>a, PieceFacts
  <2>3. e = <<>>
    BY <2>a, <2>2, EmptySeq
  <2>4. \A i \in 1..n : 0 + i = i
    BY <1>1, SMT
  <2> HIDE DEF t
  <2>b. Len(t) = Len(s) /\ \A i \in 1..Len(t) : t[i] = s[i]
    BY <2>1, <2>4, <2>a, Zenon
  <2>5. t = s
    BY <2>1, <2>b, SeqEqual
  <2> QED
    BY <2>3, <2>5, <2>a DEF t
<1>3. ASSUME NEW i \in 1..n
      PROVE  <<s[i]>> \o SubSeq(s, i + 1, n) = SubSeq(s, i, n)
  <2> DEFINE a == <<s[i]>>
             b == SubSeq(s, i + 1, n)
             c == a \o b
             j == i - 1
             d == SubSeq(s, j + 1, n)
  <2>a. i \in 0..n /\ n \in i..n /\ j \in 0..n /\ n \in j..n /\ j + 1 = i /\ n - i \in Nat
        /\ 1 + (n - i) = n - j
    BY <1>1, SMT
  <2> HIDE DEF j
  <2>1. b \in Seq(S) /\ Len(b) = n - i /\ \A q \in 1..(n - i) : b[q] = s[i + q]
    BY <2>a, PieceFacts
  <2>2. d \in Seq(S) /\ Len(d) = n - j /\ \A q \in 1..(n - j) : d[q] = s[j + q]
    BY <2>a, PieceFacts, Zenon
  <2>3. a \in Seq(S) /\ Len(a) = 1 /\ a[1] = s[i]
    BY <1>1
  <2> HIDE DEF a, b, d, n
  <2>4. /\ c \in Seq(S) /\ Len(c) = 1 + (n - i)
        /\ \A q \in 1..(1 + (n - i)) : c[q] = IF q <= 1 THEN a[q] ELSE b[q - 1]
    <3>1. /\ a \o b \in Seq(S) /\ Len(a \o b) = Len(a) + Len(b)
          /\ \A q \in 1..(Len(a) + Len(b)) : (a \o b)[q] = IF q <= Len(a) THEN a[q] ELSE b[q - Len(a)]
      BY <2>1, <2>3, ConcatProperties
    <3> QED
      BY <2>1, <2>3, <3>1, Zenon
  <2> HIDE DEF c
  <2>5. ASSUME NEW q \in 1..(n - j) PROVE c[q] = d[q]
    <3>1. c[q] = IF q <= 1 THEN a[q] ELSE b[q - 1]
      BY <2>4, <2>a
    <3>2. CASE q = 1
      <4>1. c[q] = s[i]
        BY <2>3, <3>1, <3>2
      <4>2. d[q] = s[j + 1]
        BY <2>2, <3>2
      <4> QED
        BY <2>a, <4>1, <4>2
    <3>3. CASE q # 1
      <4>1. ~(q <= 1) /\ q - 1 \in 1..(n - i) /\ i + (q - 1) = j + q
        BY <1>1, <2>a, <3>3, SMT
      <4>2. c[q] = s[i + (q - 1)]
        BY <2>1, <3>1, <4>1
      <4> QED
        BY <2>2, <4>1, <4>2
    <3> QED
      BY <3>2, <3>3
  <2>6. c = d
    BY <2>2, <2>4, <2>5, <2>a, SeqEqual, Zenon
  <2> QED
    BY <2>6, <2>a DEF a, b, c, d
<1> QED
  BY <1>2, <1>3

CutStep(data, fs, cur, i) ==
  /\ i - 1 \in 0..Len(fs) /\ i \in 0..Len(fs)
  /\ cur[i - 1] \in 0..Len(data) /\ cur[i] \in 0..Len(data) /\ cur[i - 1] < cur[i]
  /\ fs[i] \in ParsedField /\ fs[i] = FieldAt(data)[cur[i - 1]] /\ fs[i].next = cur[i]
  /\ fs[i].wire # 4 /\ fs[i].raw = SubSeq(data, cur[i - 1] + 1, cur[i])

\* Where the data are cut, each piece begins where the last one ends.
LEMMA CutFacts ==
  ASSUME NEW data \in Seq(Byte), NEW start, NEW fs \in Seq(ParsedField), NEW cur,
         Cut(data, start, fs, cur)
  PROVE  /\ Len(fs) \in Nat /\ Len(data) \in Nat
         /\ \A i \in 0..Len(fs) : cur[i] \in 0..Len(data)
         /\ \A i \in 1..Len(fs) : CutStep(data, fs, cur, i)
<1>1. Len(fs) \in Nat /\ Len(data) \in Nat
  BY LenProperties
<1>2. FieldAt(data) \in Table(data)
  <2>1. 0 \in Int
    OBVIOUS
  <2> QED
    BY <2>1, FieldAtLocal
<1>3. \A i \in 0..Len(fs) : cur[i] \in 0..Len(data)
  BY Zenon DEF Cut
<1>4. ASSUME NEW i \in 1..Len(fs)
      PROVE  CutStep(data, fs, cur, i)
  <2>1. i - 1 \in 0..Len(fs) /\ i \in 0..Len(fs)
    BY <1>1, SMT
  <2>2. /\ fs[i] = FieldAt(data)[cur[i - 1]] /\ fs[i] # Malformed
        /\ fs[i].wire # 4 /\ fs[i].next = cur[i]
    BY Zenon DEF Cut
  <2> DEFINE a == cur[i - 1]
             f == FieldAt(data)[a]
  <2>3. a \in 0..Len(data) /\ f # Malformed
    BY <1>3, <2>1, <2>2
  <2> HIDE DEF a
  <2>4. f \in ParsedField /\ f.next > a /\ f.raw = SubSeq(data, a + 1, f.next) /\ a \in Nat
        /\ f.next \in Nat
    BY <1>2, <2>3, TableFacts, Zenon
  <2> HIDE DEF f
  <2>5. fs[i] = f
    BY <2>2 DEF f, a
  <2>6. cur[i] = f.next /\ a < f.next
    BY <2>2, <2>4, <2>5, SMT
  <2> QED
    BY <1>3, <2>1, <2>2, <2>4, <2>5, <2>6, Zenon DEF a, CutStep
<1> QED
  BY <1>1, <1>3, <1>4

\* Fields one behind another are what is read.
LEMMA CutIsRead ==
  ASSUME NEW data \in Seq(Byte), NEW fs \in Seq(ParsedField), NEW cur, Cut(data, 0, fs, cur)
  PROVE  Fields(data) = fs
<1> DEFINE n == Len(fs)
           N == Len(data)
<1>1. PICK fields : FieldsFrom(fields, data) /\ Fields(data) = fields[0]
  BY FieldsAre, Zenon
<1>2. \A s \in 0..N : fields[s] = IF s = N THEN <<>> ELSE From(FieldAt(data)[s], fields)
  BY <1>1, Zenon DEF FieldsFrom
<1>3. /\ n \in Nat /\ N \in Nat
      /\ \A i \in 0..n : cur[i] \in 0..N
      /\ \A i \in 1..n :
           /\ i - 1 \in 0..n /\ i \in 0..n
           /\ cur[i - 1] \in 0..N /\ cur[i] \in 0..N /\ cur[i - 1] < cur[i]
           /\ fs[i] \in ParsedField /\ fs[i] = FieldAt(data)[cur[i - 1]] /\ fs[i].next = cur[i]
           /\ fs[i].wire # 4
  <2>1. /\ n \in Nat /\ N \in Nat
        /\ \A i \in 0..n : cur[i] \in 0..N
        /\ \A i \in 1..n : CutStep(data, fs, cur, i)
    BY CutFacts, Zenon
  <2> QED
    BY <2>1, Zenon DEF CutStep
<1>4. cur[0] = 0 /\ cur[n] = N
  BY Zenon DEF Cut
<1>5. /\ SubSeq(fs, 1, n) = fs /\ SubSeq(fs, n + 1, n) = <<>>
      /\ \A i \in 1..n : <<fs[i]>> \o SubSeq(fs, i + 1, n) = SubSeq(fs, i, n)
  BY TailFacts, Zenon
<1> DEFINE D == {k \in Nat : \A i \in 0..n : i + k = n => fields[cur[i]] = SubSeq(fs, i + 1, n)}
<1>6. ASSUME NEW i \in 1..n, fields[cur[i]] = SubSeq(fs, i + 1, n)
      PROVE  fields[cur[i - 1]] = SubSeq(fs, i, n)
  <2> DEFINE a == cur[i - 1]
  <2>1. a \in 0..N /\ a # N /\ fs[i] = FieldAt(data)[a] /\ fs[i] \in ParsedField
        /\ fs[i].wire # 4 /\ fs[i].next = cur[i]
    <3>1. a \in 0..N /\ cur[i] \in 0..N /\ a < cur[i]
      BY <1>3
    <3>2. a # N
      BY <1>3, <3>1, SMT
    <3> QED
      BY <1>3, <3>1, <3>2
  <2> HIDE DEF a
  <2>2. fs[i] # Malformed /\ SubSeq(fs, i + 1, n) # Malformed
    <3>1. SubSeq(fs, i + 1, n) \in Seq(ParsedField)
      <4>1. i \in 0..n /\ n \in i..n
        BY <1>3, SMT
      <4> QED
        BY <4>1, PieceFacts, Zenon
    <3> QED
      BY <2>1, <3>1, MalformedAssumption
  <2>3. fields[a] = <<fs[i]>> \o SubSeq(fs, i + 1, n)
    BY <1>2, <1>6, <2>1, <2>2, Zenon DEF From, Followed
  <2> QED
    BY <1>5, <2>3 DEF a
<1> HIDE DEF n, N
<1>7. 0 \in D
  <2>1. \A i \in 0..n : i + 0 = n => i = n
    BY <1>3, SMT
  <2>2. N \in 0..N
    BY <1>3, SMT
  <2>3. \A i \in 0..n : i + 0 = n => fields[cur[i]] = SubSeq(fs, i + 1, n)
    BY <1>2, <1>4, <1>5, <2>1, <2>2, Zenon
  <2> QED
    BY <2>3
<1>8. ASSUME NEW k \in Nat, k \in D
      PROVE  k + 1 \in D
  <2>1. ASSUME NEW i \in 0..n, i + (k + 1) = n PROVE fields[cur[i]] = SubSeq(fs, i + 1, n)
    <3>1. i + 1 \in 1..n /\ i + 1 \in 0..n /\ (i + 1) + k = n /\ (i + 1) - 1 = i
      BY <1>3, <2>1, SMT
    <3>2. fields[cur[i + 1]] = SubSeq(fs, (i + 1) + 1, n)
      BY <1>8, <3>1
    <3> QED
      BY <1>6, <3>1, <3>2, Zenon
  <2>2. k + 1 \in Nat
    OBVIOUS
  <2> QED
    BY <2>1, <2>2
<1> HIDE DEF D
<1>9. n \in D
  BY <1>3, <1>7, <1>8, SetInduction
<1>10. 0 \in 0..n /\ 0 + n = n /\ 0 + 1 = 1
  BY <1>3, SMT
<1>11. fields[cur[0]] = SubSeq(fs, 0 + 1, n)
  BY <1>9, <1>10 DEF D
<1> QED
  BY <1>1, <1>4, <1>5, <1>10, <1>11, Zenon

\* A field before what is cut is cut off too.
LEMMA CutGrows ==
  ASSUME NEW data \in Seq(Byte), NEW s \in 0..Len(data), NEW f \in ParsedField,
         f = FieldAt(data)[s], f.wire # 4,
         NEW fs \in Seq(ParsedField), NEW cur, Cut(data, f.next, fs, cur)
  PROVE  \E cur2 : Cut(data, s, <<f>> \o fs, cur2)
<1> DEFINE n == Len(fs)
           gs == <<f>> \o fs
           cur2 == [i \in 0..(n + 1) |-> IF i = 0 THEN s ELSE cur[i - 1]]
<1>1. n \in Nat
  BY LenProperties
<1>2. /\ Len(gs) = 1 + n /\ gs[1] = f /\ \A i \in 1..(1 + n) : i = 1 \/ gs[i] = fs[i - 1]
  <2> DEFINE h == <<f>>
  <2>1. h \in Seq(ParsedField) /\ Len(h) = 1 /\ h[1] = f
    OBVIOUS
  <2> HIDE DEF h
  <2>2. /\ Len(h \o fs) = 1 + n
        /\ \A i \in 1..(1 + n) : (h \o fs)[i] = IF i <= 1 THEN h[i] ELSE fs[i - 1]
    <3>1. /\ Len(h \o fs) = Len(h) + Len(fs)
          /\ \A i \in 1..(Len(h) + Len(fs)) :
               (h \o fs)[i] = IF i <= Len(h) THEN h[i] ELSE fs[i - Len(h)]
      BY <2>1, ConcatProperties
    <3> QED
      BY <2>1, <3>1, Zenon
  <2>3. 1 \in 1..(1 + n) /\ 1 <= 1 /\ \A i \in 1..(1 + n) : i = 1 \/ ~(i <= 1)
    BY <1>1, SMT
  <2>4. /\ Len(h \o fs) = 1 + n /\ (h \o fs)[1] = f
        /\ \A i \in 1..(1 + n) : i = 1 \/ (h \o fs)[i] = fs[i - 1]
    BY <2>1, <2>2, <2>3, Zenon
  <2> QED
    BY <2>4 DEF h
<1>3. /\ cur \in [0..n -> 0..Len(data)] /\ cur[0] = f.next /\ cur[n] = Len(data)
      /\ \A i \in 1..n : /\ fs[i] = FieldAt(data)[cur[i - 1]] /\ fs[i] # Malformed
                         /\ fs[i].wire # 4 /\ fs[i].next = cur[i]
  BY Zenon DEF Cut
<1>4. /\ 0 \in 0..(n + 1) /\ n + 1 \in 0..(n + 1) /\ n + 1 # 0 /\ (n + 1) - 1 = n /\ 1 + n = n + 1
      /\ \A i \in 0..(n + 1) : i = 0 \/ i - 1 \in 0..n
      /\ \A i \in 1..(n + 1) : i # 0 /\ i \in 0..(n + 1) /\ i - 1 \in 0..(n + 1)
                               /\ (i = 1 \/ (i - 1 # 0 /\ i - 1 \in 1..n)) /\ (i = 1 => i - 1 = 0)
  BY <1>1, SMT
<1> HIDE DEF n, gs
<1>5. cur2 \in [0..(n + 1) -> 0..Len(data)]
  BY <1>3, <1>4
<1>6. cur2[0] = s /\ cur2[n + 1] = Len(data)
  BY <1>3, <1>4
<1>7. ASSUME NEW i \in 1..(n + 1)
      PROVE  /\ gs[i] = FieldAt(data)[cur2[i - 1]] /\ gs[i] # Malformed
             /\ gs[i].wire # 4 /\ gs[i].next = cur2[i]
  <2>0. cur2[i] = cur[i - 1]
    BY <1>4
  <2>1. CASE i = 1
    <3>1. cur2[i - 1] = s /\ cur2[i] = f.next /\ gs[i] = f
      BY <1>2, <1>3, <1>4, <2>0, <2>1
    <3> QED
      BY <3>1, MalformedAssumption
  <2>2. CASE i # 1
    <3>1. i - 1 \in 1..n /\ gs[i] = fs[i - 1] /\ cur2[i - 1] = cur[(i - 1) - 1]
      BY <1>2, <1>4, <2>2
    <3> HIDE DEF cur2
    <3> QED
      BY <1>3, <2>0, <3>1, Zenon
  <2> QED
    BY <2>1, <2>2
<1> HIDE DEF cur2
<1>8. Cut(data, s, gs, cur2)
  BY <1>2, <1>4, <1>5, <1>6, <1>7, Zenon DEF Cut
<1> QED
  BY <1>8 DEF gs

\* What is read are fields one behind another.
LEMMA ReadIsCut ==
  ASSUME NEW data \in Seq(Byte), Fields(data) # Malformed
  PROVE  Fields(data) \in Seq(ParsedField) /\ \E cur : Cut(data, 0, Fields(data), cur)
<1> DEFINE N == Len(data)
           F == FieldAt(data)
<1>1. PICK fields : FieldsFrom(fields, data) /\ Fields(data) = fields[0]
  BY FieldsAre, Zenon
<1>2. \A s \in 0..N : fields[s] = IF s = N THEN <<>> ELSE From(F[s], fields)
  BY <1>1, Zenon DEF FieldsFrom
<1>3. N \in Nat /\ F \in Table(data)
  <2>1. 0 \in Int
    OBVIOUS
  <2> QED
    BY <2>1, FieldAtLocal, LenProperties
<1> DEFINE IsCut(s) == fields[s] \in Seq(ParsedField) /\ \E cur : Cut(data, s, fields[s], cur)
           D == {k \in Nat : \A s \in 0..N : s + k >= N /\ fields[s] # Malformed => IsCut(s)}
<1>4. IsCut(N)
  <2> DEFINE cur == [i \in 0..0 |-> N]
             e == <<>>
  <2>1. N \in 0..N
    BY <1>3, SMT
  <2>2. fields[N] = e
    BY <1>2, <2>1
  <2>3. Len(e) = 0 /\ e \in Seq(ParsedField)
    OBVIOUS
  <2> HIDE DEF e
  <2>4. cur \in [0..0 -> 0..N] /\ cur[0] = N /\ ~(\E i \in 1..0 : TRUE)
    BY <2>1, SMT
  <2> HIDE DEF cur
  <2>5. Cut(data, N, e, cur)
    BY <2>3, <2>4, Zenon DEF Cut
  <2> QED
    BY <2>2, <2>3, <2>5
<1>5. ASSUME NEW s \in 0..N, s # N, fields[s] # Malformed
      PROVE  /\ F[s] \in ParsedField /\ F[s].next \in 0..N /\ F[s].next > s
             /\ fields[F[s].next] # Malformed
             /\ IsCut(F[s].next) => IsCut(s)
  <2>1. fields[s] = From(F[s], fields)
    BY <1>2, <1>5
  <2>2. F[s] # Malformed /\ F[s].wire # 4
    BY <1>5, <2>1, Zenon DEF From
  <2>3. fields[s] = Followed(F[s], fields[F[s].next])
    BY <2>1, <2>2, Zenon DEF From
  <2>4. fields[F[s].next] # Malformed /\ fields[s] = <<F[s]>> \o fields[F[s].next]
    BY <1>5, <2>3, Zenon DEF Followed
  <2>5. F[s] \in ParsedField /\ F[s].next \in 0..N /\ F[s].next > s
    BY <1>3, <2>2, TableFacts
  <2>6. ASSUME IsCut(F[s].next)
        PROVE  IsCut(s)
    <3> DEFINE f == F[s]
               gs == fields[F[s].next]
    <3>1. PICK cur : Cut(data, f.next, gs, cur)
      BY <2>6
    <3>2. f \in ParsedField /\ f = FieldAt(data)[s] /\ f.wire # 4 /\ gs \in Seq(ParsedField)
      BY <2>2, <2>5, <2>6
    <3>3. fields[s] = <<f>> \o gs
      BY <2>4
    <3> HIDE DEF f, gs
    <3>4. \E cur2 : Cut(data, s, <<f>> \o gs, cur2)
      BY <3>1, <3>2, CutGrows, Zenon
    <3>5. <<f>> \o gs \in Seq(ParsedField)
      BY <3>2
    <3> QED
      BY <3>3, <3>4, <3>5
  <2> QED
    BY <2>4, <2>5, <2>6
<1> HIDE DEF N, F, IsCut
<1>6. 0 \in D
  <2>1. \A s \in 0..N : s + 0 >= N => s = N
    BY <1>3, SMT
  <2> QED
    BY <1>4, <2>1
<1>7. ASSUME NEW k \in Nat, k \in D
      PROVE  k + 1 \in D
  <2>1. ASSUME NEW s \in 0..N, s + (k + 1) >= N, fields[s] # Malformed PROVE IsCut(s)
    <3>1. CASE s = N
      BY <1>4, <3>1
    <3>2. CASE s # N
      <4> DEFINE next == F[s].next
      <4>1. next \in 0..N /\ next > s /\ fields[next] # Malformed /\ (IsCut(next) => IsCut(s))
        BY <1>5, <2>1, <3>2
      <4> HIDE DEF next
      <4>2. next + k >= N
        BY <1>3, <2>1, <4>1, SMT
      <4> QED
        BY <1>7, <4>1, <4>2
    <3> QED
      BY <3>1, <3>2
  <2>2. k + 1 \in Nat
    OBVIOUS
  <2> QED
    BY <2>1, <2>2
<1> HIDE DEF D
<1>8. N \in D
  BY <1>3, <1>6, <1>7, SetInduction
<1>9. 0 \in 0..N /\ 0 + N >= N
  BY <1>3, SMT
<1>10. IsCut(0)
  BY <1>1, <1>8, <1>9 DEF D
<1> QED
  BY <1>1, <1>10, Zenon DEF IsCut

\* One field and nothing else.
Whole(p) ==
  /\ p \in Seq(Byte) /\ FieldAt(p)[0] # Malformed
  /\ FieldAt(p)[0].next = Len(p) /\ FieldAt(p)[0].wire # 4

Alike(f, g) ==
  f.number = g.number /\ f.wire = g.wire /\ f.scalar = g.scalar /\ f.bytes = g.bytes /\ f.raw = g.raw

\* A whole piece is read as one field with all its bytes.
LEMMA WholeFacts ==
  ASSUME NEW p, Whole(p)
  PROVE  /\ FieldAt(p)[0] \in ParsedField /\ FieldAt(p)[0].raw = p
         /\ p \in Seq(Byte) /\ Len(p) \in Nat /\ Len(p) >= 1 /\ 0 \in 0..Len(p)
         /\ FieldAt(p) \in Table(p)
<1>1. p \in Seq(Byte) /\ FieldAt(p)[0] # Malformed /\ FieldAt(p)[0].next = Len(p)
  BY DEF Whole
<1>2. Len(p) \in Nat
  BY <1>1, LenProperties
<1>3. 0 \in 0..Len(p) /\ 0 \in Int
  BY <1>2, SMT
<1>4. FieldAt(p) \in Table(p)
  BY <1>1, <1>3, FieldAtLocal, Zenon
<1> DEFINE f == FieldAt(p)[0]
<1>5. f \in ParsedField /\ f.next > 0 /\ f.raw = SubSeq(p, 0 + 1, f.next)
  BY <1>1, <1>3, <1>4, TableFacts, Zenon
<1>6. f.next = Len(p)
  BY <1>1
<1> HIDE DEF f
<1>7. Len(p) >= 1 /\ 0 + 1 = 1
  BY <1>2, <1>5, <1>6, SMT
<1>8. SubSeq(p, 1, Len(p)) = p
  BY <1>1, TailFacts, Zenon
<1>9. f.raw = p
  BY <1>5, <1>6, <1>7, <1>8, Zenon
<1> QED
  BY <1>1, <1>2, <1>3, <1>4, <1>5, <1>7, <1>9, Zenon DEF f

---------------------------------------------------------------------------
(* Pieces.                                                                 *)

\* A piece that stands in other data, as what agrees with it.
LEMMA StandingAgrees ==
  ASSUME NEW p \in Seq(Byte), NEW data \in Seq(Byte), NEW c \in Nat, Stands(data, c, p)
  PROVE  Agree(p, data, c, 0, Len(p)) /\ Len(p) + c = c + Len(p) /\ 0 + c = c
<1> DEFINE n == Len(p)
<1>1. n \in Nat /\ Len(data) \in Nat
  BY LenProperties
<1>2. c + n <= Len(data) /\ \A i \in 1..n : data[c + i] = p[i]
  BY Zenon DEF Stands
<1> HIDE DEF n
<1>3. 0 + c \in Nat /\ n + c <= Len(data) /\ n + c = c + n /\ 0 + c = c
      /\ \A i \in (0 + 1)..n : i \in 1..n /\ i + c = c + i
  BY <1>1, <1>2, SMT
<1> QED
  BY <1>2, <1>3, Zenon DEF Agree, n

\* Pieces of one field each are read as these fields.
LEMMA PiecesRead ==
  ASSUME NEW ps \in Seq(Seq(Byte)), \A i \in 1..Len(ps) : Whole(ps[i])
  PROVE  LET fs == Fields(FlattenSeq(ps)) IN
           /\ fs \in Seq(ParsedField) /\ Len(fs) = Len(ps) /\ FlattenSeq(ps) \in Seq(Byte)
           /\ \A i \in 1..Len(ps) : Alike(fs[i], FieldAt(ps[i])[0]) /\ fs[i].raw = ps[i]
<1> DEFINE n == Len(ps)
           data == FlattenSeq(ps)
<1>1. n \in Nat /\ \A i \in 1..n : i - 1 \in 0..n /\ i \in 0..n
  <2>1. n \in Nat
    BY LenProperties
  <2> HIDE DEF n
  <2> QED
    BY <2>1, SMT
<1>2. 0 \in 0..n /\ n \in 0..n
  BY <1>1, SMT
<1>3. PICK flat \in [0..n -> Seq(Byte)] : Flats(flat, ps)
  BY FlatStands, Zenon
<1>4. flat[0] = <<>> /\ flat[n] = data
  BY <1>3, Zenon DEF Flats
<1>5. \A i \in 1..n : /\ Len(flat[i]) = Len(flat[i - 1]) + Len(ps[i])
                      /\ Stands(data, 0, flat[i]) /\ Stands(data, Len(flat[i - 1]), ps[i])
  BY <1>3, Zenon DEF Flats
<1>6. data \in Seq(Byte) /\ Len(data) \in Nat
  <2>1. data \in Seq(Byte)
    BY <1>2, <1>3, <1>4
  <2> HIDE DEF data
  <2> QED
    BY <2>1, LenProperties
<1> DEFINE cur == [i \in 0..n |-> Len(flat[i])]
           f(i) == FieldAt(ps[i])[0]
           fs == [i \in 1..n |-> Shifted(f(i), cur[i - 1])]
<1>a. \A i \in 1..n : Whole(ps[i])
  OBVIOUS
<1> HIDE DEF data, n
<1>7. ASSUME NEW i \in 0..n
      PROVE  cur[i] \in 0..Len(data) /\ cur[i] = Len(flat[i]) /\ cur[i] \in Nat
  <2>1. Len(flat[i]) \in Nat
    BY LenProperties
  <2>2. CASE i = 0
    <3>1. Len(flat[i]) = 0
      BY <1>4, <2>2
    <3> QED
      BY <1>6, <3>1
  <2>3. CASE i # 0
    <3>1. i \in 1..n
      BY <1>1, <2>3, SMT
    <3>2. 0 + Len(flat[i]) <= Len(data)
      BY <1>5, <3>1 DEF Stands
    <3>3. Len(flat[i]) \in 0..Len(data)
      BY <1>6, <2>1, <3>2, SMT
    <3> QED
      BY <2>1, <3>3
  <2> QED
    BY <2>2, <2>3
<1>8. cur \in [0..n -> 0..Len(data)] /\ cur[0] = 0 /\ cur[n] = Len(data)
  <2>1. cur \in [0..n -> 0..Len(data)]
    <3>1. \A i \in 0..n : Len(flat[i]) \in 0..Len(data)
      BY <1>7
    <3> QED
      BY <3>1
  <2>2. cur[0] = 0
    <3>1. Len(flat[0]) = 0
      BY <1>4
    <3> QED
      BY <1>2, <3>1
  <2>3. cur[n] = Len(data)
    BY <1>2, <1>4
  <2> QED
    BY <2>1, <2>2, <2>3
<1> HIDE DEF cur
<1>9. ASSUME NEW i \in 1..n
      PROVE  /\ f(i) \in ParsedField /\ f(i).raw = ps[i]
             /\ Shifted(f(i), cur[i - 1]) = FieldAt(data)[cur[i - 1]]
             /\ Shifted(f(i), cur[i - 1]) \in ParsedField
             /\ Shifted(f(i), cur[i - 1]).next = cur[i] /\ Shifted(f(i), cur[i - 1]).wire # 4
             /\ Alike(Shifted(f(i), cur[i - 1]), f(i))
  <2> DEFINE p == ps[i]
             c == cur[i - 1]
             g == FieldAt(p)[0]
  <2>1. Whole(p) /\ c \in Nat /\ c \in Int
    BY <1>a, <1>1, <1>7
  <2>2. Stands(data, c, p) /\ cur[i] = c + Len(p)
    BY <1>1, <1>5, <1>7
  <2> HIDE DEF p, c
  <2>3. /\ g \in ParsedField /\ g.raw = p /\ p \in Seq(Byte) /\ Len(p) \in Nat /\ 0 \in 0..Len(p)
    BY <2>1, WholeFacts, Zenon
  <2>4. g # Malformed /\ g.next = Len(p) /\ g.wire # 4
    BY <2>1 DEF Whole
  <2>5. Agree(p, data, c, 0, Len(p)) /\ 0 + c = c /\ Len(p) + c = c + Len(p)
    BY <1>6, <2>1, <2>2, <2>3, StandingAgrees, Zenon
  <2>6. Local(p, data, c, FieldAt(p), FieldAt(data))
    BY <1>6, <2>1, <2>3, FieldAtLocal, Zenon
  <2>7. FieldAt(data)[c] = Shifted(g, c)
    BY <2>3, <2>4, <2>5, <2>6, Zenon DEF Local
  <2> HIDE DEF g
  <2>8. g.next + c = cur[i] /\ cur[i] \in Nat
    BY <1>1, <1>7, <2>2, <2>4, <2>5
  <2>9. /\ Shifted(g, c).next = cur[i] /\ Shifted(g, c).wire # 4 /\ Shifted(g, c) \in ParsedField
        /\ Alike(Shifted(g, c), g)
    BY <2>1, <2>3, <2>4, <2>8, ShiftedFacts, Zenon DEF Alike
  <2> QED
    BY <2>3, <2>7, <2>9, Zenon DEF g, p, c
<1>10. fs \in Seq(ParsedField) /\ Len(fs) = n /\ \A i \in 1..n : fs[i] = Shifted(f(i), cur[i - 1])
  <2>1. \A i \in 1..n : Shifted(f(i), cur[i - 1]) \in ParsedField
    BY <1>9
  <2> HIDE DEF f
  <2>2. fs \in [1..n -> ParsedField]
    BY <2>1
  <2> QED
    BY <1>1, <2>2
<1> HIDE DEF fs
<1>11. Cut(data, 0, fs, cur)
  <2>1. \A i \in 1..n : /\ fs[i] = FieldAt(data)[cur[i - 1]] /\ fs[i] # Malformed
                        /\ fs[i].wire # 4 /\ fs[i].next = cur[i]
    <3>1. \A i \in 1..n : fs[i] \in ParsedField /\ fs[i] = FieldAt(data)[cur[i - 1]]
                          /\ fs[i].wire # 4 /\ fs[i].next = cur[i]
      BY <1>9, <1>10
    <3>2. \A x \in ParsedField : x # Malformed
      BY MalformedAssumption
    <3> QED
      BY <3>1, <3>2
  <2> QED
    BY <1>8, <1>10, <2>1, Zenon DEF Cut
<1>12. Fields(data) = fs
  BY <1>6, <1>10, <1>11, CutIsRead, Zenon
<1>13. \A i \in 1..n : Alike(fs[i], f(i)) /\ fs[i].raw = ps[i]
  BY <1>9, <1>10 DEF Alike
<1> QED
  BY <1>6, <1>10, <1>12, <1>13, Zenon DEF data, n

\* A piece alone agrees with the data it was cut from.
LEMMA PieceAgrees ==
  ASSUME NEW data \in Seq(Byte), NEW a \in 0..Len(data), NEW b \in a..Len(data)
  PROVE  LET p == SubSeq(data, a + 1, b) IN
           /\ Agree(data, p, -a, a, b) /\ p \in Seq(Byte) /\ Len(p) = b - a
           /\ -a \in Int /\ a + (-a) = 0 /\ b + (-a) = b - a
<1> DEFINE p == SubSeq(data, a + 1, b)
<1>1. p \in Seq(Byte) /\ Len(p) = b - a /\ \A i \in 1..(b - a) : p[i] = data[a + i]
  BY PieceFacts, Zenon
<1>2. a \in Nat /\ b \in Nat /\ a <= b
  BY LenProperties, SMT
<1> HIDE DEF p
<1>3. /\ a + (-a) = 0 /\ 0 \in Nat /\ b + (-a) = b - a /\ b - a <= b - a /\ -a \in Int
      /\ \A i \in (a + 1)..b : i + (-a) \in 1..(b - a) /\ a + (i + (-a)) = i
  BY <1>2, SMT
<1>4. Agree(data, p, -a, a, b)
  BY <1>1, <1>3, Zenon DEF Agree
<1> QED
  BY <1>1, <1>3, <1>4 DEF p

\* What is read are pieces of one field each, one after another.
LEMMA ReadPieces ==
  ASSUME NEW data \in Seq(Byte), Fields(data) # Malformed
  PROVE  LET fs == Fields(data) IN
           /\ fs \in Seq(ParsedField) /\ Raw(fs) = data
           /\ \A i \in 1..Len(fs) : Whole(fs[i].raw) /\ Alike(FieldAt(fs[i].raw)[0], fs[i])
<1> DEFINE fs == Fields(data)
           n == Len(fs)
           N == Len(data)
<1>1. fs \in Seq(ParsedField)
  BY ReadIsCut
<1>2. PICK cur : Cut(data, 0, fs, cur)
  BY ReadIsCut
<1> HIDE DEF fs
<1>3. /\ n \in Nat /\ N \in Nat /\ \A i \in 0..n : cur[i] \in 0..N
      /\ \A i \in 1..n : CutStep(data, fs, cur, i)
  BY <1>1, <1>2, CutFacts, Zenon
<1>4. cur[0] = 0 /\ cur[n] = N
  BY <1>2, Zenon DEF Cut
<1>5. ASSUME NEW i \in 1..n
      PROVE  /\ Whole(fs[i].raw) /\ Alike(FieldAt(fs[i].raw)[0], fs[i]) /\ fs[i].raw \in Seq(Byte)
             /\ i - 1 \in 0..n /\ i \in 0..n /\ cur[i - 1] \in 0..N
             /\ Stands(data, cur[i - 1], fs[i].raw) /\ cur[i - 1] + Len(fs[i].raw) = cur[i]
  <2> DEFINE a == cur[i - 1]
             b == cur[i]
             p == SubSeq(data, a + 1, b)
             f == fs[i]
  <2>1. /\ i - 1 \in 0..n /\ i \in 0..n /\ a \in 0..N /\ b \in 0..N /\ a < b
        /\ f \in ParsedField /\ f = FieldAt(data)[a] /\ f.next = b /\ f.wire # 4 /\ f.raw = p
    BY <1>3, Zenon DEF CutStep
  <2> HIDE DEF a, b, f
  <2>2. b \in a..N /\ a + (b - a) = b /\ a \in Nat /\ b \in Nat
    BY <1>3, <2>1, SMT
  <2>3. /\ Agree(data, p, -a, a, b) /\ p \in Seq(Byte) /\ Len(p) = b - a
        /\ -a \in Int /\ a + (-a) = 0 /\ b + (-a) = b - a
    BY <2>1, <2>2, PieceAgrees, Zenon
  <2>4. Stands(data, a, p)
    BY <2>1, <2>2, PieceStands, Zenon
  <2> HIDE DEF p
  <2>5. Local(data, p, -a, FieldAt(data), FieldAt(p))
    BY <2>3, FieldAtLocal, Zenon
  <2>6. f # Malformed
    BY <2>1, MalformedAssumption
  <2>7. FieldAt(p)[0] = Shifted(f, -a)
    BY <2>1, <2>3, <2>5, <2>6, Zenon DEF Local
  <2>8. b - a \in Nat
    BY <2>1, <2>2, SMT
  <2>9. /\ Shifted(f, -a).next = b - a /\ Shifted(f, -a).wire # 4 /\ Shifted(f, -a) # Malformed
        /\ Alike(Shifted(f, -a), f)
    <3>1. f.next + (-a) = b - a /\ f.next + (-a) \in Nat
      BY <2>1, <2>3, <2>8
    <3> QED
      BY <2>1, <2>3, <3>1, ShiftedFacts, Zenon DEF Alike
  <2>10. Whole(p)
    BY <2>3, <2>7, <2>9, Zenon DEF Whole
  <2> QED
    BY <2>1, <2>2, <2>3, <2>4, <2>7, <2>9, <2>10, Zenon DEF a, b, f
<1> DEFINE ps == [i \in DOMAIN fs |-> fs[i].raw]
<1>6. ps \in Seq(Seq(Byte)) /\ Len(ps) = n /\ \A i \in 1..n : ps[i] = fs[i].raw
  <2>1. DOMAIN fs = 1..n
    BY <1>1, LenProperties
  <2>2. ps \in [1..n -> Seq(Byte)]
    BY <1>5, <2>1
  <2>3. \A i \in 1..n : ps[i] = fs[i].raw
    BY <2>1
  <2> HIDE DEF ps, n
  <2> QED
    BY <1>3, <2>2, <2>3
<1>7. Raw(fs) = FlattenSeq(ps)
  BY DEF Raw
<1> HIDE DEF ps, n, N
<1>8. PICK flat \in [0..n -> Seq(Byte)] : Flats(flat, ps)
  BY <1>6, FlatStands, Zenon
<1>9. /\ flat[0] = <<>> /\ flat[n] = FlattenSeq(ps)
      /\ \A i \in 1..n : flat[i] = flat[i - 1] \o ps[i] /\ Len(flat[i]) = Len(flat[i - 1]) + Len(ps[i])
  BY <1>6, <1>8, Zenon DEF Flats
<1> DEFINE Grown(i) == Stands(data, 0, flat[i]) /\ Len(flat[i]) = cur[i]
           D == {i \in Nat : i <= n => Grown(i)}
<1>10. 0 \in D
  <2> DEFINE e == <<>>
  <2>1. Len(e) = 0 /\ ~(\E i \in 1..0 : TRUE)
    BY SMT
  <2>2. 0 + 0 <= Len(data)
    BY <1>3, SMT DEF N
  <2> HIDE DEF e
  <2>3. Stands(data, 0, e)
    BY <2>1, <2>2, Zenon DEF Stands
  <2>4. Grown(0)
    BY <1>4, <1>9, <2>1, <2>3 DEF e
  <2> QED
    BY <2>4
<1>11. ASSUME NEW k \in Nat, k \in D
       PROVE  k + 1 \in D
  <2>1. ASSUME k + 1 <= n
        PROVE  Grown(k + 1)
    <3> DEFINE i == k + 1
               t == flat[i - 1]
               u == ps[i]
    <3>1. i \in 1..n /\ k <= n /\ i - 1 = k /\ 0 \in Nat
      BY <1>3, <2>1, SMT
    <3>2. Stands(data, 0, t) /\ Len(t) = cur[i - 1]
      BY <1>11, <3>1
    <3> HIDE DEF i
    <3>3. t \in Seq(Byte) /\ u \in Seq(Byte) /\ flat[i] = t \o u /\ Len(flat[i]) = Len(t) + Len(u)
      BY <1>5, <1>6, <1>9, <3>1
    <3>4. Stands(data, cur[i - 1], u) /\ cur[i - 1] + Len(u) = cur[i]
      BY <1>5, <1>6, <3>1
    <3> HIDE DEF t, u
    <3>5. 0 + Len(t) = Len(t)
      BY <3>3, LenProperties, SMT
    <3>6. Stands(data, 0, t \o u)
      BY <3>1, <3>2, <3>3, <3>4, <3>5, StandingParts
    <3> QED
      BY <3>2, <3>3, <3>4, <3>6, Zenon DEF i
  <2>2. k + 1 \in Nat
    OBVIOUS
  <2> QED
    BY <2>1, <2>2
<1>12. Grown(n)
  <2> HIDE DEF D
  <2>1. n \in D
    BY <1>3, <1>10, <1>11, SetInduction
  <2> HIDE DEF Grown
  <2>2. n <= n
    BY <1>3, SMT
  <2> QED
    BY <2>1, <2>2 DEF D
<1>13. FlattenSeq(ps) = data
  <2> DEFINE t == flat[n]
  <2>1. t \in Seq(Byte) /\ Stands(data, 0, t) /\ Len(t) = N
    <3>1. n \in 0..n
      BY <1>3, SMT
    <3> QED
      BY <1>4, <1>12, <3>1
  <2> HIDE DEF t
  <2>2. 0 \in 0..Len(data) /\ 0 + 1 = 1 /\ 0 + Len(t) = Len(data)
    BY <1>3, <2>1, SMT DEF N
  <2>3. SubSeq(data, 0 + 1, 0 + Len(t)) = t
    BY <2>1, <2>2, StandingPiece
  <2>4. SubSeq(data, 1, Len(data)) = data
    BY TailFacts, Zenon
  <2> QED
    BY <1>9, <2>2, <2>3, <2>4, Zenon DEF t
<1>14. Raw(fs) = data /\ \A i \in 1..Len(fs) : Whole(fs[i].raw) /\ Alike(FieldAt(fs[i].raw)[0], fs[i])
  BY <1>5, <1>7, <1>13, Zenon DEF n
<1> QED
  BY <1>1, <1>14, Zenon DEF fs

---------------------------------------------------------------------------
(* What is chosen of a sequence.                                           *)

\* c are the elements of s at these places.
Picks(c, s, I, idx) ==
  Enumerates(idx, Len(c), I) /\ \A j \in 1..Len(c) : c[j] = s[idx[j]]

\* What is chosen stands at ascending places, the chosen ones.
LEMMA ChosenPicks ==
  ASSUME NEW S, NEW s \in Seq(S), NEW I, I \subseteq DOMAIN s
  PROVE  Chosen(s, I) \in Seq(S) /\ \E idx : Picks(Chosen(s, I), s, I, idx)
<1> DEFINE n == Len(s)
           ps == [i \in DOMAIN s |-> IF i \in I THEN <<s[i]>> ELSE <<>>]
<1>1. n \in Nat /\ DOMAIN s = 1..n /\ \A i \in 1..n : s[i] \in S
  BY LenProperties
<1>2. ps \in Seq(Seq(S)) /\ Len(ps) = n
      /\ \A i \in 1..n : ps[i] = IF i \in I THEN <<s[i]>> ELSE <<>>
  <2>1. \A i \in 1..n : (IF i \in I THEN <<s[i]>> ELSE <<>>) \in Seq(S)
    BY <1>1
  <2> HIDE DEF n
  <2>2. ps \in [1..n -> Seq(S)]
    BY <1>1, <2>1
  <2>3. \A i \in 1..n : ps[i] = IF i \in I THEN <<s[i]>> ELSE <<>>
    BY <1>1
  <2> HIDE DEF ps
  <2> QED
    BY <1>1, <2>2, <2>3
<1>3. Chosen(s, I) = FlattenSeq(ps)
  BY Zenon DEF Chosen
<1> HIDE DEF n, ps
<1>4. PICK flat \in [0..n -> Seq(S)] :
        /\ flat[0] = <<>> /\ \A i \in 1..n : flat[i] = flat[i - 1] \o ps[i]
        /\ FlattenSeq(ps) = flat[n]
  BY <1>2, FlattenFacts
<1> DEFINE K(k) == {i \in I : i <= k}
           D == {k \in Nat : k <= n => \E idx : Picks(flat[k], s, K(k), idx)}
<1>5. 0 \in D
  <2> DEFINE e == <<>>
             idx == [j \in 1..0 |-> 0]
  <2>1. Len(e) = 0 /\ 0 \in Nat /\ ~(\E j \in 1..0 : TRUE) /\ idx \in [1..0 -> Nat]
    BY SMT
  <2>2. ~(\E x \in K(0) : TRUE)
    BY <1>1, SMT
  <2> HIDE DEF e, idx, K
  <2>3. Picks(e, s, K(0), idx)
    BY <2>1, <2>2, Zenon DEF Picks, Enumerates
  <2> QED
    BY <1>4, <2>3 DEF e
<1>6. ASSUME NEW k \in Nat, k \in D
      PROVE  k + 1 \in D
  <2>1. ASSUME k + 1 <= n
        PROVE  \E idx : Picks(flat[k + 1], s, K(k + 1), idx)
    <3> DEFINE x == k + 1
               c == flat[k]
    <3>1. x \in 1..n /\ k <= n /\ x - 1 = k /\ k \in 0..n /\ x \in Nat
      BY <1>1, <2>1, SMT
    <3>2. PICK idx : Picks(c, s, K(k), idx)
      BY <1>6, <3>1
    <3>3. c \in Seq(S) /\ Len(c) \in Nat
      <4>1. c \in Seq(S)
        BY <1>4, <3>1
      <4> HIDE DEF c
      <4> QED
        BY <4>1, LenProperties
    <3>4. flat[x] = c \o ps[x]
      BY <1>4, <3>1
    <3>5. \A y \in K(k) : y < x
      BY <1>1, <3>1, SMT
    <3>6. \A y \in I : y <= x <=> y <= k \/ y = x
      BY <1>1, <3>1, SMT
    <3> HIDE DEF x, c
    <3>7. CASE x \in I
      <4> DEFINE g == [j \in 1..(Len(c) + 1) |-> IF j = Len(c) + 1 THEN x ELSE idx[j]]
                 e == <<s[x]>>
                 d == c \o e
      <4>1. K(x) = K(k) \cup {x}
        BY <3>6, <3>7
      <4>2. Enumerates(g, Len(c) + 1, K(x))
        <5> HIDE DEF K
        <5>1. Enumerates(idx, Len(c), K(k)) /\ x \in Nat /\ \A y \in K(k) : y < x
          BY <3>1, <3>2, <3>5, Zenon DEF Picks
        <5>2. Enumerates([j \in 1..(Len(c) + 1) |-> IF j = Len(c) + 1 THEN x ELSE idx[j]],
                         Len(c) + 1, K(k) \cup {x})
          BY <5>1, EnumGrows
        <5> QED
          BY <4>1, <5>2
      <4>3. e \in Seq(S) /\ Len(e) = 1 /\ e[1] = s[x]
        BY <1>1, <3>1
      <4> HIDE DEF e
      <4>4. Len(d) = Len(c) + 1 /\ \A j \in 1..(Len(c) + 1) :
              d[j] = IF j <= Len(c) THEN c[j] ELSE e[j - Len(c)]
        <5>1. Len(d) = Len(c) + Len(e) /\ \A j \in 1..(Len(c) + Len(e)) :
                d[j] = IF j <= Len(c) THEN c[j] ELSE e[j - Len(c)]
          BY <3>3, <4>3, ConcatProperties
        <5> QED
          BY <4>3, <5>1, Zenon
      <4> HIDE DEF d
      <4>5. ASSUME NEW j \in 1..(Len(c) + 1) PROVE d[j] = s[g[j]]
        <5>1. CASE j = Len(c) + 1
          <6>1. ~(j <= Len(c)) /\ j - Len(c) = 1
            BY <3>3, <5>1, SMT
          <6>2. d[j] = s[x]
            BY <4>3, <4>4, <6>1
          <6> QED
            BY <5>1, <6>2
        <5>2. CASE j # Len(c) + 1
          <6>1. j <= Len(c) /\ j \in 1..Len(c)
            BY <3>3, <5>2, SMT
          <6>2. d[j] = s[idx[j]]
            BY <3>2, <4>4, <6>1 DEF Picks
          <6> QED
            BY <5>2, <6>2
        <5> QED
          BY <5>1, <5>2
      <4> HIDE DEF g
      <4>6. Picks(d, s, K(x), g)
        BY <4>2, <4>4, <4>5, Zenon DEF Picks
      <4>7. flat[x] = d
        BY <1>2, <3>1, <3>4, <3>7 DEF d, e
      <4> QED
        BY <4>6, <4>7 DEF x
    <3>8. CASE x \notin I
      <4>1. K(x) = K(k)
        BY <3>6, <3>8
      <4>2. flat[x] = c
        <5>1. ps[x] = <<>>
          BY <1>2, <3>1, <3>8
        <5> QED
          BY <3>3, <3>4, <5>1, ConcatEmptySeq
      <4> HIDE DEF K
      <4> QED
        BY <3>2, <4>1, <4>2 DEF x
    <3> QED
      BY <3>7, <3>8
  <2>2. k + 1 \in Nat
    OBVIOUS
  <2> QED
    BY <2>1, <2>2
<1>7. n \in D
  <2> HIDE DEF D
  <2> QED
    BY <1>1, <1>5, <1>6, SetInduction
<1>8. n <= n /\ n \in 0..n
  BY <1>1, SMT
<1>9. PICK idx : Picks(flat[n], s, K(n), idx)
  BY <1>7, <1>8
<1>10. K(n) = I
  <2>1. \A i \in I : i <= n
    BY <1>1, SMT
  <2> QED
    BY <2>1
<1> HIDE DEF K
<1>11. flat[n] \in Seq(S) /\ Chosen(s, I) = flat[n]
  BY <1>3, <1>4, <1>8
<1> QED
  BY <1>9, <1>10, <1>11, Zenon

\* The i-th of those chosen is carried from s to t.
Together(u, v, s, t, a, c, m, i) == \E j \in 1..c : v[i] = t[a + j] /\ u[i] = s[m[j]]

\* If places of one sequence are carried into another, what is chosen there stands side by side.
LEMMA ChosenCarried ==
  ASSUME NEW S, NEW s \in Seq(S), NEW t \in Seq(S), NEW a \in Nat, NEW c \in Nat, NEW m, NEW K,
         Enumerates(m, c, K), K \subseteq DOMAIN s, Len(t) = a + c,
         NEW I, I \subseteq K, NEW J, J \subseteq DOMAIN t,
         \A j \in J : j > a, \A j \in 1..c : a + j \in J <=> m[j] \in I
  PROVE  LET u == Chosen(s, I)
             v == Chosen(t, J)
         IN  /\ u \in Seq(S) /\ v \in Seq(S) /\ Len(v) = Len(u)
             /\ \A i \in 1..Len(u) : Together(u, v, s, t, a, c, m, i)
<1> DEFINE u == Chosen(s, I)
           v == Chosen(t, J)
<1>1. u \in Seq(S) /\ \E r : Picks(u, s, I, r)
  <2>1. I \subseteq DOMAIN s
    OBVIOUS
  <2> QED
    BY <2>1, ChosenPicks
<1>2. v \in Seq(S) /\ \E p : Picks(v, t, J, p)
  BY ChosenPicks
<1> HIDE DEF u, v
<1>3. PICK r : Picks(u, s, I, r)
  BY <1>1
<1>4. PICK p : Picks(v, t, J, p)
  BY <1>2
<1> DEFINE n == Len(v)
           comp == [i \in 1..n |-> m[p[i] - a]]
<1>5. /\ n \in Nat /\ p \in [1..n -> Nat] /\ \A i, k \in 1..n : i < k => p[i] < p[k]
      /\ \A i \in 1..n : p[i] \in J
      /\ \A x \in J : \E i \in 1..n : p[i] = x
      /\ \A i \in 1..n : v[i] = t[p[i]]
  BY <1>4, Zenon DEF Picks, Enumerates
<1> HIDE DEF n
<1>6. /\ m \in [1..c -> Nat] /\ \A j, k \in 1..c : j < k => m[j] < m[k]
      /\ \A j \in 1..c : m[j] \in K
      /\ \A x \in K : \E j \in 1..c : m[j] = x
  BY Zenon DEF Enumerates
<1>7. ASSUME NEW i \in 1..n
      PROVE  /\ p[i] - a \in 1..c /\ a + (p[i] - a) = p[i] /\ m[p[i] - a] \in I
             /\ p[i] \in Nat
  <2>1. p[i] \in J /\ p[i] \in Nat /\ p[i] > a /\ p[i] \in 1..Len(t)
    BY <1>5, LenProperties
  <2> DEFINE x == p[i]
  <2> HIDE DEF x
  <2>2. x - a \in 1..c /\ a + (x - a) = x
    BY <2>1, SMT DEF x
  <2>3. m[x - a] \in I
    BY <2>1, <2>2, Zenon DEF x
  <2> QED
    BY <2>1, <2>2, <2>3 DEF x
<1>8. comp \in [1..n -> Nat] /\ \A i \in 1..n : comp[i] = m[p[i] - a]
  BY <1>6, <1>7
<1> HIDE DEF comp
<1>9. ASSUME NEW i \in 1..n, NEW k \in 1..n, i < k PROVE comp[i] < comp[k]
  <2>1. p[i] < p[k] /\ p[i] \in Nat /\ p[k] \in Nat
    BY <1>5, <1>9, <1>7
  <2>2. p[i] - a < p[k] - a
    BY <2>1, SMT
  <2>3. p[i] - a \in 1..c /\ p[k] - a \in 1..c
    BY <1>7
  <2> QED
    BY <1>6, <1>8, <2>2, <2>3
<1>10. ASSUME NEW x \in I PROVE \E i \in 1..n : comp[i] = x
  <2>1. PICK q \in 1..c : m[q] = x
    BY <1>6
  <2>2. a + q \in J
    BY <2>1
  <2>3. PICK i \in 1..n : p[i] = a + q
    BY <1>5, <2>2, Zenon
  <2>4. p[i] - a = q
    BY <2>3, SMT
  <2> QED
    BY <1>8, <2>1, <2>4
<1>11. \A i \in 1..n : comp[i] \in I
  BY <1>7, <1>8
<1>12. Enumerates(comp, n, I)
  BY <1>5, <1>8, <1>9, <1>10, <1>11, Zenon DEF Enumerates
<1>13. Enumerates(r, Len(u), I)
  BY <1>3, Zenon DEF Picks
<1>14. Len(u) = n /\ r = comp
  BY <1>12, <1>13, EnumUnique
<1>15. ASSUME NEW i \in 1..Len(u)
       PROVE  Together(u, v, s, t, a, c, m, i)
  <2> DEFINE j == p[i] - a
  <2>1. i \in 1..n
    BY <1>14
  <2>2. j \in 1..c /\ a + j = p[i]
    BY <1>7, <2>1
  <2>3. u[i] = s[m[j]]
    BY <1>3, <1>8, <1>14, <2>1, Zenon DEF Picks
  <2>4. v[i] = t[p[i]]
    BY <1>5, <2>1
  <2> HIDE DEF j
  <2> QED
    BY <2>2, <2>3, <2>4 DEF Together
<1> QED
  BY <1>1, <1>2, <1>14, <1>15 DEF u, v, n

\* The first places, one place and no place.
LEMMA ChosenFirst ==
  ASSUME NEW S, NEW s \in Seq(S), NEW a \in 0..Len(s)
  PROVE  /\ Chosen(s, 1..a) \in Seq(S) /\ Len(Chosen(s, 1..a)) = a
         /\ \A i \in 1..a : Chosen(s, 1..a)[i] = s[i]
<1> DEFINE idx == [j \in 1..a |-> j]
           I == 1..a
           c == Chosen(s, I)
<1>1. I \subseteq DOMAIN s /\ a \in Nat
  BY LenProperties, SMT
<1> HIDE DEF c, I
<1>2. c \in Seq(S) /\ \E p : Picks(c, s, I, p)
  BY <1>1, ChosenPicks DEF c
<1>3. PICK p : Picks(c, s, I, p)
  BY <1>2
<1>4. idx \in [1..a -> Nat] /\ \A j \in 1..a : idx[j] = j
  BY <1>1
<1> HIDE DEF idx
<1>5. Enumerates(idx, a, I)
  BY <1>1, <1>4 DEF Enumerates, I
<1>6. Enumerates(p, Len(c), I)
  BY <1>3 DEF Picks
<1>7. Len(c) = a /\ p = idx
  BY <1>5, <1>6, EnumUnique
<1>8. \A i \in 1..a : c[i] = s[i]
  BY <1>3, <1>4, <1>7, Zenon DEF Picks
<1> QED
  BY <1>2, <1>7, <1>8 DEF c, I

\* One place chosen gives one element.
LEMMA ChosenOne ==
  ASSUME NEW S, NEW s \in Seq(S), NEW x \in DOMAIN s
  PROVE  Chosen(s, {x}) \in Seq(S) /\ Len(Chosen(s, {x})) = 1 /\ Chosen(s, {x})[1] = s[x]
<1> DEFINE idx == [j \in 1..1 |-> x]
           I == {x}
           c == Chosen(s, I)
<1>1. I \subseteq DOMAIN s /\ x \in Nat
  BY LenProperties, SMT
<1> HIDE DEF c, I
<1>2. c \in Seq(S) /\ \E p : Picks(c, s, I, p)
  BY <1>1, ChosenPicks DEF c
<1>3. PICK p : Picks(c, s, I, p)
  BY <1>2
<1>4. idx \in [1..1 -> Nat] /\ idx[1] = x /\ 1 \in 1..1 /\ \A j \in 1..1 : j = 1
  BY <1>1
<1> HIDE DEF idx
<1>5. Enumerates(idx, 1, I)
  BY <1>1, <1>4 DEF Enumerates, I
<1>6. Enumerates(p, Len(c), I)
  BY <1>3 DEF Picks
<1>7. Len(c) = 1 /\ p = idx
  BY <1>5, <1>6, EnumUnique
<1>8. c[1] = s[x]
  BY <1>3, <1>4, <1>7 DEF Picks
<1> QED
  BY <1>2, <1>7, <1>8 DEF c, I

\* No place chosen gives none.
LEMMA ChosenNone ==
  ASSUME NEW S, NEW s \in Seq(S)
  PROVE  Chosen(s, {}) = <<>>
<1> DEFINE c == Chosen(s, {})
<1>1. c \in Seq(S) /\ \E p : Picks(c, s, {}, p)
  BY ChosenPicks
<1> HIDE DEF c
<1>2. PICK p : Picks(c, s, {}, p)
  BY <1>1
<1>3. ~(\E j \in 1..Len(c) : TRUE) /\ Len(c) \in Nat
  BY <1>2 DEF Picks, Enumerates
<1>4. Len(c) = 0
  BY <1>3, SMT
<1> QED
  BY <1>1, <1>4, EmptySeq DEF c

---------------------------------------------------------------------------
(* Fields as they are written.                                             *)

Tags == {8, 10, 18, 24}

\* The tags the worker writes are one byte and read back as they are.
LEMMA TagWritten ==
  ASSUME NEW t \in Tags
  PROVE  /\ Long(t) \in Longs /\ WriteVarint(Long(t)) \in Seq(Byte) /\ WriteVarint(Long(t)) = <<t>>
         /\ LegalTag(Long(t)) /\ NumberOf(Long(t)) = t \div 8 /\ WireOf(Long(t)) = t % 8
<1> DEFINE l == Long(t)
           w == WriteVarint(l)
<1>1. t \in Int /\ t \in Nat /\ t \in 8..127
  BY DEF Tags
<1>2. l \in Longs
  BY <1>1, LongType
<1>3. /\ \A i \in 1..9 : l[i] = ShiftRight(t, i - 1) % 128
      /\ l[10] = IF t < 0 THEN 1 ELSE 0
  BY <1>1, DigitAt
<1> HIDE DEF l
<1>4. l[1] = t
  <2>1. ShiftRight(t, 0) % 128 = t
    BY <1>1, SMT DEF ShiftRight
  <2>2. l[1] = ShiftRight(t, 0) % 128
    <3>1. 1 \in 1..9 /\ 1 - 1 = 0
      BY SMT
    <3> QED
      BY <1>3, <3>1
  <2> QED
    BY <2>1, <2>2
<1>5. l[1] = t /\ l[2] = 0 /\ l[3] = 0 /\ l[4] = 0 /\ l[5] = 0 /\ l[10] = 0 /\ \A i \in 6..9 : l[i] = 0
  <2>1. ASSUME NEW i \in 2..9 PROVE l[i] = 0
    <3>1. l[i] = ShiftRight(t, i - 1) % 128 /\ i \in {2, 3, 4, 5, 6, 7, 8, 9}
      <4>1. i \in 1..9 /\ i \in {2, 3, 4, 5, 6, 7, 8, 9}
        BY SMT
      <4> QED
        BY <1>3, <4>1, Zenon
    <3>2. ShiftRight(t, i - 1) = 0
      <4>1. ShiftRight(t, 1) = 0 /\ ShiftRight(t, 2) = 0
        BY <1>1, SMT DEF ShiftRight
      <4>2. ShiftRight(t, 3) = 0 /\ ShiftRight(t, 4) = 0
        BY <1>1, SMT DEF ShiftRight
      <4>3. \A j \in 5..8 : ShiftRight(t, j) = 0
        BY <1>1, SMT DEF ShiftRight
      <4>4. i - 1 = 1 \/ i - 1 = 2 \/ i - 1 = 3 \/ i - 1 = 4 \/ i - 1 \in 5..8
        BY SMT
      <4> QED
        BY <4>1, <4>2, <4>3, <4>4, Zenon
    <3>3. 0 % 128 = 0
      BY SMT
    <3> QED
      BY <3>1, <3>2, <3>3, Zenon
  <2>2. l[10] = 0
    BY <1>1, <1>3, SMT
  <2>3. 2 \in 2..9 /\ 3 \in 2..9 /\ 4 \in 2..9 /\ 5 \in 2..9 /\ \A i \in 6..9 : i \in 2..9
    BY SMT
  <2> QED
    BY <1>4, <2>1, <2>2, <2>3
<1>6. \A i \in 2..10 : l[i] = 0
  <2>1. \A i \in 2..10 : i = 2 \/ i = 3 \/ i = 4 \/ i = 5 \/ i \in 6..9 \/ i = 10
    BY SMT
  <2> QED
    BY <1>5, <2>1
<1>7. LegalTag(l)
  BY <1>1, <1>5, <1>6, SMT DEF LegalTag
<1>8. NumberOf(l) = t \div 8
  <2>1. NumberOf(l) = (0 * 2^25) + (0 * 2^18) + (0 * 2^11) + (0 * 16) + (t \div 8)
    BY <1>5 DEF NumberOf
  <2> QED
    BY <1>1, <2>1, SMT
<1>9. WireOf(l) = t % 8
  BY <1>5 DEF WireOf
<1>10. Significant(l) = 1
  <2> DEFINE n == Significant(l)
  <2>1. n \in 1..10 /\ (n # 1 => l[n] # 0)
    BY <1>2, SignificantFacts, Zenon
  <2> HIDE DEF n
  <2>2. n = 1 \/ n \in 2..10
    BY <2>1, SMT
  <2> QED
    BY <1>6, <2>1, <2>2 DEF n
<1>11. w \in Seq(Byte) /\ Len(w) = 1 /\ w[1] = t
  <2>1. /\ w \in Seq(Byte) /\ Len(w) = Significant(l)
        /\ w[Significant(l)] = l[Significant(l)]
    BY <1>2, WriteVarintFacts, Zenon
  <2> HIDE DEF w
  <2> QED
    BY <1>5, <1>10, <2>1
<1> HIDE DEF w
<1>12. w = <<t>>
  BY <1>11
<1> QED
  BY <1>2, <1>7, <1>8, <1>9, <1>11, <1>12 DEF l, w

\* A field without groups is the same at every depth.
LEMMA FieldReadAt ==
  ASSUME NEW p \in Seq(Byte), NEW n, NEW m, \A inner \in Table(p) : FieldIs(p, 0, inner, n, m, Len(p)),
         WireOf(ValueAt(p, 0, n)) # 4
  PROVE  Whole(p) /\ FieldAt(p)[0] = FieldOf(p, 0, n, m, Len(p))
<1> DEFINE f == FieldOf(p, 0, n, m, Len(p))
<1>1. PICK at : IsTables(at, p) /\ FieldAt(p) = at[0]
  BY FieldAtIs
<1>2. 0 \in 0..(MaxDepth + 1) /\ 0 + 1 \in 0..(MaxDepth + 1) /\ ~(0 > MaxDepth)
  BY LimitsAssumption, SMT
<1>3. at[0] = Level(p, 0, at[0 + 1]) /\ at[0 + 1] \in Table(p)
  BY <1>1, <1>2 DEF IsTables
<1>4. 0 \in 0..Len(p)
  BY LenProperties, SMT
<1>5. at[0][0] = ReadField(p, 0, ReadVarint(p, 0), at[0 + 1])
  BY <1>2, <1>3, <1>4, Zenon DEF Level
<1>6. FieldIs(p, 0, at[0 + 1], n, m, Len(p))
  BY <1>3
<1>7. ReadField(p, 0, ReadVarint(p, 0), at[0 + 1]) = f /\ f # Malformed
  BY <1>3, <1>4, <1>6, FieldIsRead
<1>8. FieldAt(p)[0] = f
  BY <1>1, <1>5, <1>7
<1>9. f.next = Len(p) /\ f.wire # 4
  BY DEF FieldOf
<1> HIDE DEF f
<1>10. Whole(p)
  BY <1>7, <1>8, <1>9 DEF Whole
<1> QED
  BY <1>8, <1>10 DEF f

\* A varint field that is written is read back whole.
LEMMA VarintField ==
  ASSUME NEW t \in {8, 24}, NEW v \in Seq(Byte), Readable(v, 0, Len(v))
  PROVE  LET p == WriteVarint(Long(t)) \o v
             f == FieldAt(p)[0]
         IN  Whole(p) /\ f.number = t \div 8 /\ f.wire = 0 /\ f.scalar = ValueAt(v, 0, Len(v))
<1> DEFINE w == WriteVarint(Long(t))
           p == w \o v
           k == Len(v)
           l == Long(t)
<1>1. /\ l \in Longs /\ w \in Seq(Byte) /\ Len(w) = 1 /\ LegalTag(l)
      /\ NumberOf(l) = t \div 8 /\ WireOf(l) = 0
  <2>1. t \in Tags /\ t % 8 = 0
    BY DEF Tags
  <2>2. w = <<t>>
    BY <2>1, TagWritten
  <2>3. Len(w) = 1
    BY <2>2
  <2> QED
    BY <2>1, <2>3, TagWritten
<1>2. p \in Seq(Byte) /\ Len(p) = Len(w) + k /\ k \in Nat /\ k \in 1..10
  <2>1. p \in Seq(Byte) /\ Len(p) = Len(w) + k
    <3>1. w \in Seq(Byte) /\ v \in Seq(Byte)
      BY <1>1
    <3> HIDE DEF w
    <3> QED
      BY <3>1, ConcatProperties
  <2>2. k \in Nat
    BY LenProperties
  <2>3. k \in 1..10
    BY Zenon DEF Readable
  <2> QED
    BY <2>1, <2>2, <2>3
<1>3. Stands(p, 0, w) /\ Stands(p, 0 + Len(w), v)
  <2>1. Stands(p, 0, w \o v)
    <3> HIDE DEF w, k
    <3>1. p \in Seq(Byte)
      BY <1>2
    <3>2. Stands(p, 0, p)
      BY <3>1, StandsItself
    <3> QED
      BY <3>2
  <2> HIDE DEF w, p, k
  <2>2. w \in Seq(Byte) /\ p \in Seq(Byte) /\ 0 \in Nat
    BY <1>1, <1>2
  <2> QED
    BY <2>1, <2>2, StandingParts
<1> HIDE DEF p, w, l, k
<1>4. Stands(p, 1, v) /\ 0 \in 0..Len(p) /\ 0 \in 0..k
  BY <1>1, <1>2, <1>3, SMT
<1>5. Readable(p, 0, 1) /\ ValueAt(p, 0, 1) = l
  BY <1>1, <1>2, <1>3, <1>4, WrittenRead DEF w, l
<1>6. Agree(v, p, 1, 0, k)
  BY <1>2, <1>4, StandingAgrees DEF k
<1>7. Readable(p, 0 + 1, k) /\ ValueAt(p, 0 + 1, k) = ValueAt(v, 0, k)
  <2>1. Readable(v, 0, k) /\ Agree(v, p, 1, 0, 0 + k) /\ 0 \in 0..Len(v) /\ 1 \in Int
    BY <1>2, <1>4, <1>6 DEF k
  <2> QED
    BY <1>2, <2>1, VarintLocal
<1>8. ASSUME NEW inner \in Table(p) PROVE FieldIs(p, 0, inner, 1, k, Len(p))
  <2>1. Len(p) = (0 + 1) + k /\ Len(p) \in Nat /\ Len(p) <= Len(p) /\ WireOf(l) \in {0, 2}
    BY <1>1, <1>2, SMT
  <2> QED
    BY <1>1, <1>5, <1>7, <2>1, Zenon DEF FieldIs, PayloadIs
<1>9. Whole(p) /\ FieldAt(p)[0] = FieldOf(p, 0, 1, k, Len(p))
  <2>1. WireOf(ValueAt(p, 0, 1)) # 4
    BY <1>1, <1>5
  <2> QED
    BY <1>2, <1>8, <2>1, FieldReadAt
<1> DEFINE f == FieldOf(p, 0, 1, k, Len(p))
<1>10. f.number = NumberOf(l) /\ f.wire = WireOf(l) /\ f.scalar = ValueAt(v, 0, k)
  BY <1>1, <1>5, <1>7 DEF FieldOf
<1> QED
  BY <1>1, <1>9, <1>10 DEF p, w, k

\* A string field that is written is read back whole, with its bytes.
LEMMA StringField ==
  ASSUME NEW number \in {1, 2}, NEW text \in Seq(Byte), Len(text) \in Size
  PROVE  LET p == WriteString(number, text)
             f == FieldAt(p)[0]
         IN  Whole(p) /\ f.number = number /\ f.wire = 2 /\ f.bytes = text
<1> DEFINE t == number * 8 + 2
           w == WriteVarint(Long(t))
           h == WriteVarint(Long(Len(text)))
           wh == w \o h
           p == wh \o text
           l == Long(t)
           k == Len(h)
<1>1. /\ l \in Longs /\ w \in Seq(Byte) /\ Len(w) = 1 /\ LegalTag(l)
      /\ NumberOf(l) = number /\ WireOf(l) = 2
  <2>1. t \in Tags /\ t % 8 = 2 /\ t \div 8 = number
    BY DEF Tags
  <2> HIDE DEF t
  <2>2. w = <<t>>
    BY <2>1, TagWritten
  <2>3. Len(w) = 1
    BY <2>2
  <2> QED
    BY <2>1, <2>3, TagWritten
<1> HIDE DEF t, w
<1>2. /\ h \in Seq(Byte) /\ k \in 1..4 /\ k \in Nat
      /\ Long(Len(text)) \in Longs /\ IsSmall(Long(Len(text))) /\ Low(Long(Len(text))) = Len(text)
      /\ Len(text) \in Nat
  BY LengthWritten
<1> HIDE DEF h
<1>3. wh \in Seq(Byte) /\ Len(wh) = Len(w) + k
  BY <1>1, <1>2, ConcatProperties
<1>4. p \in Seq(Byte) /\ Len(p) = Len(wh) + Len(text)
  BY <1>3, ConcatProperties
<1>5. Stands(p, 0, wh) /\ Stands(p, 0 + Len(wh), text)
  <2>1. Stands(p, 0, wh \o text)
    <3> HIDE DEF wh, k
    <3>1. Stands(p, 0, p)
      BY <1>4, StandsItself
    <3> QED
      BY <3>1
  <2> HIDE DEF wh, p
  <2> QED
    BY <1>3, <1>4, <2>1, StandingParts
<1> HIDE DEF p
<1>6. Stands(p, 0, w) /\ Stands(p, 0 + Len(w), h)
  BY <1>1, <1>2, <1>4, <1>5, StandingParts
<1> HIDE DEF wh, k, l
<1>7. /\ 0 \in 0..Len(p) /\ 0 + 1 \in 0..Len(p) /\ Len(p) \in Nat /\ Len(p) <= Len(p)
      /\ 0 + Len(w) = 0 + 1 /\ 0 + Len(wh) = (0 + 1) + k /\ Len(p) = ((0 + 1) + k) + Len(text)
      /\ (0 + 1) + k \in 0..Len(p)
  BY <1>1, <1>2, <1>3, <1>4, SMT
<1>8. Readable(p, 0, 1) /\ ValueAt(p, 0, 1) = l
  BY <1>1, <1>4, <1>6, <1>7, WrittenRead DEF w, l
<1>9. Readable(p, 0 + 1, k) /\ ValueAt(p, 0 + 1, k) = Long(Len(text))
  <2>1. Stands(p, 0 + 1, h)
    BY <1>6, <1>7
  <2> QED
    BY <1>2, <1>4, <1>7, <2>1, WrittenRead DEF h, k
<1>10. ASSUME NEW inner \in Table(p) PROVE FieldIs(p, 0, inner, 1, k, Len(p))
  <2>1. WireOf(l) \in {0, 2}
    BY <1>1
  <2>2. PayloadIs(p, 0 + 1, k, Len(p), l, inner)
    BY <1>1, <1>2, <1>7, <1>9, Zenon DEF PayloadIs
  <2> QED
    BY <1>1, <1>7, <1>8, <1>9, <2>1, <2>2, Zenon DEF FieldIs
<1>11. Whole(p) /\ FieldAt(p)[0] = FieldOf(p, 0, 1, k, Len(p))
  <2>1. WireOf(ValueAt(p, 0, 1)) # 4
    BY <1>1, <1>8
  <2> QED
    BY <1>4, <1>10, <2>1, FieldReadAt
<1> DEFINE f == FieldOf(p, 0, 1, k, Len(p))
<1>12. f.number = NumberOf(l) /\ f.wire = WireOf(l) /\ f.bytes = SubSeq(p, ((0 + 1) + k) + 1, Len(p))
  BY <1>8 DEF FieldOf
<1>13. SubSeq(p, ((0 + 1) + k) + 1, ((0 + 1) + k) + Len(text)) = text
  <2> DEFINE at == (0 + 1) + k
  <2>1. Stands(p, at, text) /\ at \in 0..Len(p)
    BY <1>5, <1>7
  <2> HIDE DEF at
  <2>2. SubSeq(p, at + 1, at + Len(text)) = text
    BY <1>4, <2>1, StandingPiece
  <2> QED
    BY <2>2 DEF at
<1>14. p = WriteString(number, text)
  BY DEF WriteString, p, wh, w, h, t
<1> QED
  BY <1>1, <1>7, <1>11, <1>12, <1>13, <1>14

---------------------------------------------------------------------------
(* A message put together anew.                                            *)

\* Fields put in front of those that were kept: ws, then the fields of fs in I.
LEMMA PutTogether ==
  ASSUME NEW fs \in Seq(ParsedField), NEW I, I \subseteq DOMAIN fs,
         \A i \in 1..Len(fs) : Whole(fs[i].raw) /\ Alike(FieldAt(fs[i].raw)[0], fs[i]),
         NEW ws \in Seq(Seq(Byte)), \A i \in 1..Len(ws) : Whole(ws[i])
  PROVE  LET gs == Fields(FlattenSeq(ws) \o Raw(Chosen(fs, I))) IN
           /\ gs \in Seq(ParsedField)
           /\ \E m, c : /\ Enumerates(m, c, I) /\ Len(gs) = Len(ws) + c
                        /\ \A i \in 1..Len(ws) : Alike(gs[i], FieldAt(ws[i])[0])
                        /\ \A j \in 1..c : Alike(gs[Len(ws) + j], fs[m[j]])
<1> DEFINE kept == Chosen(fs, I)
           R == [i \in DOMAIN kept |-> kept[i].raw]
           a == Len(ws)
           c == Len(kept)
<1>1. kept \in Seq(ParsedField) /\ \E m : Picks(kept, fs, I, m)
  BY ChosenPicks
<1> HIDE DEF kept
<1>2. PICK m : Picks(kept, fs, I, m)
  BY <1>1
<1>3. /\ Enumerates(m, c, I) /\ c \in Nat /\ m \in [1..c -> Nat] /\ \A j \in 1..c : m[j] \in I
      /\ \A j \in 1..c : kept[j] = fs[m[j]]
  BY <1>2 DEF Picks, Enumerates
<1>4. DOMAIN kept = 1..c /\ a \in Nat /\ DOMAIN fs = 1..Len(fs)
  BY <1>1, LenProperties
<1>5. /\ R \in Seq(Seq(Byte)) /\ Len(R) = c
      /\ \A j \in 1..c : R[j] = kept[j].raw
      /\ Raw(kept) = FlattenSeq(R)
  <2>1. \A j \in 1..c : kept[j] \in ParsedField
    BY <1>1, <1>4, ElementOfSeq
  <2>2. \A j \in 1..c : kept[j].raw \in Seq(Byte)
    BY <2>1 DEF ParsedField
  <2>3. \A j \in 1..c : R[j] = kept[j].raw
    BY <1>4
  <2>4. Raw(kept) = FlattenSeq(R)
    BY Zenon DEF Raw
  <2>5. R \in [1..c -> Seq(Byte)]
    BY <1>4, <2>2
  <2> HIDE DEF R, c
  <2>6. R \in Seq(Seq(Byte)) /\ DOMAIN R = 1..c
    BY <1>3, <2>5
  <2>7. Len(R) = c
    BY <1>3, <2>6, LenProperties
  <2> QED
    BY <2>3, <2>4, <2>6, <2>7
<1> HIDE DEF R
<1> DEFINE ps == ws \o R
           gs == Fields(FlattenSeq(ps))
<1>6. /\ ps \in Seq(Seq(Byte)) /\ Len(ps) = a + c
      /\ \A i \in 1..(a + c) : ps[i] = IF i <= a THEN ws[i] ELSE R[i - a]
  <2>1. /\ ps \in Seq(Seq(Byte)) /\ Len(ps) = Len(ws) + Len(R)
        /\ \A i \in 1..(Len(ws) + Len(R)) : ps[i] = IF i <= Len(ws) THEN ws[i] ELSE R[i - Len(ws)]
    BY <1>5, ConcatProperties
  <2> HIDE DEF ps
  <2> QED
    BY <1>5, <2>1, Zenon
<1>7. FlattenSeq(ps) = FlattenSeq(ws) \o Raw(kept)
  BY <1>5, FlattenConcat
<1>8. \A j \in 1..c : /\ a + j \in 1..(a + c) /\ ps[a + j] = fs[m[j]].raw
                      /\ Whole(fs[m[j]].raw) /\ Alike(FieldAt(fs[m[j]].raw)[0], fs[m[j]])
  <2> SUFFICES ASSUME NEW j \in 1..c
               PROVE  /\ a + j \in 1..(a + c) /\ ps[a + j] = fs[m[j]].raw
                      /\ Whole(fs[m[j]].raw) /\ Alike(FieldAt(fs[m[j]].raw)[0], fs[m[j]])
    OBVIOUS
  <2>1. a + j \in 1..(a + c) /\ ~(a + j <= a) /\ (a + j) - a = j
    BY <1>3, <1>4, SMT
  <2>2. m[j] \in 1..Len(fs)
    BY <1>3, <1>4
  <2>3. ps[a + j] = R[(a + j) - a]
    BY <1>6, <2>1
  <2> QED
    BY <1>3, <1>5, <2>1, <2>2, <2>3
<1>9. \A i \in 1..a : i \in 1..(a + c) /\ ps[i] = ws[i]
  BY <1>3, <1>4, <1>6, SMT
<1>10. \A i \in 1..Len(ps) : Whole(ps[i])
  <2> SUFFICES ASSUME NEW i \in 1..(a + c)
               PROVE  Whole(ps[i])
    BY <1>6
  <2>1. CASE i <= a
    <3>1. i \in 1..a
      BY <1>4, <2>1, SMT
    <3> QED
      BY <1>9, <3>1
  <2>2. CASE ~(i <= a)
    <3>1. i - a \in 1..c /\ a + (i - a) = i
      BY <1>3, <1>4, <2>2, SMT
    <3>2. ps[a + (i - a)] = fs[m[i - a]].raw /\ Whole(fs[m[i - a]].raw)
      BY <1>8, <3>1
    <3> QED
      BY <3>1, <3>2
  <2> QED
    BY <2>1, <2>2
<1> HIDE DEF ps, a, c
<1>11. /\ gs \in Seq(ParsedField) /\ Len(gs) = Len(ps)
       /\ \A i \in 1..Len(ps) : Alike(gs[i], FieldAt(ps[i])[0])
  BY <1>6, <1>10, PiecesRead
<1> HIDE DEF gs
<1>12. \A i \in 1..a : Alike(gs[i], FieldAt(ws[i])[0])
  BY <1>6, <1>9, <1>11
<1>13. ASSUME NEW j \in 1..c PROVE Alike(gs[a + j], fs[m[j]])
  <2>1. Alike(gs[a + j], FieldAt(fs[m[j]].raw)[0]) /\ Alike(FieldAt(fs[m[j]].raw)[0], fs[m[j]])
    BY <1>6, <1>8, <1>11
  <2> QED
    BY <2>1 DEF Alike
<1>14. gs = Fields(FlattenSeq(ws) \o Raw(Chosen(fs, I)))
  BY <1>7 DEF gs, kept
<1>15. Len(gs) = a + c
  BY <1>6, <1>11
<1> QED
  BY <1>3, <1>11, <1>12, <1>13, <1>14, <1>15 DEF a, c

---------------------------------------------------------------------------
(* What the messages hold.                                                 *)

\* The same fields at other cursors.
SameFields(u, v) == Len(u) = Len(v) /\ \A i \in 1..Len(v) : Alike(u[i], v[i])

\* gs are a fields and then those of fs at the places in K.
Carried(fs, gs, a, m, c, K) ==
  /\ Enumerates(m, c, K) /\ K \subseteq DOMAIN fs
  /\ Len(gs) = a + c /\ \A j \in 1..c : Alike(gs[a + j], fs[m[j]])

\* If fields are carried, those at places that correspond are the same.
LEMMA PlacesCarried ==
  ASSUME NEW fs \in Seq(ParsedField), NEW gs \in Seq(ParsedField), NEW a \in Nat, NEW m, NEW c, NEW K,
         Carried(fs, gs, a, m, c, K),
         NEW I, I \subseteq K, NEW J, J \subseteq DOMAIN gs,
         \A j \in J : j > a, \A j \in 1..c : a + j \in J <=> m[j] \in I
  PROVE  /\ Chosen(fs, I) \in Seq(ParsedField) /\ Chosen(gs, J) \in Seq(ParsedField)
         /\ SameFields(Chosen(gs, J), Chosen(fs, I))
<1> DEFINE u == Chosen(fs, I)
           v == Chosen(gs, J)
<1>1. /\ c \in Nat /\ Enumerates(m, c, K) /\ K \subseteq DOMAIN fs /\ Len(gs) = a + c
      /\ \A j \in 1..c : Alike(gs[a + j], fs[m[j]])
  BY DEF Carried, Enumerates
<1>2. /\ u \in Seq(ParsedField) /\ v \in Seq(ParsedField) /\ Len(v) = Len(u)
      /\ \A i \in 1..Len(u) : Together(u, v, fs, gs, a, c, m, i)
  BY <1>1, ChosenCarried
<1> HIDE DEF u, v
<1>3. \A i \in 1..Len(u) : Alike(v[i], u[i])
  BY <1>1, <1>2 DEF Together
<1> QED
  BY <1>2, <1>3 DEF SameFields, u, v

\* Of a number and wire type that is kept the same fields are selected.
LEMMA SelectCarried ==
  ASSUME NEW fs \in Seq(ParsedField), NEW gs \in Seq(ParsedField), NEW a \in Nat, NEW m, NEW c, NEW K,
         Carried(fs, gs, a, m, c, K), NEW number, NEW wire,
         \A i \in DOMAIN fs : fs[i].number = number /\ fs[i].wire = wire => i \in K,
         \A i \in 1..a : ~(gs[i].number = number /\ gs[i].wire = wire)
  PROVE  SameFields(Select(gs, number, wire), Select(fs, number, wire))
<1> DEFINE I == {i \in DOMAIN fs : fs[i].number = number /\ fs[i].wire = wire}
           J == {i \in DOMAIN gs : gs[i].number = number /\ gs[i].wire = wire}
<1>1. I \subseteq K /\ J \subseteq DOMAIN gs
  OBVIOUS
<1>2. /\ c \in Nat /\ m \in [1..c -> Nat] /\ \A j \in 1..c : m[j] \in K
      /\ K \subseteq DOMAIN fs /\ DOMAIN gs = 1..(a + c)
      /\ \A j \in 1..c : Alike(gs[a + j], fs[m[j]])
  BY LenProperties DEF Carried, Enumerates
<1>3. \A j \in J : j > a
  <2>1. \A j \in 1..(a + c) : j > a \/ j \in 1..a
    BY <1>2, SMT
  <2> QED
    BY <1>2, <2>1
<1>4. \A j \in 1..c : a + j \in J <=> m[j] \in I
  <2>1. \A j \in 1..c : a + j \in 1..(a + c)
    BY <1>2, SMT
  <2> QED
    BY <1>2, <2>1 DEF Alike
<1> HIDE DEF I, J
<1>5. SameFields(Chosen(gs, J), Chosen(fs, I))
  BY <1>1, <1>3, <1>4, PlacesCarried
<1> QED
  BY <1>5, Zenon DEF Select, I, J

\* The fields that are no arguments are the same, byte for byte.
LEMMA OthersCarried ==
  ASSUME NEW fs \in Seq(ParsedField), NEW gs \in Seq(ParsedField), NEW a \in Nat, NEW m, NEW c, NEW K,
         Carried(fs, gs, a, m, c, K), K = {i \in DOMAIN fs : IsKept(fs[i])},
         \A i \in 1..a : gs[i].number = 1 /\ gs[i].wire = 2
  PROVE  OtherFields(gs) = OtherFields(fs)
<1> DEFINE I == {i \in DOMAIN fs : ~(fs[i].number = 1 /\ fs[i].wire = 2)}
           J == {i \in DOMAIN gs : ~(gs[i].number = 1 /\ gs[i].wire = 2)}
<1>1. I = K /\ J \subseteq DOMAIN gs
  BY DEF IsKept
<1>2. /\ c \in Nat /\ m \in [1..c -> Nat] /\ \A j \in 1..c : m[j] \in K
      /\ K \subseteq DOMAIN fs /\ DOMAIN gs = 1..(a + c)
      /\ \A j \in 1..c : Alike(gs[a + j], fs[m[j]])
  BY LenProperties DEF Carried, Enumerates
<1>3. \A j \in J : j > a
  <2>1. \A j \in 1..(a + c) : j > a \/ j \in 1..a
    BY <1>2, SMT
  <2> QED
    BY <1>2, <2>1
<1>4. \A j \in 1..c : a + j \in J <=> m[j] \in I
  <2>1. \A j \in 1..c : a + j \in 1..(a + c)
    BY <1>2, SMT
  <2> QED
    BY <1>2, <2>1 DEF Alike
<1> HIDE DEF I, J
<1> DEFINE u == Chosen(fs, I)
           v == Chosen(gs, J)
<1>5. u \in Seq(ParsedField) /\ v \in Seq(ParsedField) /\ SameFields(v, u)
  BY <1>1, <1>3, <1>4, PlacesCarried
<1>6. OtherFields(gs) = [i \in DOMAIN v |-> v[i].raw] /\ OtherFields(fs) = [i \in DOMAIN u |-> u[i].raw]
  BY Zenon DEF OtherFields, I, J
<1> HIDE DEF u, v
<1>7. DOMAIN u = DOMAIN v /\ \A i \in DOMAIN u : v[i].raw = u[i].raw
  BY <1>5, LenProperties DEF SameFields, Alike
<1> QED
  BY <1>6, <1>7

\* Fields selected are fields.
LEMMA SelectType ==
  ASSUME NEW fields \in Seq(ParsedField), NEW number, NEW wire
  PROVE  Select(fields, number, wire) \in Seq(ParsedField)
<1>1. {i \in DOMAIN fields : fields[i].number = number /\ fields[i].wire = wire} \subseteq DOMAIN fields
  OBVIOUS
<1> QED
  BY <1>1, ChosenPicks, Zenon DEF Select

\* Bytes takes the bytes of each field selected, and the last ones are bytes.
LEMMA BytesFacts ==
  ASSUME NEW fields \in Seq(ParsedField), NEW number
  PROVE  /\ Bytes(fields, number) \in Seq(Seq(Byte))
         /\ Len(Bytes(fields, number)) = Len(Select(fields, number, 2))
         /\ DOMAIN Bytes(fields, number) = 1..Len(Select(fields, number, 2))
         /\ \A i \in 1..Len(Select(fields, number, 2)) :
              Bytes(fields, number)[i] = Select(fields, number, 2)[i].bytes
         /\ LastBytes(fields, number) \in Seq(Byte)
<1> DEFINE u == Select(fields, number, 2)
           b == Bytes(fields, number)
           n == Len(u)
<1>1. u \in Seq(ParsedField) /\ n \in Nat /\ DOMAIN u = 1..n /\ \A i \in 1..n : u[i] \in ParsedField
  <2>1. u \in Seq(ParsedField)
    BY SelectType
  <2> HIDE DEF u
  <2> QED
    BY <2>1, LenProperties, ElementOfSeq
<1>2. b = [i \in DOMAIN u |-> u[i].bytes]
  BY Zenon DEF Bytes
<1> HIDE DEF u, b, n
<1>3. \A i \in 1..n : u[i].bytes \in Seq(Byte)
  BY <1>1 DEF ParsedField
<1>4. b \in [1..n -> Seq(Byte)] /\ \A i \in 1..n : b[i] = u[i].bytes
  BY <1>1, <1>2, <1>3
<1>5. b \in Seq(Seq(Byte)) /\ DOMAIN b = 1..n
  BY <1>1, <1>4
<1>6. Len(b) = n
  BY <1>1, <1>5, LenProperties
<1>7. Last(<<<<>>>> \o b) \in Seq(Byte)
  <2> DEFINE e == <<<<>>>>
             s == e \o b
  <2>1. e \in Seq(Seq(Byte)) /\ Len(e) = 1
    OBVIOUS
  <2> HIDE DEF e
  <2>2. s \in Seq(Seq(Byte)) /\ Len(s) = Len(e) + Len(b)
    BY <1>5, <2>1, ConcatProperties
  <2> HIDE DEF s
  <2>3. Len(s) \in 1..Len(s)
    BY <1>1, <1>6, <2>1, <2>2, SMT
  <2>4. s[Len(s)] \in Seq(Byte)
    BY <2>2, <2>3, ElementOfSeq
  <2> QED
    BY <2>4 DEF Last, s, e
<1> QED
  BY <1>4, <1>5, <1>6, <1>7 DEF b, n, u, LastBytes

\* The cast gives an int.
LEMMA AsIntType ==
  ASSUME NEW l \in Longs
  PROVE  AsInt(l) \in Int
<1> DEFINE top == l[5] % 16
           low == Low(l)
<1>1. l[5] \in Int /\ low \in Int
  BY LowFacts DEF Longs, Digits
<1>2. AsInt(l) = (IF top >= 8 THEN top - 16 ELSE top) * 2^28 + low
  BY Zenon DEF AsInt
<1> HIDE DEF low
<1>3. (IF top >= 8 THEN top - 16 ELSE top) \in Int
  BY <1>1
<1> DEFINE h == IF top >= 8 THEN top - 16 ELSE top
<1> HIDE DEF h
<1>4. h \in Int
  BY <1>3 DEF h
<1>5. h * 2^28 + low \in Int
  BY <1>1, <1>4, SMT
<1> QED
  BY <1>2, <1>5 DEF h

\* Scalars takes the values of each field selected, behind a 0.
LEMMA ScalarsFacts ==
  ASSUME NEW fields \in Seq(ParsedField), NEW number
  PROVE  LET u == Select(fields, number, 0)
             s == Scalars(fields, number)
         IN  /\ s \in Seq(Int) /\ Len(s) = Len(u) + 1 /\ Len(u) \in Nat
             /\ s[1] = 0 /\ \A i \in 1..Len(u) : s[i + 1] = AsInt(u[i].scalar)
             /\ LastScalar(fields, number) \in Int
             /\ LastScalar(fields, number) = s[Len(u) + 1]
<1> DEFINE u == Select(fields, number, 0)
           n == Len(u)
           t == [i \in DOMAIN u |-> AsInt(u[i].scalar)]
           e == <<0>>
           s == e \o t
<1>1. u \in Seq(ParsedField) /\ n \in Nat /\ DOMAIN u = 1..n /\ \A i \in 1..n : u[i] \in ParsedField
  <2>1. u \in Seq(ParsedField)
    BY SelectType
  <2> HIDE DEF u
  <2> QED
    BY <2>1, LenProperties, ElementOfSeq
<1>2. Scalars(fields, number) = s
  BY Zenon DEF Scalars
<1> HIDE DEF u, n
<1>3. \A i \in 1..n : AsInt(u[i].scalar) \in Int
  <2>1. \A i \in 1..n : u[i].scalar \in Longs
    BY <1>1 DEF ParsedField
  <2> QED
    BY <2>1, AsIntType
<1>4. t \in [1..n -> Int] /\ \A i \in 1..n : t[i] = AsInt(u[i].scalar)
  BY <1>1, <1>3
<1> HIDE DEF t
<1>5. t \in Seq(Int) /\ DOMAIN t = 1..n
  BY <1>1, <1>4
<1>6. Len(t) = n
  BY <1>1, <1>5, LenProperties
<1>7. e \in Seq(Int) /\ Len(e) = 1 /\ e[1] = 0
  OBVIOUS
<1> HIDE DEF e
<1>8. /\ s \in Seq(Int) /\ Len(s) = Len(e) + Len(t)
      /\ \A i \in 1..(Len(e) + Len(t)) : s[i] = IF i <= Len(e) THEN e[i] ELSE t[i - Len(e)]
  BY <1>5, <1>7, ConcatProperties
<1> HIDE DEF s
<1>9. \A i \in 1..n : /\ i + 1 \in 1..(1 + n) /\ ~(i + 1 <= 1) /\ (i + 1) - 1 = i
  BY <1>1, SMT
<1>10. 1 \in 1..(1 + n) /\ n + 1 \in 1..(1 + n) /\ 1 + n = n + 1 /\ 1 <= 1
  BY <1>1, SMT
<1>11. Len(s) = n + 1 /\ s[1] = 0
  BY <1>6, <1>7, <1>8, <1>10
<1>12. \A i \in 1..n : s[i + 1] = AsInt(u[i].scalar)
  BY <1>4, <1>6, <1>7, <1>8, <1>9
<1>13. s[Len(s)] \in Int
  BY <1>8, <1>10, <1>11, ElementOfSeq
<1>14. LastScalar(fields, number) = s[Len(s)]
  BY <1>2, Zenon DEF LastScalar, Last
<1> QED
  BY <1>1, <1>2, <1>8, <1>11, <1>12, <1>13, <1>14 DEF u, n

\* What is read of the same fields.
LEMMA SameRead ==
  ASSUME NEW fs \in Seq(ParsedField), NEW gs \in Seq(ParsedField), NEW number
  PROVE  /\ SameFields(Select(gs, number, 0), Select(fs, number, 0)) =>
              LastScalar(gs, number) = LastScalar(fs, number)
         /\ SameFields(Select(gs, number, 2), Select(fs, number, 2)) =>
              Bytes(gs, number) = Bytes(fs, number)
<1>1. ASSUME SameFields(Select(gs, number, 0), Select(fs, number, 0))
      PROVE  LastScalar(gs, number) = LastScalar(fs, number)
  <2> DEFINE u == Select(fs, number, 0)
             v == Select(gs, number, 0)
             s == Scalars(fs, number)
             t == Scalars(gs, number)
             n == Len(u)
  <2>1. /\ n \in Nat /\ s[1] = 0 /\ \A i \in 1..n : s[i + 1] = AsInt(u[i].scalar)
        /\ LastScalar(fs, number) = s[n + 1]
    BY ScalarsFacts, Zenon
  <2>2. /\ Len(v) = n /\ \A i \in 1..n : v[i].scalar = u[i].scalar
    BY <1>1, Zenon DEF SameFields, Alike
  <2>3. /\ t[1] = 0 /\ \A i \in 1..Len(v) : t[i + 1] = AsInt(v[i].scalar)
        /\ LastScalar(gs, number) = t[Len(v) + 1]
    BY ScalarsFacts, Zenon
  <2> HIDE DEF u, v, s, t, n
  <2>4. CASE n = 0
    <3>1. n + 1 = 1
      BY <2>4
    <3> QED
      BY <2>1, <2>2, <2>3, <3>1
  <2>5. CASE n # 0
    <3>1. n \in 1..n
      BY <2>1, <2>5, SMT
    <3> QED
      BY <2>1, <2>2, <2>3, <3>1
  <2> QED
    BY <2>4, <2>5
<1>2. ASSUME SameFields(Select(gs, number, 2), Select(fs, number, 2))
      PROVE  Bytes(gs, number) = Bytes(fs, number)
  <2> DEFINE u == Select(fs, number, 2)
             v == Select(gs, number, 2)
  <2>1. u \in Seq(ParsedField) /\ v \in Seq(ParsedField)
    BY SelectType
  <2>2. /\ Bytes(fs, number) = [i \in DOMAIN u |-> u[i].bytes]
        /\ Bytes(gs, number) = [i \in DOMAIN v |-> v[i].bytes]
    BY Zenon DEF Bytes
  <2> HIDE DEF u, v
  <2>3. DOMAIN u = DOMAIN v /\ \A i \in DOMAIN u : v[i].bytes = u[i].bytes
    BY <1>2, <2>1, LenProperties DEF SameFields, Alike, u, v
  <2> QED
    BY <2>2, <2>3
<1> QED
  BY <1>1, <1>2

InputRecord == [path : Seq(Byte), digest : Seq(Byte)]

\* Inputs without an error are inputs.
LEMMA InputsType ==
  ASSUME NEW messages \in Seq(Seq(Byte)), Malformed \notin Range(InputsOf(messages))
  PROVE  InputsOf(messages) \in Seq(InputRecord)
<1> DEFINE inputs == InputsOf(messages)
           n == Len(messages)
<1>1. inputs = [i \in DOMAIN messages |-> InputOf(Fields(messages[i]))]
  BY Zenon DEF InputsOf
<1>2. n \in Nat /\ DOMAIN messages = 1..n /\ \A i \in 1..n : messages[i] \in Seq(Byte)
  BY LenProperties, ElementOfSeq
<1>3. DOMAIN inputs = 1..n /\ \A i \in 1..n : inputs[i] = InputOf(Fields(messages[i]))
  BY <1>1, <1>2
<1> HIDE DEF inputs
<1>4. ASSUME NEW i \in 1..n PROVE inputs[i] \in InputRecord
  <2> DEFINE fs == Fields(messages[i])
  <2>1. inputs[i] # Malformed
    BY <1>3 DEF Range, inputs
  <2>2. InputOf(fs) # Malformed
    BY <1>3, <2>1
  <2>3. fs # Malformed
    BY <2>2, Zenon DEF InputOf
  <2>4. fs \in Seq(ParsedField)
    BY <1>2, <2>3, ReadIsCut
  <2>5. InputOf(fs) = [path |-> LastBytes(fs, 1), digest |-> LastBytes(fs, 2)]
    BY <2>2, Zenon DEF InputOf
  <2> HIDE DEF fs
  <2>6. LastBytes(fs, 1) \in Seq(Byte) /\ LastBytes(fs, 2) \in Seq(Byte)
    BY <2>4, BytesFacts
  <2> QED
    BY <1>3, <2>5, <2>6 DEF InputRecord, fs
<1>5. inputs = [i \in 1..n |-> inputs[i]]
  <2>1. inputs = [i \in 1..n |-> InputOf(Fields(messages[i]))]
    BY <1>1, <1>2 DEF inputs
  <2> QED
    BY <2>1
<1>6. inputs \in [1..n -> InputRecord]
  BY <1>4, <1>5
<1> QED
  BY <1>2, <1>6 DEF inputs

RequestRecord(fields) ==
  [fields |-> fields, requestId |-> LastScalar(fields, 3),
   arguments |-> Bytes(fields, 1), inputs |-> InputsOf(Bytes(fields, 2))]

\* A request is read of its fields exactly if its texts and inputs can be read.
LEMMA RequestRead ==
  ASSUME NEW fields \in Seq(ParsedField)
  PROVE  /\ fields # Malformed
         /\ RequestFrom(fields) # Malformed =>
              /\ AllText(fields, 1) /\ Malformed \notin Range(InputsOf(Bytes(fields, 2)))
              /\ RequestFrom(fields) = RequestRecord(fields)
         /\ AllText(fields, 1) /\ Malformed \notin Range(InputsOf(Bytes(fields, 2))) =>
              RequestFrom(fields) = RequestRecord(fields) /\ RequestFrom(fields) # Malformed
<1> DEFINE inputs == InputsOf(Bytes(fields, 2))
           r == RequestRecord(fields)
<1>1. fields # Malformed
  BY MalformedAssumption
<1>2. RequestFrom(fields) = IF ~AllText(fields, 1) THEN Malformed
                            ELSE IF Malformed \in Range(inputs) THEN Malformed ELSE r
  BY <1>1, Zenon DEF RequestFrom, WithInputs, RequestRecord
<1>3. ASSUME Malformed \notin Range(inputs)
      PROVE  r # Malformed
  <2>1. LastScalar(fields, 3) \in Int
    BY ScalarsFacts, Zenon
  <2>2. Bytes(fields, 1) \in Seq(Seq(Byte)) /\ Bytes(fields, 2) \in Seq(Seq(Byte))
    BY BytesFacts
  <2>3. inputs \in Seq(InputRecord)
    BY <1>3, <2>2, InputsType
  <2> HIDE DEF inputs
  <2> DEFINE i == inputs
             b == Bytes(fields, 1)
             id == LastScalar(fields, 3)
  <2>4. r = [fields |-> fields, requestId |-> id, arguments |-> b, inputs |-> i]
    BY Zenon DEF RequestRecord, inputs
  <2> HIDE DEF r, i, b, id
  <2>5. r \in [fields : Seq(ParsedField), requestId : Int, arguments : Seq(Seq(Byte)),
               inputs : Seq(InputRecord)]
    BY <2>1, <2>2, <2>3, <2>4 DEF i, b, id
  <2> QED
    BY <2>5, MalformedAssumption DEF InputRecord
<1> QED
  BY <1>1, <1>2, <1>3, Zenon

\* Each argument is written as one whole string field of number 1.
LEMMA TextFacts ==
  ASSUME NEW args \in Seq(Texts)
  PROVE  LET ws == [i \in DOMAIN args |-> WriteString(1, args[i])] IN
           /\ ws \in Seq(Seq(Byte)) /\ Len(ws) = Len(args) /\ Len(args) \in Nat
           /\ args \in Seq(Seq(Byte)) /\ \A t \in Range(args) : IsText(t)
           /\ \A i \in 1..Len(args) :
                /\ Whole(ws[i]) /\ FieldAt(ws[i])[0].number = 1
                /\ FieldAt(ws[i])[0].wire = 2 /\ FieldAt(ws[i])[0].bytes = args[i]
<1> DEFINE ws == [i \in DOMAIN args |-> WriteString(1, args[i])]
           n == Len(args)
<1>1. n \in Nat /\ DOMAIN args = 1..n /\ \A i \in 1..n : args[i] \in Texts
  BY LenProperties, ElementOfSeq
<1>2. \A i \in 1..n : args[i] \in Seq(Byte) /\ Len(args[i]) \in Size /\ IsText(args[i])
  BY <1>1, TextsAssumption
<1>3. \A i \in 1..n : ws[i] = WriteString(1, args[i])
  BY <1>1
<1>4. ASSUME NEW i \in 1..n
      PROVE  /\ Whole(ws[i]) /\ ws[i] \in Seq(Byte) /\ FieldAt(ws[i])[0].number = 1
             /\ FieldAt(ws[i])[0].wire = 2 /\ FieldAt(ws[i])[0].bytes = args[i]
  <2> DEFINE t == args[i]
             p == WriteString(1, t)
  <2>1. t \in Seq(Byte) /\ Len(t) \in Size /\ 1 \in {1, 2}
    BY <1>2
  <2> HIDE DEF t
  <2>2. Whole(p) /\ FieldAt(p)[0].number = 1 /\ FieldAt(p)[0].wire = 2 /\ FieldAt(p)[0].bytes = t
    BY <2>1, StringField
  <2>3. ws[i] = p
    BY <1>3 DEF t
  <2> HIDE DEF p
  <2> QED
    BY <2>2, <2>3 DEF Whole, t
<1>5. ws = [i \in 1..n |-> ws[i]]
  BY <1>1
<1> HIDE DEF ws
<1>6. ws \in [1..n -> Seq(Byte)]
  BY <1>4, <1>5
<1>7. ws \in Seq(Seq(Byte)) /\ DOMAIN ws = 1..n
  BY <1>1, <1>6
<1>8. Len(ws) = n
  BY <1>1, <1>7, LenProperties
<1>9. args \in Seq(Seq(Byte))
  <2>1. args \in [1..n -> Seq(Byte)]
    BY <1>1, <1>2
  <2> QED
    BY <1>1, <2>1
<1>10. \A t \in Range(args) : IsText(t)
  BY <1>1, <1>2 DEF Range
<1> QED
  BY <1>1, <1>4, <1>7, <1>8, <1>9, <1>10 DEF ws

\* Whatever the arguments, the rest of the request goes with them.
LEMMA Rewriting ==
  ASSUME NEW message \in Seq(Byte), RequestOf(message) # Malformed, NEW args \in Seq(Texts)
  PROVE  OnlyArguments(RequestOf(message), args, WithArguments(RequestOf(message), args))
<1> DEFINE fs == Fields(message)
           request == RequestOf(message)
           K == {i \in DOMAIN fs : IsKept(fs[i])}
           ws == [i \in DOMAIN args |-> WriteString(1, args[i])]
           a == Len(args)
           gs == Fields(FlattenSeq(ws) \o Raw(Chosen(fs, K)))
<1>1. request = RequestFrom(fs) /\ request # Malformed
  BY Zenon DEF RequestOf
<1>2. fs # Malformed
  BY <1>1, Zenon DEF RequestFrom
<1>3. /\ fs \in Seq(ParsedField)
      /\ \A i \in 1..Len(fs) : Whole(fs[i].raw) /\ Alike(FieldAt(fs[i].raw)[0], fs[i])
  BY <1>2, ReadPieces
<1> HIDE DEF fs
<1>4. /\ AllText(fs, 1) /\ Malformed \notin Range(InputsOf(Bytes(fs, 2)))
      /\ request = RequestRecord(fs)
  BY <1>1, <1>3, RequestRead
<1>5. /\ ws \in Seq(Seq(Byte)) /\ Len(ws) = a /\ a \in Nat
      /\ args \in Seq(Seq(Byte)) /\ \A t \in Range(args) : IsText(t)
      /\ \A i \in 1..a :
           /\ Whole(ws[i]) /\ FieldAt(ws[i])[0].number = 1
           /\ FieldAt(ws[i])[0].wire = 2 /\ FieldAt(ws[i])[0].bytes = args[i]
  BY TextFacts
<1>6. WithArguments(request, args) = RequestFrom(gs)
  <2>1. request.fields = fs
    BY <1>4 DEF RequestRecord
  <2> HIDE DEF request
  <2> QED
    BY <2>1, Zenon DEF WithArguments, RequestOf
<1> HIDE DEF ws, request
<1>7. gs \in Seq(ParsedField) /\ \E m, c :
         /\ Enumerates(m, c, K) /\ Len(gs) = Len(ws) + c
         /\ \A i \in 1..Len(ws) : Alike(gs[i], FieldAt(ws[i])[0])
         /\ \A j \in 1..c : Alike(gs[Len(ws) + j], fs[m[j]])
  <2>1. K \subseteq DOMAIN fs /\ \A i \in 1..Len(ws) : Whole(ws[i])
    BY <1>5
  <2> HIDE DEF K
  <2> QED
    BY <1>3, <1>5, <2>1, PutTogether
<1> HIDE DEF gs
<1>8. PICK m, c : /\ Enumerates(m, c, K) /\ Len(gs) = Len(ws) + c
                  /\ \A i \in 1..Len(ws) : Alike(gs[i], FieldAt(ws[i])[0])
                  /\ \A j \in 1..c : Alike(gs[Len(ws) + j], fs[m[j]])
  BY <1>7
<1>9. Carried(fs, gs, a, m, c, K)
  BY <1>5, <1>8 DEF Carried
<1>10. \A i \in 1..a : gs[i].number = 1 /\ gs[i].wire = 2 /\ gs[i].bytes = args[i]
  BY <1>5, <1>8 DEF Alike
<1>11. OtherFields(gs) = OtherFields(fs)
  BY <1>3, <1>5, <1>7, <1>9, <1>10, OthersCarried
<1>12. LastScalar(gs, 3) = LastScalar(fs, 3)
  <2>1. /\ \A i \in DOMAIN fs : fs[i].number = 3 /\ fs[i].wire = 0 => i \in K
        /\ \A i \in 1..a : ~(gs[i].number = 3 /\ gs[i].wire = 0)
    BY <1>10 DEF IsKept
  <2> HIDE DEF K
  <2>2. SameFields(Select(gs, 3, 0), Select(fs, 3, 0))
    BY <1>3, <1>5, <1>7, <1>9, <2>1, SelectCarried
  <2> QED
    BY <1>3, <1>7, <2>2, SameRead
<1>13. Bytes(gs, 2) = Bytes(fs, 2)
  <2>1. /\ \A i \in DOMAIN fs : fs[i].number = 2 /\ fs[i].wire = 2 => i \in K
        /\ \A i \in 1..a : ~(gs[i].number = 2 /\ gs[i].wire = 2)
    BY <1>10 DEF IsKept
  <2> HIDE DEF K
  <2>2. SameFields(Select(gs, 2, 2), Select(fs, 2, 2))
    BY <1>3, <1>5, <1>7, <1>9, <2>1, SelectCarried
  <2> QED
    BY <1>3, <1>7, <2>2, SameRead
<1>14. Bytes(gs, 1) = args
  <2> DEFINE J == {i \in DOMAIN gs : gs[i].number = 1 /\ gs[i].wire = 2}
  <2>1. c \in Nat /\ DOMAIN gs = 1..(a + c) /\ a \in 0..Len(gs) /\ Len(gs) = a + c
    <3>1. c \in Nat /\ Len(gs) = a + c
      BY <1>5, <1>8 DEF Enumerates
    <3>2. DOMAIN gs = 1..Len(gs) /\ Len(gs) \in Nat
      BY <1>7, LenProperties
    <3>3. a \in 0..(a + c)
      BY <1>5, <3>1, SMT
    <3> QED
      BY <3>1, <3>2, <3>3
  <2>2. ASSUME NEW j \in 1..c PROVE a + j \notin J
    <3>1. m[j] \in K
      BY <1>8 DEF Enumerates
    <3>2. Alike(gs[a + j], fs[m[j]])
      BY <1>5, <1>8
    <3> QED
      BY <3>1, <3>2 DEF Alike, IsKept
  <2>3. J = 1..a
    <3>1. \A i \in 1..(a + c) : i \in 1..a \/ (i - a \in 1..c /\ a + (i - a) = i)
      BY <1>5, <2>1, SMT
    <3>2. \A i \in 1..a : i \in 1..(a + c)
      BY <1>5, <2>1, SMT
    <3>3. \A i \in 1..a : i \in J
      BY <1>10, <2>1, <3>2, Zenon
    <3>4. ASSUME NEW i \in J PROVE i \in 1..a
      <4>1. i \in 1..(a + c)
        BY <2>1
      <4>2. i - a \in 1..c /\ a + (i - a) = i => i \notin J
        BY <2>2
      <4> QED
        BY <3>1, <4>1, <4>2, Zenon
    <3> HIDE DEF J
    <3> QED
      BY <3>3, <3>4
  <2>4. Select(gs, 1, 2) = Chosen(gs, 1..a)
    BY <2>3, Zenon DEF Select
  <2> HIDE DEF J
  <2> DEFINE u == Chosen(gs, 1..a)
  <2>5. u \in Seq(ParsedField) /\ Len(u) = a /\ \A i \in 1..a : u[i] = gs[i]
    BY <1>7, <2>1, ChosenFirst
  <2>6. /\ Bytes(gs, 1) \in Seq(Seq(Byte)) /\ Len(Bytes(gs, 1)) = Len(Select(gs, 1, 2))
        /\ \A i \in 1..Len(Select(gs, 1, 2)) : Bytes(gs, 1)[i] = Select(gs, 1, 2)[i].bytes
    BY <1>7, BytesFacts, Zenon
  <2> HIDE DEF u
  <2> DEFINE b == Bytes(gs, 1)
  <2>7. b \in Seq(Seq(Byte)) /\ Len(b) = a /\ \A i \in 1..a : b[i] = args[i]
    <3>1. Select(gs, 1, 2) = u
      BY <2>4 DEF u
    <3>2. \A i \in 1..a : u[i].bytes = args[i]
      BY <1>10, <2>5
    <3> HIDE DEF b
    <3>3. \A i \in 1..a : b[i] = u[i].bytes
      BY <2>5, <2>6, <3>1, Zenon DEF b
    <3> QED
      BY <2>5, <2>6, <3>1, <3>2, <3>3 DEF b
  <2> HIDE DEF b
  <2>8. b = args
    <3>1. DOMAIN b = 1..a /\ DOMAIN args = 1..a /\ b = [i \in DOMAIN b |-> b[i]]
          /\ args = [i \in DOMAIN args |-> args[i]]
      BY <1>5, <2>7, LenProperties
    <3> QED
      BY <2>7, <3>1
  <2> QED
    BY <2>8 DEF b
<1>15. AllText(gs, 1)
  BY <1>5, <1>14 DEF AllText
<1>16. RequestFrom(gs) = RequestRecord(gs) /\ RequestFrom(gs) # Malformed
  BY <1>4, <1>7, <1>13, <1>15, RequestRead
<1>17. /\ RequestRecord(gs).fields = gs /\ RequestRecord(gs).arguments = args
       /\ RequestRecord(gs).requestId = RequestRecord(fs).requestId
       /\ RequestRecord(gs).inputs = RequestRecord(fs).inputs
       /\ RequestRecord(fs).fields = fs
  BY <1>12, <1>13, <1>14 DEF RequestRecord
<1> QED
  BY <1>4, <1>6, <1>11, <1>16, <1>17 DEF OnlyArguments, request

\* A request that is rewritten has other arguments and nothing else, for all messages and texts.
LEMMA Rewrites == RewritesArgumentsOnly
<1> SUFFICES ASSUME NEW message \in Samples, RequestOf(message) # Malformed,
                    NEW args \in {<<>>} \cup {<<t>> : t \in Texts} \cup {<<t, u>> : t, u \in Texts}
             PROVE  OnlyArguments(RequestOf(message), args, WithArguments(RequestOf(message), args))
  BY DEF RewritesArgumentsOnly
<1>1. message \in Seq(Byte)
  BY SamplesAssumption
<1>2. args \in Seq(Texts)
  <2>1. CASE args = <<>>
    BY <2>1
  <2>2. \A t \in Texts : <<t>> \in Seq(Texts)
    OBVIOUS
  <2>3. \A t, u \in Texts : <<t, u>> \in Seq(Texts)
    OBVIOUS
  <2>4. CASE args \in {<<t>> : t \in Texts}
    <3>1. PICK t \in Texts : args = <<t>>
      BY <2>4
    <3> QED
      BY <2>2, <3>1
  <2>5. CASE args \in {<<t, u>> : t, u \in Texts}
    <3>1. PICK t \in Texts, u \in Texts : args = <<t, u>>
      BY <2>5
    <3> QED
      BY <2>3, <3>1
  <2> QED
    BY <2>1, <2>4, <2>5
<1> QED
  BY <1>1, <1>2, Rewriting

\* The one place where a field with this number and this wire type is.
OnlyPlace(fields, number, wire, x) ==
  \A i \in DOMAIN fields : fields[i].number = number /\ fields[i].wire = wire <=> i = x

\* If there is one field of a number with wire type 0, its value is the last.
LEMMA OneScalar ==
  ASSUME NEW fields \in Seq(ParsedField), NEW number, NEW x \in DOMAIN fields,
         OnlyPlace(fields, number, 0, x)
  PROVE  LastScalar(fields, number) = AsInt(fields[x].scalar)
<1> DEFINE u == Select(fields, number, 0)
           s == Scalars(fields, number)
<1>1. {i \in DOMAIN fields : fields[i].number = number /\ fields[i].wire = 0} = {x}
  BY DEF OnlyPlace
<1>2. u = Chosen(fields, {x})
  BY <1>1, Zenon DEF Select
<1>3. Len(u) = 1 /\ u[1] = fields[x]
  BY <1>2, ChosenOne
<1>4. /\ \A i \in 1..Len(u) : s[i + 1] = AsInt(u[i].scalar)
      /\ LastScalar(fields, number) = s[Len(u) + 1]
  BY ScalarsFacts, Zenon
<1> HIDE DEF u, s
<1>5. 1 \in 1..1
  OBVIOUS
<1> QED
  BY <1>3, <1>4, <1>5, Zenon

\* If there is one text of a number, it is the last.
LEMMA OneText ==
  ASSUME NEW fields \in Seq(ParsedField), NEW number, NEW x \in DOMAIN fields,
         OnlyPlace(fields, number, 2, x), IsText(fields[x].bytes)
  PROVE  LastBytes(fields, number) = fields[x].bytes /\ AllText(fields, number)
<1> DEFINE u == Select(fields, number, 2)
           b == Bytes(fields, number)
           t == fields[x].bytes
<1>1. {i \in DOMAIN fields : fields[i].number = number /\ fields[i].wire = 2} = {x}
  BY DEF OnlyPlace
<1>2. u = Chosen(fields, {x})
  BY <1>1, Zenon DEF Select
<1>3. Len(u) = 1 /\ u[1] = fields[x]
  BY <1>2, ChosenOne
<1>4. /\ b \in Seq(Seq(Byte)) /\ Len(b) = Len(u) /\ DOMAIN b = 1..Len(u)
      /\ \A i \in 1..Len(u) : b[i] = u[i].bytes
  BY BytesFacts, Zenon
<1> HIDE DEF u, b
<1>5. b \in Seq(Seq(Byte)) /\ Len(b) = 1 /\ DOMAIN b = 1..1 /\ b[1] = t
  BY <1>3, <1>4
<1>6. Last(<<<<>>>> \o b) = t
  <2> DEFINE e == <<<<>>>>
             s == e \o b
  <2>1. e \in Seq(Seq(Byte)) /\ Len(e) = 1
    OBVIOUS
  <2> HIDE DEF e
  <2>2. Len(s) = Len(e) + Len(b) /\ \A i \in 1..(Len(e) + Len(b)) :
          s[i] = IF i <= Len(e) THEN e[i] ELSE b[i - Len(e)]
    BY <1>5, <2>1, ConcatProperties
  <2> HIDE DEF s
  <2>3. 2 \in 1..(1 + 1) /\ ~(2 <= 1) /\ 2 - 1 = 1 /\ 1 + 1 = 2
    BY SMT
  <2>4. Len(s) = 2 /\ s[2] = b[1]
    BY <1>5, <2>1, <2>2, <2>3
  <2> QED
    BY <1>5, <2>4 DEF Last, s, e
<1>7. Range(b) = {t}
  BY <1>5 DEF Range
<1> QED
  BY <1>6, <1>7 DEF LastBytes, AllText, b

\* Without fields of a number there are no bytes.
LEMMA NoBytes ==
  ASSUME NEW fields \in Seq(ParsedField), NEW number,
         \A i \in DOMAIN fields : ~(fields[i].number = number /\ fields[i].wire = 2)
  PROVE  Bytes(fields, number) = <<>> /\ Range(Bytes(fields, number)) = {}
<1>1. {i \in DOMAIN fields : fields[i].number = number /\ fields[i].wire = 2} = {}
  OBVIOUS
<1>2. Select(fields, number, 2) = <<>>
  BY <1>1, ChosenNone, Zenon DEF Select
<1>3. Bytes(fields, number) \in Seq(Seq(Byte)) /\ Len(Bytes(fields, number)) = Len(<<>>)
  BY <1>2, BytesFacts
<1>4. Bytes(fields, number) = <<>>
  BY <1>3
<1> QED
  BY <1>4 DEF Range

\* The empty string is text.
LEMMA NoText == IsText(<<>>)
<1> DEFINE b == <<>>
           text[at \in 0..Len(b)] ==
             at = Len(b) \/ \E n \in 1..Min({4, Len(b) - at}) :
               IsCharacter(SubSeq(b, at + 1, at + n)) /\ text[at + n]
           g == [at \in 0..Len(b) |-> TRUE]
<1>1. Len(b) = 0 /\ 0 \in 0..Len(b) /\ \A at \in 0..Len(b) : at = Len(b)
  OBVIOUS
<1>2. g = [at \in 0..Len(b) |->
             at = Len(b) \/ \E n \in 1..Min({4, Len(b) - at}) :
               IsCharacter(SubSeq(b, at + 1, at + n)) /\ g[at + n]]
  BY <1>1
<1>3. text = [at \in 0..Len(b) |->
             at = Len(b) \/ \E n \in 1..Min({4, Len(b) - at}) :
               IsCharacter(SubSeq(b, at + 1, at + n)) /\ text[at + n]]
  <2> HIDE DEF g
  <2> QED
    BY <1>2
<1> HIDE DEF text
<1>4. text[0] = (0 = Len(b) \/ \E n \in 1..Min({4, Len(b) - 0}) :
               IsCharacter(SubSeq(b, 0 + 1, 0 + n)) /\ text[0 + n])
  BY <1>1, <1>3, Zenon
<1>5. text[0]
  BY <1>1, <1>4
<1> QED
  BY <1>5, Zenon DEF IsText, text

\* A long that is written is read back.
LEMMA Written ==
  ASSUME NEW n \in Int
  PROVE  LET v == WriteVarint(Long(n)) IN
           /\ v \in Seq(Byte) /\ Readable(v, 0, Len(v)) /\ ValueAt(v, 0, Len(v)) = Long(n)
<1> DEFINE v == WriteVarint(Long(n))
<1>1. Long(n) \in Longs
  BY LongType
<1>2. v \in Seq(Byte)
  BY <1>1, WriteVarintFacts
<1>3. 0 \in 0..Len(v) /\ Stands(v, 0, v)
  <2> HIDE DEF v
  <2> QED
    BY <1>2, StandsItself, LenProperties
<1> QED
  BY <1>1, <1>2, <1>3, WrittenRead

\* An error is read back with its id and its text, by whoever reads it.
LEMMA ErrorRead ==
  ASSUME NEW id \in Word, NEW text \in Seq(Byte), Len(text) \in Size, IsText(text)
  PROVE  ResponseOf(ErrorBytes(id, text)) = [exitCode |-> 1, requestId |-> id, output |-> text]
<1> DEFINE a == WriteVarint(Long(8))
           v == WriteVarint(Long(1))
           c == WriteVarint(Long(24))
           w == WriteVarint(Long(id))
           p == a \o v
           q == WriteString(2, text)
           r == c \o w
           ps == <<p, q, r>>
           gs == Fields(FlattenSeq(ps))
<1>1. id \in Int /\ 1 \in Int /\ AsInt(Long(id)) = id /\ AsInt(Long(1)) = 1
  <2>1. 1 \in Word
    BY DEF Word
  <2> QED
    BY <2>1, AsIntLong
<1>2. /\ v \in Seq(Byte) /\ Readable(v, 0, Len(v)) /\ ValueAt(v, 0, Len(v)) = Long(1)
      /\ w \in Seq(Byte) /\ Readable(w, 0, Len(w)) /\ ValueAt(w, 0, Len(w)) = Long(id)
  BY <1>1, Written
<1>3. a \in Seq(Byte) /\ c \in Seq(Byte)
  BY TagWritten DEF Tags
<1>4. /\ Whole(p) /\ FieldAt(p)[0].number = 1 /\ FieldAt(p)[0].wire = 0
      /\ FieldAt(p)[0].scalar = Long(1)
  <2>1. 8 \div 8 = 1 /\ 8 \in {8, 24}
    BY SMT
  <2> HIDE DEF v
  <2> QED
    BY <1>2, <2>1, VarintField
<1>5. /\ Whole(r) /\ FieldAt(r)[0].number = 3 /\ FieldAt(r)[0].wire = 0
      /\ FieldAt(r)[0].scalar = Long(id)
  <2>1. 24 \div 8 = 3 /\ 24 \in {8, 24}
    BY SMT
  <2> HIDE DEF w
  <2> QED
    BY <1>2, <2>1, VarintField
<1>6. /\ Whole(q) /\ FieldAt(q)[0].number = 2 /\ FieldAt(q)[0].wire = 2
      /\ FieldAt(q)[0].bytes = text
  BY StringField
<1>7. FlattenSeq(ps) = ErrorBytes(id, text)
  <2>1. p \in Seq(Byte) /\ q \in Seq(Byte) /\ r \in Seq(Byte)
    BY <1>4, <1>5, <1>6 DEF Whole
  <2>2. FlattenSeq(ps) = (p \o q) \o r
    <3> HIDE DEF p, q, r
    <3>1. ps \in Seq(Seq(Byte)) /\ Len(ps) = 3 /\ ps[1] = p /\ ps[2] = q /\ ps[3] = r
      BY <2>1
    <3> HIDE DEF ps
    <3> QED
      BY <3>1, ThreePieces
  <2>3. ErrorBytes(id, text) = ((p \o q) \o c) \o w
    BY Zenon DEF ErrorBytes
  <2>4. p \o q \in Seq(Byte)
    <3> HIDE DEF p, q
    <3> QED
      BY <2>1
  <2> DEFINE x == p \o q
  <2> HIDE DEF p, q, c, w, x
  <2>5. x \in Seq(Byte) /\ c \in Seq(Byte) /\ w \in Seq(Byte)
    BY <1>2, <1>3, <2>4 DEF x
  <2>6. (x \o c) \o w = x \o (c \o w)
    BY <2>5, ConcatAssociative
  <2> QED
    BY <2>2, <2>3, <2>6 DEF x
<1> HIDE DEF p, q, r
<1>8. ps \in Seq(Seq(Byte)) /\ Len(ps) = 3 /\ ps[1] = p /\ ps[2] = q /\ ps[3] = r
  BY <1>4, <1>5, <1>6 DEF Whole
<1> HIDE DEF ps
<1>9. 1 \in 1..3 /\ 2 \in 1..3 /\ 3 \in 1..3 /\ \A i \in 1..3 : i = 1 \/ i = 2 \/ i = 3
  BY SMT
<1>10. \A i \in 1..Len(ps) : Whole(ps[i])
  BY <1>4, <1>5, <1>6, <1>8, <1>9
<1>11. /\ gs \in Seq(ParsedField) /\ Len(gs) = Len(ps)
       /\ \A i \in 1..Len(ps) : Alike(gs[i], FieldAt(ps[i])[0])
  BY <1>8, <1>10, PiecesRead
<1> HIDE DEF gs
<1>12. DOMAIN gs = 1..3
  BY <1>8, <1>11, LenProperties
<1>13. /\ gs[1].number = 1 /\ gs[1].wire = 0 /\ gs[1].scalar = Long(1)
       /\ gs[2].number = 2 /\ gs[2].wire = 2 /\ gs[2].bytes = text
       /\ gs[3].number = 3 /\ gs[3].wire = 0 /\ gs[3].scalar = Long(id)
  BY <1>4, <1>5, <1>6, <1>8, <1>9, <1>11 DEF Alike
<1>14. OnlyPlace(gs, 1, 0, 1) /\ OnlyPlace(gs, 2, 2, 2) /\ OnlyPlace(gs, 3, 0, 3)
  BY <1>9, <1>12, <1>13 DEF OnlyPlace
<1>15. LastScalar(gs, 1) = 1 /\ LastScalar(gs, 3) = id
  BY <1>1, <1>9, <1>11, <1>12, <1>13, <1>14, OneScalar
<1>16. LastBytes(gs, 2) = text /\ AllText(gs, 2)
  BY <1>9, <1>11, <1>12, <1>13, <1>14, OneText
<1>17. gs # Malformed
  BY <1>11, MalformedAssumption
<1>18. ResponseFrom(gs) = [exitCode |-> 1, requestId |-> id, output |-> text]
  BY <1>15, <1>16, <1>17 DEF ResponseFrom
<1> QED
  BY <1>7, <1>18 DEF ResponseOf, gs

\* An id that was written in either form is read.
LEMMA IdRead ==
  ASSUME NEW v \in Seq(Byte), Readable(v, 0, Len(v))
  PROVE  /\ RequestOf(<<24>> \o v) # Malformed
         /\ RequestOf(<<24>> \o v).requestId = AsInt(ValueAt(v, 0, Len(v)))
<1> DEFINE p == <<24>> \o v
           ps == <<p>>
           gs == Fields(FlattenSeq(ps))
<1>1. Whole(p) /\ FieldAt(p)[0].number = 3 /\ FieldAt(p)[0].wire = 0
      /\ FieldAt(p)[0].scalar = ValueAt(v, 0, Len(v))
  <2>1. 24 \div 8 = 3 /\ 24 \in {8, 24}
    BY SMT
  <2>2. WriteVarint(Long(24)) = <<24>>
    BY TagWritten DEF Tags
  <2> QED
    BY <2>1, <2>2, VarintField
<1> HIDE DEF p
<1>2. ps \in Seq(Seq(Byte)) /\ Len(ps) = 1 /\ ps[1] = p /\ FlattenSeq(ps) = p
  BY <1>1, OnePiece DEF Whole
<1> HIDE DEF ps
<1>3. 1 \in 1..1 /\ \A i \in 1..1 : i = 1
  BY SMT
<1>4. /\ gs \in Seq(ParsedField) /\ Len(gs) = Len(ps)
      /\ \A i \in 1..Len(ps) : Alike(gs[i], FieldAt(ps[i])[0])
  <2>1. \A i \in 1..Len(ps) : Whole(ps[i])
    BY <1>1, <1>2, <1>3
  <2> QED
    BY <1>2, <2>1, PiecesRead
<1>5. gs = Fields(p)
  BY <1>2
<1> HIDE DEF gs
<1>6. /\ DOMAIN gs = 1..1 /\ gs[1].number = 3 /\ gs[1].wire = 0
      /\ gs[1].scalar = ValueAt(v, 0, Len(v))
  BY <1>1, <1>2, <1>3, <1>4, LenProperties DEF Alike
<1>7. LastScalar(gs, 3) = AsInt(ValueAt(v, 0, Len(v)))
  <2>1. OnlyPlace(gs, 3, 0, 1)
    BY <1>3, <1>6 DEF OnlyPlace
  <2> QED
    BY <1>3, <1>4, <1>6, <2>1, OneScalar
<1>8. Range(Bytes(gs, 1)) = {} /\ Bytes(gs, 2) = <<>>
  BY <1>3, <1>4, <1>6, NoBytes
<1>9. AllText(gs, 1)
  BY <1>8 DEF AllText
<1>10. Malformed \notin Range(InputsOf(Bytes(gs, 2)))
  BY <1>8 DEF InputsOf, Range
<1>11. RequestFrom(gs) = RequestRecord(gs) /\ RequestFrom(gs) # Malformed
  BY <1>4, <1>9, <1>10, RequestRead
<1>12. RequestOf(p) = RequestFrom(gs)
  BY <1>5 DEF RequestOf
<1> QED
  BY <1>7, <1>11, <1>12 DEF RequestRecord, p

\* An id cut off after five bytes is read as itself.
LEMMA NarrowRead ==
  ASSUME NEW id \in Word
  PROVE  LET narrow == [i \in 1..5 |-> IF i < 5 THEN Long(id)[i] + 128 ELSE Long(id)[i] % 16]
         IN  /\ narrow \in Seq(Byte) /\ Readable(narrow, 0, Len(narrow))
             /\ AsInt(ValueAt(narrow, 0, Len(narrow))) = id
<1> DEFINE l == Long(id)
           b == [i \in 1..5 |-> IF i < 5 THEN l[i] + 128 ELSE l[i] % 16]
<1>1. l \in Longs /\ AsInt(l) = id
  BY AsIntLong, LongType
<1> HIDE DEF l
<1>2. \A i \in 1..5 : l[i] \in 0..127
  <2>1. \A i \in 1..5 : i \in Digits
    BY SMT DEF Digits
  <2> QED
    BY <1>1, <2>1 DEF Longs
<1>3. /\ \A x \in 0..127 : x + 128 \in Byte /\ x + 128 >= 128 /\ (x + 128) % 128 = x
      /\ \A x \in 0..127 : x % 16 \in Byte /\ x % 16 < 128 /\ ((x % 16) % 128) % 16 = x % 16
  BY SMT DEF Byte
<1>4. \A i \in 1..5 : b[i] = IF i < 5 THEN l[i] + 128 ELSE l[i] % 16
  OBVIOUS
<1>5. /\ \A i \in 1..4 : i \in 1..5 /\ i < 5 /\ 0 + i = i
      /\ 5 \in 1..5 /\ ~(5 < 5) /\ 5 \in 1..10 /\ 5 # 10 /\ 0 + 5 = 5 /\ 5 <= 5 /\ 5 - 1 = 4
  BY SMT
<1>6. \A i \in 1..5 : b[i] \in Byte
  BY <1>2, <1>3, <1>4
<1>7. b \in [1..5 -> Byte]
  BY <1>6
<1> HIDE DEF b
<1>8. b \in Seq(Byte) /\ DOMAIN b = 1..5
  <2>1. \A n \in Nat : [1..n -> Byte] \subseteq Seq(Byte)
    OBVIOUS
  <2>2. 5 \in Nat
    OBVIOUS
  <2> QED
    BY <1>7, <2>1, <2>2, Zenon
<1>9. Len(b) = 5
  BY <1>8, LenProperties
<1>10. /\ \A i \in 1..4 : b[i] >= 128 /\ b[i] % 128 = l[i]
       /\ b[5] < 128 /\ (b[5] % 128) % 16 = l[5] % 16
  BY <1>2, <1>3, <1>4, <1>5
<1>11. Readable(b, 0, 5)
  <2>1. EndsAt(b, 0, 5)
    BY <1>5, <1>9, <1>10 DEF EndsAt
  <2> QED
    BY <1>5, <2>1 DEF Readable
<1> DEFINE x == ValueAt(b, 0, 5)
<1>12. \A i \in 1..5 : x[i] = b[i] % 128
  <2>1. \A i \in 1..5 : i \in Digits /\ i <= 5 /\ 0 + i = i
    BY SMT DEF Digits
  <2> QED
    BY <2>1 DEF ValueAt
<1> HIDE DEF x
<1>13. x[1] = l[1] /\ x[2] = l[2] /\ x[3] = l[3] /\ x[4] = l[4] /\ x[5] % 16 = l[5] % 16
  <2>1. 1 \in 1..4 /\ 2 \in 1..4 /\ 3 \in 1..4 /\ 4 \in 1..4
    BY SMT
  <2> QED
    BY <1>5, <1>10, <1>12, <2>1
<1>14. AsInt(x) = AsInt(l)
  <2>1. Low(x) = Low(l)
    BY <1>13, Zenon DEF Low
  <2> QED
    BY <1>13, <2>1, Zenon DEF AsInt
<1> QED
  BY <1>1, <1>8, <1>9, <1>11, <1>14 DEF b, l, x

\* Every id is carried by errors and requests, for all ids and texts.
LEMMA IdsCarried == IdsSurvive
<1> SUFFICES ASSUME NEW id \in RequestIds
             PROVE  /\ \A text \in Texts :
                         ResponseOf(ErrorBytes(id, text))
                           = [exitCode |-> 1, requestId |-> id, output |-> text]
                    /\ LET wide == WriteVarint(Long(id))
                           narrow == [i \in 1..5 |-> IF i < 5 THEN Long(id)[i] + 128
                                                     ELSE Long(id)[i] % 16]
                       IN \A bytes \in {wide, narrow} :
                            RequestOf(<<24>> \o bytes) # Malformed
                            /\ RequestOf(<<24>> \o bytes).requestId = id
  BY Zenon DEF IdsSurvive
<1> DEFINE wide == WriteVarint(Long(id))
           narrow == [i \in 1..5 |-> IF i < 5 THEN Long(id)[i] + 128 ELSE Long(id)[i] % 16]
<1>1. id \in Word
  BY IdsAssumption
<1>2. id \in Int /\ AsInt(Long(id)) = id
  BY <1>1, AsIntLong
<1>3. /\ wide \in Seq(Byte) /\ Readable(wide, 0, Len(wide))
      /\ AsInt(ValueAt(wide, 0, Len(wide))) = id
  BY <1>2, Written
<1>4. /\ narrow \in Seq(Byte) /\ Readable(narrow, 0, Len(narrow))
      /\ AsInt(ValueAt(narrow, 0, Len(narrow))) = id
  BY <1>1, NarrowRead
<1> HIDE DEF wide, narrow
<1>5. \A bytes \in {wide, narrow} :
        RequestOf(<<24>> \o bytes) # Malformed /\ RequestOf(<<24>> \o bytes).requestId = id
  BY <1>3, <1>4, IdRead
<1>6. \A text \in Texts :
        ResponseOf(ErrorBytes(id, text)) = [exitCode |-> 1, requestId |-> id, output |-> text]
  BY <1>1, TextsAssumption, ErrorRead
<1> QED
  BY <1>5, <1>6 DEF wide, narrow

---------------------------------------------------------------------------
(* The grammar and the cursor: varints, tags and lengths.                  *)

\* A piece between two cursors and its bytes.
LEMMA PieceIs ==
  ASSUME NEW b \in Seq(Byte), NEW i \in 0..Len(b), NEW t \in i..Len(b)
  PROVE  /\ Piece(b, i, t) \in Seq(Byte) /\ Len(Piece(b, i, t)) = t - i
         /\ t - i \in Nat /\ i + (t - i) = t /\ Len(b) \in Nat
         /\ \A d \in 1..(t - i) : /\ Piece(b, i, t)[d] = b[i + d] /\ b[i + d] \in Byte
<1>1. Len(b) \in Nat /\ i \in Nat /\ t \in Nat /\ t - i \in Nat /\ i + (t - i) = t
  BY LenProperties, SMT
<1>2. /\ Piece(b, i, t) \in Seq(Byte) /\ Len(Piece(b, i, t)) = t - i
      /\ \A d \in 1..(t - i) : Piece(b, i, t)[d] = b[i + d]
  BY PieceFacts DEF Piece
<1>3. \A d \in 1..(t - i) : i + d \in 1..Len(b)
  BY <1>1, SMT
<1>4. \A d \in 1..(t - i) : b[i + d] \in Byte
  BY <1>3, ElementOfSeq
<1> QED
  BY <1>1, <1>2, <1>4

\* The varints of the grammar are those the cursor reads, with the same digits.
LEMMA VarintGrammar ==
  ASSUME NEW b \in Seq(Byte), NEW i \in 0..Len(b), NEW t \in i..Len(b)
  PROVE  /\ IsVarint(Piece(b, i, t)) <=> Readable(b, i, t - i)
         /\ \A d \in Digits : Digit(Piece(b, i, t), d) = ValueAt(b, i, t - i)[d]
<1> DEFINE p == Piece(b, i, t)
           n == t - i
<1>1. /\ p \in Seq(Byte) /\ Len(p) = n /\ n \in Nat /\ i + n = t /\ Len(b) \in Nat
      /\ \A d \in 1..n : p[d] = b[i + d] /\ b[i + d] \in Byte
  BY PieceIs
<1> HIDE DEF p, n
<1>2. i + n <= Len(b)
  BY <1>1
<1>3. \A d \in Digits : Digit(p, d) = ValueAt(b, i, n)[d]
  <2>1. \A d \in Digits : d <= n => d \in 1..n
    BY <1>1, SMT DEF Digits
  <2> QED
    BY <1>1, <2>1, Zenon DEF Digit, ValueAt
<1>4. n \in 1..10 => n \in 1..n /\ \A d \in 1..(n - 1) : d \in 1..n
  BY <1>1, SMT
<1>5. \A x \in Byte : x < 128 => x % 128 = x
  <2>1. \A x \in 0..127 : x % 128 = x
    BY SMT
  <2>2. \A x \in Byte : x < 128 => x \in 0..127
    BY SMT DEF Byte
  <2> QED
    BY <2>1, <2>2, Zenon
<1>6. ASSUME n \in 1..10, b[i + n] < 128
      PROVE  n = 10 => (p[10] <= 1 <=> b[i + 10] % 128 <= 1)
  <2>1. CASE n = 10
    <3>1. p[10] = b[i + 10] /\ b[i + 10] \in Byte /\ b[i + 10] < 128
      BY <1>1, <1>4, <1>6, <2>1
    <3>2. b[i + 10] % 128 = b[i + 10]
      BY <1>5, <3>1, Zenon
    <3> QED
      BY <3>1, <3>2, Zenon
  <2> QED
    BY <2>1
<1>7. n \in 1..10 => (p[n] < 128 <=> b[i + n] < 128)
  BY <1>1, <1>4
<1>8. n \in 1..10 => ((\A d \in 1..(n - 1) : p[d] >= 128) <=> \A d \in 1..(n - 1) : b[i + d] >= 128)
  BY <1>1, <1>4
<1>9. IsVarint(p) <=> /\ n \in 1..10 /\ p[n] < 128 /\ \A d \in 1..(n - 1) : p[d] >= 128
                      /\ n = 10 => p[10] <= 1
  BY <1>1 DEF IsVarint
<1>10. Readable(b, i, n) <=> /\ n \in 1..10 /\ b[i + n] < 128
                             /\ \A d \in 1..(n - 1) : b[i + d] >= 128
                             /\ n = 10 => b[i + 10] % 128 <= 1
  BY <1>2 DEF Readable, EndsAt
<1>11. IsVarint(p) <=> Readable(b, i, n)
  BY <1>6, <1>7, <1>8, <1>9, <1>10, Zenon
<1> QED
  BY <1>3, <1>11 DEF p, n

\* The tags of the grammar are those the cursor takes.
LEMMA TagGrammar ==
  ASSUME NEW b \in Seq(Byte), NEW i \in 0..Len(b), NEW t \in i..Len(b), NEW wire
  PROVE  IsTag(Piece(b, i, t), wire)
           <=> /\ Readable(b, i, t - i) /\ LegalTag(ValueAt(b, i, t - i))
               /\ WireOf(ValueAt(b, i, t - i)) = wire
<1> DEFINE p == Piece(b, i, t)
           n == t - i
           v == ValueAt(b, i, n)
<1>1. /\ p \in Seq(Byte) /\ Len(p) = n /\ n \in Nat
      /\ \A d \in 1..n : p[d] = b[i + d] /\ b[i + d] \in Byte
  BY PieceIs
<1>2. IsVarint(p) <=> Readable(b, i, n)
  BY VarintGrammar
<1>3. \A d \in Digits : Digit(p, d) = v[d]
  BY VarintGrammar
<1> HIDE DEF p, n, v
<1>4. SUFFICES ASSUME Readable(b, i, n)
               PROVE  IsTag(p, wire) <=> LegalTag(v) /\ WireOf(v) = wire
  BY <1>2 DEF IsTag, p, n, v
<1>5. n \in 1..10 /\ 1 \in 1..n
  BY <1>4, SMT DEF Readable
<1>6. \A d \in 1..10 : v[d] = IF d <= n THEN p[d] % 128 ELSE 0
  BY <1>1, <1>3 DEF Digit, Digits
<1>7. p[1] % 8 = v[1] % 8
  <2>1. \A x \in Byte : (x % 128) % 8 = x % 8
    BY SMT DEF Byte
  <2>2. 1 \in 1..10 /\ 1 <= n /\ p[1] \in Byte
    BY <1>1, <1>5
  <2>3. v[1] = p[1] % 128
    BY <1>6, <2>2
  <2> QED
    BY <2>1, <2>2, <2>3
<1>8. (\A d \in 6..n : p[d] % 128 = 0) <=> \A d \in 6..10 : v[d] = 0
  <2>1. \A d \in 6..10 : d \in 1..10 /\ (d \in 6..n <=> d <= n)
    BY <1>5, SMT
  <2>2. \A d \in 6..n : d \in 6..10
    BY <1>5, SMT
  <2> QED
    BY <1>6, <2>1, <2>2, Zenon
<1>9. Digit(p, 5) = v[5] /\ \A d \in 1..5 : Digit(p, d) = v[d]
  <2>1. 5 \in Digits /\ \A d \in 1..5 : d \in Digits
    BY SMT DEF Digits
  <2> QED
    BY <1>3, <2>1
<1>10. IsTag(p, wire) <=>
         /\ p[1] % 8 = wire /\ (\A d \in 6..n : p[d] % 128 = 0) /\ Digit(p, 5) < 16
         /\ \E d \in 1..5 : Digit(p, d) >= (IF d = 1 THEN 8 ELSE 1)
  BY <1>1, <1>2, <1>4, Zenon DEF IsTag
<1>11. (\E d \in 1..5 : Digit(p, d) >= (IF d = 1 THEN 8 ELSE 1))
         <=> \E d \in 1..5 : v[d] >= (IF d = 1 THEN 8 ELSE 1)
  BY <1>9
<1>12. LegalTag(v) <=> /\ v[5] < 16 /\ (\A d \in 6..10 : v[d] = 0)
                       /\ \E d \in 1..5 : v[d] >= (IF d = 1 THEN 8 ELSE 1)
  BY DEF LegalTag
<1> QED
  BY <1>7, <1>8, <1>9, <1>10, <1>11, <1>12 DEF WireOf

\* The beginning of a piece is a piece.
LEMMA FirstOfPiece ==
  ASSUME NEW b \in Seq(Byte), NEW t \in 0..Len(b), NEW k \in t..Len(b), NEW m \in 0..(k - t)
  PROVE  /\ First(Piece(b, t, k), m) = Piece(b, t, t + m)
         /\ t + m \in t..Len(b) /\ (t + m) - t = m /\ m \in Nat
<1> DEFINE p == Piece(b, t, k)
           f == Piece(p, 0, m)
<1>1. /\ p \in Seq(Byte) /\ Len(p) = k - t /\ k - t \in Nat /\ Len(b) \in Nat
      /\ \A d \in 1..(k - t) : p[d] = b[t + d]
  BY PieceIs
<1> HIDE DEF p
<1>2. t + m \in t..Len(b) /\ (t + m) - t = m /\ m \in Nat /\ t + m <= Len(b)
      /\ 0 \in 0..Len(p) /\ m \in 0..Len(p) /\ m - 0 = m
      /\ \A d \in 1..m : d \in 1..(k - t) /\ 0 + d = d
  BY <1>1, SMT
<1>3. /\ f \in Seq(Byte) /\ Len(f) = m /\ \A d \in 1..m : f[d] = p[d]
  <2>1. /\ f \in Seq(Byte) /\ Len(f) = m - 0
        /\ \A d \in 1..(m - 0) : f[d] = p[0 + d] /\ p[0 + d] \in Byte
    <3>1. p \in Seq(Byte) /\ 0 \in 0..Len(p) /\ m \in 0..Len(p)
      BY <1>1, <1>2
    <3> QED
      BY <3>1, PieceIs, Zenon
  <2> QED
    BY <1>2, <2>1
<1> HIDE DEF f
<1>4. Stands(b, t, f)
  BY <1>1, <1>2, <1>3, Zenon DEF Stands
<1>5. SubSeq(b, t + 1, t + m) = f
  BY <1>3, <1>4, StandingPiece
<1> QED
  BY <1>2, <1>5 DEF First, Piece, f, p

\* The counted bytes of the grammar are those of a skip over a length.
LEMMA CountedGrammar ==
  ASSUME NEW b \in Seq(Byte), NEW t \in 0..Len(b), NEW k \in t..Len(b)
  PROVE  IsCounted(Piece(b, t, k))
           <=> \E m : /\ Readable(b, t, m) /\ IsSmall(ValueAt(b, t, m))
                      /\ k = (t + m) + Low(ValueAt(b, t, m))
<1> DEFINE p == Piece(b, t, k)
<1>1. /\ p \in Seq(Byte) /\ Len(p) = k - t /\ k - t \in Nat /\ Len(b) \in Nat /\ t + (k - t) = k
      /\ t \in Nat /\ k \in Nat
      /\ \A d \in 1..(k - t) : p[d] = b[t + d] /\ b[t + d] \in Byte
  <2>1. t \in Nat /\ k \in Nat
    BY LenProperties, SMT
  <2>2. /\ p \in Seq(Byte) /\ Len(p) = k - t /\ k - t \in Nat /\ Len(b) \in Nat /\ t + (k - t) = k
        /\ \A d \in 1..(k - t) : p[d] = b[t + d] /\ b[t + d] \in Byte
    BY PieceIs
  <2> QED
    BY <2>1, <2>2
<1>2. DOMAIN p = 1..(k - t)
  <2> HIDE DEF p
  <2> QED
    BY <1>1, LenProperties
<1>3. ASSUME NEW m \in 1..(k - t)
      PROVE  /\ IsVarint(First(p, m)) <=> Readable(b, t, m)
             /\ \A d \in Digits : Digit(First(p, m), d) = ValueAt(b, t, m)[d]
             /\ \A d \in 1..m : ValueAt(b, t, m)[d] = p[d] % 128 \/ d > 10
  <2>1. m \in 0..(k - t)
    BY <1>1, SMT
  <2>2. First(p, m) = Piece(b, t, t + m) /\ t + m \in t..Len(b) /\ (t + m) - t = m /\ m \in Nat
    BY <2>1, FirstOfPiece
  <2>3. /\ IsVarint(Piece(b, t, t + m)) <=> Readable(b, t, (t + m) - t)
        /\ \A d \in Digits : Digit(Piece(b, t, t + m), d) = ValueAt(b, t, (t + m) - t)[d]
    BY <2>2, VarintGrammar
  <2>4. ASSUME NEW d \in 1..m PROVE ValueAt(b, t, m)[d] = p[d] % 128 \/ d > 10
    <3>1. d > 10 \/ d \in Digits
      BY <2>2, SMT DEF Digits
    <3>2. d <= m /\ d \in 1..(k - t)
      BY <2>2, <1>1, SMT
    <3> QED
      BY <1>1, <3>1, <3>2, Zenon DEF ValueAt
  <2> HIDE DEF p
  <2> QED
    BY <2>2, <2>3, <2>4
<1> HIDE DEF p
<1>4. ASSUME NEW m \in 1..(k - t), Readable(b, t, m)
      PROVE  /\ (\A d \in 5..m : p[d] % 128 = 0) <=> IsSmall(ValueAt(b, t, m))
             /\ UnsignedValue(First(p, m)) = Low(ValueAt(b, t, m))
             /\ Low(ValueAt(b, t, m)) \in Nat
             /\ UnsignedValue(First(p, m)) = (k - t) - m <=> k = (t + m) + Low(ValueAt(b, t, m))
  <2> DEFINE v == ValueAt(b, t, m)
  <2>1. m \in 1..10 /\ v \in Longs
    BY <1>4, ReadAtFacts, <1>1 DEF Readable
  <2>2. \A d \in Digits : d > m => v[d] = 0
    BY <1>1, <2>1, SMT DEF ValueAt, Digits
  <2>3. \A d \in 1..m : v[d] = p[d] % 128
    <3>1. \A d \in 1..m : ~(d > 10)
      BY <2>1, SMT
    <3> QED
      BY <1>3, <3>1, Zenon
  <2> HIDE DEF v
  <2>4. (\A d \in 5..m : p[d] % 128 = 0) <=> \A d \in 5..10 : v[d] = 0
    <3>1. ASSUME \A d \in 5..m : p[d] % 128 = 0, NEW d \in 5..10
          PROVE  v[d] = 0
      <4>1. CASE d > m
        <5>1. d \in Digits
          BY SMT DEF Digits
        <5> QED
          BY <2>2, <4>1, <5>1
      <4>2. CASE ~(d > m)
        <5>1. d \in 5..m /\ d \in 1..m
          BY <2>1, <4>2, SMT
        <5>2. v[d] = p[d] % 128 /\ p[d] % 128 = 0
          BY <2>3, <3>1, <5>1, Zenon
        <5> QED
          BY <5>2, Zenon
      <4> QED
        BY <4>1, <4>2
    <3>2. ASSUME \A d \in 5..10 : v[d] = 0, NEW d \in 5..m
          PROVE  p[d] % 128 = 0
      <4>1. d \in 1..m /\ d \in 5..10
        BY <2>1, SMT
      <4>2. v[d] = p[d] % 128 /\ v[d] = 0
        BY <2>3, <3>2, <4>1, Zenon
      <4> QED
        BY <4>2, Zenon
    <3> QED
      BY <3>1, <3>2
  <2>5. UnsignedValue(First(p, m)) = Low(v)
    <3>1. 1 \in Digits /\ 2 \in Digits /\ 3 \in Digits /\ 4 \in Digits
      BY SMT DEF Digits
    <3>2. /\ Digit(First(p, m), 1) = v[1] /\ Digit(First(p, m), 2) = v[2]
          /\ Digit(First(p, m), 3) = v[3] /\ Digit(First(p, m), 4) = v[4]
      BY <1>3, <3>1 DEF v
    <3> QED
      BY <3>2, Zenon DEF UnsignedValue, Low
  <2>6. Low(v) \in Nat
    BY <2>1, LowFacts
  <2>7. Low(v) = (k - t) - m <=> k = (t + m) + Low(v)
    <3> DEFINE x == Low(v)
    <3> HIDE DEF x
    <3>1. x \in Nat
      BY <2>6 DEF x
    <3>2. x = (k - t) - m <=> k = (t + m) + x
      BY <1>1, <2>1, <3>1, SMT
    <3> QED
      BY <3>2 DEF x
  <2> QED
    BY <2>4, <2>5, <2>6, <2>7 DEF IsSmall, v
<1>5. ASSUME NEW m \in 1..(k - t), IsVarint(First(p, m)), \A d \in 5..m : p[d] % 128 = 0,
             UnsignedValue(First(p, m)) = Len(p) - m
      PROVE  \E q : /\ Readable(b, t, q) /\ IsSmall(ValueAt(b, t, q))
                    /\ k = (t + q) + Low(ValueAt(b, t, q))
  <2>1. Readable(b, t, m)
    BY <1>3, <1>5
  <2>2. IsSmall(ValueAt(b, t, m))
    BY <1>4, <1>5, <2>1
  <2>3. k = (t + m) + Low(ValueAt(b, t, m))
    BY <1>1, <1>4, <1>5, <2>1
  <2> QED
    BY <2>1, <2>2, <2>3, Zenon
<1>6. ASSUME NEW m, Readable(b, t, m), IsSmall(ValueAt(b, t, m)),
             k = (t + m) + Low(ValueAt(b, t, m))
      PROVE  IsCounted(p)
  <2>1. m \in 1..10 /\ ValueAt(b, t, m) \in Longs
    BY <1>6, ReadAtFacts DEF Readable
  <2>2. Low(ValueAt(b, t, m)) \in Nat
    BY <2>1, LowFacts
  <2> DEFINE x == Low(ValueAt(b, t, m))
  <2> HIDE DEF x
  <2>3. m \in 1..(k - t)
    <3>1. /\ m \in Nat /\ m >= 1 /\ t \in Nat /\ k \in Nat /\ x \in Nat /\ k = (t + m) + x
      <4>1. m \in Nat /\ m >= 1
        BY <2>1, SMT
      <4>2. t \in Nat /\ k \in Nat
        BY <1>1
      <4>3. x \in Nat /\ k = (t + m) + x
        BY <1>6, <2>2 DEF x
      <4> QED
        BY <4>1, <4>2, <4>3
    <3> QED
      BY <3>1, SMT
  <2>4. IsVarint(First(p, m)) /\ (\A d \in 5..m : p[d] % 128 = 0)
    BY <1>3, <1>4, <1>6, <2>3
  <2>5. UnsignedValue(First(p, m)) = Len(p) - m
    BY <1>1, <1>4, <1>6, <2>3
  <2> QED
    BY <1>2, <2>3, <2>4, <2>5, Zenon DEF IsCounted
<1>7. IsCounted(p) => \E m \in 1..(k - t) :
        /\ IsVarint(First(p, m)) /\ (\A d \in 5..m : p[d] % 128 = 0)
        /\ UnsignedValue(First(p, m)) = Len(p) - m
  BY <1>2, Zenon DEF IsCounted
<1> QED
  BY <1>5, <1>6, <1>7, Zenon DEF p

Composed(a1, a2, a3, a4, a5) ==
  (a5 * 2^25) + (a4 * 2^18) + (a3 * 2^11) + (a2 * 16) + a1

\* Two tags have the same number if their digits say so.
LEMMA NumberGrammar ==
  ASSUME NEW l \in Longs, NEW r \in Longs
  PROVE  NumberOf(l) = NumberOf(r)
           <=> (l[1] \div 8 = r[1] \div 8 /\ \A i \in 2..5 : l[i] = r[i])
<1>1. /\ l[1] \in 0..127 /\ l[2] \in 0..127 /\ l[3] \in 0..127 /\ l[4] \in 0..127 /\ l[5] \in 0..127
      /\ r[1] \in 0..127 /\ r[2] \in 0..127 /\ r[3] \in 0..127 /\ r[4] \in 0..127 /\ r[5] \in 0..127
  BY DEF Longs, Digits
<1>2. \A x \in 0..127 : x \div 8 \in 0..15
  BY SMT
<1>4. (\A i \in 2..5 : l[i] = r[i]) <=> l[2] = r[2] /\ l[3] = r[3] /\ l[4] = r[4] /\ l[5] = r[5]
  <2>1. 2 \in 2..5 /\ 3 \in 2..5 /\ 4 \in 2..5 /\ 5 \in 2..5
        /\ \A i \in 2..5 : i = 2 \/ i = 3 \/ i = 4 \/ i = 5
    BY SMT
  <2> QED
    BY <2>1, Zenon
<1> DEFINE x == l[1] \div 8
           y == r[1] \div 8
<1>5. x \in 0..15 /\ y \in 0..15
  BY <1>1, <1>2
<1>6. /\ NumberOf(l) = Composed(x, l[2], l[3], l[4], l[5])
      /\ NumberOf(r) = Composed(y, r[2], r[3], r[4], r[5])
  BY Zenon DEF NumberOf, Composed
<1> HIDE DEF x, y
<1>7. NumberOf(l) = NumberOf(r)
        => x = y /\ l[2] = r[2] /\ l[3] = r[3] /\ l[4] = r[4] /\ l[5] = r[5]
  <2> DEFINE l2 == l[2]
             l3 == l[3]
             l4 == l[4]
             l5 == l[5]
             r2 == r[2]
             r3 == r[3]
             r4 == r[4]
             r5 == r[5]
  <2>1. /\ x \in 0..15 /\ l2 \in 0..127 /\ l3 \in 0..127 /\ l4 \in 0..127 /\ l5 \in 0..127
        /\ y \in 0..15 /\ r2 \in 0..127 /\ r3 \in 0..127 /\ r4 \in 0..127 /\ r5 \in 0..127
    BY <1>1, <1>5
  <2>2. NumberOf(l) = Composed(x, l2, l3, l4, l5) /\ NumberOf(r) = Composed(y, r2, r3, r4, r5)
    BY <1>6
  <2> HIDE DEF l2, l3, l4, l5, r2, r3, r4, r5
  <2>3. Composed(x, l2, l3, l4, l5) = Composed(y, r2, r3, r4, r5)
          => x = y /\ l2 = r2 /\ l3 = r3 /\ l4 = r4 /\ l5 = r5
    BY <2>1, SMT DEF Composed
  <2> QED
    BY <2>2, <2>3 DEF l2, l3, l4, l5, r2, r3, r4, r5
<1>8. x = y /\ l[2] = r[2] /\ l[3] = r[3] /\ l[4] = r[4] /\ l[5] = r[5]
        => NumberOf(l) = NumberOf(r)
  BY <1>6
<1> QED
  BY <1>4, <1>7, <1>8 DEF x, y

---------------------------------------------------------------------------
(* Fields one after another.                                               *)

Advances(F, s) == F[s] # Malformed /\ F[s].wire # 4

\* From cursor i field follows field until cursor j.
Chain(F, i, j) ==
  \E S \in SUBSET (0..j) : i \in S /\ \A s \in S : s = j \/ (Advances(F, s) /\ F[s].next \in S)

\* A chain of fields is empty or a field with a chain behind it.
LEMMA ChainStep ==
  ASSUME NEW data \in Seq(Byte), NEW F \in Table(data), NEW i \in 0..Len(data), NEW j \in 0..Len(data)
  PROVE  /\ Chain(F, i, j)
              <=> i = j \/ (Advances(F, i) /\ F[i].next \in (i + 1)..j /\ Chain(F, F[i].next, j))
         /\ Chain(F, i, j) => i <= j
<1>1. Len(data) \in Nat /\ i \in Nat /\ j \in Nat
  BY LenProperties, SMT
<1>2. ASSUME Chain(F, i, j)
      PROVE  i \in 0..j /\ i <= j
             /\ (i = j \/ (Advances(F, i) /\ F[i].next \in (i + 1)..j /\ Chain(F, F[i].next, j)))
  <2>1. PICK S \in SUBSET (0..j) :
          i \in S /\ \A s \in S : s = j \/ (Advances(F, s) /\ F[s].next \in S)
    BY <1>2 DEF Chain
  <2>2. i \in 0..j /\ i <= j
    BY <1>1, <2>1
  <2>3. ASSUME i # j
        PROVE  Advances(F, i) /\ F[i].next \in (i + 1)..j /\ Chain(F, F[i].next, j)
    <3>1. Advances(F, i) /\ F[i].next \in S
      BY <2>1, <2>3
    <3>2. F[i].next \in Nat /\ F[i].next > i
      BY <3>1, TableFacts DEF Advances
    <3>3. F[i].next \in 0..j
      BY <2>1, <3>1
    <3>4. \A x \in 0..j : x > i => x \in (i + 1)..j
      BY <1>1, SMT
    <3>5. Chain(F, F[i].next, j)
      BY <2>1, <3>1, Zenon DEF Chain
    <3> QED
      BY <3>1, <3>2, <3>3, <3>4, <3>5
  <2> QED
    BY <2>2, <2>3
<1>3. ASSUME i = j
      PROVE  Chain(F, i, j)
  <2>1. {i} \in SUBSET (0..j) /\ i \in {i} /\ \A s \in {i} : s = j
    BY <1>1, <1>3
  <2> QED
    BY <2>1, Zenon DEF Chain
<1>4. ASSUME Advances(F, i), F[i].next \in (i + 1)..j, Chain(F, F[i].next, j)
      PROVE  Chain(F, i, j)
  <2>1. PICK S \in SUBSET (0..j) :
          F[i].next \in S /\ \A s \in S : s = j \/ (Advances(F, s) /\ F[s].next \in S)
    BY <1>4 DEF Chain
  <2>2. \A x \in (i + 1)..j : i \in 0..j
    BY <1>1, SMT
  <2>3. S \cup {i} \in SUBSET (0..j) /\ i \in S \cup {i}
    BY <1>4, <2>1, <2>2
  <2>4. \A s \in S \cup {i} : s = j \/ (Advances(F, s) /\ F[s].next \in S \cup {i})
    BY <1>4, <2>1
  <2> QED
    BY <2>3, <2>4, Zenon DEF Chain
<1> QED
  BY <1>2, <1>3, <1>4, Zenon

\* The group that begins at from ends behind m with an end of this number.
Ends(data, F, from, number, e, m) ==
  /\ m \in 0..Len(data) /\ Chain(F, from, m)
  /\ F[m] # Malformed /\ EndsGroup(F[m], number) /\ F[m].next = e

\* A group ends at e exactly if fields lead up to its end tag there.
LEMMA GroupChain ==
  ASSUME NEW data \in Seq(Byte), NEW F \in Table(data), NEW number, NEW e, e # Malformed,
         NEW start \in 0..Len(data)
  PROVE  GroupEnd(data, start, number, F) = e <=> \E m : Ends(data, F, start, number, e, m)
<1> DEFINE N == Len(data)
           E(f) == GroupEnd(data, f, number, F)
           D == {k \in Nat : \A f \in 0..N : f + k >= N =>
                   (E(f) = e <=> \E m : Ends(data, F, f, number, e, m))}
<1>1. N \in Nat
  BY LenProperties
<1> HIDE DEF N
<1>2. ASSUME NEW f \in 0..N
      PROVE  /\ F[f] = Malformed => E(f) # e /\ ~(\E m : Ends(data, F, f, number, e, m))
             /\ F[f] # Malformed /\ EndsGroup(F[f], number) =>
                  (E(f) = e <=> \E m : Ends(data, F, f, number, e, m))
             /\ F[f] # Malformed /\ ~EndsGroup(F[f], number) /\ F[f].wire = 4 =>
                  E(f) # e /\ ~(\E m : Ends(data, F, f, number, e, m))
             /\ Advances(F, f) =>
                  /\ F[f].next \in 0..N /\ F[f].next > f /\ E(f) = E(F[f].next)
                  /\ (\E m : Ends(data, F, f, number, e, m))
                       <=> \E m : Ends(data, F, F[f].next, number, e, m)
  <2>1. E(f) = IF F[f] = Malformed THEN Malformed
               ELSE IF EndsGroup(F[f], number) THEN F[f].next
               ELSE IF F[f].wire = 4 THEN Malformed ELSE E(F[f].next)
    BY GroupEndStep DEF N
  <2>2. \A m : Ends(data, F, f, number, e, m) /\ ~Advances(F, f) => m = f
    BY ChainStep DEF Ends, N
  <2>3. Chain(F, f, f)
    BY ChainStep DEF N
  <2> HIDE DEF E
  <2>4. CASE F[f] = Malformed
    BY <2>1, <2>2, <2>4 DEF Ends, Advances
  <2>5. CASE F[f] # Malformed /\ EndsGroup(F[f], number)
    <3>1. ~Advances(F, f)
      BY <2>5 DEF Advances, EndsGroup
    <3>2. E(f) = F[f].next
      BY <2>1, <2>5
    <3>3. F[f].next = e => Ends(data, F, f, number, e, f)
      BY <2>3, <2>5 DEF Ends, N
    <3>4. \A m : Ends(data, F, f, number, e, m) => F[f].next = e
      BY <2>2, <3>1 DEF Ends
    <3> QED
      BY <2>5, <3>1, <3>2, <3>3, <3>4, Zenon
  <2>6. CASE F[f] # Malformed /\ ~EndsGroup(F[f], number) /\ F[f].wire = 4
    BY <2>1, <2>2, <2>6 DEF Ends, Advances
  <2>7. CASE Advances(F, f)
    <3>1. F[f] # Malformed /\ F[f].wire # 4 /\ ~EndsGroup(F[f], number)
      BY <2>7 DEF Advances, EndsGroup
    <3>2. F[f].next \in 0..N /\ F[f].next > f
      BY <3>1, TableFacts DEF N
    <3>3. E(f) = E(F[f].next)
      BY <2>1, <3>1
    <3>4. ASSUME NEW m, Ends(data, F, f, number, e, m)
          PROVE  Ends(data, F, F[f].next, number, e, m)
      <4>1. m # f
        BY <3>1, <3>4 DEF Ends
      <4>2. m \in 0..N /\ Chain(F, f, m)
        BY <3>4 DEF Ends, N
      <4>3. Chain(F, F[f].next, m)
        BY <4>1, <4>2, ChainStep DEF N
      <4> QED
        BY <3>4, <4>3 DEF Ends
    <3>5. ASSUME NEW m, Ends(data, F, F[f].next, number, e, m)
          PROVE  Ends(data, F, f, number, e, m)
      <4>1. m \in 0..N /\ Chain(F, F[f].next, m)
        BY <3>5 DEF Ends, N
      <4>2. F[f].next <= m
        BY <3>2, <4>1, ChainStep DEF N
      <4> DEFINE x == F[f].next
      <4> HIDE DEF x
      <4>3. x \in 0..N /\ x > f /\ x <= m
        BY <3>2, <4>2 DEF x
      <4>4. x \in (f + 1)..m
        BY <1>1, <4>1, <4>3, SMT
      <4>5. Chain(F, f, m)
        BY <2>7, <4>1, <4>4, ChainStep DEF N, x
      <4> QED
        BY <3>5, <4>5 DEF Ends
    <3> QED
      BY <3>1, <3>2, <3>3, <3>4, <3>5, Zenon
  <2> QED
    BY <2>4, <2>5, <2>6, <2>7 DEF Advances
<1> HIDE DEF E
<1>3. ASSUME NEW f \in 0..N,
             Advances(F, f) => (E(F[f].next) = e <=> \E m : Ends(data, F, F[f].next, number, e, m))
      PROVE  E(f) = e <=> \E m : Ends(data, F, f, number, e, m)
  <2>1. \/ F[f] = Malformed
        \/ F[f] # Malformed /\ EndsGroup(F[f], number)
        \/ F[f] # Malformed /\ ~EndsGroup(F[f], number) /\ F[f].wire = 4
        \/ Advances(F, f)
    BY DEF Advances
  <2> QED
    BY <1>2, <1>3, <2>1, Zenon
<1>4. 0 \in D
  <2> SUFFICES ASSUME NEW f \in 0..N, f + 0 >= N
               PROVE  E(f) = e <=> \E m : Ends(data, F, f, number, e, m)
    BY Zenon
  <2>1. f = N /\ \A x \in 0..N : ~(x > f)
    BY <1>1, SMT
  <2>2. ~Advances(F, f)
    BY <1>2, <2>1
  <2> QED
    BY <1>3, <2>2
<1>5. ASSUME NEW k \in Nat, k \in D
      PROVE  k + 1 \in D
  <2>0. k + 1 \in Nat
    OBVIOUS
  <2> SUFFICES ASSUME NEW f \in 0..N, f + (k + 1) >= N
               PROVE  E(f) = e <=> \E m : Ends(data, F, f, number, e, m)
    BY <2>0, Zenon
  <2>1. ASSUME Advances(F, f)
        PROVE  E(F[f].next) = e <=> \E m : Ends(data, F, F[f].next, number, e, m)
    <3>1. F[f].next \in 0..N /\ F[f].next > f
      BY <1>2, <2>1
    <3>2. \A x \in 0..N : x > f => x + k >= N
      BY <1>1, SMT
    <3> QED
      BY <1>5, <3>1, <3>2, Zenon
  <2> QED
    BY <1>3, <2>1
<1>6. N \in D
  <2> HIDE DEF D
  <2> QED
    BY <1>1, <1>4, <1>5, SetInduction
<1>7. start \in 0..N /\ start + N >= N
  BY <1>1, SMT DEF N
<1> QED
  BY <1>6, <1>7 DEF E

\* A byte string is read as a message if its fields follow each other to its end.
LEMMA FieldsChain ==
  ASSUME NEW data \in Seq(Byte)
  PROVE  Fields(data) # Malformed <=> Chain(FieldAt(data), 0, Len(data))
<1> DEFINE N == Len(data)
           F == FieldAt(data)
<1>1. N \in Nat /\ 0 \in 0..N /\ N \in 0..N
  BY LenProperties, SMT
<1>2. F \in Table(data)
  BY FieldAtLocal
<1>3. ASSUME Fields(data) # Malformed
      PROVE  Chain(F, 0, N)
  <2> DEFINE fs == Fields(data)
             n == Len(fs)
  <2>1. fs \in Seq(ParsedField) /\ \E cur : Cut(data, 0, fs, cur)
    BY <1>3, ReadIsCut
  <2> HIDE DEF fs
  <2>2. PICK cur : Cut(data, 0, fs, cur)
    BY <2>1
  <2>3. n \in Nat /\ 0 \in 0..n /\ \A i \in 0..n : i = n \/ (i + 1 \in 1..n /\ (i + 1) - 1 = i /\ i + 1 \in 0..n)
    <3>1. n \in Nat
      BY <2>1, LenProperties
    <3> HIDE DEF n
    <3> QED
      BY <3>1, SMT
  <2>4. /\ cur \in [0..n -> 0..N] /\ cur[0] = 0 /\ cur[n] = N
        /\ \A i \in 1..n : /\ fs[i] = F[cur[i - 1]] /\ fs[i] # Malformed
                           /\ fs[i].wire # 4 /\ fs[i].next = cur[i]
    BY <2>2, Zenon DEF Cut
  <2> HIDE DEF n, F, N
  <2> DEFINE S == {cur[i] : i \in 0..n}
  <2>5. S \in SUBSET (0..N) /\ 0 \in S
    BY <2>3, <2>4
  <2>6. ASSUME NEW i \in 0..n
        PROVE  cur[i] = N \/ (Advances(F, cur[i]) /\ F[cur[i]].next \in S)
    <3>1. CASE i = n
      BY <2>4, <3>1
    <3>2. CASE i # n
      <4>1. i + 1 \in 1..n /\ (i + 1) - 1 = i /\ i + 1 \in 0..n
        BY <2>3, <3>2
      <4>2. F[cur[i]] # Malformed /\ F[cur[i]].wire # 4 /\ F[cur[i]].next = cur[i + 1]
        BY <2>4, <4>1
      <4> QED
        BY <4>1, <4>2 DEF Advances
    <3> QED
      BY <3>1, <3>2
  <2>7. \A s \in S : s = N \/ (Advances(F, s) /\ F[s].next \in S)
    BY <2>6
  <2> QED
    BY <2>5, <2>7, Zenon DEF Chain
<1>4. ASSUME Chain(F, 0, N)
      PROVE  Fields(data) # Malformed
  <2> DEFINE Reached(s) == \E fs \in Seq(ParsedField) : \E cur : Cut(data, s, fs, cur)
             D == {k \in Nat : \A s \in 0..N : s + k >= N /\ Chain(F, s, N) => Reached(s)}
  <2>1. Reached(N)
    <3> DEFINE fs == <<>>
               cur == [i \in 0..0 |-> N]
    <3>1. fs \in Seq(ParsedField) /\ Len(fs) = 0 /\ cur \in [0..0 -> 0..N] /\ cur[0] = N
          /\ ~(\E i \in 1..0 : TRUE)
      BY <1>1
    <3> HIDE DEF fs, cur
    <3>2. Cut(data, N, fs, cur)
      BY <3>1 DEF Cut
    <3> QED
      BY <3>1, <3>2
  <2>2. ASSUME NEW s \in 0..N, Advances(F, s), Reached(F[s].next)
        PROVE  Reached(s)
    <3>1. F[s] \in ParsedField /\ F[s].wire # 4
      BY <1>2, <2>2, TableFacts DEF Advances
    <3>2. PICK fs \in Seq(ParsedField) : \E cur : Cut(data, F[s].next, fs, cur)
      BY <2>2
    <3>3. PICK cur : Cut(data, F[s].next, fs, cur)
      BY <3>2
    <3> DEFINE f == F[s]
    <3>4. f \in ParsedField /\ f = FieldAt(data)[s] /\ f.wire # 4 /\ Cut(data, f.next, fs, cur)
      BY <3>1, <3>3
    <3> HIDE DEF f, F
    <3>5. \E cur2 : Cut(data, s, <<f>> \o fs, cur2)
      BY <3>4, CutGrows
    <3>6. <<f>> \o fs \in Seq(ParsedField)
      BY <3>4
    <3> QED
      BY <3>5, <3>6
  <2> HIDE DEF Reached
  <2>3. ASSUME NEW s \in 0..N, Chain(F, s, N)
        PROVE  s = N \/ (Advances(F, s) /\ F[s].next \in (s + 1)..N /\ Chain(F, F[s].next, N))
    BY <1>1, <1>2, <2>3, ChainStep
  <2> HIDE DEF F, N
  <2>4. 0 \in D
    <3> SUFFICES ASSUME NEW s \in 0..N, s + 0 >= N
                 PROVE  Reached(s)
      BY Zenon
    <3>1. s = N
      BY <1>1, SMT
    <3> QED
      BY <2>1, <3>1
  <2>5. ASSUME NEW k \in Nat, k \in D
        PROVE  k + 1 \in D
    <3>0. k + 1 \in Nat
      OBVIOUS
    <3> SUFFICES ASSUME NEW s \in 0..N, s + (k + 1) >= N, Chain(F, s, N)
                 PROVE  Reached(s)
      BY <3>0, Zenon
    <3>1. CASE s = N
      BY <2>1, <3>1
    <3>2. CASE s # N
      <4>1. Advances(F, s) /\ F[s].next \in (s + 1)..N /\ Chain(F, F[s].next, N)
        BY <2>3, <3>2
      <4>2. \A x \in (s + 1)..N : x \in 0..N /\ x + k >= N
        BY <1>1, SMT
      <4>3. Reached(F[s].next)
        BY <2>5, <4>1, <4>2
      <4> QED
        BY <2>2, <4>1, <4>3
    <3> QED
      BY <3>1, <3>2
  <2>6. N \in D
    <3> HIDE DEF D
    <3> QED
      BY <1>1, <2>4, <2>5, SetInduction
  <2>7. 0 + N >= N
    BY <1>1, SMT
  <2>8. Reached(0)
    BY <1>1, <1>4, <2>6, <2>7
  <2>9. PICK fs \in Seq(ParsedField) : \E cur : Cut(data, 0, fs, cur)
    BY <2>8 DEF Reached
  <2>10. Fields(data) = fs
    BY <2>9, CutIsRead
  <2> QED
    BY <2>10, MalformedAssumption
<1> QED
  BY <1>3, <1>4

---------------------------------------------------------------------------
(* The grammar and the cursor: fields.                                     *)

Read(b, i, inner) == ReadField(b, i, ReadVarint(b, i), inner)

\* A field is read exactly if its parts can be.
LEMMA FieldByParts ==
  ASSUME NEW b \in Seq(Byte), NEW inner \in Table(b), NEW i \in 0..Len(b)
  PROVE  /\ Read(b, i, inner) # Malformed =>
              \E n, m : FieldIs(b, i, inner, n, m, Read(b, i, inner).next)
         /\ \A n, m, k : FieldIs(b, i, inner, n, m, k) =>
              /\ Read(b, i, inner) # Malformed /\ Read(b, i, inner).next = k
              /\ Read(b, i, inner).wire = WireOf(ValueAt(b, i, n))
              /\ Read(b, i, inner).number = NumberOf(ValueAt(b, i, n))
              /\ n \in Nat /\ i + n \in (i + 1)..k /\ k \in (i + 1)..Len(b) /\ (i + n) - i = n
<1>1. ASSUME Read(b, i, inner) # Malformed
      PROVE  \E n, m : FieldIs(b, i, inner, n, m, Read(b, i, inner).next)
  <2>1. PICK n, m, next : /\ FieldIs(b, i, inner, n, m, next)
                          /\ Read(b, i, inner) = FieldOf(b, i, n, m, next)
    BY <1>1, ReadIsField DEF Read
  <2>2. Read(b, i, inner).next = next
    BY <2>1 DEF FieldOf
  <2> QED
    BY <2>1, <2>2
<1>2. ASSUME NEW n, NEW m, NEW k, FieldIs(b, i, inner, n, m, k)
      PROVE  /\ Read(b, i, inner) # Malformed /\ Read(b, i, inner).next = k
             /\ Read(b, i, inner).wire = WireOf(ValueAt(b, i, n))
             /\ Read(b, i, inner).number = NumberOf(ValueAt(b, i, n))
             /\ n \in Nat /\ i + n \in (i + 1)..k /\ k \in (i + 1)..Len(b) /\ (i + n) - i = n
  <2>1. /\ Read(b, i, inner) = FieldOf(b, i, n, m, k) /\ FieldOf(b, i, n, m, k) # Malformed
        /\ k \in (i + 1)..Len(b) /\ n \in Nat /\ n >= 1 /\ m \in Nat /\ (i + n) + m <= k
    BY <1>2, FieldIsRead DEF Read
  <2>2. i + n \in (i + 1)..k /\ (i + n) - i = n
    BY <2>1, SMT
  <2>3. /\ FieldOf(b, i, n, m, k).next = k /\ FieldOf(b, i, n, m, k).wire = WireOf(ValueAt(b, i, n))
        /\ FieldOf(b, i, n, m, k).number = NumberOf(ValueAt(b, i, n))
    BY DEF FieldOf
  <2> QED
    BY <2>1, <2>2, <2>3
<1> QED
  BY <1>1, <1>2

\* The fields without a group are those of the grammar.
LEMMA FlatGrammar ==
  ASSUME NEW b \in Seq(Byte), NEW i \in 0..Len(b), NEW t \in (i + 1)..Len(b), NEW k \in t..Len(b),
         NEW inner
  PROVE  IsFlat(Piece(b, i, t), Piece(b, t, k))
           <=> \E m : /\ FieldIs(b, i, inner, t - i, m, k)
                      /\ WireOf(ValueAt(b, i, t - i)) # 3 /\ WireOf(ValueAt(b, i, t - i)) # 4
<1> DEFINE n == t - i
           v == ValueAt(b, i, n)
           w == WireOf(v)
           tag == Piece(b, i, t)
           body == Piece(b, t, k)
           R == Readable(b, i, n) /\ LegalTag(v)
<1>1. /\ Len(b) \in Nat /\ i \in Nat /\ t \in Nat /\ k \in Nat /\ t \in i..Len(b) /\ t \in 0..Len(b)
      /\ n \in Nat /\ i + n = t /\ k <= Len(b) /\ k - t \in Nat /\ t + (k - t) = k
  BY LenProperties, SMT
<1>2. \A wire : IsTag(tag, wire) <=> R /\ w = wire
  BY <1>1, TagGrammar
<1>3. IsVarint(body) <=> Readable(b, t, k - t)
  BY <1>1, VarintGrammar
<1>4. Len(body) = k - t
  BY <1>1, PieceIs
<1>5. IsCounted(body) <=> \E m : /\ Readable(b, t, m) /\ IsSmall(ValueAt(b, t, m))
                                 /\ k = (t + m) + Low(ValueAt(b, t, m))
  BY <1>1, CountedGrammar
<1>6. \A m : FieldIs(b, i, inner, n, m, k)
               <=> /\ R /\ IF w \in {0, 2} THEN Readable(b, t, m) ELSE m = 0
                   /\ PayloadIs(b, t, m, k, v, inner)
  BY <1>1, Zenon DEF FieldIs
<1>7. \A m : PayloadIs(b, t, m, k, v, inner)
               <=> \/ w \in {0, 4} /\ k = t + m
                   \/ w = 1 /\ k = (t + m) + 8
                   \/ w = 5 /\ k = (t + m) + 4
                   \/ w = 2 /\ IsSmall(ValueAt(b, t, m)) /\ k = (t + m) + Low(ValueAt(b, t, m))
                   \/ w = 3 /\ k = GroupEnd(b, t, NumberOf(v), inner) /\ k # Malformed
  BY Zenon DEF PayloadIs
<1>8. IsFlat(tag, body) <=> \/ R /\ w = 0 /\ Readable(b, t, k - t)
                            \/ R /\ w = 1 /\ k - t = 8
                            \/ R /\ w = 2 /\ IsCounted(body)
                            \/ R /\ w = 5 /\ k - t = 4
  BY <1>2, <1>3, <1>4 DEF IsFlat
<1>9. /\ k - t = 8 <=> k = (t + 0) + 8
      /\ k - t = 4 <=> k = (t + 0) + 4
      /\ \A m \in Nat : k = t + m => m = k - t
  BY <1>1, SMT
<1>10. \A m : Readable(b, t, m) => m \in Nat
  BY SMT DEF Readable
<1> HIDE DEF n, v, w, tag, body, R
<1> DEFINE Flat(m) == FieldIs(b, i, inner, n, m, k) /\ w # 3 /\ w # 4
<1>11. CASE w = 0
  <2>1. \A m : Flat(m) <=> R /\ Readable(b, t, m) /\ k = t + m
    BY <1>6, <1>7, <1>11
  <2>2. IsFlat(tag, body) <=> R /\ Readable(b, t, k - t)
    BY <1>8, <1>11
  <2>3. (\E m : Flat(m)) <=> R /\ Readable(b, t, k - t)
    BY <1>1, <1>9, <1>10, <2>1
  <2> QED
    BY <2>2, <2>3 DEF n, v, w, tag, body
<1>12. CASE w = 1
  <2>1. \A m : Flat(m) <=> R /\ m = 0 /\ k = (t + m) + 8
    BY <1>6, <1>7, <1>12
  <2>2. IsFlat(tag, body) <=> R /\ k - t = 8
    BY <1>8, <1>12
  <2>3. (\E m : Flat(m)) <=> R /\ k - t = 8
    BY <1>9, <2>1
  <2> QED
    BY <2>2, <2>3 DEF n, v, w, tag, body
<1>13. CASE w = 2
  <2>1. \A m : Flat(m) <=> /\ R /\ Readable(b, t, m) /\ IsSmall(ValueAt(b, t, m))
                           /\ k = (t + m) + Low(ValueAt(b, t, m))
    BY <1>6, <1>7, <1>13
  <2>2. IsFlat(tag, body) <=> R /\ IsCounted(body)
    BY <1>8, <1>13
  <2>3. (\E m : Flat(m)) <=> R /\ IsCounted(body)
    BY <1>5, <2>1, Zenon
  <2> QED
    BY <2>2, <2>3 DEF n, v, w, tag, body
<1>14. CASE w = 5
  <2>1. \A m : Flat(m) <=> R /\ m = 0 /\ k = (t + m) + 4
    BY <1>6, <1>7, <1>14
  <2>2. IsFlat(tag, body) <=> R /\ k - t = 4
    BY <1>8, <1>14
  <2>3. (\E m : Flat(m)) <=> R /\ k - t = 4
    BY <1>9, <2>1
  <2> QED
    BY <2>2, <2>3 DEF n, v, w, tag, body
<1>15. CASE w \notin {0, 1, 2, 5}
  <2>1. \A m : ~Flat(m)
    BY <1>6, <1>7, <1>15
  <2>2. ~IsFlat(tag, body)
    BY <1>8, <1>15
  <2> QED
    BY <2>1, <2>2 DEF n, v, w, tag, body
<1> QED
  BY <1>11, <1>12, <1>13, <1>14, <1>15

\* Tags are of one number in the grammar exactly if NumberOf is the same.
LEMMA SameNumberGrammar ==
  ASSUME NEW b \in Seq(Byte), NEW i \in 0..Len(b), NEW t \in i..Len(b),
         NEW e \in 0..Len(b), NEW k \in e..Len(b),
         Readable(b, i, t - i), Readable(b, e, k - e)
  PROVE  SameNumber(Piece(b, i, t), Piece(b, e, k))
           <=> NumberOf(ValueAt(b, i, t - i)) = NumberOf(ValueAt(b, e, k - e))
<1> DEFINE l == ValueAt(b, i, t - i)
           r == ValueAt(b, e, k - e)
           p == Piece(b, i, t)
           q == Piece(b, e, k)
<1>1. l \in Longs /\ r \in Longs
  BY ReadAtFacts
<1>2. (\A d \in Digits : Digit(p, d) = l[d]) /\ (\A d \in Digits : Digit(q, d) = r[d])
  BY VarintGrammar
<1> HIDE DEF l, r, p, q
<1>3. 1 \in Digits /\ \A d \in 2..5 : d \in Digits
  BY SMT DEF Digits
<1>4. SameNumber(p, q) <=> l[1] \div 8 = r[1] \div 8 /\ \A d \in 2..5 : l[d] = r[d]
  BY <1>2, <1>3, Zenon DEF SameNumber
<1>5. NumberOf(l) = NumberOf(r) <=> (l[1] \div 8 = r[1] \div 8 /\ \A d \in 2..5 : l[d] = r[d])
  BY <1>1, NumberGrammar
<1> QED
  BY <1>4, <1>5 DEF l, r, p, q

\* A table has at each cursor the field that is read with the table below.
LEMMA LevelRead ==
  ASSUME NEW b \in Seq(Byte), NEW at, IsTables(at, b), NEW d \in 0..MaxDepth
  PROVE  /\ at[d] \in Table(b) /\ at[d + 1] \in Table(b)
         /\ \A e \in 0..Len(b) : at[d][e] = Read(b, e, at[d + 1])
<1>1. d \in 0..(MaxDepth + 1) /\ d + 1 \in 0..(MaxDepth + 1) /\ ~(d > MaxDepth)
  BY LimitsAssumption, SMT
<1>2. at[d] \in Table(b) /\ at[d + 1] \in Table(b) /\ at[d] = Level(b, d, at[d + 1])
  BY <1>1 DEF IsTables
<1>3. \A e \in 0..Len(b) : at[d][e] = Read(b, e, at[d + 1])
  BY <1>1, <1>2, Zenon DEF Level, Read
<1> QED
  BY <1>2, <1>3

\* The end of a group is a tag alone.
LEMMA EndGrammar ==
  ASSUME NEW b \in Seq(Byte), NEW at, IsTables(at, b), NEW d \in 0..MaxDepth,
         NEW e \in 0..Len(b), NEW k
  PROVE  /\ at[d][e] # Malformed /\ at[d][e].wire = 4 /\ at[d][e].next = k
              <=> k \in (e + 1)..Len(b) /\ IsTag(Piece(b, e, k), 4)
         /\ k \in (e + 1)..Len(b) /\ IsTag(Piece(b, e, k), 4) =>
              Readable(b, e, k - e) /\ at[d][e].number = NumberOf(ValueAt(b, e, k - e))
<1> DEFINE f == at[d][e]
           inner == at[d + 1]
<1>1. f = Read(b, e, inner) /\ inner \in Table(b)
  BY LevelRead
<1> HIDE DEF f, inner
<1>2. /\ f # Malformed => \E n, m : FieldIs(b, e, inner, n, m, f.next)
      /\ \A n, m, q : FieldIs(b, e, inner, n, m, q) =>
           /\ f # Malformed /\ f.next = q
           /\ f.wire = WireOf(ValueAt(b, e, n)) /\ f.number = NumberOf(ValueAt(b, e, n))
           /\ n \in Nat /\ e + n \in (e + 1)..q /\ q \in (e + 1)..Len(b) /\ (e + n) - e = n
  BY <1>1, FieldByParts
<1>3. Len(b) \in Nat /\ e \in Nat /\ \A x \in (e + 1)..Len(b) :
        x \in e..Len(b) /\ x - e \in Nat /\ e + (x - e) = x /\ x + 0 = x /\ x \in Nat /\ x <= Len(b)
  BY LenProperties, SMT
<1>4. ASSUME f # Malformed, f.wire = 4, f.next = k
      PROVE  k \in (e + 1)..Len(b) /\ IsTag(Piece(b, e, k), 4)
  <2>1. PICK n, m : FieldIs(b, e, inner, n, m, k)
    BY <1>2, <1>4
  <2>2. /\ n \in Nat /\ k \in (e + 1)..Len(b) /\ WireOf(ValueAt(b, e, n)) = 4
    BY <1>2, <1>4, <2>1
  <2>3. /\ Readable(b, e, n) /\ LegalTag(ValueAt(b, e, n)) /\ m = 0 /\ k = (e + n) + m
    <3>1. 4 \notin {0, 2} /\ 4 \in {0, 4}
      OBVIOUS
    <3>2. /\ Readable(b, e, n) /\ LegalTag(ValueAt(b, e, n)) /\ m = 0
          /\ PayloadIs(b, e + n, m, k, ValueAt(b, e, n), inner)
      BY <2>1, <2>2, <3>1, Zenon DEF FieldIs
    <3>4. 4 # 1 /\ 4 # 2 /\ 4 # 3 /\ 4 # 5
      OBVIOUS
    <3>3. k = (e + n) + m
      BY <2>2, <3>1, <3>2, <3>4, Zenon DEF PayloadIs
    <3> QED
      BY <3>2, <3>3
  <2>4. n = k - e
    BY <1>3, <2>2, <2>3, SMT
  <2>5. k \in e..Len(b)
    BY <1>3, <2>2
  <2> QED
    BY <2>2, <2>3, <2>4, <2>5, TagGrammar
<1>5. ASSUME k \in (e + 1)..Len(b), IsTag(Piece(b, e, k), 4)
      PROVE  /\ f # Malformed /\ f.wire = 4 /\ f.next = k
             /\ Readable(b, e, k - e) /\ f.number = NumberOf(ValueAt(b, e, k - e))
  <2> DEFINE n == k - e
  <2>1. k \in e..Len(b) /\ e + n = k /\ k + 0 = k /\ k \in Nat /\ k <= Len(b)
    BY <1>3, <1>5
  <2>2. /\ Readable(b, e, n) /\ LegalTag(ValueAt(b, e, n)) /\ WireOf(ValueAt(b, e, n)) = 4
    BY <1>5, <2>1, TagGrammar
  <2> HIDE DEF n
  <2>3. FieldIs(b, e, inner, n, 0, k)
    <3>1. 4 \notin {0, 2} /\ 4 \in {0, 4}
      OBVIOUS
    <3>2. PayloadIs(b, e + n, 0, k, ValueAt(b, e, n), inner)
      BY <2>1, <2>2, <3>1, Zenon DEF PayloadIs
    <3> QED
      BY <2>1, <2>2, <3>1, <3>2, Zenon DEF FieldIs
  <2> QED
    BY <1>2, <2>2, <2>3 DEF n
<1> QED
  BY <1>4, <1>5, Zenon DEF f

\* A group of the grammar is one the cursor reads, if within it both agree.
LEMMA GroupGrammar ==
  ASSUME NEW b \in Seq(Byte), NEW at, IsTables(at, b), NEW d \in 0..MaxDepth,
         NEW i \in 0..Len(b), NEW t \in (i + 1)..Len(b), NEW k \in t..Len(b)
  PROVE  (/\ d < MaxDepth /\ IsTag(Piece(b, i, t), 3)
          /\ \E e \in t..(k - 1) :
               /\ IsTag(Piece(b, e, k), 4) /\ SameNumber(Piece(b, i, t), Piece(b, e, k))
               /\ Chain(at[d + 1], t, e))
           <=> \E m : FieldIs(b, i, at[d + 1], t - i, m, k) /\ WireOf(ValueAt(b, i, t - i)) = 3
<1> DEFINE n == t - i
           v == ValueAt(b, i, n)
           inner == at[d + 1]
           number == NumberOf(v)
           Is == Readable(b, i, n) /\ LegalTag(v) /\ WireOf(v) = 3
<1>1. /\ Len(b) \in Nat /\ i \in Nat /\ t \in Nat /\ k \in Nat /\ t \in i..Len(b) /\ t \in 0..Len(b)
      /\ k <= Len(b) /\ i + n = t /\ k \in 0..Len(b)
  BY LenProperties, SMT
<1>2. IsTag(Piece(b, i, t), 3) <=> Is
  BY <1>1, TagGrammar
<1>3. inner \in Table(b)
  BY LevelRead
<1>4. k # Malformed
  BY <1>1, MalformedAssumption
<1>5. \A m : FieldIs(b, i, inner, n, m, k) /\ WireOf(v) = 3
               <=> Is /\ m = 0 /\ k = GroupEnd(b, t, number, inner)
  <2>1. 3 \notin {0, 2} /\ 3 \notin {0, 4} /\ 3 # 1 /\ 3 # 5 /\ 3 # 2
    OBVIOUS
  <2>2. \A m : WireOf(v) = 3 => (PayloadIs(b, t, m, k, v, inner) <=> k = GroupEnd(b, t, number, inner))
    BY <1>4, <2>1, Zenon DEF PayloadIs
  <2> HIDE DEF n, inner
  <2>3. \A m : WireOf(v) = 3 => (FieldIs(b, i, inner, n, m, k)
                 <=> Is /\ m = 0 /\ PayloadIs(b, t, m, k, v, inner))
    BY <1>1, <2>1, Zenon DEF FieldIs
  <2> QED
    BY <2>2, <2>3, Zenon
<1>6. (\E m : FieldIs(b, i, inner, n, m, k) /\ WireOf(v) = 3)
        <=> Is /\ k = GroupEnd(b, t, number, inner)
  BY <1>5, Zenon
<1>7. GroupEnd(b, t, number, inner) = k <=> \E e : Ends(b, inner, t, number, k, e)
  BY <1>1, <1>3, <1>4, GroupChain
<1> HIDE DEF inner
<1>8. CASE ~(d < MaxDepth)
  <2>1. d + 1 = MaxDepth + 1 /\ MaxDepth + 1 \in 0..(MaxDepth + 1) /\ MaxDepth \in Nat
    BY <1>8, LimitsAssumption, SMT
  <2>2. inner = NoFields(b)
    <3>1. at[MaxDepth + 1] = Level(b, MaxDepth + 1, at[(MaxDepth + 1) + 1])
      BY <2>1, Zenon DEF IsTables
    <3> DEFINE x == at[(MaxDepth + 1) + 1]
               y == MaxDepth + 1
    <3> HIDE DEF x, y
    <3>2. Level(b, y, x) = NoFields(b)
      BY <2>1, LevelFacts DEF y
    <3> QED
      BY <2>1, <3>1, <3>2 DEF x, y, inner
  <2>3. ~(\E e : Ends(b, inner, t, number, k, e))
    BY <2>2 DEF Ends, NoFields
  <2> QED
    BY <1>6, <1>7, <1>8, <2>3 DEF inner
<1>9. CASE d < MaxDepth
  <2>1. d + 1 \in 0..MaxDepth
    BY <1>9, LimitsAssumption, SMT
  <2>2. ASSUME Is
        PROVE  (\E e : Ends(b, inner, t, number, k, e))
                 <=> \E e \in t..(k - 1) :
                       /\ IsTag(Piece(b, e, k), 4) /\ SameNumber(Piece(b, i, t), Piece(b, e, k))
                       /\ Chain(inner, t, e)
    <3>1. ASSUME NEW e \in 0..Len(b)
          PROVE  /\ inner[e] # Malformed /\ inner[e].wire = 4 /\ inner[e].next = k
                      <=> k \in (e + 1)..Len(b) /\ IsTag(Piece(b, e, k), 4)
                 /\ k \in (e + 1)..Len(b) /\ IsTag(Piece(b, e, k), 4) =>
                      (SameNumber(Piece(b, i, t), Piece(b, e, k)) <=> inner[e].number = number)
      <4>1. /\ inner[e] # Malformed /\ inner[e].wire = 4 /\ inner[e].next = k
                 <=> k \in (e + 1)..Len(b) /\ IsTag(Piece(b, e, k), 4)
            /\ k \in (e + 1)..Len(b) /\ IsTag(Piece(b, e, k), 4) =>
                 Readable(b, e, k - e) /\ inner[e].number = NumberOf(ValueAt(b, e, k - e))
        BY <2>1, EndGrammar DEF inner
      <4>2. ASSUME k \in (e + 1)..Len(b), IsTag(Piece(b, e, k), 4)
            PROVE  SameNumber(Piece(b, i, t), Piece(b, e, k)) <=> inner[e].number = number
        <5>1. k \in e..Len(b)
          BY <1>1, <4>2, SMT
        <5>2. Readable(b, i, t - i) /\ Readable(b, e, k - e)
          BY <2>2, <4>1, <4>2
        <5>3. SameNumber(Piece(b, i, t), Piece(b, e, k))
                <=> NumberOf(ValueAt(b, i, t - i)) = NumberOf(ValueAt(b, e, k - e))
          BY <1>1, <5>1, <5>2, SameNumberGrammar
        <5> QED
          BY <4>1, <4>2, <5>3
      <4> QED
        BY <4>1, <4>2
    <3>2. ASSUME NEW e, Ends(b, inner, t, number, k, e)
          PROVE  /\ e \in t..(k - 1) /\ IsTag(Piece(b, e, k), 4)
                 /\ SameNumber(Piece(b, i, t), Piece(b, e, k)) /\ Chain(inner, t, e)
      <4>1. /\ e \in 0..Len(b) /\ Chain(inner, t, e) /\ inner[e] # Malformed
            /\ inner[e].wire = 4 /\ inner[e].number = number /\ inner[e].next = k
        BY <3>2 DEF Ends, EndsGroup
      <4>2. k \in (e + 1)..Len(b) /\ IsTag(Piece(b, e, k), 4)
            /\ SameNumber(Piece(b, i, t), Piece(b, e, k))
        BY <3>1, <4>1
      <4>3. t <= e
        BY <1>1, <1>3, <4>1, ChainStep DEF inner
      <4>4. e \in t..(k - 1)
        BY <1>1, <4>1, <4>2, <4>3, SMT
      <4> QED
        BY <4>1, <4>2, <4>4
    <3>3. ASSUME NEW e \in t..(k - 1), IsTag(Piece(b, e, k), 4),
                 SameNumber(Piece(b, i, t), Piece(b, e, k)), Chain(inner, t, e)
          PROVE  Ends(b, inner, t, number, k, e)
      <4>1. e \in 0..Len(b) /\ k \in (e + 1)..Len(b)
        BY <1>1, SMT
      <4>2. /\ inner[e] # Malformed /\ inner[e].wire = 4 /\ inner[e].next = k
            /\ inner[e].number = number
        BY <3>1, <3>3, <4>1
      <4> QED
        BY <3>3, <4>1, <4>2 DEF Ends, EndsGroup
    <3> QED
      BY <3>2, <3>3, Zenon
  <2> HIDE DEF Is, number
  <2> QED
    BY <1>2, <1>6, <1>7, <1>9, <2>2, Zenon DEF inner, n, v
<1> QED
  BY <1>8, <1>9

\* From i to k there is a field whose tag ends at t and is no end of a group.
FieldParts(b, inner, i, t, k) ==
  \E m : FieldIs(b, i, inner, t - i, m, k) /\ WireOf(ValueAt(b, i, t - i)) # 4

\* The grammar's table of legal stretches tells what the cursor reads.
Levels(W, b, at) ==
  \A g \in 0..MaxDepth : \A x, y \in 0..Len(b) : W[<<g, x, y>>] = Chain(at[g], x, y)

\* So is a field with a given tag.
LEMMA PartsGrammar ==
  ASSUME NEW b \in Seq(Byte), NEW at, IsTables(at, b), NEW d \in 0..MaxDepth,
         NEW i \in 0..Len(b), NEW t \in (i + 1)..Len(b), NEW k \in t..Len(b),
         NEW W, Levels(W, b, at)
  PROVE  IsFieldAt(b, W, d, i, t, k) <=> FieldParts(b, at[d + 1], i, t, k)
<1> DEFINE inner == at[d + 1]
           w == WireOf(ValueAt(b, i, t - i))
           Is(m) == FieldIs(b, i, inner, t - i, m, k)
           Group(e) == IsTag(Piece(b, e, k), 4) /\ SameNumber(Piece(b, i, t), Piece(b, e, k))
<1>1. IsFlat(Piece(b, i, t), Piece(b, t, k)) <=> \E m : Is(m) /\ w # 3 /\ w # 4
  BY FlatGrammar
<1>2. (/\ d < MaxDepth /\ IsTag(Piece(b, i, t), 3)
       /\ \E e \in t..(k - 1) : Group(e) /\ Chain(inner, t, e))
         <=> \E m : Is(m) /\ w = 3
  BY GroupGrammar
<1>3. ASSUME d < MaxDepth, NEW e \in t..(k - 1)
      PROVE  W[<<d + 1, t, e>>] = Chain(inner, t, e)
  <2>1. d + 1 \in 0..MaxDepth /\ t \in 0..Len(b) /\ e \in 0..Len(b)
    BY <1>3, LenProperties, LimitsAssumption, SMT
  <2> QED
    BY <2>1 DEF Levels
<1>4. (/\ d < MaxDepth /\ IsTag(Piece(b, i, t), 3)
       /\ \E e \in t..(k - 1) : Group(e) /\ W[<<d + 1, t, e>>])
         <=> \E m : Is(m) /\ w = 3
  <2> HIDE DEF inner, Is, Group, w
  <2> QED
    BY <1>2, <1>3
<1>5. IsFieldAt(b, W, d, i, t, k) <=>
        \/ IsFlat(Piece(b, i, t), Piece(b, t, k))
        \/ /\ d < MaxDepth /\ IsTag(Piece(b, i, t), 3)
           /\ \E e \in t..(k - 1) : Group(e) /\ W[<<d + 1, t, e>>]
  BY Zenon DEF IsFieldAt
<1>6. IsFieldAt(b, W, d, i, t, k) <=> \E m : Is(m) /\ w # 4
  <2>1. 3 # 4
    OBVIOUS
  <2> HIDE DEF inner, Is, Group, w
  <2> QED
    BY <1>1, <1>4, <1>5, <2>1, Zenon
<1> QED
  BY <1>6, Zenon DEF FieldParts

\* So is a field between two cursors.
LEMMA FieldGrammar ==
  ASSUME NEW b \in Seq(Byte), NEW at, IsTables(at, b), NEW d \in 0..MaxDepth,
         NEW i \in 0..Len(b), NEW k \in 0..Len(b), NEW W, Levels(W, b, at)
  PROVE  (\E t \in (i + 1)..k : IsFieldAt(b, W, d, i, t, k))
           <=> Advances(at[d], i) /\ at[d][i].next = k
<1> DEFINE inner == at[d + 1]
           f == at[d][i]
<1>1. f = Read(b, i, inner) /\ inner \in Table(b)
  BY LevelRead
<1> HIDE DEF f, inner
<1>2. /\ f # Malformed => \E n, m : FieldIs(b, i, inner, n, m, f.next)
      /\ \A n, m, q : FieldIs(b, i, inner, n, m, q) =>
           /\ f # Malformed /\ f.next = q
           /\ f.wire = WireOf(ValueAt(b, i, n)) /\ f.number = NumberOf(ValueAt(b, i, n))
           /\ n \in Nat /\ i + n \in (i + 1)..q /\ q \in (i + 1)..Len(b) /\ (i + n) - i = n
  BY <1>1, FieldByParts
<1>3. \A t \in (i + 1)..k : IsFieldAt(b, W, d, i, t, k) <=> FieldParts(b, inner, i, t, k)
  <2>1. ASSUME NEW t \in (i + 1)..k
        PROVE  t \in (i + 1)..Len(b) /\ k \in t..Len(b)
    BY LenProperties, SMT
  <2> QED
    BY <2>1, PartsGrammar DEF inner
<1>4. ASSUME NEW t \in (i + 1)..k, FieldParts(b, inner, i, t, k)
      PROVE  Advances(at[d], i) /\ f.next = k
  <2>1. PICK m : FieldIs(b, i, inner, t - i, m, k) /\ WireOf(ValueAt(b, i, t - i)) # 4
    BY <1>4, Zenon DEF FieldParts
  <2>2. f # Malformed /\ f.next = k /\ f.wire = WireOf(ValueAt(b, i, t - i))
    BY <1>2, <2>1
  <2> QED
    BY <2>1, <2>2 DEF Advances, f
<1>5. ASSUME Advances(at[d], i), f.next = k
      PROVE  \E t \in (i + 1)..k : FieldParts(b, inner, i, t, k)
  <2>1. f # Malformed /\ f.wire # 4
    BY <1>5 DEF Advances, f
  <2>2. PICK n, m : FieldIs(b, i, inner, n, m, k)
    BY <1>2, <1>5, <2>1
  <2>3. /\ f.wire = WireOf(ValueAt(b, i, n)) /\ i + n \in (i + 1)..k /\ (i + n) - i = n
    BY <1>2, <2>2
  <2>4. FieldParts(b, inner, i, i + n, k)
    BY <2>1, <2>2, <2>3, Zenon DEF FieldParts
  <2> QED
    BY <2>3, <2>4
<1> QED
  BY <1>3, <1>4, <1>5 DEF f

\* The chains of fields solve the grammar's equation.
LEMMA StretchGrammar ==
  ASSUME NEW b \in Seq(Byte), NEW at, IsTables(at, b), NEW d \in 0..MaxDepth,
         NEW i \in 0..Len(b), NEW j \in 0..Len(b), NEW W, Levels(W, b, at)
  PROVE  AreFieldsAt(b, W, d, i, j) <=> Chain(at[d], i, j)
<1> DEFINE F == at[d]
           n == F[i].next
<1>1. F \in Table(b)
  BY LevelRead
<1>2. \A k \in 0..Len(b) : (\E t \in (i + 1)..k : IsFieldAt(b, W, d, i, t, k))
                             <=> Advances(F, i) /\ F[i].next = k
  BY FieldGrammar
<1>3. \A k \in 0..Len(b) : W[<<d, k, j>>] = Chain(F, k, j)
  BY DEF Levels
<1> HIDE DEF F
<1>4. Chain(F, i, j) <=> i = j \/ (Advances(F, i) /\ F[i].next \in (i + 1)..j /\ Chain(F, F[i].next, j))
  BY <1>1, ChainStep
<1>5. Len(b) \in Nat /\ \A k \in (i + 1)..j : k \in 0..Len(b)
  BY LenProperties, SMT
<1>6. ASSUME NEW t \in (i + 1)..j, NEW k \in t..j, IsFieldAt(b, W, d, i, t, k), W[<<d, k, j>>]
      PROVE  Chain(F, i, j)
  <2>1. k \in (i + 1)..j /\ t \in (i + 1)..k
    BY <1>5, SMT
  <2> QED
    BY <1>2, <1>3, <1>4, <1>5, <1>6, <2>1
<1>7. ASSUME i # j, Chain(F, i, j)
      PROVE  \E t \in (i + 1)..j : \E k \in t..j : IsFieldAt(b, W, d, i, t, k) /\ W[<<d, k, j>>]
  <2>1. Advances(F, i) /\ n \in (i + 1)..j /\ Chain(F, n, j)
    BY <1>4, <1>7
  <2>2. n \in 0..Len(b)
    BY <1>5, <2>1
  <2>3. PICK t \in (i + 1)..n : IsFieldAt(b, W, d, i, t, n)
    BY <1>2, <2>1, <2>2
  <2>4. W[<<d, n, j>>]
    BY <1>3, <2>1, <2>2
  <2> HIDE DEF n
  <2>5. t \in (i + 1)..j /\ n \in t..j
    BY <1>5, <2>1, <2>2, SMT
  <2> QED
    BY <2>3, <2>4, <2>5
<1>8. AreFieldsAt(b, W, d, i, j) <=>
        i = j \/ \E t \in (i + 1)..j : \E k \in t..j : IsFieldAt(b, W, d, i, t, k) /\ W[<<d, k, j>>]
  BY Zenon DEF AreFieldsAt
<1> QED
  BY <1>4, <1>6, <1>7, <1>8, Zenon DEF F

\* Two tables of stretches that agree on the short ones.
Shorter(V, W, b, n) ==
  \A g \in 0..MaxDepth : \A x, y \in 0..Len(b) :
    x <= y /\ y < x + n => (V[<<g, x, y>>] <=> W[<<g, x, y>>])

\* Whether a stretch is of fields depends only on shorter stretches.
LEMMA SameStretch ==
  ASSUME NEW b \in Seq(Byte), NEW V, NEW W, NEW n \in Nat, Shorter(V, W, b, n),
         NEW g \in 0..MaxDepth, NEW i \in 0..Len(b), NEW j \in 0..Len(b), j < i + (n + 1)
  PROVE  AreFieldsAt(b, V, g, i, j) <=> AreFieldsAt(b, W, g, i, j)
<1>1. Len(b) \in Nat
  BY LenProperties
<1>2. ASSUME NEW t \in (i + 1)..j, NEW k \in t..j
      PROVE  /\ V[<<g, k, j>>] <=> W[<<g, k, j>>]
             /\ IsFieldAt(b, V, g, i, t, k) <=> IsFieldAt(b, W, g, i, t, k)
  <2>1. k \in 0..Len(b) /\ k <= j /\ j < k + n
    BY <1>1, SMT
  <2>2. V[<<g, k, j>>] <=> W[<<g, k, j>>]
    BY <2>1 DEF Shorter
  <2>3. ASSUME g < MaxDepth, NEW e \in t..(k - 1)
        PROVE  V[<<g + 1, t, e>>] <=> W[<<g + 1, t, e>>]
    <3>1. /\ g + 1 \in 0..MaxDepth /\ t \in 0..Len(b) /\ e \in 0..Len(b)
          /\ t <= e /\ e < t + n
      BY <1>1, <2>3, LimitsAssumption, SMT
    <3> QED
      BY <3>1 DEF Shorter
  <2> DEFINE Group(e) == IsTag(Piece(b, e, k), 4) /\ SameNumber(Piece(b, i, t), Piece(b, e, k))
             A == g < MaxDepth
             T == IsTag(Piece(b, i, t), 3)
             X(e) == V[<<g + 1, t, e>>]
             Y(e) == W[<<g + 1, t, e>>]
             G == t..(k - 1)
  <2>4. (A /\ T /\ \E e \in G : Group(e) /\ X(e)) <=> (A /\ T /\ \E e \in G : Group(e) /\ Y(e))
    <3>1. A => \A e \in G : X(e) <=> Y(e)
      BY <2>3
    <3> HIDE DEF A, T, X, Y, Group, G
    <3> QED
      BY <3>1, Zenon
  <2>5. IsFieldAt(b, V, g, i, t, k) <=> IsFieldAt(b, W, g, i, t, k)
    BY <2>4, Zenon DEF IsFieldAt
  <2> QED
    BY <2>2, <2>5
<1> QED
  BY <1>2, Zenon DEF AreFieldsAt

\* The grammar's table, which the recursive definition of IsMessage names.
Solves(L, b) == L = [p \in Places(b) |-> AreFieldsAt(b, L, p[1], p[2], p[3])]

\* A solution of the grammar's equation, at a place.
LEMMA SolvesFacts ==
  ASSUME NEW b \in Seq(Byte), NEW L, Solves(L, b), NEW g \in 0..MaxDepth,
         NEW i \in 0..Len(b), NEW j \in 0..Len(b)
  PROVE  L[<<g, i, j>>] = AreFieldsAt(b, L, g, i, j)
<1> DEFINE q == <<g, i, j>>
<1>1. q \in Places(b) /\ q[1] = g /\ q[2] = i /\ q[3] = j
  BY DEF Places
<1> HIDE DEF q
<1>2. [p \in Places(b) |-> AreFieldsAt(b, L, p[1], p[2], p[3])][q] = AreFieldsAt(b, L, q[1], q[2], q[3])
  BY <1>1, Zenon
<1>3. L[q] = AreFieldsAt(b, L, q[1], q[2], q[3])
  BY <1>2, Zenon DEF Solves
<1> QED
  BY <1>1, <1>3, Zenon DEF q

\* The grammar's equation has one solution: two of them agree on longer and longer stretches.
LEMMA SolvedOnce ==
  ASSUME NEW b \in Seq(Byte), NEW V, Solves(V, b), NEW W, Solves(W, b)
  PROVE  V[<<0, 0, Len(b)>>] <=> W[<<0, 0, Len(b)>>]
<1> DEFINE D == {n \in Nat : Shorter(V, W, b, n)}
<1>1. Len(b) \in Nat /\ 0 \in 0..MaxDepth /\ 0 \in 0..Len(b) /\ Len(b) \in 0..Len(b)
  BY LenProperties, LimitsAssumption, SMT
<1>2. 0 \in D
  <2>1. \A x, y \in 0..Len(b) : ~(x <= y /\ y < x + 0)
    BY <1>1, SMT
  <2> QED
    BY <2>1, Zenon DEF Shorter
<1>3. ASSUME NEW n \in Nat, n \in D
      PROVE  n + 1 \in D
  <2>1. n + 1 \in Nat
    OBVIOUS
  <2>2. ASSUME NEW g \in 0..MaxDepth, NEW x \in 0..Len(b), NEW y \in 0..Len(b), y < x + (n + 1)
        PROVE  V[<<g, x, y>>] <=> W[<<g, x, y>>]
    <3>1. AreFieldsAt(b, V, g, x, y) <=> AreFieldsAt(b, W, g, x, y)
      BY <1>3, <2>2, SameStretch
    <3>2. V[<<g, x, y>>] = AreFieldsAt(b, V, g, x, y)
      BY SolvesFacts
    <3>3. W[<<g, x, y>>] = AreFieldsAt(b, W, g, x, y)
      BY SolvesFacts
    <3> QED
      BY <3>1, <3>2, <3>3
  <2>3. Shorter(V, W, b, n + 1)
    BY <2>2, Zenon DEF Shorter
  <2> QED
    BY <2>1, <2>3
<1> HIDE DEF D
<1>4. Nat \subseteq D
  BY <1>2, <1>3, SetInduction
<1>5. Len(b) + 1 \in Nat /\ 0 <= Len(b) /\ Len(b) < 0 + (Len(b) + 1)
  BY <1>1, SMT
<1>6. Shorter(V, W, b, Len(b) + 1)
  BY <1>4, <1>5 DEF D
<1> QED
  BY <1>1, <1>5, <1>6 DEF Shorter

\* A message of the grammar is one a chain of fields leads through.
LEMMA MessageChain ==
  ASSUME NEW b \in Seq(Byte)
  PROVE  IsMessage(b) <=> Chain(FieldAt(b), 0, Len(b))
<1>1. PICK at : IsTables(at, b) /\ FieldAt(b) = at[0]
  BY FieldAtIs, Zenon
<1> DEFINE W == [p \in Places(b) |-> Chain(at[p[1]], p[2], p[3])]
<1>2. ASSUME NEW g \in 0..MaxDepth, NEW i \in 0..Len(b), NEW j \in 0..Len(b)
      PROVE  W[<<g, i, j>>] = Chain(at[g], i, j)
  <2> DEFINE q == <<g, i, j>>
  <2>1. q \in Places(b) /\ q[1] = g /\ q[2] = i /\ q[3] = j
    BY DEF Places
  <2> HIDE DEF q
  <2>2. W[q] = Chain(at[q[1]], q[2], q[3])
    BY <2>1, Zenon
  <2> HIDE DEF W
  <2> QED
    BY <2>1, <2>2, Zenon DEF q
<1>3. Levels(W, b, at)
  <2> HIDE DEF W
  <2> QED
    BY <1>2, Zenon DEF Levels
<1>4. Solves(W, b)
  <2>1. ASSUME NEW p \in Places(b)
        PROVE  Chain(at[p[1]], p[2], p[3]) = AreFieldsAt(b, W, p[1], p[2], p[3])
    <3>1. p[1] \in 0..MaxDepth /\ p[2] \in 0..Len(b) /\ p[3] \in 0..Len(b)
      BY DEF Places
    <3> HIDE DEF W
    <3> DEFINE C == Chain(at[p[1]], p[2], p[3])
               A == AreFieldsAt(b, W, p[1], p[2], p[3])
    <3>2. A <=> C
      BY <1>1, <1>3, <3>1, StretchGrammar
    <3>3. A \in BOOLEAN /\ C \in BOOLEAN
      BY Zenon DEF AreFieldsAt, Chain
    <3> HIDE DEF A, C
    <3>4. C = A
      BY <3>2, <3>3, Zenon
    <3> QED
      BY <3>4 DEF A, C
  <2> DEFINE Grammar(p) == AreFieldsAt(b, W, p[1], p[2], p[3])
             Now(p) == Chain(at[p[1]], p[2], p[3])
  <2>2. \A p \in Places(b) : Now(p) = Grammar(p)
    BY <2>1
  <2>3. [p \in Places(b) |-> Now(p)] = [p \in Places(b) |-> Grammar(p)]
    <3> HIDE DEF Now, Grammar
    <3> QED
      BY <2>2, Zenon
  <2> QED
    BY <2>3, Zenon DEF Solves
<1> HIDE DEF W
<1> DEFINE legal[p \in Places(b)] == AreFieldsAt(b, legal, p[1], p[2], p[3])
<1>5. legal = CHOOSE L : Solves(L, b)
  BY Zenon DEF Solves
<1>6. IsMessage(b) = legal[<<0, 0, Len(b)>>]
  BY Zenon DEF IsMessage
<1> HIDE DEF legal
<1>7. Solves(legal, b)
  BY <1>4, <1>5, Zenon
<1>8. 0 \in 0..MaxDepth /\ 0 \in 0..Len(b) /\ Len(b) \in 0..Len(b)
  BY LenProperties, LimitsAssumption, SMT
<1>9. legal[<<0, 0, Len(b)>>] <=> W[<<0, 0, Len(b)>>]
  BY <1>4, <1>7, SolvedOnce
<1>10. W[<<0, 0, Len(b)>>] = Chain(at[0], 0, Len(b))
  BY <1>2, <1>8
<1> QED
  BY <1>1, <1>6, <1>9, <1>10

\* A message of the grammar is one the parser accepts.
LEMMA MessageRead ==
  ASSUME NEW b \in Seq(Byte)
  PROVE  IsMessage(b) <=> Fields(b) # Malformed
BY MessageChain, FieldsChain

\* What is read as one whole field cannot be cut into two messages.
LEMMA WholeIsField ==
  ASSUME NEW p, Whole(p)
  PROVE  IsField(p)
<1> DEFINE F == FieldAt(p)
           N == Len(p)
<1>1. /\ p \in Seq(Byte) /\ F[0] \in ParsedField /\ N \in Nat /\ N >= 1
      /\ 0 \in 0..N /\ N \in 0..N /\ F \in Table(p)
  <2>1. /\ p \in Seq(Byte) /\ F[0] \in ParsedField /\ N \in Nat /\ N >= 1 /\ 0 \in 0..N /\ F \in Table(p)
    BY WholeFacts
  <2> HIDE DEF F, N
  <2> QED
    BY <2>1
<1>2. Advances(F, 0) /\ F[0].next = N
  BY DEF Whole, Advances
<1> HIDE DEF F
<1>3. Chain(F, N, N)
  BY <1>1, ChainStep
<1>4. N \in (0 + 1)..N
  <2> HIDE DEF N
  <2> QED
    BY <1>1, SMT
<1>5. Chain(F, 0, N)
  BY <1>1, <1>2, <1>3, <1>4, ChainStep
<1>6. IsMessage(p)
  BY <1>1, <1>5, MessageChain DEF F
<1>7. ASSUME NEW n \in 1..(N - 1), IsMessage(First(p, n))
      PROVE  FALSE
  <2> DEFINE q == First(p, n)
             G == FieldAt(q)
  <2>1. n \in 0..N /\ n \in Nat /\ n # 0 /\ 0 \in 0..n /\ n \in 0..n /\ n - 0 = n /\ n < N
    BY <1>1
  <2>2. q \in Seq(Byte) /\ Len(q) = n /\ \A d \in 1..n : q[d] = p[0 + d]
    <3>1. n \in 0..Len(p) /\ 0 \in 0..Len(p)
      BY <1>1, <2>1
    <3>2. /\ Piece(p, 0, n) \in Seq(Byte) /\ Len(Piece(p, 0, n)) = n - 0
          /\ \A d \in 1..(n - 0) : Piece(p, 0, n)[d] = p[0 + d]
      BY <1>1, <3>1, PieceIs
    <3> QED
      BY <2>1, <3>2 DEF First
  <2>3. Chain(G, 0, n)
    BY <1>7, <2>2, MessageChain
  <2>4. G \in Table(q) /\ Local(q, p, 0, G, F)
    BY <1>1, <2>2, FieldAtLocal DEF F
  <2> HIDE DEF q, G
  <2>5. Advances(G, 0) /\ G[0].next \in (0 + 1)..n
    BY <2>1, <2>2, <2>3, <2>4, ChainStep
  <2>6. G[0] # Malformed /\ G[0].next \in 1..n
    BY <2>5 DEF Advances
  <2>7. G[0] \in ParsedField
    BY <2>1, <2>2, <2>4, <2>6 DEF Table
  <2> DEFINE x == G[0].next
  <2>8. Agree(q, p, 0, 0, x)
    <3>1. x \in 1..n
      BY <2>6
    <3> HIDE DEF x
    <3>2. \A d \in 1..n : p[d + 0] = q[d]
      BY <2>1, <2>2
    <3>3. x <= Len(q) /\ x + 0 <= Len(p)
      BY <1>1, <2>1, <2>2, <3>1 DEF N
    <3> QED
      BY <1>1, <2>1, <2>2, <3>1, <3>2, <3>3 DEF Agree, N
  <2>9. F[0 + 0] = Shifted(G[0], 0)
    BY <2>1, <2>2, <2>4, <2>6, <2>8 DEF Local
  <2>10. Shifted(G[0], 0).next = x + 0
    BY <2>7, ShiftedFacts
  <2>11. F[0].next = x + 0 /\ x \in 1..n
    BY <2>6, <2>9, <2>10
  <2> HIDE DEF x
  <2>12. x + 0 # N
    BY <1>1, <2>1, <2>11
  <2> QED
    BY <1>2, <2>11, <2>12
<1>8. p # <<>>
  BY <1>1 DEF N
<1> QED
  BY <1>6, <1>7, <1>8 DEF IsField, N

\* The parser accepts the messages of the grammar, whatever their bytes,
\* and cuts each into its fields.
LEMMA Parsing ==
  ASSUME NEW b \in Seq(Byte)
  PROVE  ParsedRight(b, Fields(b))
<1> DEFINE fs == Fields(b)
<1>1. IsMessage(b) <=> fs # Malformed
  BY MessageRead
<1>2. ASSUME fs # Malformed
      PROVE  Raw(fs) = b /\ \A field \in Range(fs) : IsField(field.raw)
  <2>1. /\ fs \in Seq(ParsedField) /\ Raw(fs) = b
        /\ \A i \in 1..Len(fs) : Whole(fs[i].raw)
    BY <1>2, ReadPieces
  <2> HIDE DEF fs
  <2>2. \A i \in DOMAIN fs : IsField(fs[i].raw)
    BY <2>1, WholeIsField
  <2> QED
    BY <2>1, <2>2 DEF Range
<1> QED
  BY <1>1, <1>2, Zenon DEF ParsedRight

\* Every sample is parsed right.
LEMMA Parses == ParserIsExact
BY Parsing, SamplesAssumption DEF ParserIsExact

---------------------------------------------------------------------------
(* What the worker rests on of the codec, wherever it uses it.             *)

(* The parser accepts exactly the byte strings the grammar of the wire     *)
(* format calls messages, cuts them into the grammar's fields and loses no *)
(* byte: for all byte strings, however deep their groups are nested.       *)
THEOREM ParserAcceptsTheGrammar == Spec => []ParsesLegalMessages
<1>1. ParsesLegalMessages
  BY Parses DEF ParsesLegalMessages
<1> QED
  BY <1>1, PTL

(* A frame is read back whole and leaves the next untouched, a frame cut   *)
(* anywhere is an error, and a length that is too long is refused.         *)
THEOREM FramesStayApart == Spec => []FramesKeptApart
<1>1. FramesKeptApart
  BY FramesApart DEF FramesKeptApart
<1> QED
  BY <1>1, PTL

(* A request forwarded with other arguments keeps its id, its inputs and   *)
(* every other field byte for byte and in order.                           *)
THEOREM RewritingTouchesArgumentsOnly == Spec => []RewritingKeepsRest
<1>1. RewritingKeepsRest
  BY Rewrites DEF RewritingKeepsRest
<1> QED
  BY <1>1, PTL

(* Whoever reads an error reads the id it was written with, for every id   *)
(* of 32 bits and so for the one the worker answers with.                  *)
THEOREM ErrorsKeepTheirId == Spec => []ErrorsCarryTheirId
<1>1. TypeOK /\ AtEachPoint => ErrorsCarryTheirId
  <2> SUFFICES ASSUME TypeOK, AtEachPoint, pc = "done", result.code = 1
               PROVE  ResponseOf(ErrorBytes(result.id, <<>>)).requestId = result.id
    BY IdsCarried, Zenon DEF ErrorsCarryTheirId
  <2>1. result.id \in Word
    BY WireIdsAssumption DEF TypeOK, AtEachPoint
  <2>2. <<>> \in Seq(Byte) /\ Len(<<>>) \in Size
    BY DEF Size
  <2>3. ResponseOf(ErrorBytes(result.id, <<>>)) = [exitCode |-> 1, requestId |-> result.id, output |-> <<>>]
    BY <2>1, <2>2, NoText, ErrorRead
  <2> QED
    BY <2>3
<1> QED
  BY <1>1, TypeCorrect, PTL
=============================================================================
