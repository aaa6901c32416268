------------------------ MODULE KotlinBuilder_proof ------------------------
(***************************************************************************)
(* What the Kotlin builder worker guarantees for any requests, any number  *)
(* of compiles and any set of faults of the resident process.              *)
(***************************************************************************)
EXTENDS KotlinBuilder, SequenceTheorems, TLAPS

---------------------------------------------------------------------------
(* The invariant.                                                          *)

\* A process has the request in hand.
Given == pc \in {"tee", "sent"}

\* Where the builder is says what it has in hand.
Control ==
  /\ pc \in {"read", "down"} => req = None
  /\ pc \notin {"read", "down", "close"} => req \in Requests
  /\ pc \in {"handle", "report", "plan", "start"} => nextId <= MaxId
  /\ pc \in {"write", "tee", "sent"} => nextId >= 2
  /\ todo => Given
  /\ pc \in {"read", "handle", "close", "answer", "down"} => report = "absent" /\ ~unpacked
  /\ pc = "report" => report = "absent"
  /\ leaked => "temp" \in Faults

\* Entry k of the pipe would be taken for the response to the request sent.
Fits(k) == pipe[k].id \in {nextId - 1, 0}

\* The artifacts have been built from the request, and with them the report.
Built(artifacts) == \A a \in artifacts : outs[req.out][a] = req.build
Compiled == Built(ByCompile(req)) /\ ("noreport" \in Faults \/ report # "empty")

(* A response fits only if the compile it speaks of was this request's and *)
(* is over; a response without an id fits none but the request it is for,  *)
(* since it never has a fitting one before it.                             *)
InStep ==
  /\ \A k \in DOMAIN pipe : pipe[k].id < nextId
  /\ ~Given => \A k \in DOMAIN pipe : pipe[k].id # 0
  /\ pc = "write" => \A k \in DOMAIN pipe : ~Fits(k)
  /\ Given =>
       \A k \in DOMAIN pipe :
         /\ Fits(k) => ~todo /\ (pipe[k].code = 0 => Compiled)
         /\ pipe[k].id = 0 => \A j \in 1..(k - 1) : ~Fits(j)

Progress ==
  /\ pc = "rest" => Compiled
  /\ pc = "deps" => Compiled /\ Built(BySrcjar(req))
  /\ pc = "answer" /\ code = 0 => Built(Wanted(req))

\* What is recorded has been taken, in the order of the ids.
InOrder ==
  /\ \A k \in DOMAIN recorded :
       /\ recorded[k].id \in taken /\ recorded[k].id < nextId
       /\ \A j \in 1..(k - 1) : recorded[j].id < recorded[k].id
       /\ pc \in {"write", "tee"} => recorded[k].id < nextId - 1
  /\ pc = "tee" => nextId - 1 \in taken
  /\ pc = "sent" => recorded # <<>> /\ recorded[Len(recorded)] = Entry(nextId - 1, TRUE)

ReportRead == depsKind = "allunused" => "noreport" \in Faults

---------------------------------------------------------------------------
(* Requests and outputs.                                                   *)

LEMMA RequestFields ==
  ASSUME NEW r \in Requests
  PROVE  /\ r \in Request /\ r # None
         /\ r.id \in Nat /\ r.out \in Outputs /\ r.build \in Builds
         /\ r.srcjar \in BOOLEAN /\ r.unpack \in BOOLEAN /\ r.stock \in BOOLEAN
         /\ r.resident \in BOOLEAN
         /\ r.jdeps \in {"native", "report", "stub", "none"}
         /\ Wanted(r) \subseteq Artifacts /\ ByCompile(r) \subseteq Artifacts
         /\ BySrcjar(r) \subseteq Artifacts
<1>1. r \in Request /\ r # None
  BY RequestsAssumption
<1> QED
  BY <1>1 DEF Request, Wanted, ByCompile, BySrcjar, Artifacts

\* The request in hand is the only one whose artifacts a step may have touched.
OnlyOurs ==
  /\ outs' \in [Outputs -> [Artifacts -> Builds \cup {None}]]
  /\ \A o \in Outputs \ {req.out} : outs'[o] = outs[o]
  /\ \A a \in Artifacts : outs'[req.out][a] \in {outs[req.out][a], req.build}

LEMMA WriteIsOurs ==
  ASSUME TypeOK, req \in Requests, NEW artifacts, Write(artifacts)
  PROVE  /\ OnlyOurs
         /\ \A a \in artifacts \cap Artifacts : outs'[req.out][a] = req.build
<1> DEFINE now == [a \in Artifacts |-> IF a \in artifacts THEN req.build
                                       ELSE outs[req.out][a]]
<1>1. req.out \in Outputs /\ req.build \in Builds
  BY RequestFields
<1>2. outs \in [Outputs -> [Artifacts -> Builds \cup {None}]]
  BY DEF TypeOK
<1>3. outs' = [outs EXCEPT ![req.out] = now]
  BY DEF Write
<1>4. now \in [Artifacts -> Builds \cup {None}]
  BY <1>1, <1>2
<1>5. \A a \in Artifacts : now[a] = IF a \in artifacts THEN req.build ELSE outs[req.out][a]
  OBVIOUS
<1> HIDE DEF now
<1>6. outs'[req.out] = now /\ \A o \in Outputs \ {req.out} : outs'[o] = outs[o]
  BY <1>1, <1>2, <1>3
<1> QED
  BY <1>1, <1>2, <1>3, <1>4, <1>5, <1>6 DEF OnlyOurs

LEMMA SameIsOurs ==
  ASSUME TypeOK, req \in Requests, outs' = outs
  PROVE  OnlyOurs
<1>1. outs \in [Outputs -> [Artifacts -> Builds \cup {None}]]
  BY DEF TypeOK
<1> QED
  BY <1>1 DEF OnlyOurs

\* What has been built for the request stays built while it is in hand.
LEMMA BuiltStays ==
  ASSUME req \in Requests, OnlyOurs, req' = req,
         NEW artifacts \in SUBSET Artifacts, Built(artifacts)
  PROVE  Built(artifacts)'
BY DEF OnlyOurs, Built

---------------------------------------------------------------------------
(* Types and control.                                                      *)

LEMMA PipeFacts ==
  ASSUME TypeOK
  PROVE  /\ Len(pipe) \in Nat /\ DOMAIN pipe = 1..Len(pipe) /\ nextId \in Nat \ {0}
         /\ \A k \in DOMAIN pipe : pipe[k].id \in Nat /\ pipe[k].code \in {0, 1}
<1>1. pipe \in Seq([id : 0..MaxId, code : {0, 1}]) /\ nextId \in 1..(MaxId + 1)
  BY DEF TypeOK
<1>2. Len(pipe) \in Nat /\ DOMAIN pipe = 1..Len(pipe)
  BY <1>1, LenProperties
<1>3. \A k \in 1..Len(pipe) : pipe[k] \in [id : 0..MaxId, code : {0, 1}]
  BY <1>1, ElementOfSeq
<1> QED
  BY <1>1, <1>2, <1>3, MaxIdAssumption

LEMMA StepTypes ==
  ASSUME TypeOK, Control, InStep, [Next]_vars
  PROVE  TypeOK' /\ Control'
<1> USE DEF TypeOK, Control, Given, elide, temps, written, Finish, NoProcess
<1>0. MaxId \in Nat /\ None \notin Requests
      /\ <<>> \in Seq([id : 0..MaxId, code : {0, 1}])
  BY MaxIdAssumption, RequestsAssumption, EmptySeq
<1>c. ASSUME CutShort
      PROVE  /\ outs' \in [Outputs -> [Artifacts -> Builds \cup {None}]]
             /\ report' \in {"absent", "empty", "filled"}
  <2>1. todo => req \in Requests
    OBVIOUS
  <2>2. outs' \in [Outputs -> [Artifacts -> Builds \cup {None}]]
    BY <1>c, <2>1, WriteIsOurs DEF CutShort, WriteSome, OnlyOurs
  <2> QED
    BY <1>c, <2>2 DEF CutShort
<1>1. CASE Receive
  BY <1>0, <1>1, RequestFields DEF Receive
<1>2. CASE Stock
  <2>1. outs' \in [Outputs -> [Artifacts -> Builds \cup {None}]]
    BY <1>2, WriteIsOurs DEF Stock, WriteSome, OnlyOurs
  <2>2. /\ pc = "handle" /\ pc' = "answer" /\ code' \in {0, 1} /\ report' = "absent"
        /\ unpacked' = FALSE /\ leaked' = leaked /\ ~todo
        /\ UNCHANGED <<req, elide, depsKind, answer>>
    BY <1>2 DEF Stock
  <2>3. TypeOK'
    BY <2>1, <2>2
  <2> QED
    BY <2>2, <2>3
<1>3. CASE Unpack
  <2>1. /\ pc = "handle" /\ pc' \in {"report", "answer"} /\ ~todo
        /\ UNCHANGED <<req, resident, process, nextId, todo, pipe, taken, recorded, outs,
                       depsKind, answer, leaked>>
    BY <1>3 DEF Unpack
  <2>2. /\ code' \in {0, 1} /\ report' = "absent" /\ unpacked' \in BOOLEAN
        /\ pc' = "answer" => ~unpacked'
    BY <1>3, <2>1, RequestFields DEF Unpack
  <2>3. TypeOK'
    BY <2>1, <2>2
  <2> QED
    BY <2>1, <2>2, <2>3
<1>17. CASE NewReport
  <2>1. /\ pc = "report" /\ pc' \in {"plan", "answer"} /\ ~todo
        /\ UNCHANGED <<req, resident, process, nextId, todo, pipe, taken, recorded, outs,
                       depsKind, answer>>
    BY <1>17 DEF NewReport
  <2>2. /\ code' \in {0, 1} /\ report' \in {"absent", "empty", "filled"}
        /\ unpacked' \in BOOLEAN /\ leaked' \in BOOLEAN
        /\ pc' = "answer" => report' = "absent" /\ ~unpacked'
        /\ leaked' => "temp" \in Faults
    <3>1. CASE pc' = "plan"
      BY <1>17, <3>1 DEF NewReport
    <3>2. CASE pc' = "answer"
      <4>1. /\ "temp" \in Faults /\ report' = report /\ report = "absent" /\ code' = 1
            /\ unpacked' = FALSE /\ leaked' = (leaked \/ unpacked)
        BY <1>17, <3>2 DEF NewReport
      <4> QED
        BY <3>2, <4>1
    <3> QED
      BY <2>1, <3>1, <3>2
  <2>3. TypeOK'
    BY <2>1, <2>2
  <2> QED
    BY <2>1, <2>2, <2>3
<1>18. CASE Plan
  <2>1. /\ pc = "plan" /\ pc' \in {"start", "oneshot", "answer"} /\ ~todo
        /\ UNCHANGED <<req, resident, process, nextId, todo, pipe, taken, recorded, outs,
                       depsKind, answer, leaked>>
    BY <1>18 DEF Plan
  <2>2. /\ code' \in {0, 1} /\ report' \in {"absent", "empty", "filled"}
        /\ unpacked' \in BOOLEAN
        /\ pc' = "answer" => report' = "absent" /\ ~unpacked'
    BY <1>18, <2>1 DEF Plan
  <2>3. TypeOK'
    BY <2>1, <2>2
  <2> QED
    BY <2>1, <2>2, <2>3
<1>4. CASE Start
  <2>1. pc = "start" /\ nextId \in 1..MaxId
    BY <1>4, <1>0 DEF Start
  <2>2. pipe' \in Seq([id : 0..MaxId, code : {0, 1}])
    BY <1>4, <1>0 DEF Start
  <2> QED
    BY <1>4, <1>0, <2>1, <2>2 DEF Start
<1>19. CASE Send
  <2>1. nextId - 1 \in 1..MaxId
    BY <1>19, <1>0 DEF Send
  <2>2. /\ pc = "write" /\ pc' \in {"tee", "oneshot"} /\ todo' \in BOOLEAN
        /\ todo' => pc' = "tee"
        /\ process' \in {"none", "alive", "dead"}
        /\ pipe' \in Seq([id : 0..MaxId, code : {0, 1}])
        /\ taken' \subseteq 1..MaxId
        /\ UNCHANGED <<req, resident, nextId, recorded, report, unpacked, leaked, outs,
                       depsKind, code, answer>>
    BY <1>19, <1>0, <2>1 DEF Send
  <2> QED
    BY <2>1, <2>2
<1>5. CASE Tee
  <2>1. /\ pc = "tee" /\ pc' \in {"sent", "oneshot"}
        /\ UNCHANGED <<req, resident, nextId, taken, unpacked, leaked, depsKind, code, answer>>
    BY <1>5 DEF Tee
  <2>2. /\ outs' \in [Outputs -> [Artifacts -> Builds \cup {None}]]
        /\ report' \in {"absent", "empty", "filled"}
    BY <1>5, <1>c DEF Tee
  <2>3. recorded' \in Seq([id : 1..MaxId, whole : BOOLEAN])
    <3> DEFINE Entries == [id : 1..MaxId, whole : BOOLEAN]
    <3>1. nextId - 1 \in 1..MaxId
      BY <1>0, <2>1
    <3>2. \A w \in BOOLEAN : Entry(nextId - 1, w) \in Entries
      BY <3>1 DEF Entry
    <3>3. recorded \in Seq(Entries)
      OBVIOUS
    <3> HIDE DEF Entries
    <3>4. \A w \in BOOLEAN : Append(recorded, Entry(nextId - 1, w)) \in Seq(Entries)
      BY <3>2, <3>3, AppendProperties
    <3>5. \/ recorded' = recorded
          \/ \E w \in BOOLEAN : recorded' = Append(recorded, Entry(nextId - 1, w))
      BY <1>5 DEF Tee
    <3>6. recorded' \in Seq(Entries)
      BY <3>3, <3>4, <3>5
    <3> QED
      BY <3>6 DEF Entries
  <2>4. /\ process' \in {"none", "alive", "dead"} /\ todo' \in BOOLEAN
        /\ pipe' \in Seq([id : 0..MaxId, code : {0, 1}])
        /\ todo' => pc' = "sent"
    BY <1>0, <1>5 DEF Tee
  <2> QED
    BY <2>1, <2>2, <2>3, <2>4
<1>6. CASE ResidentCompiles
  <2>1. outs' \in [Outputs -> [Artifacts -> Builds \cup {None}]]
    BY <1>6, WriteIsOurs DEF ResidentCompiles, WriteSome, OnlyOurs
  <2>2. \A c \in {0, 1} : Reply(c) => pipe' \in Seq([id : 0..MaxId, code : {0, 1}])
    <3> SUFFICES ASSUME NEW c \in {0, 1}, Reply(c)
                 PROVE  pipe' \in Seq([id : 0..MaxId, code : {0, 1}])
      OBVIOUS
    <3>1. /\ [id |-> nextId - 1, code |-> c] \in [id : 0..MaxId, code : {0, 1}]
          /\ [[id |-> nextId - 1, code |-> c] EXCEPT !.id = 0] \in [id : 0..MaxId, code : {0, 1}]
      BY <1>0
    <3> DEFINE Response == [id : 0..MaxId, code : {0, 1}]
    <3>2. \A e \in Response : Append(pipe, e) \in Seq(Response) /\ <<e, e>> \in Seq(Response)
      BY AppendProperties
    <3> HIDE DEF Response
    <3>3. \E e \in Response : pipe' \in {Append(pipe, e), <<e, e>>}
      BY <3>1 DEF Reply, Response
    <3> QED
      BY <3>2, <3>3 DEF Response
  <2>3. /\ pipe' \in Seq([id : 0..MaxId, code : {0, 1}]) /\ Given /\ todo' = FALSE
        /\ report' \in {"absent", "empty", "filled"}
        /\ UNCHANGED <<pc, req, resident, process, nextId, taken, recorded, unpacked, leaked,
                       depsKind, code, answer>>
    BY <1>6, <2>2 DEF ResidentCompiles
  <2>4. TypeOK'
    BY <2>1, <2>3
  <2> QED
    BY <2>3, <2>4
<1>7. CASE ResidentDies
  <2>1. /\ outs' \in [Outputs -> [Artifacts -> Builds \cup {None}]]
        /\ report' \in {"absent", "empty", "filled"}
        /\ pc = "read" => report' = report
    BY <1>7, <1>c DEF ResidentDies, CutShort
  <2>2. /\ pc \in {"read", "write", "tee", "sent"} /\ todo' = FALSE /\ process' = "dead"
        /\ UNCHANGED <<pc, req, resident, nextId, pipe, taken, recorded, unpacked, leaked,
                       depsKind, code, answer>>
    BY <1>7 DEF ResidentDies
  <2>3. TypeOK'
    BY <2>1, <2>2
  <2> QED
    BY <2>1, <2>2, <2>3
<1>8. CASE Accept
  <2>1. pipe # <<>> /\ Tail(pipe) \in Seq([id : 0..MaxId, code : {0, 1}])
    BY <1>8, HeadTailProperties DEF Accept, Expected
  <2>2. /\ pc = "sent" /\ pipe' = Tail(pipe)
        /\ UNCHANGED <<req, resident, process, nextId, todo, taken, recorded, leaked, outs,
                       depsKind, answer>>
    BY <1>8 DEF Accept
  <2>7. ~todo
    <3>1. 1 \in DOMAIN pipe /\ Head(pipe) = pipe[1]
      BY <2>1, PipeFacts, EmptySeq
    <3>2. Fits(1)
      BY <1>8, <3>1 DEF Fits, Accept, Expected
    <3> QED
      BY <2>2, <3>1, <3>2 DEF InStep
  <2>3. \/ pc' = "answer" /\ code' = 1 /\ report' = "absent" /\ unpacked' = FALSE
        \/ pc' \in {"rest", "deps"} /\ UNCHANGED <<code, report, unpacked>>
    BY <1>8 DEF Accept
  <2>4. code' \in {0, 1} /\ report' \in {"absent", "empty", "filled"} /\ unpacked' \in BOOLEAN
    BY <2>3
  <2>5. TypeOK'
    BY <2>1, <2>2, <2>3, <2>4
  <2>6. Control'
    BY <2>2, <2>3, <2>7
  <2> QED
    BY <2>5, <2>6
<1>9. CASE Bail
  BY <1>0, <1>9, <1>c DEF Bail
<1>10. CASE Rest
  <2>1. outs' \in [Outputs -> [Artifacts -> Builds \cup {None}]]
    BY <1>10, WriteIsOurs DEF Rest, WriteSome, OnlyOurs
  <2>2. pc = "rest" /\ UNCHANGED <<req, elide, depsKind, answer>>
    BY <1>10 DEF Rest
  <2>3. \/ pc' = "answer" /\ code' = 1 /\ report' = "absent" /\ unpacked' = FALSE
        \/ pc' \in {"deps", "oneshot"} /\ UNCHANGED <<code, report, unpacked>>
    BY <1>10 DEF Rest
  <2>7. leaked' = leaked
    BY <1>10 DEF Rest
  <2>4. code' \in {0, 1} /\ report' \in {"absent", "empty", "filled"} /\ unpacked' \in BOOLEAN
    BY <2>3
  <2>5. TypeOK'
    BY <2>1, <2>2, <2>3, <2>4, <2>7
  <2>6. Control'
    BY <2>2, <2>3, <2>7
  <2> QED
    BY <2>5, <2>6
<1>11. CASE OneShot
  <2>1. outs' \in [Outputs -> [Artifacts -> Builds \cup {None}]]
    BY <1>11, WriteIsOurs DEF OneShot, WriteSome, OnlyOurs
  <2>2. pc = "oneshot" /\ UNCHANGED <<req, elide, depsKind, answer>>
    BY <1>11 DEF OneShot
  <2>3. \/ pc' = "answer" /\ code' = 1 /\ report' = "absent" /\ unpacked' = FALSE
        \/ /\ pc' = "deps" /\ UNCHANGED <<code, unpacked>>
           /\ report' \in {"absent", "empty", "filled"}
    BY <1>11 DEF OneShot
  <2>4. leaked' = leaked
    BY <1>11 DEF OneShot
  <2>5. TypeOK'
    BY <2>1, <2>2, <2>3, <2>4
  <2>6. ~todo
    BY <2>2
  <2> QED
    BY <2>2, <2>3, <2>4, <2>5, <2>6
<1>12. CASE Deps
  <2>1. outs' \in [Outputs -> [Artifacts -> Builds \cup {None}]]
    BY <1>12, WriteIsOurs DEF Deps, OnlyOurs
  <2>2. depsKind' \in {"none", "stub", "classified", "allunused"}
    BY <1>12 DEF Deps
  <2>3. /\ pc = "deps" /\ pc' = "answer" /\ code' \in {0, 1} /\ report' = "absent"
        /\ unpacked' = FALSE /\ leaked' = leaked
        /\ UNCHANGED <<req, elide, answer>>
    BY <1>12 DEF Deps
  <2>4. TypeOK'
    BY <2>1, <2>2, <2>3
  <2> QED
    BY <2>3, <2>4
<1>13. CASE Answer
  BY <1>13, RequestFields DEF Answer
<1>14. CASE EndOfInput
  BY <1>14 DEF EndOfInput
<1>15. CASE Close
  BY <1>0, <1>15 DEF Close
<1>16. CASE UNCHANGED vars
  BY <1>16 DEF vars
<1> QED
  BY <1>1, <1>2, <1>3, <1>4, <1>5, <1>6, <1>7, <1>8, <1>9, <1>10, <1>11, <1>12, <1>13,
     <1>14, <1>15, <1>16, <1>17, <1>18, <1>19 DEF Next, Work, Elide

---------------------------------------------------------------------------
(* The pipe and the ids of the requests sent stay in step.                 *)

\* The response the resident writes is the first that fits the request.
LEMMA ReplyFits ==
  ASSUME TypeOK, Control, Given, pc' = pc, nextId' = nextId, todo' = FALSE,
         NEW c \in {0, 1}, Reply(c), c = 0 => Compiled',
         \A k \in DOMAIN pipe : pipe[k].id < nextId /\ ~Fits(k)
  PROVE  InStep'
<1> DEFINE n == Len(pipe)
<1>1. /\ n \in Nat /\ DOMAIN pipe = 1..n /\ nextId \in Nat /\ nextId >= 2
      /\ \A k \in 1..n : pipe[k].id \in Nat /\ pipe[k].id # 0 /\ pipe[k].id # nextId - 1
                         /\ pipe[k].id < nextId
  BY PipeFacts DEF Control, Fits, Given
<1>2. CASE "twice" \in Faults /\ n = 0 /\
           pipe' = <<[id |-> nextId - 1, code |-> c], [id |-> nextId - 1, code |-> c]>>
  <2>1. /\ DOMAIN pipe' = 1..2
        /\ \A k \in 1..2 : pipe'[k].id = nextId - 1 /\ pipe'[k].code = c
    BY <1>2
  <2>2. nextId - 1 # 0 /\ nextId - 1 < nextId
    BY <1>1
  <2> QED
    BY <2>1, <2>2 DEF InStep, Fits, Given
<1>3. ASSUME NEW e, pipe' = Append(pipe, e), e.id \in {nextId - 1, 0}, e.code = c
      PROVE  InStep'
  <2>0. pipe \in Seq([id : 0..MaxId, code : {0, 1}])
    BY DEF TypeOK
  <2>1. /\ DOMAIN pipe' = 1..(n + 1)
        /\ \A k \in 1..n : pipe'[k] = pipe[k]
        /\ pipe'[n + 1] = e
    BY <1>3, <2>0
  <2> HIDE DEF n
  <2>2. \A k \in 1..n : ~Fits(k)'
    BY <1>1, <2>1 DEF Fits
  <2>3. \A k \in DOMAIN pipe' : pipe'[k].id < nextId'
    BY <1>1, <1>3, <2>1
  <2>4. ASSUME NEW k \in DOMAIN pipe'
        PROVE  /\ Fits(k)' => ~todo' /\ (pipe'[k].code = 0 => Compiled')
               /\ pipe'[k].id = 0 => \A j \in 1..(k - 1) : ~Fits(j)'
    <3>1. CASE k \in 1..n
      <4>1. \A j \in 1..(k - 1) : j \in 1..n
        BY <1>1, <3>1
      <4> QED
        BY <2>2, <3>1, <4>1
    <3>2. CASE k = n + 1
      <4>1. \A j \in 1..(k - 1) : j \in 1..n
        BY <1>1, <3>2
      <4> QED
        BY <1>3, <2>1, <2>2, <3>2, <4>1
    <3> QED
      BY <1>1, <2>1, <3>1, <3>2
  <2> QED
    BY <2>3, <2>4 DEF InStep, Given
<1> QED
  <2> DEFINE one == [id |-> nextId - 1, code |-> c]
             unset == [one EXCEPT !.id = 0]
  <2>1. one.id = nextId - 1 /\ one.code = c /\ unset.id = 0 /\ unset.code = c
    OBVIOUS
  <2>2. \/ pipe' = Append(pipe, one)
        \/ pipe' = Append(pipe, unset)
        \/ "twice" \in Faults /\ n = 0 /\ pipe' = <<one, one>>
    BY DEF Reply
  <2>3. pipe' = Append(pipe, one) => InStep'
    <3> HIDE DEF one
    <3> QED
      BY <1>3, <2>1
  <2>4. pipe' = Append(pipe, unset) => InStep'
    <3> HIDE DEF unset
    <3> QED
      BY <1>3, <2>1
  <2> QED
    BY <1>2, <2>2, <2>3, <2>4

LEMMA StepInStep ==
  ASSUME TypeOK, Control, InStep, [Next]_vars
  PROVE  InStep'
<1>0. /\ Len(pipe) \in Nat /\ DOMAIN pipe = 1..Len(pipe) /\ nextId \in Nat \ {0}
      /\ \A k \in DOMAIN pipe : pipe[k].id \in Nat /\ pipe[k].code \in {0, 1}
  BY PipeFacts
<1> USE DEF Given
<1>1. CASE ~Given /\ pc # "write" /\ pc' \notin {"write", "tee", "sent"} /\ pipe' = pipe
           /\ nextId' = nextId
  BY <1>1 DEF InStep
<1>2. CASE pipe' = <<>>
  BY <1>2 DEF InStep
<1>3. CASE Start
  <2>1. /\ pc = "start" /\ pc' \in {"write", "oneshot"} /\ pipe' \in {pipe, <<>>}
        /\ nextId' = IF pc' = "write" THEN nextId + 1 ELSE nextId
    BY <1>3 DEF Start
  <2>2. CASE pipe' = pipe
    <3>1. \A k \in DOMAIN pipe : pipe[k].id # 0 /\ pipe[k].id < nextId
      BY <2>1 DEF InStep
    <3>2. \A k \in DOMAIN pipe' : pipe'[k].id < nextId' /\ pipe'[k].id # 0
      BY <1>0, <2>1, <2>2, <3>1
    <3>3. pc' = "write" => \A k \in DOMAIN pipe' : ~Fits(k)'
      BY <1>0, <2>1, <2>2, <3>1 DEF Fits
    <3> QED
      BY <2>1, <3>2, <3>3 DEF InStep
  <2> QED
    BY <1>2, <2>1, <2>2
<1>8. CASE Send
  <2>1. /\ pc = "write" /\ nextId' = nextId
        /\ pipe' = <<>> \/ (pipe' = pipe /\ pc' = "tee")
    BY <1>8 DEF Send, NoProcess
  <2>2. CASE pipe' = pipe /\ pc' = "tee"
    <3>1. \A k \in DOMAIN pipe : pipe[k].id < nextId /\ pipe[k].id # 0 /\ ~Fits(k)
      BY <2>1 DEF InStep
    <3>2. \A k \in DOMAIN pipe' : pipe'[k].id < nextId' /\ pipe'[k].id # 0 /\ ~Fits(k)'
      BY <2>1, <2>2, <3>1 DEF Fits
    <3> QED
      BY <2>2, <3>2 DEF InStep
  <2> QED
    BY <1>2, <2>1, <2>2
<1>9. CASE Tee
  <2>1. \/ pipe' = <<>>
        \/ pc' = "sent" /\ UNCHANGED <<req, nextId, todo, pipe, outs, report>>
    BY <1>9 DEF Tee, NoProcess
  <2>2. CASE pc' = "sent" /\ UNCHANGED <<req, nextId, todo, pipe, outs, report>>
    <3>1. pc = "tee"
      BY <1>9 DEF Tee
    <3> QED
      BY <2>2, <3>1 DEF InStep, Fits, Compiled, Built
  <2> QED
    BY <1>2, <2>1, <2>2
<1>4. CASE ResidentCompiles
  <2>1. /\ Given /\ todo /\ pc' = pc /\ nextId' = nextId /\ todo' = FALSE
        /\ req' = req
    BY <1>4 DEF ResidentCompiles
  <2>2. \A k \in DOMAIN pipe : pipe[k].id < nextId /\ ~Fits(k)
    BY <2>1 DEF InStep
  <2>3. CASE Write(ByCompile(req)) /\ Reply(0) /\
             report' \in IF report = "absent" THEN {report}
                         ELSE {"filled"} \cup (IF "noreport" \in Faults THEN {report} ELSE {})
    <3>1. Built(ByCompile(req))'
      BY <2>1, <2>3, WriteIsOurs, RequestFields DEF Built, Control
    <3>2. "noreport" \in Faults \/ report' # "empty"
      BY <2>3
    <3>3. Compiled'
      BY <2>1, <3>1, <3>2 DEF Compiled, Built
    <3> QED
      BY <2>1, <2>2, <2>3, <3>3, ReplyFits
  <2>4. CASE Reply(1)
    <3>1. 1 \in {0, 1} /\ (1 = 0 => Compiled')
      OBVIOUS
    <3> QED
      BY <2>1, <2>2, <2>4, <3>1, ReplyFits, Zenon
  <2> QED
    BY <1>4, <2>3, <2>4 DEF ResidentCompiles
<1>5. CASE ResidentDies
  <2>1. /\ UNCHANGED <<pc, req, nextId, pipe>> /\ todo' = FALSE
        /\ UNCHANGED <<outs, report>> \/ todo
    BY <1>5 DEF ResidentDies, CutShort
  <2>2. CASE todo
    <3>1. Given /\ \A k \in DOMAIN pipe : ~Fits(k)
      BY <2>2 DEF InStep, Control
    <3>2. \A k \in DOMAIN pipe' : ~Fits(k)'
      BY <2>1, <3>1 DEF Fits
    <3> QED
      BY <1>0, <2>1, <3>1, <3>2 DEF InStep, Fits
  <2>3. CASE UNCHANGED <<outs, report>>
    BY <2>1, <2>3 DEF InStep, Fits, Compiled, Built
  <2> QED
    BY <2>1, <2>2, <2>3
<1>6. CASE Accept
  <2>1. /\ pc = "sent" /\ pipe # <<>> /\ Head(pipe).id \in {nextId - 1, 0}
        /\ pipe' = Tail(pipe) /\ nextId' = nextId /\ pc' # "sent"
    BY <1>6 DEF Accept, Expected, Finish
  <2>2. /\ pipe \in Seq([id : 0..MaxId, code : {0, 1}]) /\ Head(pipe) = pipe[1]
        /\ Len(pipe) >= 1
    BY <1>0, <2>1, EmptySeq DEF TypeOK
  <2>3. /\ DOMAIN pipe' = 1..(Len(pipe) - 1)
        /\ \A k \in 1..(Len(pipe) - 1) : pipe'[k] = pipe[k + 1]
    BY <1>0, <2>1, <2>2, HeadTailProperties, LenProperties
  <2>4. ASSUME NEW k \in DOMAIN pipe'
        PROVE  pipe'[k].id < nextId' /\ pipe'[k].id # 0
    <3>1. k + 1 \in DOMAIN pipe /\ pipe'[k] = pipe[k + 1] /\ 1 \in 1..((k + 1) - 1)
      BY <1>0, <2>2, <2>3
    <3>2. Fits(1)
      BY <2>1, <2>2 DEF Fits
    <3> QED
      BY <2>1, <3>1, <3>2 DEF InStep
  <2>5. pc' \notin {"write", "tee", "sent"}
    BY <1>6 DEF Accept, Finish
  <2> QED
    BY <2>4, <2>5 DEF InStep
<1>7. CASE UNCHANGED vars
  BY <1>7 DEF vars, InStep, Fits, Compiled, Built
<1> QED
  BY <1>1, <1>2, <1>3, <1>4, <1>5, <1>6, <1>7, <1>8, <1>9
  DEF Next, Work, Elide, Receive, Stock, Unpack, NewReport, Plan, Bail, Rest, OneShot, Deps,
      Answer, EndOfInput, Close, NoProcess, Finish, elide

LEMMA StepInOrder ==
  ASSUME TypeOK, Control, InOrder, [Next]_vars
  PROVE  InOrder'
<1>0. /\ nextId \in Nat /\ nextId >= 1 /\ Len(recorded) \in Nat
      /\ DOMAIN recorded = 1..Len(recorded)
      /\ \A k \in DOMAIN recorded : recorded[k].id \in Nat
  <2>1. recorded \in Seq([id : 1..MaxId, whole : BOOLEAN]) /\ nextId \in 1..(MaxId + 1)
    BY DEF TypeOK
  <2>2. Len(recorded) \in Nat /\ DOMAIN recorded = 1..Len(recorded)
    BY <2>1, LenProperties
  <2>3. \A k \in 1..Len(recorded) : recorded[k] \in [id : 1..MaxId, whole : BOOLEAN]
    BY <2>1, ElementOfSeq
  <2> QED
    BY <2>1, <2>2, <2>3, MaxIdAssumption
<1>1. CASE UNCHANGED <<recorded, taken, nextId>> /\ (pc' = pc \/ pc' \notin {"write", "tee", "sent"})
  BY <1>1 DEF InOrder
<1>2. CASE Start
  <2>1. /\ UNCHANGED <<recorded, taken>> /\ pc = "start"
        /\ \/ pc' = "write" /\ nextId' = nextId + 1
           \/ pc' = "oneshot" /\ nextId' = nextId
    BY <1>2 DEF Start
  <2>2. CASE pc' = "write" /\ nextId' = nextId + 1
    <3>1. \A k \in DOMAIN recorded : recorded[k].id < nextId' - 1
      BY <1>0, <2>2 DEF InOrder
    <3> QED
      BY <1>0, <2>1, <2>2, <3>1 DEF InOrder
  <2>3. CASE pc' = "oneshot" /\ nextId' = nextId
    BY <2>1, <2>3 DEF InOrder
  <2> QED
    BY <2>1, <2>2, <2>3
<1>3. CASE Send
  <2>1. /\ UNCHANGED <<recorded, nextId>> /\ pc = "write" /\ pc' \in {"tee", "oneshot"}
        /\ taken' = IF pc' = "tee" THEN taken \cup {nextId - 1} ELSE taken
    BY <1>3 DEF Send
  <2> QED
    BY <1>0, <2>1 DEF InOrder
<1>4. CASE Tee
  <2>1. /\ UNCHANGED <<taken, nextId>> /\ pc = "tee" /\ pc' \in {"sent", "oneshot"}
        /\ \/ recorded' = recorded /\ pc' = "oneshot"
           \/ recorded' = Append(recorded, Entry(nextId - 1, TRUE))
           \/ recorded' = Append(recorded, Entry(nextId - 1, FALSE)) /\ pc' = "oneshot"
    BY <1>4 DEF Tee
  <2>2. CASE recorded' = recorded /\ pc' = "oneshot"
    BY <2>1, <2>2 DEF InOrder
  <2>3. ASSUME NEW w \in BOOLEAN, recorded' = Append(recorded, Entry(nextId - 1, w)),
               pc' = "sent" => w = TRUE
        PROVE  InOrder'
    <3> DEFINE n == Len(recorded)
               e == Entry(nextId - 1, w)
    <3>1. /\ e.id = nextId - 1
          /\ \A k \in 1..n : recorded[k].id < nextId - 1
          /\ e.id \in taken
      BY <1>0, <2>1 DEF InOrder, Entry
    <3> HIDE DEF e
    <3>2. /\ DOMAIN recorded' = 1..(n + 1) /\ Len(recorded') = n + 1
          /\ \A k \in 1..n : recorded'[k] = recorded[k]
          /\ recorded'[n + 1] = e
      <4>1. recorded' = Append(recorded, e)
        BY <2>3 DEF e
      <4>2. recorded \in Seq([id : 1..MaxId, whole : BOOLEAN])
        BY DEF TypeOK
      <4> QED
        BY <4>1, <4>2
    <3> HIDE DEF n
    <3>3. ASSUME NEW k \in DOMAIN recorded'
          PROVE  /\ recorded'[k].id \in taken' /\ recorded'[k].id < nextId'
                 /\ \A j \in 1..(k - 1) : recorded'[j].id < recorded'[k].id
      <4>1. CASE k \in 1..n
        <5>1. \A j \in 1..(k - 1) : j \in 1..n
          BY <1>0, <4>1 DEF n
        <5> QED
          BY <1>0, <2>1, <3>2, <4>1, <5>1 DEF InOrder, n
      <4>2. CASE k = n + 1
        <5>1. \A j \in 1..(k - 1) : j \in 1..n
          BY <1>0, <4>2 DEF n
        <5> QED
          BY <1>0, <2>1, <3>1, <3>2, <4>2, <5>1
      <4> QED
        BY <1>0, <3>2, <4>1, <4>2 DEF n
    <3>4. pc' = "sent" => recorded' # <<>> /\ recorded'[Len(recorded')] = Entry(nextId' - 1, TRUE)
      <4>1. Len(recorded') # 0 /\ Len(<<>>) = 0
        BY <1>0, <3>2 DEF n
      <4> QED
        BY <2>1, <2>3, <3>2, <4>1 DEF e
    <3> QED
      BY <2>1, <3>3, <3>4 DEF InOrder
  <2>4. recorded' = Append(recorded, Entry(nextId - 1, TRUE)) => InOrder'
    BY <2>3
  <2>5. recorded' = Append(recorded, Entry(nextId - 1, FALSE)) /\ pc' = "oneshot" => InOrder'
    BY <2>3
  <2> QED
    BY <2>1, <2>2, <2>4, <2>5
<1>5. CASE UNCHANGED vars
  BY <1>1, <1>5 DEF vars
<1>6. CASE Receive \/ Stock \/ Unpack \/ NewReport \/ Plan
  BY <1>1, <1>6 DEF Receive, Stock, Unpack, NewReport, Plan, Finish, elide
<1>7. CASE ResidentCompiles \/ ResidentDies \/ Accept \/ Bail
  BY <1>1, <1>7 DEF ResidentCompiles, ResidentDies, Accept, Bail, Finish
<1>8. CASE Rest \/ OneShot \/ Deps \/ Answer \/ EndOfInput \/ Close
  BY <1>1, <1>8 DEF Rest, OneShot, Deps, Answer, EndOfInput, Close, Finish, elide
<1> QED
  BY <1>2, <1>3, <1>4, <1>5, <1>6, <1>7, <1>8 DEF Next, Work, Elide

(* Every variable keeps its type, and a request is in hand wherever one is *)
(* needed; the ids and the pipe of the resident stay in step, so that no   *)
(* response fits but the one to the request sent.                          *)
THEOREM TypeCorrect == Spec => [](TypeOK /\ Control /\ InStep)
<1>1. Init => TypeOK /\ Control /\ InStep
  <2> SUFFICES ASSUME Init
               PROVE  TypeOK /\ Control /\ InStep
    OBVIOUS
  <2>1. outs \in [Outputs -> [Artifacts -> Builds \cup {None}]]
    BY DEF Init, Blank
  <2>2. /\ pipe \in Seq([id : 0..MaxId, code : {0, 1}])
        /\ recorded \in Seq([id : 1..MaxId, whole : BOOLEAN])
    BY EmptySeq DEF Init
  <2>3. nextId \in 1..(MaxId + 1)
    BY MaxIdAssumption DEF Init
  <2>4. pc = "read" /\ pipe = <<>> /\ todo = FALSE /\ leaked = FALSE
    BY DEF Init
  <2>5. TypeOK
    BY <2>1, <2>2, <2>3 DEF Init, TypeOK
  <2>6. Control
    BY <2>4 DEF Init, Control
  <2>7. InStep
    BY <2>4 DEF InStep, Given
  <2> QED
    BY <2>5, <2>6, <2>7
<1>2. TypeOK /\ Control /\ InStep /\ [Next]_vars => TypeOK' /\ Control'
  BY StepTypes
<1>3. TypeOK /\ Control /\ InStep /\ [Next]_vars => InStep'
  BY StepInStep
<1> QED
  BY <1>1, <1>2, <1>3, PTL DEF Spec

(* From the try of line 75 on, whatever fails, both temporaries of a       *)
(* request are gone before the next one is read; a directory outlives its  *)
(* request only where temporary files cannot be created.                   *)
THEOREM TempsAreRemoved == Spec => [](TryCleansUp /\ (leaked => "temp" \in Faults))
<1>1. TypeOK /\ Control => TryCleansUp /\ (leaked => "temp" \in Faults)
  BY DEF Control, TryCleansUp
<1> QED
  BY <1>1, TypeCorrect, PTL

(* The record lists, in the order they were sent, requests that a process  *)
(* took, and among them the one whose response is awaited: whatever        *)
(* processes die or are replaced, and however often the file fails.        *)
THEOREM RecordIsOfSent == Spec => []RecordedWasSent
<1>1. Init => InOrder
  BY DEF Init, InOrder
<1>2. TypeOK /\ Control /\ InOrder /\ [Next]_vars => InOrder'
  BY StepInOrder
<1>3. InOrder => RecordedWasSent
  BY DEF InOrder, RecordedWasSent
<1> QED
  BY <1>1, <1>2, <1>3, TypeCorrect, PTL DEF Spec

---------------------------------------------------------------------------
(* What has been built when a request gets its exit code.                  *)

LEMMA StepProgress ==
  ASSUME TypeOK, Control, InStep, Progress, ReportRead, [Next]_vars
  PROVE  Progress' /\ ReportRead'
<1> USE DEF Progress, ReportRead
<1>1. CASE pc' \notin {"rest", "deps", "answer"} /\ depsKind' = depsKind
  BY <1>1
<1>2. CASE pc' = "answer" /\ code' = 1 /\ depsKind' = depsKind
  BY <1>2
<1>3. CASE Stock
  <2>1. /\ pc = "handle" /\ req' = req /\ depsKind' = depsKind /\ pc' = "answer"
        /\ Write(Wanted(req)) \/ code' = 1
    BY <1>3 DEF Stock, Finish
  <2>2. code' = 0 => Built(Wanted(req))'
    BY <2>1, WriteIsOurs, RequestFields DEF Control, Built
  <2> QED
    BY <2>1, <2>2
<1>4. CASE Accept
  <2>1. /\ pc = "sent" /\ pipe # <<>> /\ Head(pipe).id \in {nextId - 1, 0}
        /\ UNCHANGED <<req, outs, depsKind>>
    BY <1>4 DEF Accept, Expected, written
  <2>2. \/ pc' = "answer" /\ code' = 1
        \/ /\ Head(pipe).code = 0 /\ report' = report
           /\ pc' = IF req.srcjar THEN "rest" ELSE "deps"
    BY <1>4 DEF Accept, Finish, temps
  <2>3. 1 \in DOMAIN pipe /\ Head(pipe) = pipe[1]
    BY <2>1, PipeFacts, EmptySeq DEF TypeOK
  <2>4. Head(pipe).code = 0 => Compiled
    BY <2>1, <2>3 DEF InStep, Fits, Given
  <2>5. Head(pipe).code = 0 /\ report' = report => Compiled'
    BY <2>1, <2>4 DEF Compiled, Built
  <2>6. ~req.srcjar => Built(BySrcjar(req))'
    BY <2>1 DEF Built, BySrcjar, Wanted, ByCompile
  <2> QED
    BY <2>1, <2>2, <2>5, <2>6
<1>5. CASE Rest
  <2>1. pc = "rest" /\ UNCHANGED <<req, depsKind>>
    BY <1>5 DEF Rest
  <2>2. \/ Write(BySrcjar(req)) /\ pc' = "deps" /\ report' = report
        \/ pc' = "answer" /\ code' = 1
        \/ pc' = "oneshot"
    BY <1>5 DEF Rest, Finish, temps
  <2>3. CASE Write(BySrcjar(req)) /\ pc' = "deps" /\ report' = report
    <3>1. req \in Requests /\ OnlyOurs
          /\ \A a \in BySrcjar(req) \cap Artifacts : outs'[req.out][a] = req.build
      BY <2>1, <2>3, WriteIsOurs DEF Control
    <3>2. Built(BySrcjar(req))'
      BY <2>1, <3>1, RequestFields DEF Built
    <3>3. Built(ByCompile(req))'
      BY <2>1, <3>1, RequestFields, BuiltStays DEF Compiled, Built
    <3> QED
      BY <2>1, <2>3, <3>2, <3>3 DEF Compiled, Built
  <2> QED
    BY <1>1, <2>1, <2>2, <2>3
<1>6. CASE OneShot
  <2>1. pc = "oneshot" /\ UNCHANGED <<req, depsKind>>
    BY <1>6 DEF OneShot
  <2>2. \/ /\ Write(ByCompile(req) \cup BySrcjar(req)) /\ pc' = "deps"
           /\ "noreport" \in Faults \/ report' # "empty"
        \/ pc' = "answer" /\ code' = 1
    BY <1>6 DEF OneShot, Finish
  <2>3. CASE Write(ByCompile(req) \cup BySrcjar(req)) /\ pc' = "deps" /\
             ("noreport" \in Faults \/ report' # "empty")
    <3>1. /\ req \in Requests
          /\ \A a \in (ByCompile(req) \cup BySrcjar(req)) \cap Artifacts :
               outs'[req.out][a] = req.build
      BY <2>1, <2>3, WriteIsOurs DEF Control
    <3>2. Built(BySrcjar(req))' /\ Built(ByCompile(req))'
      BY <2>1, <3>1, RequestFields DEF Built
    <3> QED
      BY <2>1, <2>3, <3>2 DEF Compiled, Built
  <2> QED
    BY <1>2, <2>1, <2>2, <2>3
<1>7. CASE Deps
  <2>1. pc = "deps" /\ pc' = "answer" /\ req' = req /\ req \in Requests
    BY <1>7 DEF Deps, Finish, Control
  <2>2. \/ code' = 1
        \/ req.jdeps \in {"none", "native"} /\ outs' = outs
        \/ Write({"jdeps"})
    BY <1>7 DEF Deps, Finish, written
  <2>3. Wanted(req) \subseteq ByCompile(req) \cup BySrcjar(req) \cup {"jdeps"}
        /\ (req.jdeps \in {"none", "native"} =>
              Wanted(req) \subseteq ByCompile(req) \cup BySrcjar(req))
    BY DEF Wanted, ByCompile, BySrcjar
  <2>4. ASSUME req.jdeps \in {"none", "native"}, outs' = outs
        PROVE  Progress'
    BY <2>1, <2>3, <2>4 DEF Compiled, Built
  <2>5. ASSUME Write({"jdeps"})
        PROVE  Progress'
    <3>1. OnlyOurs /\ outs'[req.out]["jdeps"] = req.build
      BY <2>1, <2>5, WriteIsOurs DEF Artifacts
    <3>2. Built(ByCompile(req))' /\ Built(BySrcjar(req))'
      BY <2>1, <3>1, RequestFields, BuiltStays DEF Compiled, Built
    <3> QED
      BY <2>1, <2>3, <3>1, <3>2 DEF Built
  <2>6. ReportRead'
    <3>1. depsKind' = depsKind \/ (depsKind' = "allunused" => report = "empty")
      BY <1>7 DEF Deps, written, TypeOK
    <3> QED
      BY <2>1, <3>1 DEF Compiled
  <2> QED
    BY <2>1, <2>2, <2>4, <2>5, <2>6
<1>8. CASE Unpack \/ NewReport \/ Plan
  BY <1>1, <1>2, <1>8 DEF Unpack, NewReport, Plan, Finish, written
<1>9. CASE ResidentDies
  BY <1>1, <1>9 DEF ResidentDies
<1>10. CASE UNCHANGED vars
  BY <1>10 DEF vars, Compiled, Built
<1>11. CASE Receive \/ Start \/ Send \/ Tee \/ ResidentCompiles \/ Bail
  BY <1>1, <1>11 DEF Receive, Start, Send, Tee, ResidentCompiles, Bail, written
<1>12. CASE Answer \/ EndOfInput \/ Close
  BY <1>1, <1>12 DEF Answer, EndOfInput, Close, written
<1> QED
  BY <1>3, <1>4, <1>5, <1>6, <1>7, <1>8, <1>9, <1>10, <1>11, <1>12
  DEF Next, Work, Elide

THEOREM ProgressKept == Spec => [](TypeOK /\ Control /\ InStep /\ Progress /\ ReportRead)
<1>1. Init => Progress /\ ReportRead
  BY DEF Init, Progress, ReportRead
<1>3. TypeOK /\ Control /\ InStep /\ Progress /\ ReportRead /\ [Next]_vars
        => Progress' /\ ReportRead'
  BY StepProgress
<1> QED
  BY <1>1, <1>3, TypeCorrect, PTL DEF Spec

(* Jdeps that call every dependency unused come from a compiler that wrote *)
(* no report, and from nothing else.                                       *)
THEOREM UnusedOnlyWithoutReport ==
  ASSUME "noreport" \notin Faults
  PROVE  Spec => []StubWithoutReport
<1>1. ReportRead => StubWithoutReport
  BY DEF ReportRead, StubWithoutReport
<1> QED
  BY <1>1, ProgressKept, PTL

---------------------------------------------------------------------------
(* The builder as the service it promises to be.                           *)

LEMMA StepServes ==
  ASSUME TypeOK, Control, Progress, [Next]_vars
  PROVE  [Service!Next]_(Service!cvars)
<1> USE DEF Service!cvars
<1>0. None \notin Requests
  BY RequestsAssumption
<1>1. ASSUME pc \notin {"read", "down"}, pc' \notin {"read", "down"}, req' = req,
             answer' = answer, outs' = outs \/ (req \in Requests /\ OnlyOurs)
      PROVE  [Service!Next]_(Service!cvars)
  <2>1. CASE outs' = outs
    BY <1>1, <2>1
  <2>2. CASE req \in Requests /\ OnlyOurs
    <3>1. DOMAIN outs = Outputs /\ DOMAIN outs' = Outputs
      BY <2>2 DEF OnlyOurs, TypeOK
    <3>2. Service!Work
      BY <1>0, <1>1, <2>2, <3>1 DEF Service!Work, OnlyOurs
    <3> QED
      BY <3>2 DEF Service!Next
  <2> QED
    BY <1>1, <2>1, <2>2
<1>2. CASE Receive
  <2>1. Service!Submit
    BY <1>2 DEF Receive, Service!Submit, written
  <2> QED
    BY <2>1 DEF Service!Next
<1>3. CASE Stock \/ Rest \/ OneShot \/ Deps
  <2>1. /\ pc \in {"handle", "rest", "oneshot", "deps"} /\ pc' \in {"answer", "deps", "oneshot"}
        /\ req' = req /\ answer' = answer
        /\ outs' = outs \/ \E a : Write(a)
    BY <1>3 DEF Stock, Rest, OneShot, Deps, Finish, WriteSome, written
  <2>2. req \in Requests
    BY <2>1 DEF Control
  <2>3. outs' = outs \/ OnlyOurs
    BY <2>1, <2>2, WriteIsOurs
  <2> QED
    BY <1>1, <2>1, <2>2, <2>3
<1>4. CASE Tee \/ Bail \/ ResidentCompiles
  <2>1. /\ pc \in {"tee", "sent"} /\ pc' \in {"tee", "sent", "oneshot"}
        /\ req' = req /\ answer' = answer
        /\ outs' = outs \/ \E a : Write(a)
    BY <1>4 DEF Tee, Bail, ResidentCompiles, CutShort, WriteSome
  <2>2. req \in Requests
    BY <2>1 DEF Control
  <2>3. outs' = outs \/ OnlyOurs
    BY <2>1, <2>2, WriteIsOurs
  <2> QED
    BY <1>1, <2>1, <2>2, <2>3
<1>5. CASE ResidentDies
  <2>1. /\ pc' = pc /\ req' = req /\ answer' = answer
        /\ outs' = outs \/ (todo /\ \E a : Write(a))
    BY <1>5 DEF ResidentDies, CutShort, WriteSome
  <2>2. CASE outs' = outs
    BY <2>1, <2>2
  <2>3. CASE todo /\ \E a : Write(a)
    BY <1>1, <2>1, <2>3, WriteIsOurs DEF Control, Given
  <2> QED
    BY <2>1, <2>2, <2>3
<1>6. CASE Unpack \/ NewReport \/ Plan \/ Start \/ Send \/ Accept
  <2>1. /\ pc \notin {"read", "down"} /\ pc' \notin {"read", "down"}
        /\ req' = req /\ answer' = answer /\ outs' = outs
    BY <1>6 DEF Unpack, NewReport, Plan, Start, Send, Accept, Finish, written
  <2> QED
    BY <1>1, <2>1
<1>7. CASE Answer
  <2>1. /\ pc = "answer" /\ pc' = "read" /\ answer' = [id |-> req.id, code |-> code]
        /\ outs' = outs /\ req \in Requests /\ code \in {0, 1}
    BY <1>7 DEF Answer, written, Control, TypeOK
  <2>2. CASE code = 1
    <3>1. Service!Fail
      BY <1>0, <2>1, <2>2 DEF Service!Fail
    <3> QED
      BY <3>1 DEF Service!Next
  <2>3. CASE code = 0
    <3>1. Good(req, outs[req.out]) /\ req.out \in Outputs
      BY <2>1, <2>3, RequestFields DEF Progress, Built, Good
    <3>2. Service!Succeed
      BY <1>0, <2>1, <2>3, <3>1 DEF Service!Succeed
    <3> QED
      BY <3>2 DEF Service!Next
  <2> QED
    BY <2>1, <2>2, <2>3
<1>8. CASE EndOfInput
  BY <1>8 DEF EndOfInput, Control, written
<1>9. CASE Close
  <2>1. pc = "close" /\ pc' = "down" /\ answer' = answer /\ outs' = outs
    BY <1>9 DEF Close, written
  <2>2. CASE req = None
    BY <2>1, <2>2
  <2>3. CASE req # None
    <3>1. Service!Die
      BY <2>1, <2>3 DEF Service!Die
    <3> QED
      BY <3>1 DEF Service!Next
  <2> QED
    BY <2>2, <2>3
<1>10. CASE UNCHANGED vars
  BY <1>10 DEF vars
<1> QED
  BY <1>2, <1>3, <1>4, <1>5, <1>6, <1>7, <1>8, <1>9, <1>10 DEF Next, Work, Elide

(* Seen from Bazel the builder is a service that answers a request once,   *)
(* under its id, writes its outputs only, and says success when each was   *)
(* built from it: whatever the resident does with the request, with        *)
(* earlier ones or with its responses.                                     *)
THEOREM BuilderImplementsService == Spec => ImplementsService
<1>1. Init => Service!Init
  BY DEF Init, Service!Init
<1>2. TypeOK /\ Control /\ Progress /\ [Next]_vars => [Service!Next]_(Service!cvars)
  BY StepServes
<1> QED
  BY <1>1, <1>2, ProgressKept, PTL DEF Spec, ImplementsService, Service!Spec

=============================================================================
