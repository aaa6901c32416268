-------------------------- MODULE ICShutdown_proof --------------------------
(***************************************************************************)
(* The end of a worker, for any set of class files, any number of requests *)
(* and any interleaving of the main thread with the shutdown hook.         *)
(***************************************************************************)
EXTENDS ICShutdown, TLAPS

---------------------------------------------------------------------------
(* The invariant.                                                          *)
Places ==
  {"read", "prepare", "start", "send", "write", "reply", "forget", "walk", "copy", "answer",
   "catch", "destroy", "wipe", "remake", "lock", "check", "shut", "wait", "kill", "end",
   "reset", "delete", "leave", "unhook", "exit", "off", "done"}
Closing == {"check", "shut", "wait", "kill", "end", "reset", "delete", "leave"}
Paths == {Scratch} \cup UNION {{Target(n)} \cup ClassFiles(n) : n \in 1..MaxRequests}

\* Where each thread can be, and what it has there.
Control ==
  /\ pc["main"] \notin {"off", "done"}
  /\ pc["hook"] \in {"off", "lock", "done"} \cup Closing
  /\ pc["main"] \in {"prepare", "start"} => count # 0
  /\ pc["main"] \in {"start", "send", "write", "reply", "walk", "copy"} => kept # 0
  /\ pc["main"] = "exit" => pc["hook"] = "off"

Exclusive ==
  /\ lock = {t \in Threads : Inside(t)}
  /\ ~(Inside("main") /\ Inside("hook"))

\* Before the signal, no compiler process but the one the field names.
OneCompiler ==
  pc["hook"] = "off" =>
    /\ compiler = own /\ live \subseteq {compiler} \ {0}
    /\ pc["main"] = "end" => at["main"] = compiler /\ compiler # 0
    /\ pc["main"] \in {"wipe", "reset"} => live = {}
    /\ pc["main"] \in {"delete", "unhook", "exit"} => compiler = 0
    /\ pc["main"] # "leave"

(* Unless the main thread worked on after the signal, remove(scratch) is   *)
(* alone with the directory: what it has to delete is what is there.       *)
Cleaning ==
  ~late =>
    /\ Signalled => ~Working
    /\ \A t \in Threads : pc[t] = "delete" => todo[t] = fs
    /\ \A t \in Threads : pc[t] # "leave" /\ (pc[t] = "end" => at[t] # 0 /\ compiler # 0)
    /\ pc["hook"] \notin {"delete", "done"} => compiler = own
    /\ pc["hook"] = "done" \/ pc["main"] \in {"unhook", "exit"} => fs = {}

---------------------------------------------------------------------------
(* Types.                                                                  *)

\* A thread moves alone, and work after the signal makes the end late.
LEMMA GotoFacts ==
  ASSUME TypeOK, NEW t \in Threads, NEW l \in Places, Goto(t, l)
  PROVE  /\ pc' \in [Threads -> Places] /\ pc'[t] = l
         /\ \A u \in Threads : u # t => pc'[u] = pc[u]
         /\ pc["hook"] # "done" /\ pc["main"] # "exit"
         /\ late' \in BOOLEAN
         /\ ~late' => ~late /\ ~(Signalled /\ Working) /\ ~(Signalled' /\ Working')
<1>1. pc \in [Threads -> Places]
  BY DEF TypeOK, Places
<1>2. pc' = [pc EXCEPT ![t] = l] /\ pc["hook"] # "done" /\ pc["main"] # "exit"
  BY DEF Goto, Halted
<1>3. late' = (late \/ (Signalled /\ Working) \/ (Signalled' /\ Working'))
  BY DEF Goto
<1>4. late' \in BOOLEAN
  BY <1>3
<1>5. ~late' => ~late /\ ~(Signalled /\ Working) /\ ~(Signalled' /\ Working')
  BY <1>3
<1> QED
  BY <1>1, <1>2, <1>4, <1>5

\* The paths of a target are among those of the scratch directory.
LEMMA PathsOf ==
  ASSUME NEW n \in 1..MaxRequests
  PROVE  Target(n) \in Paths /\ ClassFiles(n) \subseteq Paths /\ Scratch \in Paths
BY DEF Paths

\* What a thread reads in the field names a process, or is null.
LEMMA ReadsType ==
  ASSUME TypeOK, NEW t \in Threads
  PROVE  Reads(t) \subseteq 0..MaxRequests
BY MaxRequestsAssumption DEF Reads, TypeOK

\* What is left of the type when the program counters are accounted for.
Rest ==
  /\ lock \subseteq Threads
  /\ compiler \in 0..MaxRequests /\ own \in 0..MaxRequests
  /\ live \subseteq 1..MaxRequests /\ closing \subseteq 0..MaxRequests
  /\ at \in [Threads -> 0..MaxRequests]
  /\ reply \in {"none", "success", "error", "mismatch"}
  /\ fs \subseteq Paths /\ todo \in [Threads -> SUBSET Paths]
  /\ kept \in 0..MaxRequests /\ count \in 0..MaxRequests
  /\ found \subseteq Classes /\ jar \subseteq Classes
  /\ answer \in {"none", "success", "error"}

LEMMA MainTypes ==
  ASSUME TypeOK, Control,
         \/ Prepare \/ Start \/ Send \/ Write \/ WriteFails \/ Reply \/ Forget \/ Walk
         \/ Copy \/ Answer \/ Catch \/ Destroy \/ Wipe \/ Remake \/ Unhook \/ Receive
         \/ EndOfInput
  PROVE  TypeOK' /\ Control'
<1>1. Rest /\ MaxRequests \in Nat
  BY MaxRequestsAssumption DEF TypeOK, Rest, Paths
<1>2. ASSUME NEW l \in Places, Goto("main", l), Rest', l \notin {"off", "done"},
             l \in {"prepare", "start"} => count' # 0,
             l \in {"start", "send", "write", "reply", "walk", "copy"} => kept' # 0,
             l = "exit" => pc["hook"] = "off"
      PROVE  TypeOK' /\ Control'
  <2>1. /\ pc' \in [Threads -> Places] /\ pc'["main"] = l /\ pc'["hook"] = pc["hook"]
        /\ late' \in BOOLEAN
    BY <1>2, GotoFacts DEF Threads
  <2> QED
    BY <1>2, <2>1 DEF TypeOK, Rest, Paths, Places, Control, Closing
<1>3. CASE Prepare
  <2>1. count \in 1..MaxRequests
    BY <1>1, <1>3 DEF Prepare, Control, Rest
  <2>2. CASE kept = 0 /\ Scratch \notin fs
    <3>1. Goto("main", "answer") /\ Rest'
      BY <1>1, <1>3, <2>2 DEF Prepare, Rest, field, processes, pipe, output
    <3> QED
      BY <1>2, <3>1 DEF Places
  <2>3. CASE ~(kept = 0 /\ Scratch \notin fs)
    <3>1. /\ Goto("main", "start") /\ kept' = IF kept = 0 THEN count ELSE kept
          /\ fs' = fs \cup {Scratch, Target(kept')}
          /\ UNCHANGED <<lock, compiler, own, live, closing, at, reply, todo, found, jar, answer, count>>
      BY <1>3, <2>3 DEF Prepare, field, processes, pipe, output
    <3>2. kept' \in 1..MaxRequests
      BY <1>1, <2>1, <3>1 DEF Rest
    <3>3. fs' \subseteq Paths
      BY <1>1, <3>1, <3>2, PathsOf DEF Rest
    <3>4. Rest'
      BY <1>1, <3>1, <3>2, <3>3 DEF Rest
    <3>5. count' # 0 /\ kept' # 0
      BY <2>1, <3>1, <3>2
    <3> QED
      BY <1>2, <3>1, <3>4, <3>5 DEF Places
  <2> QED
    BY <2>2, <2>3
<1>4. CASE Start
  <2>1. /\ Goto("main", "send") /\ kept # 0 /\ count \in 1..MaxRequests
    BY <1>1, <1>4 DEF Start, Control, Rest
  <2>2. Rest' /\ kept' = kept
    BY <1>1, <1>4, <2>1 DEF Start, Rest, field, pipe, output
  <2> QED
    BY <1>2, <2>1, <2>2 DEF Places
<1>5. CASE Send \/ Write \/ WriteFails
  <2>1. kept # 0 /\ 0 \in 0..MaxRequests /\ Reads("main") \subseteq 0..MaxRequests
    BY <1>1, <1>5, ReadsType DEF Send, Write, WriteFails, Control, Threads
  <2>2. \/ at' = at
        \/ \E c \in 0..MaxRequests : at' = [at EXCEPT !["main"] = c]
    BY <1>5, <2>1 DEF Send, Write, WriteFails, pipe
  <2>3. UNCHANGED <<lock, compiler, own, live, closing, reply, fs, todo, kept, found, jar, answer, count>>
    BY <1>5 DEF Send, Write, WriteFails, field, processes, pipe, output
  <2>4. Rest' /\ kept' = kept
    BY <1>1, <2>2, <2>3 DEF Rest
  <2>5. Goto("main", "write") \/ Goto("main", "reply") \/ Goto("main", "catch")
    BY <1>5 DEF Send, Write, WriteFails
  <2> QED
    BY <1>2, <2>1, <2>4, <2>5 DEF Places
<1>16. CASE Reply
  <2>1. kept # 0 /\ 0 \in 0..MaxRequests
    BY <1>1, <1>16 DEF Reply, Control
  <2>2. /\ at' = [at EXCEPT !["main"] = 0] /\ reply' = "none"
        /\ UNCHANGED <<lock, compiler, own, live, closing, fs, found, jar, answer, count>>
    BY <1>16 DEF Reply, field, processes, output
  <2>3. \/ Goto("main", "walk") /\ UNCHANGED <<todo, kept>>
        \/ Goto("main", "catch") /\ UNCHANGED <<todo, kept>>
        \/ /\ Goto("main", "forget") /\ kept' = 0
           /\ todo' = [todo EXCEPT !["main"] = {p \in fs : p[1] = kept}]
    BY <1>16 DEF Reply
  <2>4. todo' \in [Threads -> SUBSET Paths] /\ kept' \in 0..MaxRequests
    BY <1>1, <2>1, <2>3 DEF Rest
  <2>6. at' \in [Threads -> 0..MaxRequests] /\ reply' \in {"none", "success", "error", "mismatch"}
    BY <1>1, <2>1, <2>2 DEF Rest
  <2>5. Rest'
    BY <1>1, <2>2, <2>4, <2>6 DEF Rest
  <2> QED
    BY <1>2, <2>1, <2>3, <2>5 DEF Places
<1>17. CASE Forget
  <2>1. Goto("main", "answer") /\ Rest'
    BY <1>1, <1>17 DEF Forget, Rest, field, processes, pipe, output
  <2> QED
    BY <1>2, <2>1 DEF Places
<1>6. CASE Walk
  <2>1. kept # 0 /\ (Goto("main", "copy") \/ Goto("main", "catch"))
    BY <1>6 DEF Walk, Control
  <2>2. Rest' /\ kept' = kept
    BY <1>1, <1>6 DEF Walk, Rest, field, processes, pipe
  <2> QED
    BY <1>2, <2>1, <2>2 DEF Places
<1>7. CASE Copy
  <2>1. Goto("main", "answer") \/ Goto("main", "catch")
    BY <1>7 DEF Copy
  <2>2. Rest'
    BY <1>1, <1>7 DEF Copy, Rest, field, processes, pipe
  <2> QED
    BY <1>2, <2>1, <2>2 DEF Places
<1>8. CASE Answer
  <2>1. Goto("main", "read") /\ Rest'
    BY <1>1, <1>8 DEF Answer, Rest, field, processes, pipe, output
  <2> QED
    BY <1>2, <2>1 DEF Places
<1>9. CASE Catch
  <2>1. Goto("main", "wipe") \/ Goto("main", "destroy")
    BY <1>9 DEF Catch
  <2>2. Rest'
    BY <1>1, <1>9 DEF Catch, Rest, field, processes, pipe, output
  <2> QED
    BY <1>2, <2>1, <2>2 DEF Places
<1>10. CASE Destroy
  <2>1. Goto("main", "answer") \/ Goto("main", "wipe")
    BY <1>10 DEF Destroy
  <2>2. Rest'
    BY <1>1, <1>10 DEF Destroy, Rest, field, pipe, output
  <2> QED
    BY <1>2, <2>1, <2>2 DEF Places
<1>11. CASE Wipe
  <2>1. /\ Goto("main", "remake") /\ compiler' = 0 /\ own' = 0
        /\ todo' = [todo EXCEPT !["main"] = fs]
        /\ UNCHANGED <<lock, live, closing, at, reply, fs, kept, found, jar, answer, count>>
    BY <1>11 DEF Wipe, processes, pipe, output
  <2>2. todo' \in [Threads -> SUBSET Paths] /\ 0 \in 0..MaxRequests
    BY <1>1, <2>1 DEF Rest, Threads
  <2>3. Rest'
    BY <1>1, <2>1, <2>2 DEF Rest
  <2> QED
    BY <1>2, <2>1, <2>3 DEF Places
<1>12. CASE Remake
  <2>1. Goto("main", "answer") /\ Rest'
    BY <1>1, <1>12 DEF Remake, Rest, field, processes, pipe, output, Paths
  <2> QED
    BY <1>2, <2>1 DEF Places
<1>13. CASE Unhook
  <2>1. Goto("main", "exit") /\ Rest' /\ pc["hook"] = "off"
    BY <1>1, <1>13 DEF Unhook, Signalled, Rest, field, processes, pipe, output
  <2> QED
    BY <1>2, <2>1 DEF Places
<1>14. CASE Receive
  <2>1. Goto("main", "prepare") /\ count' = count + 1 /\ count < MaxRequests
    BY <1>14 DEF Receive
  <2>2. Rest' /\ count' # 0
    BY <1>1, <1>14, <2>1 DEF Receive, Rest, field, processes, pipe, output
  <2> QED
    BY <1>2, <2>1, <2>2 DEF Places
<1>15. CASE EndOfInput
  <2>1. Goto("main", "lock") /\ Rest'
    BY <1>1, <1>15 DEF EndOfInput, Rest, field, processes, pipe, output
  <2> QED
    BY <1>2, <2>1 DEF Places
<1> QED
  BY <1>3, <1>4, <1>5, <1>6, <1>7, <1>8, <1>9, <1>10, <1>11, <1>12, <1>13, <1>14, <1>15,
     <1>16, <1>17

LEMMA CloseTypes ==
  ASSUME TypeOK, Control, NEW t \in Threads, Close(t)
  PROVE  TypeOK' /\ Control'
<1>1. Rest /\ MaxRequests \in Nat
  BY MaxRequestsAssumption DEF TypeOK, Rest, Paths
<1>2. ASSUME NEW l \in Places, Goto(t, l), Rest', UNCHANGED <<count, kept>>,
             l \in Closing
             \/ (t = "main" /\ l \in {"answer", "remake", "forget", "catch", "unhook"})
             \/ (t = "hook" /\ l = "done")
      PROVE  TypeOK' /\ Control'
  <2>1. /\ pc' \in [Threads -> Places] /\ pc'[t] = l /\ late' \in BOOLEAN
        /\ \A u \in Threads : u # t => pc'[u] = pc[u]
    BY <1>2, GotoFacts
  <2>2. TypeOK'
    BY <1>2, <2>1 DEF TypeOK, Rest, Paths, Places
  <2>3. count' = count /\ kept' = kept /\ l \notin {"off", "prepare", "start", "send", "write", "reply", "walk", "copy", "exit"}
    BY <1>2 DEF Closing
  <2>4. CASE t = "main"
    <3>1. pc'["main"] = l /\ pc'["hook"] = pc["hook"] /\ l # "done"
      BY <1>2, <2>1, <2>4 DEF Threads, Closing
    <3> QED
      BY <2>2, <2>3, <3>1 DEF Control
  <2>5. CASE t = "hook"
    <3>1. /\ pc'["main"] = pc["main"] /\ pc["main"] # "exit"
          /\ pc'["hook"] \in {"done"} \cup Closing
      BY <1>2, <2>1, <2>5, GotoFacts DEF Threads
    <3> QED
      BY <2>2, <2>3, <3>1 DEF Control
  <2> QED
    BY <2>2, <2>4, <2>5 DEF Threads
<1>3. CASE Lock(t)
  <2>1. Goto(t, "check") /\ Rest' /\ UNCHANGED <<count, kept>>
    BY <1>1, <1>3 DEF Lock, Rest, field, processes, pipe, output
  <2> QED
    BY <1>2, <2>1 DEF Places, Closing
<1>4. CASE Check(t) \/ Kill(t)
  <2>1. PICK c \in Reads(t) : at' = [at EXCEPT ![t] = c]
    BY <1>4 DEF Check, Kill
  <2>2. at' \in [Threads -> 0..MaxRequests]
    BY <1>1, <2>1, ReadsType DEF Rest
  <2>3. UNCHANGED <<lock, compiler, own, live, closing, reply, fs, todo, kept, found, jar, answer, count>>
    BY <1>4 DEF Check, Kill, field, processes, output
  <2>4. Rest' /\ UNCHANGED <<count, kept>>
    BY <1>1, <2>2, <2>3 DEF Rest
  <2>5. \/ Goto(t, "kill") \/ Goto(t, "shut") \/ Goto(t, "reset") \/ Goto(t, "end")
    BY <1>4 DEF Check, Kill
  <2> QED
    BY <1>2, <2>4, <2>5 DEF Places, Closing
<1>5. CASE Wait(t)
  <2>1. Goto(t, "kill") /\ Rest' /\ UNCHANGED <<count, kept>>
    BY <1>1, <1>5 DEF Wait, Rest, field, processes, pipe, output
  <2> QED
    BY <1>2, <2>1 DEF Places, Closing
<1>6. CASE Reset(t)
  <2>2. /\ Goto(t, "delete") /\ compiler' = 0 /\ own' \in {0, own}
        /\ todo' = [todo EXCEPT ![t] = fs]
        /\ UNCHANGED <<lock, live, closing, at, reply, fs, kept, found, jar, answer, count>>
    BY <1>6 DEF Reset, processes, pipe, output
  <2>3. todo' \in [Threads -> SUBSET Paths] /\ 0 \in 0..MaxRequests
    BY <1>1, <2>2 DEF Rest
  <2>4. Rest' /\ UNCHANGED <<count, kept>>
    BY <1>1, <2>2, <2>3 DEF Rest
  <2> QED
    BY <1>2, <2>2, <2>4 DEF Places, Closing
<1>9. CASE Shut(t) \/ End(t)
  <2>1. /\ at' = [at EXCEPT ![t] = 0]
        /\ closing' \subseteq closing \cup {at[t]} /\ live' \subseteq live
        /\ UNCHANGED <<lock, compiler, own, reply, fs, todo, kept, found, jar, answer, count>>
    BY <1>9 DEF Shut, End, field, output
  <2>2. at' \in [Threads -> 0..MaxRequests]
    BY <1>1, <2>1 DEF Rest
  <2>3. closing' \subseteq 0..MaxRequests
    BY <1>1, <2>1 DEF Rest
  <2>4. Rest' /\ UNCHANGED <<count, kept>>
    BY <1>1, <2>1, <2>2, <2>3 DEF Rest
  <2>5. Goto(t, "wait") \/ Goto(t, "leave") \/ Goto(t, "reset")
    BY <1>9 DEF Shut, End
  <2> QED
    BY <1>2, <2>4, <2>5 DEF Places, Closing
<1>7. CASE Delete(t)
  <2>1. PICK p \in todo[t] :
          IF p \in fs /\ Children(p) = {}
          THEN /\ fs' = fs \ {p}
               /\ todo' = [todo EXCEPT ![t] = @ \ {p}]
               /\ Goto(t, pc[t])
               /\ UNCHANGED answer
          ELSE /\ todo' = [todo EXCEPT ![t] = {}]
               /\ \/ pc[t] = "remake" /\ Goto(t, "answer") /\ answer' = "error"
                  \/ pc[t] = "forget" /\ Goto(t, "catch") /\ UNCHANGED answer
                  \/ pc[t] = "delete" /\ Goto(t, "delete") /\ UNCHANGED answer
               /\ UNCHANGED fs
    BY <1>7 DEF Delete
  <2>2. /\ UNCHANGED <<lock, compiler, own, live, closing, at, reply, kept, found, jar, count>>
        /\ pc[t] \in {"delete", "remake", "forget"}
        /\ pc[t] \in {"remake", "forget"} => t = "main"
    BY <1>7 DEF Delete, field, processes, pipe, output, Control, Threads, Closing
  <2>3. Rest'
    BY <1>1, <2>1, <2>2 DEF Rest
  <2>4. \/ Goto(t, pc[t])
        \/ (Goto(t, "answer") \/ Goto(t, "catch")) /\ t = "main"
        \/ Goto(t, "delete")
    BY <2>1, <2>2
  <2> QED
    BY <1>2, <2>2, <2>3, <2>4 DEF Places, Closing
<1>8. CASE Leave(t)
  <2>1. Goto(t, IF t = "main" THEN "unhook" ELSE "done") /\ Rest' /\ UNCHANGED <<count, kept>>
    BY <1>1, <1>8 DEF Leave, Rest, field, processes, pipe, output
  <2> QED
    BY <1>2, <2>1 DEF Places, Threads
<1> QED
  BY <1>3, <1>4, <1>5, <1>6, <1>7, <1>8, <1>9 DEF Close

LEMMA StepTypes ==
  ASSUME TypeOK, Control, [Next]_vars
  PROVE  TypeOK' /\ Control'
<1>1. CASE Signal
  <2>1. /\ pc' \in [Threads -> Places] /\ pc'["hook"] = "lock" /\ pc'["main"] = pc["main"]
        /\ pc["main"] # "exit" /\ late' \in BOOLEAN
    BY <1>1, GotoFacts DEF Signal, Threads, Places
  <2> QED
    BY <1>1, <2>1 DEF Signal, TypeOK, Control, Places, field, processes, pipe, output
<1>2. CASE Dies
  BY <1>2 DEF Dies, TypeOK, Control, field, pipe, output
<1>4. CASE Compiles
  <2>1. PICK S \in SUBSET ClassFiles(kept) : fs' = fs \cup {Scratch, Target(kept)} \cup S
    BY <1>4 DEF Compiles
  <2>2. kept \in 1..MaxRequests
    BY <1>4, MaxRequestsAssumption DEF Compiles, Control, TypeOK
  <2>3. fs' \subseteq Paths
    BY <2>1, <2>2, PathsOf DEF TypeOK, Paths
  <2>4. /\ reply' \in {"none", "success", "error", "mismatch"}
        /\ UNCHANGED <<pc, lock, compiler, own, live, closing, at, todo, kept, found, jar, answer,
                       count, late>>
    BY <1>4 DEF Compiles, field, processes, output
  <2> QED
    BY <2>3, <2>4 DEF TypeOK, Control, Paths
<1>5. CASE Delete("main")
  BY <1>5, CloseTypes DEF Close, Threads
<1>3. CASE UNCHANGED vars
  BY <1>3 DEF vars, TypeOK, Control
<1> QED
  BY <1>1, <1>2, <1>3, <1>4, <1>5, MainTypes, CloseTypes DEF Next, Main, Threads

---------------------------------------------------------------------------
(* The lock is held by the thread inside close(), and by no other.         *)
LEMMA StepExclusive ==
  ASSUME TypeOK, Control, Exclusive, [Next]_vars
  PROVE  Exclusive'
<1>1. ASSUME NEW t \in Threads, NEW l \in Places, Goto(t, l), UNCHANGED lock,
             Inside(t) <=> l \in Closing
      PROVE  Exclusive'
  <2>1. /\ pc'[t] = l /\ \A u \in Threads : u # t => pc'[u] = pc[u]
    BY <1>1, GotoFacts
  <2>2. \A u \in Threads : Inside(u)' <=> Inside(u)
    BY <1>1, <2>1 DEF Inside, Closing
  <2>3. "main" \in Threads /\ "hook" \in Threads
    BY DEF Threads
  <2>4. {u \in Threads : Inside(u)}' = {u \in Threads : Inside(u)}
    BY <2>2
  <2> QED
    BY <1>1, <2>2, <2>3, <2>4 DEF Exclusive
<1>2. CASE UNCHANGED <<pc, lock>>
  BY <1>2 DEF Exclusive, Inside
<1>3. ASSUME NEW l \in Places \ Closing, Goto("main", l), UNCHANGED lock, ~Inside("main")
      PROVE  Exclusive'
  BY <1>1, <1>3 DEF Threads
<1>4. CASE \/ Prepare \/ Start \/ Send \/ Write \/ WriteFails \/ Reply \/ Forget \/ Walk
           \/ Copy \/ Answer \/ Catch \/ Destroy \/ Wipe \/ Remake \/ Unhook \/ Receive
           \/ EndOfInput
  <2>1. UNCHANGED lock /\ ~Inside("main")
    BY <1>4 DEF Prepare, Start, Send, Write, WriteFails, Reply, Forget, Walk, Copy, Answer,
       Catch, Destroy, Wipe, Remake, Unhook, Receive, EndOfInput, Inside
  <2>2. PICK l \in Places \ Closing : Goto("main", l)
    <3>1. CASE Prepare
      <4>1. Goto("main", "answer") \/ Goto("main", "start")
        BY <3>1 DEF Prepare
      <4> QED
        BY <4>1 DEF Places, Closing
    <3>2. CASE Start \/ Write \/ WriteFails \/ Forget \/ Answer \/ Wipe \/ Remake \/ Unhook
               \/ Receive \/ EndOfInput
      BY <3>2 DEF Start, Write, WriteFails, Forget, Answer, Wipe, Remake, Unhook, Receive,
         EndOfInput, Places, Closing
    <3>3. CASE Send \/ Reply
      <4>1. Goto("main", "catch") \/ Goto("main", "write") \/ Goto("main", "walk")
            \/ Goto("main", "forget")
        BY <3>3 DEF Send, Reply
      <4> QED
        BY <4>1 DEF Places, Closing
    <3>4. CASE Walk \/ Copy
      <4>1. Goto("main", "copy") \/ Goto("main", "catch") \/ Goto("main", "answer")
        BY <3>4 DEF Walk, Copy
      <4> QED
        BY <4>1 DEF Places, Closing
    <3>5. CASE Catch \/ Destroy
      <4>1. Goto("main", "wipe") \/ Goto("main", "destroy") \/ Goto("main", "answer")
        BY <3>5 DEF Catch, Destroy
      <4> QED
        BY <4>1 DEF Places, Closing
    <3> QED
      BY <1>4, <3>1, <3>2, <3>3, <3>4, <3>5
  <2> QED
    BY <1>3, <2>1, <2>2
<1>5. CASE Signal
  <2>1. Goto("hook", "lock") /\ UNCHANGED lock /\ ~Inside("hook")
    BY <1>5 DEF Signal, Inside
  <2> QED
    BY <1>1, <2>1 DEF Threads, Places, Closing
<1>6. ASSUME NEW t \in Threads, Lock(t)
      PROVE  Exclusive'
  <2>1. /\ lock = {} /\ lock' = {t} /\ Goto(t, "check")
    BY <1>6 DEF Lock
  <2>2. /\ pc'[t] = "check" /\ \A u \in Threads : u # t => pc'[u] = pc[u]
    BY <2>1, GotoFacts DEF Places
  <2>3. \A u \in Threads : ~Inside(u)
    BY <2>1 DEF Exclusive
  <2>4. \A u \in Threads : Inside(u)' <=> u = t
    BY <2>2, <2>3 DEF Inside
  <2>5. lock' = {u \in Threads : Inside(u)}'
    BY <2>1, <2>4
  <2> QED
    BY <2>4, <2>5 DEF Exclusive, Threads
<1>7. ASSUME NEW t \in Threads, Check(t) \/ Shut(t) \/ Wait(t) \/ Kill(t) \/ End(t) \/ Reset(t)
      PROVE  Exclusive'
  <2>1. Inside(t) /\ UNCHANGED lock
    BY <1>7 DEF Check, Shut, Wait, Kill, End, Reset, Inside
  <2>2. PICK l \in Closing : Goto(t, l)
    <3>1. CASE Check(t) \/ Kill(t) \/ End(t)
      <4>1. \/ Goto(t, "kill") \/ Goto(t, "shut") \/ Goto(t, "reset") \/ Goto(t, "end")
            \/ Goto(t, "leave")
        BY <3>1 DEF Check, Kill, End
      <4> QED
        BY <4>1 DEF Closing
    <3>2. CASE Shut(t) \/ Wait(t) \/ Reset(t)
      BY <3>2 DEF Shut, Wait, Reset, Closing
    <3> QED
      BY <1>7, <3>1, <3>2
  <2> QED
    BY <1>1, <2>1, <2>2 DEF Places, Closing
<1>8. ASSUME NEW t \in Threads, Delete(t)
      PROVE  Exclusive'
  <2>1. UNCHANGED lock /\ (\/ pc[t] = "delete" /\ Goto(t, "delete")
                           \/ pc[t] = "remake" /\ (Goto(t, "remake") \/ Goto(t, "answer"))
                           \/ pc[t] = "forget" /\ (Goto(t, "forget") \/ Goto(t, "catch")))
    BY <1>8 DEF Delete
  <2> QED
    BY <1>1, <2>1 DEF Places, Inside, Closing
<1>9. ASSUME NEW t \in Threads, Leave(t)
      PROVE  Exclusive'
  <2>1. /\ lock' = lock \ {t} /\ (Goto(t, "unhook") \/ Goto(t, "done"))
    BY <1>9 DEF Leave
  <2>2. /\ ~Inside(t)' /\ \A u \in Threads : u # t => pc'[u] = pc[u]
    BY <2>1, GotoFacts DEF Places, Inside
  <2>3. \A u \in Threads : Inside(u)' <=> u # t /\ Inside(u)
    BY <2>2 DEF Inside
  <2>4. lock' = {u \in Threads : Inside(u)}'
    BY <2>1, <2>3 DEF Exclusive
  <2> QED
    BY <2>3, <2>4 DEF Exclusive, Threads
<1>10. CASE Compiles \/ Dies
  BY <1>2, <1>10 DEF Compiles, Dies
<1> QED
  BY <1>2, <1>4, <1>5, <1>6, <1>7, <1>8, <1>9, <1>10 DEF Next, Main, Close, Threads, vars

---------------------------------------------------------------------------
(* Until the signal there is at most one compiler, the one of the field.   *)
LEMMA StepOneCompiler ==
  ASSUME TypeOK, Control, OneCompiler, [Next]_vars
  PROVE  OneCompiler'
<1>1. ASSUME NEW l \in Places, Goto("main", l), pc["hook"] = "off",
             compiler' = own', live' \subseteq {compiler'} \ {0},
             l = "end" => at'["main"] = compiler' /\ compiler' # 0,
             l \in {"wipe", "reset"} => live' = {}, l # "leave",
             l \in {"delete", "unhook", "exit"} => compiler' = 0
      PROVE  OneCompiler'
  BY <1>1, GotoFacts DEF OneCompiler, Threads
<1>2. ASSUME NEW l \in Places, Goto("hook", l), l # "off"
      PROVE  OneCompiler'
  BY <1>2, GotoFacts DEF OneCompiler, Threads
<1>3. ASSUME NEW l \in Places, Goto("main", l), pc["hook"] # "off"
      PROVE  OneCompiler'
  BY <1>3, GotoFacts DEF OneCompiler, Threads
<1>4. ASSUME NEW l \in Places \ {"wipe", "end", "reset", "delete", "leave", "unhook", "exit"},
             Goto("main", l),
             UNCHANGED <<compiler, own>>, live' \subseteq live
      PROVE  OneCompiler'
  BY <1>1, <1>3, <1>4 DEF OneCompiler
<1>5. CASE Prepare \/ Send \/ Write \/ WriteFails \/ Reply \/ Forget \/ Walk \/ Copy \/ Answer
           \/ Remake \/ Receive \/ EndOfInput \/ Lock("main") \/ Check("main") \/ Shut("main")
           \/ Wait("main")
  <2>1. UNCHANGED <<compiler, own>> /\ live' \subseteq live
    BY <1>5 DEF Prepare, Send, Write, WriteFails, Reply, Forget, Walk, Copy, Answer, Remake,
       Receive, EndOfInput, Lock, Check, Shut, Wait, field, processes, pipe
  <2>2. PICK l \in {"prepare", "start", "write", "reply", "forget", "walk", "copy", "answer",
                    "catch", "read", "lock", "check", "shut", "wait", "kill"} : Goto("main", l)
    <3>1. CASE Prepare \/ Walk \/ Copy
      BY <3>1 DEF Prepare, Walk, Copy
    <3>2. CASE Send \/ Reply
      BY <3>2 DEF Send, Reply
    <3>3. CASE Write \/ WriteFails \/ Forget \/ Answer \/ Remake \/ Receive \/ EndOfInput
               \/ Lock("main") \/ Shut("main") \/ Wait("main")
      BY <3>3 DEF Write, WriteFails, Forget, Answer, Remake, Receive, EndOfInput, Lock, Shut, Wait
    <3>4. CASE Check("main")
      BY <3>4 DEF Check
    <3> QED
      BY <1>5, <3>1, <3>2, <3>3, <3>4
  <2> QED
    BY <1>4, <2>1, <2>2 DEF Places
<1>6. CASE Start
  <2>1. /\ Goto("main", "send") /\ count # 0
        /\ \/ compiler' = count /\ own' = count /\ live' = live \cup {count}
                /\ (compiler = 0 \/ own = 0)
           \/ UNCHANGED <<compiler, own, live>>
    BY <1>6 DEF Start, Control, Reads, field
  <2>2. CASE pc["hook"] = "off"
    <3>1. compiler' = own' /\ live' \subseteq {compiler'} \ {0}
      BY <2>1, <2>2 DEF OneCompiler
    <3> QED
      BY <1>1, <2>1, <2>2, <3>1 DEF Places
  <2> QED
    BY <1>3, <2>1, <2>2 DEF Places
<1>7. CASE Catch \/ Destroy
  <2>1. PICK c \in Reads("main") :
          /\ \/ Goto("main", "wipe") /\ (c = 0 \/ live' = live \ {c})
             \/ Goto("main", "destroy") \/ Goto("main", "answer")
          /\ UNCHANGED <<compiler, own>> /\ live' \subseteq live
    BY <1>7 DEF Catch, Destroy, field, processes, pipe
  <2>2. CASE pc["hook"] = "off"
    <3>1. c = compiler /\ compiler = own /\ live \subseteq {compiler} \ {0}
      BY <2>1, <2>2 DEF Reads, OneCompiler
    <3>2. CASE Goto("main", "wipe") /\ (c = 0 \/ live' = live \ {c})
      <4>1. live' = {}
        BY <2>1, <3>1, <3>2
      <4> QED
        BY <1>1, <2>1, <2>2, <3>1, <3>2, <4>1 DEF Places
    <3>3. CASE Goto("main", "destroy") \/ Goto("main", "answer")
      BY <1>4, <2>1, <3>3 DEF Places
    <3> QED
      BY <2>1, <3>2, <3>3
  <2>3. CASE pc["hook"] # "off"
    BY <1>3, <2>1, <2>3 DEF Places
  <2> QED
    BY <2>2, <2>3
<1>8. CASE Wipe
  <2>1. Goto("main", "remake") /\ compiler' = 0 /\ own' = 0 /\ live' = live /\ pc["main"] = "wipe"
    BY <1>8 DEF Wipe, processes, pipe
  <2> QED
    BY <1>1, <1>3, <2>1 DEF Places, OneCompiler
<1>9. CASE Kill("main")
  <2>1. PICK c \in Reads("main") :
          /\ Goto("main", IF c = 0 THEN "reset" ELSE "end")
          /\ at' = [at EXCEPT !["main"] = c]
    BY <1>9 DEF Kill
  <2>2. UNCHANGED <<compiler, own, live>>
    BY <1>9 DEF Kill, field, processes
  <2>3. CASE pc["hook"] = "off"
    <3>1. c = compiler /\ at'["main"] = c
      BY <2>1, <2>3 DEF Reads, OneCompiler, TypeOK, Threads
    <3>2. CASE c = 0
      <4>1. live' = {} /\ Goto("main", "reset")
        BY <2>1, <2>2, <2>3, <3>1, <3>2 DEF OneCompiler
      <4> QED
        BY <1>1, <2>2, <2>3, <4>1 DEF Places, OneCompiler
    <3>3. CASE c # 0
      <4>1. Goto("main", "end")
        BY <2>1, <3>3
      <4> QED
        BY <1>1, <2>2, <2>3, <3>1, <3>3, <4>1 DEF Places, OneCompiler
    <3> QED
      BY <3>2, <3>3
  <2>4. CASE pc["hook"] # "off"
    <3>1. Goto("main", "reset") \/ Goto("main", "end")
      BY <2>1
    <3> QED
      BY <1>3, <2>4, <3>1 DEF Places
  <2> QED
    BY <2>3, <2>4
<1>14. CASE End("main")
  <2>1. PICK c \in {at["main"], compiler} :
          /\ Goto("main", IF c = 0 THEN "leave" ELSE "reset")
          /\ live' = live \ {c}
    BY <1>14 DEF End
  <2>2. UNCHANGED <<compiler, own>> /\ pc["main"] = "end"
    BY <1>14 DEF End, field
  <2>3. CASE pc["hook"] = "off"
    <3>1. c = compiler /\ compiler # 0
      BY <2>1, <2>2, <2>3 DEF OneCompiler
    <3>2. live' = {} /\ Goto("main", "reset")
      BY <2>1, <2>3, <3>1 DEF OneCompiler
    <3> QED
      BY <1>1, <2>2, <2>3, <3>2 DEF Places, OneCompiler
  <2>4. CASE pc["hook"] # "off"
    <3>1. Goto("main", "leave") \/ Goto("main", "reset")
      BY <2>1
    <3> QED
      BY <1>3, <2>4, <3>1 DEF Places
  <2> QED
    BY <2>3, <2>4
<1>15. CASE Reset("main")
  <2>1. /\ Goto("main", "delete") /\ compiler' = 0 /\ own' = 0 /\ live' = live
        /\ pc["main"] = "reset"
    BY <1>15 DEF Reset, processes
  <2> QED
    BY <1>1, <1>3, <2>1 DEF Places, OneCompiler
<1>10. CASE Delete("main") \/ Leave("main") \/ Unhook
  <2>1. UNCHANGED <<compiler, own, live>>
    BY <1>10 DEF Delete, Leave, Unhook, field, processes
  <2>2. \/ pc["main"] \in {"delete", "unhook"}
           /\ (Goto("main", "delete") \/ Goto("main", "unhook") \/ Goto("main", "exit"))
        \/ Goto("main", "remake") \/ Goto("main", "answer") \/ Goto("main", "forget")
        \/ Goto("main", "catch")
        \/ pc["main"] = "leave" /\ Goto("main", "unhook")
    <3>1. CASE Delete("main")
      BY <3>1 DEF Delete
    <3>2. CASE Leave("main") \/ Unhook
      BY <3>2 DEF Leave, Unhook
    <3> QED
      BY <1>10, <3>1, <3>2
  <2>3. CASE pc["main"] \in {"delete", "unhook"}
              /\ (Goto("main", "delete") \/ Goto("main", "unhook") \/ Goto("main", "exit"))
    BY <1>1, <1>3, <2>1, <2>3 DEF Places, OneCompiler
  <2>4. CASE pc["main"] = "leave" /\ Goto("main", "unhook")
    BY <1>3, <2>4 DEF Places, OneCompiler
  <2> QED
    BY <1>4, <2>1, <2>2, <2>3, <2>4 DEF Places
<1>11. CASE Signal \/ Close("hook")
  <2>1. PICK l \in Places \ {"off"} : Goto("hook", l)
    <3>1. CASE Signal \/ Lock("hook") \/ Shut("hook") \/ Wait("hook") \/ Reset("hook") \/ Leave("hook")
      BY <3>1 DEF Signal, Lock, Shut, Wait, Reset, Leave, Places
    <3>2. CASE Check("hook") \/ Kill("hook") \/ End("hook")
      <4>1. \/ Goto("hook", "kill") \/ Goto("hook", "shut") \/ Goto("hook", "reset")
            \/ Goto("hook", "end") \/ Goto("hook", "leave")
        BY <3>2 DEF Check, Kill, End
      <4> QED
        BY <4>1 DEF Places
    <3>3. CASE Delete("hook")
      <4>1. \/ Goto("hook", "delete") \/ Goto("hook", "answer") \/ Goto("hook", "catch")
            \/ Goto("hook", "remake") \/ Goto("hook", "forget")
        BY <3>3 DEF Delete
      <4> QED
        BY <4>1 DEF Places
    <3> QED
      BY <1>11, <3>1, <3>2, <3>3 DEF Close
  <2> QED
    BY <1>2, <2>1
<1>12. CASE Compiles \/ Dies
  BY <1>12 DEF Compiles, Dies, OneCompiler, field, processes, pipe
<1>13. CASE UNCHANGED vars
  BY <1>13 DEF vars, OneCompiler
<1> QED
  BY <1>5, <1>6, <1>7, <1>8, <1>9, <1>10, <1>11, <1>12, <1>13, <1>14, <1>15 DEF Next, Main, Close

---------------------------------------------------------------------------
(* Nothing disturbs remove(scratch), unless a request was worked on late.  *)
LEMMA StepCleaning ==
  ASSUME TypeOK, Control, Exclusive, Cleaning, OneCompiler', [Next]_vars
  PROVE  Cleaning'
<1>1. ASSUME NEW l \in Places \ {"end", "delete", "leave", "unhook", "exit", "done"},
             Goto("main", l), Working
      PROVE  Cleaning'
  <2>1. SUFFICES ASSUME ~late' PROVE Cleaning'
    BY DEF Cleaning
  <2>2. /\ pc'["main"] = l /\ pc'["hook"] = "off"
    BY <1>1, <2>1, GotoFacts DEF Threads, Signalled
  <2> QED
    BY <1>1, <2>2 DEF Cleaning, Signalled, Threads, OneCompiler
<1>2. ASSUME NEW t \in Threads, NEW l \in Places, Goto(t, l), UNCHANGED <<fs, compiler, own>>,
             \A u \in Threads : u # t => todo'[u] = todo[u] /\ at'[u] = at[u],
             l = "delete" => todo'[t] = fs,
             l = "end" => late \/ (at'[t] # 0 /\ compiler # 0),
             l = "leave" => late,
             l \in {"done", "unhook", "exit"} => fs = {} \/ late,
             t = "hook" /\ pc["hook"] = "delete" => l \in {"delete", "done"}
      PROVE  Cleaning'
  <2>1. SUFFICES ASSUME ~late' PROVE Cleaning'
    BY DEF Cleaning
  <2>2. /\ pc'[t] = l /\ \A u \in Threads : u # t => pc'[u] = pc[u]
        /\ ~late /\ ~(Signalled' /\ Working') /\ pc["hook"] # "done"
    BY <1>2, <2>1, GotoFacts
  <2>3. \A u \in Threads : pc'[u] = "delete" => todo'[u] = fs'
    BY <1>2, <2>2 DEF Cleaning
  <2>4. \A u \in Threads : pc'[u] # "leave" /\ (pc'[u] = "end" => at'[u] # 0 /\ compiler' # 0)
    BY <1>2, <2>2 DEF Cleaning
  <2>5. pc'["hook"] \notin {"delete", "done"} => compiler' = own'
    <3>1. pc'["hook"] \notin {"delete", "done"} => pc["hook"] \notin {"delete", "done"}
      BY <1>2, <2>2 DEF Threads
    <3> QED
      BY <1>2, <2>2, <3>1 DEF Cleaning
  <2>6. pc["hook"] = "done" \/ pc["main"] \in {"unhook", "exit"} => fs = {}
    BY <2>2 DEF Cleaning
  <2>7. pc'["hook"] = "done" \/ pc'["main"] \in {"unhook", "exit"} => fs' = {}
    BY <1>2, <2>2, <2>6 DEF Threads
  <2> QED
    BY <2>2, <2>3, <2>4, <2>5, <2>7 DEF Cleaning
<1>3. ASSUME NEW t \in Threads, NEW l \in Places, Goto(t, l),
             UNCHANGED <<fs, todo, compiler, own>>,
             \A u \in Threads : u # t => at'[u] = at[u],
             l \notin {"delete", "end"}, l = "leave" => late, pc[t] # "delete",
             l \in {"done", "unhook", "exit"} => fs = {} \/ late
      PROVE  Cleaning'
  BY <1>2, <1>3
<1>4. CASE \/ Prepare \/ Start \/ Send \/ Write \/ WriteFails \/ Reply \/ Forget \/ Walk
           \/ Copy \/ Answer \/ Catch \/ Destroy \/ Wipe \/ Remake
  <2>1. Working
    BY <1>4 DEF Prepare, Start, Send, Write, WriteFails, Reply, Forget, Walk, Copy, Answer,
       Catch, Destroy, Wipe, Remake, Working, Inside
  <2>2. PICK l \in {"start", "send", "write", "reply", "forget", "walk", "copy", "answer",
                    "catch", "read", "destroy", "wipe", "remake"} : Goto("main", l)
    <3>1. CASE Prepare \/ Walk \/ Copy
      BY <3>1 DEF Prepare, Walk, Copy
    <3>2. CASE Send \/ Reply
      BY <3>2 DEF Send, Reply
    <3>3. CASE Start \/ Write \/ WriteFails \/ Forget \/ Answer \/ Wipe \/ Remake
      BY <3>3 DEF Start, Write, WriteFails, Forget, Answer, Wipe, Remake
    <3>4. CASE Catch \/ Destroy
      BY <3>4 DEF Catch, Destroy
    <3> QED
      BY <1>4, <3>1, <3>2, <3>3, <3>4
  <2> QED
    BY <1>1, <2>1, <2>2 DEF Places
<1>5. CASE Receive \/ EndOfInput \/ Signal
  <2>1. UNCHANGED <<fs, todo, compiler, own, at>>
    BY <1>5 DEF Receive, EndOfInput, Signal, field, pipe
  <2> QED
    BY <1>3, <1>5, <2>1 DEF Receive, EndOfInput, Signal, Places, Threads
<1>6. CASE Unhook
  <2>1. Goto("main", "exit") /\ UNCHANGED <<fs, todo, compiler, own, at>> /\ pc["main"] = "unhook"
    BY <1>6 DEF Unhook, field, pipe
  <2>2. fs = {} \/ late
    BY <2>1 DEF Cleaning
  <2> QED
    BY <1>3, <2>1, <2>2 DEF Places, Threads
<1>7. ASSUME NEW t \in Threads, Lock(t) \/ Check(t) \/ Shut(t) \/ Wait(t)
      PROVE  Cleaning'
  <2>1. /\ \/ Goto(t, "check") \/ Goto(t, "wait") \/ Goto(t, "kill") \/ Goto(t, "shut")
        /\ pc[t] # "delete"
    BY <1>7 DEF Lock, Check, Shut, Wait
  <2>2. UNCHANGED <<fs, todo, compiler, own>>
    BY <1>7 DEF Lock, Check, Shut, Wait, field
  <2>3. at' = at \/ \E c : at' = [at EXCEPT ![t] = c]
    BY <1>7 DEF Lock, Check, Shut, Wait, pipe
  <2>4. \A u \in Threads : u # t => at'[u] = at[u]
    BY <2>3 DEF TypeOK
  <2> QED
    BY <1>3, <2>1, <2>2, <2>4 DEF Places
<1>8. ASSUME NEW t \in Threads, Inside(t), NEW u \in Threads, u # t
      PROVE  ~Inside(u)
  BY <1>8 DEF Exclusive, Threads
<1>14. ASSUME NEW t \in Threads, Kill(t)
       PROVE  Cleaning'
  <2>1. PICK c \in Reads(t) :
          Goto(t, IF c = 0 THEN "reset" ELSE "end") /\ at' = [at EXCEPT ![t] = c]
    BY <1>14 DEF Kill
  <2>2. UNCHANGED <<fs, todo, compiler, own>> /\ Inside(t) /\ pc[t] = "kill"
    BY <1>14 DEF Kill, field, Inside
  <2>3. at'[t] = c /\ \A u \in Threads : u # t => at'[u] = at[u]
    BY <2>1 DEF TypeOK
  <2>4. CASE c = 0
    <3>1. Goto(t, "reset")
      BY <2>1, <2>4
    <3> QED
      BY <1>3, <2>2, <2>3, <3>1 DEF Places
  <2>5. CASE c # 0
    <3>1. Goto(t, "end")
      BY <2>1, <2>5
    <3>2. pc["hook"] \notin {"delete", "done"}
      <4>1. CASE t = "hook"
        BY <2>2, <4>1
      <4>2. CASE t = "main"
        BY <1>8, <2>2, <3>1, <4>2, GotoFacts DEF Inside, Threads, Places
      <4> QED
        BY <4>1, <4>2 DEF Threads
    <3>3. late \/ compiler = own
      BY <3>2 DEF Cleaning
    <3>4. late \/ (at'[t] # 0 /\ compiler # 0)
      BY <2>1, <2>3, <2>5, <3>3 DEF Reads
    <3> QED
      BY <1>2, <2>2, <2>3, <3>1, <3>4 DEF Places
  <2> QED
    BY <2>4, <2>5
<1>15. ASSUME NEW t \in Threads, End(t)
       PROVE  Cleaning'
  <2>1. PICK c \in {at[t], compiler} : Goto(t, IF c = 0 THEN "leave" ELSE "reset")
    BY <1>15 DEF End
  <2>2. /\ UNCHANGED <<fs, todo, compiler, own>> /\ pc[t] = "end"
        /\ at' = [at EXCEPT ![t] = 0]
    BY <1>15 DEF End, field
  <2>3. \A u \in Threads : u # t => at'[u] = at[u]
    BY <2>2 DEF TypeOK
  <2>4. late \/ c # 0
    BY <2>1, <2>2 DEF Cleaning
  <2>5. Goto(t, "reset") \/ (late /\ Goto(t, "leave"))
    BY <2>1, <2>4
  <2> QED
    BY <1>3, <2>2, <2>3, <2>5 DEF Places
<1>9. ASSUME NEW t \in Threads, Reset(t)
      PROVE  Cleaning'
  <2>1. /\ Goto(t, "delete") /\ UNCHANGED fs /\ todo' = [todo EXCEPT ![t] = fs] /\ Inside(t)
        /\ compiler' = 0 /\ (t = "main" => own' = 0)
    BY <1>9 DEF Reset, Inside
  <2>2. SUFFICES ASSUME ~late' PROVE Cleaning'
    BY DEF Cleaning
  <2>3. /\ pc'[t] = "delete" /\ \A u \in Threads : u # t => pc'[u] = pc[u]
        /\ ~late /\ ~(Signalled' /\ Working') /\ pc["hook"] # "done" /\ pc["main"] # "exit"
    BY <2>1, <2>2, GotoFacts DEF Places
  <2>4. \A u \in Threads : u # t => pc'[u] \notin {"delete", "end", "leave"}
    BY <1>8, <2>1, <2>3 DEF Inside
  <2>5. todo'[t] = fs'
    BY <2>1 DEF TypeOK
  <2>6. pc'["hook"] \notin {"delete", "done"} => compiler' = own'
    BY <2>1, <2>3 DEF Threads
  <2>7. pc'["hook"] = "done" \/ pc'["main"] \in {"unhook", "exit"} => fs' = {}
    <3>1. pc'["hook"] = "done" \/ pc'["main"] \in {"unhook", "exit"}
          => pc["hook"] = "done" \/ pc["main"] \in {"unhook", "exit"}
      BY <2>3 DEF Threads
    <3> QED
      BY <2>1, <2>3, <3>1 DEF Cleaning
  <2> QED
    BY <2>3, <2>4, <2>5, <2>6, <2>7 DEF Cleaning
<1>10. ASSUME NEW t \in Threads, Delete(t), pc[t] # "delete"
       PROVE  Cleaning'
  <2>1. t = "main" /\ Working
    BY <1>10 DEF Delete, Control, Threads, Working, Inside, Closing
  <2>2. Goto(t, "remake") \/ Goto(t, "answer") \/ Goto(t, "forget") \/ Goto(t, "catch")
    BY <1>10 DEF Delete
  <2> QED
    BY <1>1, <2>1, <2>2 DEF Places
<1>11. ASSUME NEW t \in Threads, Delete(t), pc[t] = "delete"
       PROVE  Cleaning'
  <2>1. Goto(t, "delete") /\ Inside(t) /\ UNCHANGED <<compiler, own, at>>
    BY <1>11 DEF Delete, Inside, field, pipe
  <2>2. SUFFICES ASSUME ~late' PROVE Cleaning'
    BY DEF Cleaning
  <2>3. /\ pc'[t] = "delete" /\ \A u \in Threads : u # t => pc'[u] = pc[u]
        /\ ~late /\ ~(Signalled' /\ Working')
    BY <2>1, <2>2, GotoFacts DEF Places
  <2>4. todo[t] = fs
    BY <1>11, <2>3 DEF Cleaning
  <2>5. PICK p \in todo[t] :
          /\ Children(p) \cap todo[t] = {}
          /\ p \in fs /\ Children(p) = {}
             => fs' = fs \ {p} /\ todo' = [todo EXCEPT ![t] = @ \ {p}]
    BY <1>11 DEF Delete
  <2>6. Children(p) \subseteq fs
    BY DEF Children
  <2>7. fs' = fs \ {p} /\ todo' = [todo EXCEPT ![t] = @ \ {p}]
    BY <2>4, <2>5, <2>6
  <2>8. todo'[t] = fs'
    BY <2>4, <2>7 DEF TypeOK
  <2>9. \A u \in Threads : u # t => pc'[u] \notin {"delete", "end", "leave"}
    BY <1>8, <2>1, <2>3 DEF Inside
  <2>10. pc'["hook"] \notin {"delete", "done"} => compiler' = own'
    <3>1. pc'["hook"] = pc["hook"]
      BY <1>11, <2>3 DEF Threads
    <3> QED
      BY <2>1, <2>3, <3>1 DEF Cleaning
  <2>11. pc'["hook"] = "done" \/ pc'["main"] \in {"unhook", "exit"} => fs' = {}
    <3>1. pc'["hook"] = "done" \/ pc'["main"] \in {"unhook", "exit"}
          => pc["hook"] = "done" \/ pc["main"] \in {"unhook", "exit"}
      BY <2>3 DEF Threads
    <3> QED
      BY <2>3, <2>7, <3>1 DEF Cleaning
  <2> QED
    BY <2>3, <2>8, <2>9, <2>10, <2>11 DEF Cleaning
<1>12. ASSUME NEW t \in Threads, Leave(t)
       PROVE  Cleaning'
  <2>1. /\ \/ pc[t] = "delete" /\ todo[t] = {}
           \/ pc[t] = "leave"
        /\ UNCHANGED <<fs, todo, compiler, own, at>>
        /\ Goto(t, IF t = "main" THEN "unhook" ELSE "done")
    BY <1>12 DEF Leave, field, pipe
  <2>2. fs = {} \/ late
    BY <2>1 DEF Cleaning
  <2> QED
    BY <1>2, <2>1, <2>2 DEF Places, Threads
<1>16. CASE Compiles
  <2>1. UNCHANGED <<pc, todo, compiler, own, at, late>> /\ Working
    BY <1>16 DEF Compiles, field, Working, Inside
  <2>2. pc["main"] = "reply"
    BY <1>16 DEF Compiles
  <2>3. SUFFICES ASSUME ~late PROVE Cleaning'
    BY <2>1 DEF Cleaning
  <2>4. pc["hook"] = "off"
    BY <2>1, <2>3 DEF Cleaning, Signalled
  <2> QED
    BY <2>1, <2>2, <2>4 DEF Cleaning, Signalled, Threads, OneCompiler
<1>13. CASE Dies \/ UNCHANGED vars
  BY <1>13 DEF Dies, vars, Cleaning, Signalled, Working, Inside, field, pipe
<1> QED
  BY <1>4, <1>5, <1>6, <1>7, <1>9, <1>10, <1>11, <1>12, <1>13, <1>14, <1>15, <1>16
     DEF Next, Main, Close, Threads

---------------------------------------------------------------------------
(* The invariant, and what follows from it.                                *)
InductiveInvariant == TypeOK /\ Control /\ Exclusive /\ OneCompiler /\ Cleaning

LEMMA InitInvariant == Init => InductiveInvariant
<1> SUFFICES ASSUME Init PROVE InductiveInvariant
  OBVIOUS
<1>1. TypeOK
  <2>1. pc \in [Threads -> Places] /\ todo \in [Threads -> SUBSET Paths] /\ fs \subseteq Paths
    BY DEF Init, Threads, Places, Paths
  <2>2. 0 \in 0..MaxRequests
    BY MaxRequestsAssumption
  <2>3. /\ lock = {} /\ compiler = 0 /\ own = 0 /\ live = {} /\ closing = {} /\ kept = 0
        /\ count = 0 /\ found = {} /\ at \in [Threads -> {0}] /\ reply = "none" /\ jar = {} /\ answer = "none" /\ late = FALSE
    BY DEF Init
  <2> QED
    BY <2>1, <2>2, <2>3 DEF TypeOK, Places, Paths
<1>2. Control /\ Exclusive /\ OneCompiler /\ Cleaning
  BY DEF Init, Control, Exclusive, Inside, OneCompiler, Cleaning, Signalled, Threads
<1> QED
  BY <1>1, <1>2 DEF InductiveInvariant

(* In every state of every interleaving: close() runs under its lock, the  *)
(* field names the only compiler until the signal, and a remove() no late  *)
(* request disturbs is alone with the directory (close, lines 163-178).    *)
THEOREM Orderly == Spec => []InductiveInvariant
<1>1. InductiveInvariant /\ [Next]_vars => InductiveInvariant'
  <2> SUFFICES ASSUME InductiveInvariant, [Next]_vars PROVE InductiveInvariant'
    OBVIOUS
  <2>1. TypeOK' /\ Control' /\ Exclusive'
    BY StepTypes, StepExclusive DEF InductiveInvariant
  <2>2. OneCompiler'
    BY StepOneCompiler DEF InductiveInvariant
  <2>3. Cleaning'
    BY <2>2, StepCleaning DEF InductiveInvariant
  <2> QED
    BY <2>1, <2>2, <2>3 DEF InductiveInvariant
<1> QED
  BY <1>1, InitInvariant, PTL DEF Spec

(* Every variable keeps its type.                                          *)
THEOREM TypeCorrect == Spec => []TypeOK
<1>1. InductiveInvariant => TypeOK
  BY DEF InductiveInvariant
<1> QED
  BY <1>1, Orderly, PTL

(* Nothing of scratch is left when a process ends that did no work after   *)
(* the signal, whichever thread closes it and however the two race for the *)
(* lock ("the shutdown hook is already responsible", line 221).            *)
THEOREM QuietEndLeavesNothing == Spec => []QuietEndCleansUp
<1>1. InductiveInvariant => QuietEndCleansUp
  BY DEF InductiveInvariant, Cleaning, QuietEndCleansUp, Halted
<1> QED
  BY <1>1, Orderly, PTL

(* A worker whose input has ended has no compiler left running when its    *)
(* main thread is done (close, lines 163-178; main, lines 184-224).        *)
THEOREM NormalEndLeavesNoCompiler == Spec => []NormalEndStopsCompiler
<1>1. InductiveInvariant => NormalEndStopsCompiler
  BY DEF InductiveInvariant, OneCompiler, Control, NormalEndStopsCompiler
<1> QED
  BY <1>1, Orderly, PTL

=============================================================================
