----------------------------- MODULE ICShutdown -----------------------------
(***************************************************************************)
(* The end of an incremental worker: IncrementalWorker.java's main thread, *)
(* which handles a request without a lock, against its shutdown hook,      *)
(* which runs close() as soon as the process is told to terminate.  Both   *)
(* write the field "compiler" and the scratch directory.                   *)
(*                                                                         *)
(* One target, whose build emits the files of Classes.  The field is       *)
(* neither volatile nor, in handle(), locked: a thread may read the value  *)
(* another thread has already replaced.  A write to a compiler holds the   *)
(* monitor of its buffered stream until the compiler reads, and closing    *)
(* that stream flushes it first, which takes the same monitor.  When the   *)
(* hook is done the virtual machine halts, wherever the main thread is.    *)
(***************************************************************************)
EXTENDS Naturals, FiniteSets

CONSTANTS
  Classes,     \* the class files of one build
  MaxRequests  \* a bound on the requests Bazel sends

ASSUME ClassesAssumption == Classes # {} /\ IsFiniteSet(Classes)
ASSUME MaxRequestsAssumption == MaxRequests \in Nat

VARIABLES
  pc,        \* where each thread is
  lock,      \* the threads inside close(), a synchronized method
  compiler,  \* the field: the number of a process, 0 for null
  own,       \* the value the main thread last gave the field
  live,      \* the compiler processes that run
  closing,   \* those whose standard input was closed
  at,        \* the process whose streams each thread uses, 0 for none
  reply,     \* what the compiler has written for the main thread
  fs,        \* the paths that exist in and under scratch
  todo,      \* the paths each thread's remove() has still to delete
  kept,      \* the request whose directory the State names, 0 for none
  found,     \* the files pack() found when it walked the classes
  jar,       \* the files in the output jar
  answer,    \* the last response: "none", "success" or "error"
  count,     \* requests received
  late       \* the main thread worked on a request after the signal

vars == <<pc, lock, compiler, own, live, closing, at, reply, fs, todo, kept, found, jar,
          answer, count, late>>
field == <<compiler, own>>
processes == <<live, closing>>
pipe == <<at, reply>>
output == <<found, jar>>

Threads == {"main", "hook"}
Scratch == <<0, "scratch">>
Target(n) == <<n, "target">>
ClassFiles(n) == {<<n, c>> : c \in Classes}
Children(p) ==
  IF p = Scratch THEN {q \in fs : q # Scratch}
  ELSE IF p[2] = "target" THEN fs \cap ClassFiles(p[1]) ELSE {}

\* What a thread may read in the field.
Reads(t) == {compiler, IF t = "main" THEN own ELSE 0}

\* Inside close().
Inside(t) == pc[t] \in {"check", "shut", "wait", "kill", "end", "reset", "delete", "leave"}

Working == pc["main"] \notin {"read", "lock", "unhook", "exit"} /\ ~Inside("main")
Signalled == pc["hook"] # "off"
Halted == pc["hook"] = "done" \/ pc["main"] = "exit"

\* Thread t moves on; once signalled, work of the main thread is late.
Goto(t, l) ==
  /\ ~Halted
  /\ pc' = [pc EXCEPT ![t] = l]
  /\ late' = (late \/ (Signalled /\ Working) \/ (Signalled' /\ Working'))

---------------------------------------------------------------------------
TypeOK ==
  /\ pc \in [Threads -> {"read", "prepare", "start", "send", "write", "reply", "forget",
                         "walk", "copy", "answer", "catch", "destroy", "wipe", "remake",
                         "lock", "check", "shut", "wait", "kill", "end", "reset", "delete",
                         "leave", "unhook", "exit", "off", "done"}]
  /\ lock \subseteq Threads
  /\ compiler \in 0..MaxRequests /\ own \in 0..MaxRequests
  /\ live \subseteq 1..MaxRequests /\ closing \subseteq 0..MaxRequests
  /\ at \in [Threads -> 0..MaxRequests]
  /\ reply \in {"none", "success", "error", "mismatch"}
  /\ fs \subseteq {Scratch} \cup
       UNION {{Target(n)} \cup ClassFiles(n) : n \in 1..MaxRequests}
  /\ todo \in [Threads -> SUBSET ({Scratch} \cup
       UNION {{Target(n)} \cup ClassFiles(n) : n \in 1..MaxRequests})]
  /\ kept \in 0..MaxRequests /\ count \in 0..MaxRequests
  /\ found \subseteq Classes /\ jar \subseteq Classes
  /\ answer \in {"none", "success", "error"}
  /\ late \in BOOLEAN

\* The worker exists and its hook is registered (lines 184-192).
Init ==
  /\ pc = [main |-> "read", hook |-> "off"]
  /\ lock = {}
  /\ compiler = 0 /\ own = 0
  /\ live = {} /\ closing = {}
  /\ at = [t \in Threads |-> 0] /\ reply = "none"
  /\ fs = {Scratch}
  /\ todo = [t \in Threads |-> {}]
  /\ kept = 0 /\ count = 0
  /\ found = {} /\ jar = {}
  /\ answer = "none"
  /\ late = FALSE

---------------------------------------------------------------------------
(* The main thread.                                                        *)
Receive ==
  /\ pc["main"] = "read" /\ count < MaxRequests
  /\ Goto("main", "prepare")
  /\ count' = count + 1
  /\ answer' = "none"
  /\ UNCHANGED <<lock, field, processes, pipe, fs, todo, kept, output>>

\* createTempDirectory needs scratch; createDirectories makes what is missing.
Prepare ==
  /\ pc["main"] = "prepare"
  /\ IF kept = 0 /\ Scratch \notin fs
     THEN /\ Goto("main", "answer")
          /\ answer' = "error"
          /\ UNCHANGED <<fs, kept>>
     ELSE /\ Goto("main", "start")
          /\ kept' = IF kept = 0 THEN count ELSE kept
          /\ fs' = fs \cup {Scratch, Target(kept')}
          /\ UNCHANGED answer
  /\ UNCHANGED <<lock, field, processes, pipe, todo, output, count>>

Start ==
  /\ pc["main"] = "start"
  /\ Goto("main", "send")
  /\ \/ /\ 0 \in Reads("main")
        /\ compiler' = count /\ own' = count
        /\ live' = live \cup {count}
     \/ /\ Reads("main") # {0}
        /\ UNCHANGED <<field, live>>
  /\ UNCHANGED <<lock, closing, pipe, fs, todo, kept, output, answer, count>>

\* The field may have become null, which is a NullPointerException.
Send ==
  /\ pc["main"] = "send"
  /\ \E c \in Reads("main") :
       /\ Goto("main", IF c = 0 THEN "catch" ELSE "write")
       /\ at' = [at EXCEPT !["main"] = c]
  /\ UNCHANGED <<lock, field, processes, reply, fs, todo, kept, output, answer, count>>

(* The write returns when the compiler has read enough of the request, and *)
(* until then the main thread is in the monitor of the stream.             *)
Write ==
  /\ pc["main"] = "write"
  /\ at["main"] \in live \ closing
  /\ Goto("main", "reply")
  /\ UNCHANGED <<lock, field, processes, pipe, fs, todo, kept, output, answer, count>>

\* A pipe without a reader, or a stream that is closed.
WriteFails ==
  /\ pc["main"] = "write"
  /\ at["main"] \notin live \ closing
  /\ Goto("main", "catch")
  /\ at' = [at EXCEPT !["main"] = 0]
  /\ UNCHANGED <<lock, field, processes, reply, fs, todo, kept, output, answer, count>>

(* The response; the end of the stream and another request's id throw, the *)
(* latter with the compiler alive.  After a compile error the State and    *)
(* its directory are given up.                                             *)
Reply ==
  /\ pc["main"] = "reply"
  /\ \/ /\ reply = "success"
        /\ Goto("main", "walk")
        /\ UNCHANGED <<todo, kept>>
     \/ /\ reply = "error"
        /\ Goto("main", "forget")
        /\ todo' = [todo EXCEPT !["main"] = {p \in fs : p[1] = kept}]
        /\ kept' = 0
     \/ /\ reply = "mismatch" \/ (reply = "none" /\ at["main"] \notin live)
        /\ Goto("main", "catch")
        /\ UNCHANGED <<todo, kept>>
  /\ at' = [at EXCEPT !["main"] = 0] /\ reply' = "none"
  /\ UNCHANGED <<lock, field, processes, fs, output, answer, count>>

Forget ==
  /\ pc["main"] = "forget"
  /\ todo["main"] = {}
  /\ Goto("main", "answer")
  /\ answer' = "error"
  /\ UNCHANGED <<lock, field, processes, pipe, fs, todo, kept, output, count>>

\* A mutant: the walk keeps directories too.
WalkDirectories ==
  /\ pc["main"] = "walk"
  /\ \/ /\ Target(kept) \in fs
        /\ Goto("main", "copy")
        /\ found' = {p[2] : p \in fs}
     \/ Goto("main", "catch") /\ UNCHANGED found
  /\ UNCHANGED <<lock, field, processes, pipe, fs, todo, kept, jar, answer, count>>

(* pack() opens the jar and lists the files first and copies them one by   *)
(* one afterwards.  Either may fail, and always does where a path is gone. *)
Walk ==
  /\ pc["main"] = "walk"
  /\ \/ /\ Target(kept) \in fs
        /\ Goto("main", "copy")
        /\ found' = {c \in Classes : <<kept, c>> \in fs}
     \/ Goto("main", "catch") /\ UNCHANGED found
  /\ UNCHANGED <<lock, field, processes, pipe, fs, todo, kept, jar, answer, count>>

Copy ==
  /\ pc["main"] = "copy"
  /\ \/ /\ \A c \in found : <<kept, c>> \in fs
        /\ Goto("main", "answer")
        /\ jar' = found /\ answer' = "success"
     \/ /\ Goto("main", "catch")
        /\ jar' = {}
        /\ UNCHANGED answer
  /\ UNCHANGED <<lock, field, processes, pipe, fs, todo, kept, found, count>>

Answer ==
  /\ pc["main"] = "answer"
  /\ Goto("main", "read")
  /\ UNCHANGED <<lock, field, processes, pipe, fs, todo, kept, output, answer, count>>

\* The catch block: drop the States, destroy the compiler if the field has one,
Catch ==
  /\ pc["main"] = "catch"
  /\ kept' = 0
  /\ \E c \in Reads("main") : Goto("main", IF c = 0 THEN "wipe" ELSE "destroy")
  /\ UNCHANGED <<lock, field, processes, pipe, fs, todo, output, answer, count>>

\* A mutant: the compiler of a failed request is forgotten, not destroyed.
Orphans ==
  /\ pc["main"] = "destroy"
  /\ Goto("main", "wipe")
  /\ UNCHANGED <<lock, field, processes, pipe, fs, todo, kept, output, answer, count>>

\* (a null read now is a NullPointerException, reported like any other),
Destroy ==
  /\ pc["main"] = "destroy"
  /\ \E c \in Reads("main") :
       /\ Goto("main", IF c = 0 THEN "answer" ELSE "wipe")
       /\ answer' = IF c = 0 THEN "error" ELSE answer
       /\ live' = live \ {c}
  /\ UNCHANGED <<lock, field, closing, pipe, fs, todo, kept, output, count>>

\* forget it, and remove scratch ...
Wipe ==
  /\ pc["main"] = "wipe"
  /\ Goto("main", "remake")
  /\ compiler' = 0 /\ own' = 0
  /\ todo' = [todo EXCEPT !["main"] = fs]
  /\ UNCHANGED <<lock, processes, pipe, fs, kept, output, answer, count>>

\* ... to make it again.
Remake ==
  /\ pc["main"] = "remake"
  /\ todo["main"] = {}
  /\ Goto("main", "answer")
  /\ fs' = fs \cup {Scratch}
  /\ answer' = "error"
  /\ UNCHANGED <<lock, field, processes, pipe, todo, kept, output, count>>

EndOfInput ==
  /\ pc["main"] = "read"
  /\ Goto("main", "lock")
  /\ UNCHANGED <<lock, field, processes, pipe, fs, todo, kept, output, answer, count>>

\* removeShutdownHook, whose IllegalStateException is ignored; then main returns.
Unhook ==
  /\ pc["main"] = "unhook"
  /\ ~Signalled
  /\ Goto("main", "exit")
  /\ UNCHANGED <<lock, field, processes, pipe, fs, todo, kept, output, answer, count>>

---------------------------------------------------------------------------
(* The process is told to terminate: the hook starts.                      *)
Signal ==
  /\ pc["hook"] = "off"
  /\ Goto("hook", "lock")
  /\ UNCHANGED <<lock, field, processes, pipe, fs, todo, kept, output, answer, count>>

---------------------------------------------------------------------------
(* close(), by the main thread at end of input and by the hook.            *)

\* A mutant: close() is not synchronized.
LockFree(t) ==
  /\ pc[t] = "lock"
  /\ lock' = lock \cup {t}
  /\ Goto(t, "check")
  /\ UNCHANGED <<field, processes, pipe, fs, todo, kept, output, answer, count>>

Lock(t) ==
  /\ pc[t] = "lock"
  /\ lock = {}
  /\ lock' = {t}
  /\ Goto(t, "check")
  /\ UNCHANGED <<field, processes, pipe, fs, todo, kept, output, answer, count>>

Check(t) ==
  /\ pc[t] = "check"
  /\ \E c \in Reads(t) :
       /\ Goto(t, IF c = 0 THEN "kill" ELSE "shut")
       /\ at' = [at EXCEPT ![t] = c]
  /\ UNCHANGED <<lock, field, processes, reply, fs, todo, kept, output, answer, count>>

\* Closing the compiler's input waits for a write to it to end.
Shut(t) ==
  /\ pc[t] = "shut"
  /\ ~(pc["main"] = "write" /\ at["main"] = at[t])
  /\ Goto(t, "wait")
  /\ closing' = closing \cup {at[t]}
  /\ at' = [at EXCEPT ![t] = 0]
  /\ UNCHANGED <<lock, field, live, reply, fs, todo, kept, output, answer, count>>

\* A mutant: the wait for the compiler has no time limit.
WaitForever(t) ==
  /\ pc[t] = "wait"
  /\ compiler \notin live
  /\ Goto(t, "kill")
  /\ UNCHANGED <<lock, field, processes, pipe, fs, todo, kept, output, answer, count>>

\* The compiler has exited, ten seconds have passed, or the field turned null.
Wait(t) ==
  /\ pc[t] = "wait"
  /\ Goto(t, "kill")
  /\ UNCHANGED <<lock, field, processes, pipe, fs, todo, kept, output, answer, count>>

(* The finally block looks whether the field has a process, destroys it (a *)
(* null read now, no older than the first, ends close() with scratch in    *)
(* place),                                                                 *)
Kill(t) ==
  /\ pc[t] = "kill"
  /\ \E c \in Reads(t) :
       /\ Goto(t, IF c = 0 THEN "reset" ELSE "end")
       /\ at' = [at EXCEPT ![t] = c]
  /\ UNCHANGED <<lock, field, processes, reply, fs, todo, kept, output, answer, count>>

End(t) ==
  /\ pc[t] = "end"
  /\ \E c \in {at[t], compiler} :
       /\ Goto(t, IF c = 0 THEN "leave" ELSE "reset")
       /\ live' = live \ {c}
  /\ at' = [at EXCEPT ![t] = 0]
  /\ UNCHANGED <<lock, field, closing, reply, fs, todo, kept, output, answer, count>>

\* and removes scratch.
Reset(t) ==
  /\ pc[t] = "reset"
  /\ Goto(t, "delete")
  /\ compiler' = 0
  /\ own' = IF t = "main" THEN 0 ELSE own
  /\ todo' = [todo EXCEPT ![t] = fs]
  /\ UNCHANGED <<lock, processes, pipe, fs, kept, output, answer, count>>

\* remove(): children before parents, and the first failure ends it.
Delete(t) ==
  /\ pc[t] \in {"delete", "remake", "forget"}
  /\ \E p \in todo[t] :
       /\ Children(p) \cap todo[t] = {}
       /\ IF p \in fs /\ Children(p) = {}
          THEN /\ fs' = fs \ {p}
               /\ todo' = [todo EXCEPT ![t] = @ \ {p}]
               /\ Goto(t, pc[t])
               /\ UNCHANGED answer
          ELSE /\ todo' = [todo EXCEPT ![t] = {}]
               /\ \/ pc[t] = "remake" /\ Goto(t, "answer") /\ answer' = "error"
                  \/ pc[t] = "forget" /\ Goto(t, "catch") /\ UNCHANGED answer
                  \/ pc[t] = "delete" /\ Goto(t, "delete") /\ UNCHANGED answer
               /\ UNCHANGED fs
  /\ UNCHANGED <<lock, field, processes, pipe, kept, output, count>>

Leave(t) ==
  /\ \/ pc[t] = "delete" /\ todo[t] = {}
     \/ pc[t] = "leave"
  /\ lock' = lock \ {t}
  /\ Goto(t, IF t = "main" THEN "unhook" ELSE "done")
  /\ UNCHANGED <<field, processes, pipe, fs, todo, kept, output, answer, count>>

---------------------------------------------------------------------------
(* The compilers.                                                          *)

(* One that was sent a request compiles it, even after its input has been  *)
(* closed behind the request, and answers: with success, with an error or  *)
(* under another id.                                                       *)
Compiles ==
  /\ ~Halted
  /\ pc["main"] = "reply" /\ reply = "none"
  /\ at["main"] \in live
  /\ \E S \in SUBSET ClassFiles(kept) :
       /\ fs' = fs \cup {Scratch, Target(kept)} \cup S
       /\ reply' \in {"error", "mismatch"} \cup (IF S = ClassFiles(kept) THEN {"success"} ELSE {})
  /\ UNCHANGED <<pc, lock, field, processes, at, todo, kept, output, answer, count, late>>

\* Any may end at any time, and one whose input is closed is meant to.
Dies ==
  /\ ~Halted
  /\ \E c \in live : live' = live \ {c}
  /\ UNCHANGED <<pc, lock, field, closing, pipe, fs, todo, kept, output, answer, count, late>>

---------------------------------------------------------------------------
Close(t) ==
  \/ Lock(t) \/ Check(t) \/ Shut(t) \/ Wait(t) \/ Kill(t) \/ End(t) \/ Reset(t)
  \/ Delete(t) \/ Leave(t)

Main ==
  \/ Prepare \/ Start \/ Send \/ WriteFails \/ Reply \/ Forget \/ Walk \/ Copy \/ Answer
  \/ Catch \/ Destroy \/ Wipe \/ Remake \/ Unhook \/ Delete("main") \/ Close("main")

Next ==
  \/ Main \/ Receive \/ EndOfInput \/ Write
  \/ Signal \/ Close("hook")
  \/ Compiles \/ Dies

(* Both threads run.  Nothing makes Bazel send, close or terminate, and    *)
(* nothing makes a compiler read what is written to it, answer or exit.    *)
Spec == Init /\ [][Next]_vars /\ WF_vars(Main) /\ WF_vars(Close("hook"))

---------------------------------------------------------------------------
(* Told to terminate, the worker ends, whatever the lock, the directory or *)
(* a compiler that neither answers nor exits do (close, lines 163-178),    *)
(* unless the main thread is stuck in a write to a compiler that does not  *)
(* read (lines 99-100).                                                    *)
TerminationEnds ==
  []<>(pc["main"] # "write") => ((pc["hook"] = "lock") ~> Halted)

(* "The shutdown hook is already responsible for cleanup" (line 221): told *)
(* to terminate, it comes to its end.                                      *)
HookFinishes == (pc["hook"] = "lock") ~> (pc["hook"] = "done")

(* "The shutdown hook is already responsible for cleanup" (line 221): when *)
(* the signal finds the main thread waiting for a request or already in    *)
(* close(), nothing of scratch is left once the process has ended.         *)
QuietEndCleansUp == Halted /\ ~late => fs = {}

(* A worker that ends because its input ended leaves no compiler running,  *)
(* whatever happened to earlier requests: a wrong id, a failed pack or a   *)
(* failed removal gives up a compiler that is alive (lines 154, 174).      *)
NormalEndStopsCompiler == pc["main"] = "exit" => live = {}

(* "publishing complete Bazel jar outputs" (line 24): a success means that *)
(* every class of the build is in the jar.                                 *)
CompleteJars == pc["main"] = "answer" /\ answer = "success" => jar = Classes
=============================================================================
