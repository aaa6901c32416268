----------------------------- MODULE CleanBuild -----------------------------
(***************************************************************************)
(* What a persistent compile worker promises Bazel, whatever it keeps      *)
(* between requests: it takes one request at a time, answers it once with  *)
(* its own id, writes no outputs but that request's, and a success means   *)
(* that those outputs are good: what a clean build of the request leaves.  *)
(* The process may die at any moment, and then the request has no answer.  *)
(***************************************************************************)
CONSTANTS
  Outputs,    \* where requests write
  Requests,   \* the requests Bazel may send, with fields id and out
  Good(_, _), \* Good(r, c): c is what a clean build of r leaves in r.out
  Blank,      \* what no request has written yet
  None        \* no request, no answer

VARIABLES
  pending,   \* the request being served, or None
  answer,    \* the WorkResponse to the last request, or None
  outs       \* what each output holds

cvars == <<pending, answer, outs>>

Init ==
  /\ pending = None
  /\ answer = None
  /\ outs = [o \in Outputs |-> Blank]

Submit ==
  /\ pending = None
  /\ pending' \in Requests
  /\ answer' = None
  /\ UNCHANGED outs

\* Work on a request writes at most that request's output.
Work ==
  /\ pending # None
  /\ DOMAIN outs' = DOMAIN outs
  /\ \A o \in DOMAIN outs \ {pending.out} : outs'[o] = outs[o]
  /\ UNCHANGED <<pending, answer>>

Succeed ==
  /\ pending # None
  /\ pending.out \in Outputs
  /\ Good(pending, outs[pending.out])
  /\ answer' = [id |-> pending.id, code |-> 0]
  /\ pending' = None
  /\ UNCHANGED outs

Fail ==
  /\ pending # None
  /\ answer' = [id |-> pending.id, code |-> 1]
  /\ pending' = None
  /\ UNCHANGED outs

Die ==
  /\ pending # None
  /\ pending' = None
  /\ UNCHANGED <<answer, outs>>

Next == Submit \/ Work \/ Succeed \/ Fail \/ Die

Spec == Init /\ [][Next]_cvars
=============================================================================
