-------------------------- MODULE MCKotlinBuilder --------------------------
(* Small instances of KotlinBuilder: two targets, two builds, a handful of *)
(* requests that differ in what they want and in who does it.              *)
EXTENDS KotlinBuilder

Ask(id, out, build, srcjar, jdeps) ==
  [id |-> id, out |-> out, build |-> build, stock |-> FALSE, srcjar |-> srcjar,
   unpack |-> srcjar, jdeps |-> jdeps, resident |-> TRUE]

MCRequests ==
  {Ask(1, "o1", 1, TRUE, "native"), Ask(2, "o1", 2, TRUE, "report"),
   [Ask(3, "o2", 1, FALSE, "stub") EXCEPT !.resident = FALSE],
   [Ask(4, "o1", 2, FALSE, "none") EXCEPT !.stock = TRUE],
   [Ask(5, "o2", 1, FALSE, "none") EXCEPT !.resident = FALSE]}
=============================================================================
