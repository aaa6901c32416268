------------------------------- MODULE Lemmas -------------------------------
(***************************************************************************)
(* What several proofs need of natural numbers and sequences.              *)
(***************************************************************************)
EXTENDS Naturals, Sequences, SequencesExt, SequenceTheorems, WellFoundedInduction, TLAPS

(* Induction, as the absence of a least counterexample to membership.      *)
LEMMA SetInduction ==
  ASSUME NEW S, 0 \in S, \A n \in Nat : n \in S => n + 1 \in S
  PROVE  Nat \subseteq S
<1> DEFINE T == Nat \ S
           R == OpToRel(<, Nat)
<1>1. R = {ss \in Nat \X Nat : ss[1] < ss[2]}
  BY DEF OpToRel
<1>2. SUFFICES ASSUME T # {}
               PROVE  FALSE
  BY Zenon
<1>3. IsWellFoundedOn(R, Nat)
  BY NatLessThanWellFounded
<1> HIDE DEF R
<1>4. PICK x \in T : \A y \in T : <<y, x>> \notin R
  BY <1>2, <1>3, WFMin
<1>5. x \in Nat /\ x - 1 \in Nat /\ x = (x - 1) + 1
  OBVIOUS
<1>6. x - 1 \in T /\ <<x - 1, x>> \in R
  BY <1>1, <1>5
<1> QED
  BY <1>4, <1>6

(* What Append leaves where it was.                                        *)
LEMMA AppendFacts ==
  ASSUME NEW S, NEW s \in Seq(S), NEW e \in S
  PROVE  /\ Len(s) \in Nat /\ DOMAIN s = 1..Len(s)
         /\ DOMAIN Append(s, e) = 1..(Len(s) + 1)
         /\ \A i \in 1..Len(s) : Append(s, e)[i] = s[i]
         /\ Append(s, e)[Len(s) + 1] = e
BY AppendProperties, LenProperties

(* A prefix is as long at most and has the same elements.                  *)
LEMMA IsPrefixDef ==
  ASSUME NEW S, NEW s \in Seq(S), NEW t \in Seq(S)
  PROVE  IsPrefix(s, t) <=> Len(s) <= Len(t) /\ \A i \in 1..Len(s) : s[i] = t[i]
<1>1. Len(s) \in Nat /\ Len(t) \in Nat /\ s = [i \in 1..Len(s) |-> s[i]]
  BY LenProperties
<1>2. ASSUME Len(s) <= Len(t)
      PROVE  /\ SubSeq(t, 1, Len(s)) \in Seq(S) /\ Len(SubSeq(t, 1, Len(s))) = Len(s)
             /\ \A i \in 1..Len(s) : SubSeq(t, 1, Len(s))[i] = t[i]
  BY <1>1, <1>2
<1>3. ASSUME Len(s) <= Len(t), \A i \in 1..Len(s) : s[i] = t[i]
      PROVE  s = SubSeq(t, 1, Len(s))
  BY <1>1, <1>2, <1>3, SeqEqual
<1> QED
  BY <1>1, <1>2, <1>3 DEF IsPrefix

(* Sequences grow at their end.                                            *)
LEMMA PrefixFacts ==
  ASSUME NEW S, NEW s \in Seq(S), NEW t \in Seq(S)
  PROVE  /\ IsPrefix(s, s)
         /\ IsPrefix(s, t) => Len(s) <= Len(t) /\ \A i \in 1..Len(s) : s[i] = t[i]
         /\ \A e \in S : IsPrefix(s, t) => IsPrefix(s, Append(t, e))
         /\ \A u \in Seq(S) : IsPrefix(s, t) /\ IsPrefix(t, u) => IsPrefix(s, u)
<1>1. Len(s) \in Nat /\ Len(t) \in Nat
  BY LenProperties
<1>2. ASSUME NEW e \in S, IsPrefix(s, t)
      PROVE  IsPrefix(s, Append(t, e))
  <2>1. /\ Append(t, e) \in Seq(S) /\ Len(Append(t, e)) = Len(t) + 1
        /\ \A i \in 1..Len(t) : Append(t, e)[i] = t[i]
    BY AppendProperties
  <2>2. Len(s) <= Len(t) /\ \A i \in 1..Len(s) : s[i] = t[i]
    BY <1>2, IsPrefixDef
  <2>3. Len(s) <= Len(Append(t, e)) /\ \A i \in 1..Len(s) : s[i] = Append(t, e)[i]
    BY <1>1, <2>1, <2>2
  <2> QED
    BY <2>1, <2>3, IsPrefixDef
<1>3. ASSUME NEW u \in Seq(S), IsPrefix(s, t), IsPrefix(t, u)
      PROVE  IsPrefix(s, u)
  <2>1. /\ Len(s) <= Len(t) /\ \A i \in 1..Len(s) : s[i] = t[i]
        /\ Len(t) <= Len(u) /\ \A i \in 1..Len(t) : t[i] = u[i]
    BY <1>3, IsPrefixDef
  <2>2. Len(u) \in Nat
    BY LenProperties
  <2>3. Len(s) <= Len(u) /\ \A i \in 1..Len(s) : s[i] = u[i]
    BY <1>1, <2>1, <2>2
  <2> QED
    BY <2>3, IsPrefixDef
<1>4. IsPrefix(s, s)
  BY <1>1, IsPrefixDef
<1> QED
  BY <1>2, <1>3, <1>4, IsPrefixDef

(* The head of what is left moves to the end of what is done.              *)
LEMMA TakeOne ==
  ASSUME NEW S, NEW s \in Seq(S), NEW t \in Seq(S), t # <<>>
  PROVE  /\ Append(s, Head(t)) \in Seq(S)
         /\ s \o t = Append(s, Head(t)) \o Tail(t)
<1>1. t = <<Head(t)>> \o Tail(t) /\ Head(t) \in S /\ Tail(t) \in Seq(S)
  OBVIOUS
<1>2. \A d \in S, u \in Seq(S) : Append(s, d) \o u = s \o (<<d>> \o u)
  OBVIOUS
<1> QED
  BY <1>1, <1>2

(* Concatenation neither adds elements nor loses any.                      *)
LEMMA ConcatElements ==
  ASSUME NEW S, NEW s \in Seq(S), NEW t \in Seq(S)
  PROVE  ToSet(s \o t) = ToSet(s) \cup ToSet(t)
<1> DEFINE a == Len(s)
           b == Len(t)
           u == s \o t
<1>1. /\ a \in Nat /\ b \in Nat /\ DOMAIN s = 1..a /\ DOMAIN t = 1..b
      /\ u \in Seq(S) /\ DOMAIN u = 1..(a + b)
      /\ \A i \in 1..(a + b) : u[i] = IF i <= a THEN s[i] ELSE t[i - a]
  BY ConcatProperties, LenProperties
<1> HIDE DEF a, b, u
<1>2. ASSUME NEW i \in 1..a PROVE s[i] \in ToSet(u)
  <2>1. i \in 1..(a + b) /\ i <= a
    BY <1>1
  <2>2. u[i] = s[i]
    BY <1>1, <2>1
  <2> QED
    BY <1>1, <2>1, <2>2 DEF ToSet
<1>3. ASSUME NEW i \in 1..b PROVE t[i] \in ToSet(u)
  <2>1. i + a \in 1..(a + b) /\ ~(i + a <= a) /\ (i + a) - a = i
    BY <1>1
  <2>2. u[i + a] = t[i]
    BY <1>1, <2>1
  <2> QED
    BY <1>1, <2>1, <2>2 DEF ToSet
<1>4. ASSUME NEW i \in 1..(a + b) PROVE u[i] \in ToSet(s) \cup ToSet(t)
  <2>1. CASE i <= a
    BY <1>1, <2>1 DEF ToSet
  <2>2. CASE ~(i <= a)
    <3>1. i - a \in 1..b
      BY <1>1, <2>2
    <3> QED
      BY <1>1, <2>2, <3>1 DEF ToSet
  <2> QED
    BY <2>1, <2>2
<1>5. /\ \A x \in ToSet(s) \cup ToSet(t) : x \in ToSet(u)
      /\ \A x \in ToSet(u) : x \in ToSet(s) \cup ToSet(t)
  BY <1>1, <1>2, <1>3, <1>4 DEF ToSet
<1> QED
  BY <1>5 DEF u

(* One element and another.                                                *)
LEMMA PairFacts ==
  ASSUME NEW c, NEW x
  PROVE  <<c>> \o <<x>> = <<c, x>> /\ <<c>> \o <<>> = <<c>>
<1> DEFINE S == {c, x}
<1>1. <<c>> \in Seq(S) /\ <<x>> \in Seq(S) /\ <<c, x>> \in Seq(S)
  OBVIOUS
<1> HIDE DEF S
<1>2. <<c>> \o <<>> = <<c>>
  BY <1>1, ConcatEmptySeq
<1>3. <<c>> \o <<x>> = <<c, x>>
  <2> DEFINE s == <<c>>
             t == <<x>>
             u == s \o t
             w == <<c, x>>
  <2>1. /\ s \in Seq(S) /\ Len(s) = 1 /\ s[1] = c /\ t \in Seq(S) /\ Len(t) = 1 /\ t[1] = x
        /\ w \in Seq(S) /\ Len(w) = 2 /\ w[1] = c /\ w[2] = x
    BY <1>1
  <2> HIDE DEF s, t, w
  <2>2. u \in Seq(S) /\ Len(u) = Len(w)
    BY <2>1, ConcatProperties
  <2>3. u[1] = s[1] /\ u[2] = t[1]
    <3>1. \A i \in 1..2 : u[i] = IF i <= 1 THEN s[i] ELSE t[i - 1]
      <4>1. \A i \in 1..(Len(s) + Len(t)) :
              (s \o t)[i] = IF i <= Len(s) THEN s[i] ELSE t[i - Len(s)]
        BY <2>1, ConcatProperties
      <4>2. Len(s) = 1 /\ Len(t) = 1
        BY <2>1
      <4> QED
        BY <4>1, <4>2
    <3> HIDE DEF u
    <3> QED
      BY <3>1
  <2> HIDE DEF u
  <2>4. \A i \in 1..Len(u) : u[i] = w[i]
    BY <2>1, <2>2, <2>3
  <2>5. u = w
    BY <2>1, <2>2, <2>4, SeqEqual
  <2> QED
    BY <2>5 DEF s, t, u, w
<1> QED
  BY <1>2, <1>3

(* Flattening goes from left to right: each sequence joins those before.   *)
LEMMA FlattenFacts ==
  ASSUME NEW S, NEW seqs \in Seq(Seq(S))
  PROVE  \E flat \in [0..Len(seqs) -> Seq(S)] :
           /\ flat[0] = <<>> /\ \A i \in 1..Len(seqs) : flat[i] = flat[i - 1] \o seqs[i]
           /\ FlattenSeq(seqs) = flat[Len(seqs)]
<1> DEFINE N == Len(seqs)
           Body(g, i) == IF i = 1 THEN seqs[i] ELSE g[i - 1] \o seqs[i]
           D == {k \in Nat : \E g : \A i \in 1..k : g[i] = Body(g, i)}
           flatten[i \in 1..N] == IF i = 1 THEN seqs[i] ELSE flatten[i - 1] \o seqs[i]
<1>1. N \in Nat /\ \A i \in 1..N : seqs[i] \in Seq(S)
  BY LenProperties
<1>2. 0 \in D
  OBVIOUS
<1>3. ASSUME NEW k \in Nat, k \in D
      PROVE  k + 1 \in D
  <2>1. PICK g : \A i \in 1..k : g[i] = Body(g, i)
    BY <1>3
  <2> DEFINE h == [i \in 1..(k + 1) |-> IF i = k + 1 THEN Body(g, i) ELSE g[i]]
  <2>2. ASSUME NEW i \in 1..(k + 1)
        PROVE  h[i] = Body(h, i)
    <3>1. i = 1 \/ (i - 1 \in 1..k /\ i - 1 # k + 1 /\ h[i - 1] = g[i - 1])
      OBVIOUS
    <3>2. Body(h, i) = Body(g, i)
      BY <3>1
    <3>3. i # k + 1 => i \in 1..k
      OBVIOUS
    <3>4. i # k + 1 => g[i] = Body(g, i)
      BY <2>1, <3>3
    <3> QED
      BY <3>2, <3>4
  <2> HIDE DEF h
  <2>3. \A i \in 1..(k + 1) : h[i] = Body(h, i)
    BY <2>2
  <2> QED
    BY <2>3
<1>4. N \in D
  <2> HIDE DEF D, N
  <2> QED
    BY <1>1, <1>2, <1>3, SetInduction
<1>5. \A i \in 1..N : flatten[i] = Body(flatten, i)
  <2> HIDE DEF N
  <2>1. PICK g : \A i \in 1..N : g[i] = Body(g, i)
    BY <1>4
  <2> DEFINE h == [i \in 1..N |-> g[i]]
  <2>2. ASSUME NEW i \in 1..N
        PROVE  g[i] = Body(h, i)
    <3>1. i = 1 \/ i - 1 \in 1..N
      BY <1>1
    <3> QED
      BY <2>1, <3>1
  <2>3. h = [i \in 1..N |-> Body(h, i)]
    BY <2>2, Zenon
  <2>4. flatten = [i \in 1..N |-> Body(flatten, i)]
    BY <2>3, Zenon DEF flatten
  <2> HIDE DEF flatten
  <2> QED
    BY <2>4
<1> HIDE DEF flatten
<1> DEFINE flat == [i \in 0..N |-> IF i = 0 THEN <<>> ELSE flatten[i]]
<1>6. ASSUME NEW i \in 1..N
      PROVE  flat[i] = flat[i - 1] \o seqs[i]
  <2> HIDE DEF N
  <2>1. flat[i] = flatten[i] /\ i - 1 \in 0..N
    BY <1>1
  <2>2. flatten[i] = Body(flatten, i) /\ seqs[i] \in Seq(S)
    BY <1>1, <1>5
  <2>3. CASE i = 1
    <3>1. flat[i - 1] = <<>> /\ flat[i] = seqs[i]
      BY <2>1, <2>2, <2>3
    <3> HIDE DEF flat
    <3> QED
      BY <2>2, <3>1
  <2>4. CASE i # 1
    <3>1. flat[i - 1] = flatten[i - 1]
      BY <2>1, <2>4
    <3> QED
      BY <2>1, <2>2, <2>4, <3>1
  <2> QED
    BY <2>3, <2>4
<1>7. FlattenSeq(seqs) = flat[N]
  <2>1. CASE N = 0
    BY <2>1, EmptySeq DEF FlattenSeq
  <2>2. CASE N # 0
    <3>1. FlattenSeq(seqs) = flatten[N]
      BY <2>2, Zenon DEF FlattenSeq, flatten
    <3> QED
      BY <1>1, <2>2, <3>1
  <2> QED
    BY <2>1, <2>2
<1>8. flat[0] = <<>> /\ DOMAIN flat = 0..N
  BY <1>1
<1>9. flat = [i \in 0..N |-> flat[i]]
  OBVIOUS
<1> HIDE DEF flat, N
<1>10. \A i \in 0..N : flat[i] \in Seq(S)
  <2> DEFINE E == {i \in Nat : i <= N => flat[i] \in Seq(S)}
  <2>1. 0 \in E
    BY <1>8, EmptySeq
  <2>2. ASSUME NEW i \in Nat, i \in E
        PROVE  i + 1 \in E
    <3>1. CASE i + 1 <= N
      <4>1. i <= N /\ i + 1 \in 1..N /\ (i + 1) - 1 = i
        BY <1>1, <3>1
      <4>2. flat[i + 1] = flat[(i + 1) - 1] \o seqs[i + 1]
        BY <1>6, <4>1
      <4>3. flat[i] \in Seq(S) /\ seqs[i + 1] \in Seq(S)
        BY <1>1, <2>2, <4>1
      <4>4. flat[i + 1] \in Seq(S)
        BY <4>1, <4>2, <4>3
      <4> QED
        BY <4>4
    <3>2. CASE ~(i + 1 <= N)
      BY <3>2
    <3> QED
      BY <3>1, <3>2
  <2> HIDE DEF E
  <2>3. Nat \subseteq E
    BY <2>1, <2>2, SetInduction
  <2>4. \A i \in 0..N : i \in Nat /\ i <= N
    BY <1>1
  <2> QED
    BY <2>3, <2>4 DEF E
<1>11. flat \in [0..N -> Seq(S)]
  BY <1>9, <1>10
<1>12. \A i \in 1..N : flat[i] = flat[i - 1] \o seqs[i]
  BY <1>6
<1>13. \E f \in [0..N -> Seq(S)] :
         /\ f[0] = <<>> /\ \A i \in 1..N : f[i] = f[i - 1] \o seqs[i]
         /\ FlattenSeq(seqs) = f[N]
  BY <1>7, <1>8, <1>11, <1>12
<1> QED
  BY <1>13 DEF N

---------------------------------------------------------------------------
(* Least and greatest members of sets of numbers.                          *)

\* A set of naturals has a least one.
LEMMA Least ==
  ASSUME NEW T, T \subseteq Nat, T # {}
  PROVE  \E x \in T : \A y \in T : x <= y
<1> DEFINE S == {n \in Nat : \A y \in T : n <= y}
<1>1. SUFFICES ASSUME \A x \in T : \E y \in T : y < x
               PROVE  FALSE
  BY SMT
<1>2. 0 \in S
  BY SMT
<1>3. ASSUME NEW n \in Nat, n \in S
      PROVE  n + 1 \in S
  BY <1>1, <1>3, SMT
<1> HIDE DEF S
<1>4. Nat \subseteq S
  BY <1>2, <1>3, SetInduction
<1>5. PICK x \in T : TRUE
  OBVIOUS
<1>6. x + 1 \in S
  BY <1>4, <1>5, SMT
<1> QED
  BY <1>5, <1>6, SMT DEF S

\* Min takes the least of them.
LEMMA MinFacts ==
  ASSUME NEW T, T \subseteq Nat, T # {}
  PROVE  Min(T) \in T /\ \A y \in T : Min(T) <= y
<1>1. \E x \in T : \A y \in T : x <= y
  BY Least
<1> QED
  BY <1>1, Zenon DEF Min

\* The least member of a set, and no other number.
LEMMA MinIs ==
  ASSUME NEW T, T \subseteq Nat, NEW x \in T, \A y \in T : x <= y
  PROVE  Min(T) = x
<1>1. Min(T) \in T /\ Min(T) <= x /\ x <= Min(T)
  BY MinFacts, Zenon
<1>2. Min(T) \in Nat /\ x \in Nat
  BY <1>1
<1> HIDE DEF Min
<1> QED
  BY <1>1, <1>2, SMT

\* A bounded set of naturals that is not empty has a greatest one.
LEMMA MaxFacts ==
  ASSUME NEW k \in Nat, NEW T, T \subseteq 0..k, T # {}
  PROVE  Max(T) \in T /\ \A y \in T : Max(T) >= y
<1> DEFINE U == {n \in Nat : k - n \in T}
<1>1. U # {}
  <2>1. PICK y \in T : TRUE
    OBVIOUS
  <2>2. y \in 0..k
    BY <2>1
  <2>3. k - y \in Nat /\ k - (k - y) = y
    BY <2>2, SMT
  <2> QED
    BY <2>1, <2>3, Zenon
<1>2. PICK u \in U : \A n \in U : u <= n
  BY <1>1, Least
<1>3. ASSUME NEW y \in T
      PROVE  k - u >= y
  <2>1. k - y \in Nat /\ k - (k - y) = y
    BY SMT
  <2>2. k - y \in U
    BY <2>1
  <2>3. u <= k - y /\ u \in Nat /\ y \in Nat
    BY <1>2, <2>2, SMT
  <2> QED
    BY <2>3, SMT
<1>4. \E x \in T : \A y \in T : x >= y
  BY <1>2, <1>3
<1> QED
  BY <1>4, Zenon DEF Max

---------------------------------------------------------------------------
(* A function defined by recursion on greater arguments.                   *)

(* A function whose value at a cursor comes from its value at a later one. *)
Recurs(g, N, later, step, base) ==
  \A i \in 0..N : g[i] = IF later[i] <= N THEN step[i][g[later[i]]] ELSE base[i]

\* A function may be defined by its values at later places.
LEMMA Recursion ==
  ASSUME NEW N \in Nat, NEW V, NEW later, NEW step \in [0..N -> [V -> V]], NEW base \in [0..N -> V],
         \A i \in 0..N : later[i] \in Nat /\ later[i] > i
  PROVE  \E g \in [0..N -> V] : Recurs(g, N, later, step, base)
<1> DEFINE B(g, i) == IF later[i] <= N THEN step[i][g[later[i]]] ELSE base[i]
           D == {k \in Nat : \E g \in [0..N -> V] : \A i \in 0..N : i + k >= N => g[i] = B(g, i)}
<1>1. \A i \in 0..N : i \in Nat /\ later[i] \in Nat /\ later[i] > i
                      /\ (later[i] <= N => later[i] \in 0..N)
  BY SMT
<1>2. 0 \in D
  <2>1. ASSUME NEW i \in 0..N, i + 0 >= N
        PROVE  ~(later[i] <= N)
    BY <1>1, <2>1, SMT
  <2>2. \A i \in 0..N : i + 0 >= N => base[i] = B(base, i)
    BY <2>1
  <2>3. base \in [0..N -> V]
    OBVIOUS
  <2> HIDE DEF B
  <2> QED
    BY <2>2, <2>3
<1>3. ASSUME NEW k \in Nat, k \in D
      PROVE  k + 1 \in D
  <2>1. PICK g \in [0..N -> V] : \A i \in 0..N : i + k >= N => g[i] = B(g, i)
    BY <1>3
  <2> DEFINE h == [i \in 0..N |-> IF i + (k + 1) = N THEN B(g, i) ELSE g[i]]
  <2>2. ASSUME NEW i \in 0..N
        PROVE  B(g, i) \in V
    <3>1. step[i] \in [V -> V] /\ base[i] \in V /\ (later[i] <= N => g[later[i]] \in V)
      BY <1>1
    <3> QED
      BY <3>1
  <2>3. h \in [0..N -> V]
    BY <2>2
  <2>4. ASSUME NEW i \in 0..N, i + (k + 1) >= N
        PROVE  h[i] = B(h, i)
    <3>1. later[i] <= N => later[i] \in 0..N /\ later[i] + (k + 1) # N
      BY <1>1, <2>4, SMT
    <3>2. later[i] <= N => h[later[i]] = g[later[i]]
      BY <3>1
    <3>4. i + (k + 1) = N \/ i + k >= N
      BY <2>4, SMT
    <3>5. h[i] = IF i + (k + 1) = N THEN B(g, i) ELSE g[i]
      OBVIOUS
    <3> HIDE DEF h
    <3>3. B(h, i) = B(g, i)
      BY <3>2, Zenon
    <3> HIDE DEF B
    <3> QED
      BY <2>1, <3>3, <3>4, <3>5
  <2> HIDE DEF h, B
  <2>5. k + 1 \in Nat /\ \A i \in 0..N : i + (k + 1) >= N => h[i] = B(h, i)
    BY <2>4
  <2> QED
    BY <2>3, <2>5
<1> HIDE DEF D
<1>4. N \in D
  BY <1>2, <1>3, SetInduction
<1> USE DEF D
<1> HIDE DEF B
<1>5. PICK g \in [0..N -> V] : \A i \in 0..N : i + N >= N => g[i] = B(g, i)
  BY <1>4
<1>6. \A i \in 0..N : i + N >= N
  BY SMT
<1>7. \A i \in 0..N : g[i] = B(g, i)
  BY <1>5, <1>6
<1> QED
  BY <1>7 DEF B, Recurs

---------------------------------------------------------------------------
(* Pieces of sequences and where they stand.                               *)

\* The piece of a sequence between two cursors.
LEMMA PieceFacts ==
  ASSUME NEW S, NEW s \in Seq(S), NEW a \in 0..Len(s), NEW b \in a..Len(s)
  PROVE  /\ SubSeq(s, a + 1, b) \in Seq(S) /\ Len(SubSeq(s, a + 1, b)) = b - a
         /\ \A i \in 1..(b - a) : SubSeq(s, a + 1, b)[i] = s[a + i]
<1>1. Len(s) \in Nat /\ a \in Nat /\ b \in Nat /\ a <= b /\ b <= Len(s)
  BY LenProperties, SMT
<1>2. \A i \in (a + 1)..b : s[i] \in S
  <2>1. \A i \in 1..Len(s) : s[i] \in S
    BY ElementOfSeq
  <2> QED
    BY <1>1, <2>1, SMT
<1>3. /\ SubSeq(s, a + 1, b) \in Seq(S)
      /\ Len(SubSeq(s, a + 1, b)) = IF a + 1 <= b THEN (b - (a + 1)) + 1 ELSE 0
      /\ \A i \in 1..((b - (a + 1)) + 1) : SubSeq(s, a + 1, b)[i] = s[((a + 1) + i) - 1]
  BY <1>1, <1>2, SubSeqProperties, SMT
<1> DEFINE t == SubSeq(s, a + 1, b)
<1> HIDE DEF t
<1>4. Len(t) = b - a
  BY <1>1, <1>3, SMT DEF t
<1>5. ASSUME NEW i \in 1..(b - a) PROVE t[i] = s[a + i]
  <2>1. i \in 1..((b - (a + 1)) + 1) /\ ((a + 1) + i) - 1 = a + i
    BY <1>1, SMT
  <2> QED
    BY <1>3, <2>1, Zenon DEF t
<1> QED
  BY <1>3, <1>4, <1>5 DEF t

\* A piece stands in a sequence right behind a cursor.
Stands(s, at, piece) ==
  at + Len(piece) <= Len(s) /\ \A i \in 1..Len(piece) : s[at + i] = piece[i]

\* A piece stands where it was cut from.
LEMMA PieceStands ==
  ASSUME NEW S, NEW s \in Seq(S), NEW a \in 0..Len(s), NEW b \in a..Len(s)
  PROVE  Stands(s, a, SubSeq(s, a + 1, b))
<1> DEFINE t == SubSeq(s, a + 1, b)
<1>1. Len(t) = b - a /\ \A i \in 1..(b - a) : t[i] = s[a + i]
  BY PieceFacts, Zenon
<1>2. a + (b - a) <= Len(s)
  BY LenProperties, SMT
<1> HIDE DEF t
<1>3. Stands(s, a, t)
  BY <1>1, <1>2, Zenon DEF Stands
<1> QED
  BY <1>3 DEF t

\* What stands at a place is the piece there.
LEMMA StandingPiece ==
  ASSUME NEW S, NEW s \in Seq(S), NEW a \in 0..Len(s), NEW t \in Seq(S), Stands(s, a, t)
  PROVE  SubSeq(s, a + 1, a + Len(t)) = t /\ a + Len(t) \in a..Len(s)
<1>1. Len(t) \in Nat /\ Len(s) \in Nat /\ a \in Nat
  BY LenProperties, SMT
<1>2. a + Len(t) \in a..Len(s) /\ (a + Len(t)) - a = Len(t)
  BY <1>1, SMT DEF Stands
<1> DEFINE b == a + Len(t)
           u == SubSeq(s, a + 1, b)
<1>3. u \in Seq(S) /\ Len(u) = b - a /\ \A i \in 1..(b - a) : u[i] = s[a + i]
  BY <1>2, PieceFacts, Zenon
<1> HIDE DEF u
<1>4. Len(u) = Len(t) /\ \A i \in 1..Len(u) : u[i] = t[i]
  BY <1>2, <1>3, Zenon DEF Stands
<1>5. u = t
  BY <1>3, <1>4, SeqEqual
<1> QED
  BY <1>2, <1>5 DEF u

\* A concatenation stands where its parts stand one behind the other.
LEMMA StandingParts ==
  ASSUME NEW S, NEW s \in Seq(S), NEW a \in Nat, NEW t \in Seq(S), NEW u \in Seq(S)
  PROVE  Stands(s, a, t \o u) <=> Stands(s, a, t) /\ Stands(s, a + Len(t), u)
<1> DEFINE c == t \o u
           m == Len(t)
           n == Len(u)
<1>1. /\ m \in Nat /\ n \in Nat /\ Len(c) = m + n /\ Len(s) \in Nat
      /\ \A i \in 1..(m + n) : c[i] = IF i <= m THEN t[i] ELSE u[i - m]
  BY ConcatProperties, LenProperties
<1> HIDE DEF c, m, n
<1>2. /\ \A i \in 1..m : i \in 1..(m + n) /\ c[i] = t[i]
      /\ \A i \in 1..n : m + i \in 1..(m + n) /\ c[m + i] = u[i] /\ a + (m + i) = (a + m) + i
  BY <1>1, SMT
<1>3. ASSUME Stands(s, a, c)
      PROVE  Stands(s, a, t) /\ Stands(s, a + m, u)
  <2>1. a + (m + n) <= Len(s) /\ \A i \in 1..(m + n) : s[a + i] = c[i]
    BY <1>1, <1>3, Zenon DEF Stands
  <2>2. a + m <= Len(s) /\ (a + m) + n <= Len(s)
    BY <1>1, <2>1, SMT
  <2>3. \A i \in 1..m : s[a + i] = t[i]
    BY <1>2, <2>1, Zenon
  <2>4. \A i \in 1..n : s[(a + m) + i] = u[i]
    BY <1>2, <2>1, Zenon
  <2> QED
    BY <2>2, <2>3, <2>4, Zenon DEF Stands, m, n
<1>4. ASSUME Stands(s, a, t), Stands(s, a + m, u)
      PROVE  Stands(s, a, c)
  <2>1. /\ (a + m) + n <= Len(s) /\ \A i \in 1..m : s[a + i] = t[i]
        /\ \A i \in 1..n : s[(a + m) + i] = u[i]
    BY <1>4, Zenon DEF Stands, m, n
  <2>2. ASSUME NEW i \in 1..(m + n) PROVE s[a + i] = c[i]
    <3>1. CASE i <= m
      <4>1. i \in 1..m
        BY <1>1, <3>1, SMT
      <4> QED
        BY <1>2, <2>1, <4>1, Zenon
    <3>2. CASE ~(i <= m)
      <4>1. i - m \in 1..n /\ m + (i - m) = i
        BY <1>1, <3>2, SMT
      <4>2. s[(a + m) + (i - m)] = u[i - m] /\ c[m + (i - m)] = u[i - m]
            /\ a + (m + (i - m)) = (a + m) + (i - m)
        BY <1>2, <2>1, <4>1, Zenon
      <4> QED
        BY <4>1, <4>2, Zenon
    <3> QED
      BY <3>1, <3>2
  <2>3. a + (m + n) <= Len(s)
    BY <1>1, <2>1, SMT
  <2> QED
    BY <1>1, <2>2, <2>3, Zenon DEF Stands
<1> QED
  BY <1>3, <1>4, Zenon DEF c, m

\* A sequence stands at its own beginning.
LEMMA StandsItself ==
  ASSUME NEW S, NEW s \in Seq(S)
  PROVE  Stands(s, 0, s)
<1>1. Len(s) \in Nat
  BY LenProperties
<1>2. 0 + Len(s) <= Len(s) /\ \A i \in 1..Len(s) : 0 + i = i
  BY <1>1, SMT
<1> QED
  BY <1>2, Zenon DEF Stands

---------------------------------------------------------------------------
(* Sequences put together of pieces.                                       *)

\* What is flattened so far, and where the next piece stands in the whole.
Flats(flat, seqs) ==
  /\ flat[0] = <<>> /\ flat[Len(seqs)] = FlattenSeq(seqs)
  /\ \A i \in 1..Len(seqs) :
       /\ flat[i] = flat[i - 1] \o seqs[i] /\ Len(flat[i]) = Len(flat[i - 1]) + Len(seqs[i])
       /\ Stands(FlattenSeq(seqs), 0, flat[i]) /\ Stands(FlattenSeq(seqs), Len(flat[i - 1]), seqs[i])

\* Each sequence stands in what is flattened, behind those before it.
LEMMA FlatStands ==
  ASSUME NEW S, NEW seqs \in Seq(Seq(S))
  PROVE  \E flat \in [0..Len(seqs) -> Seq(S)] : Flats(flat, seqs)
<1> DEFINE n == Len(seqs)
           all == FlattenSeq(seqs)
<1>1. n \in Nat /\ \A i \in 1..n : seqs[i] \in Seq(S)
  BY LenProperties
<1>2. PICK flat \in [0..n -> Seq(S)] :
        /\ flat[0] = <<>> /\ \A i \in 1..n : flat[i] = flat[i - 1] \o seqs[i]
        /\ all = flat[n]
  BY FlattenFacts
<1>3. \A i \in 1..n : i - 1 \in 0..n /\ i \in 0..n /\ n \in 0..n /\ 0 \in Nat
  BY <1>1, SMT
<1>4. 0 \in 0..n /\ n \in 0..n
  BY <1>1, SMT
<1> HIDE DEF n, all
<1>5. all \in Seq(S)
  BY <1>2, <1>4
<1>6. ASSUME NEW i \in 1..n
      PROVE  /\ flat[i] \in Seq(S) /\ flat[i - 1] \in Seq(S) /\ Len(flat[i - 1]) \in Nat
             /\ Len(flat[i]) = Len(flat[i - 1]) + Len(seqs[i])
             /\ Stands(all, 0, flat[i]) =>
                  Stands(all, 0, flat[i - 1]) /\ Stands(all, Len(flat[i - 1]), seqs[i])
  <2> DEFINE t == flat[i - 1]
             u == seqs[i]
  <2>1. t \in Seq(S) /\ u \in Seq(S) /\ flat[i] = t \o u /\ flat[i] \in Seq(S)
    BY <1>1, <1>2, <1>3
  <2> HIDE DEF t, u
  <2>2. Len(flat[i]) = Len(t) + Len(u) /\ Len(t) \in Nat
    BY <2>1, ConcatProperties, LenProperties
  <2>3. 0 \in Nat /\ 0 + Len(t) = Len(t)
    BY <2>2, SMT
  <2>4. Stands(all, 0, t \o u) <=> Stands(all, 0, t) /\ Stands(all, 0 + Len(t), u)
    BY <1>5, <2>1, <2>3, StandingParts, Zenon
  <2> QED
    BY <2>1, <2>2, <2>3, <2>4, Zenon DEF t, u
<1> DEFINE D == {k \in Nat : \A i \in 0..n : i + k = n => Stands(all, 0, flat[i])}
<1>7. 0 \in D
  <2>1. \A i \in 0..n : i + 0 = n => i = n
    BY <1>1, SMT
  <2>2. Stands(all, 0, flat[n])
    BY <1>2, <1>5, StandsItself, Zenon
  <2> QED
    BY <2>1, <2>2
<1>8. ASSUME NEW k \in Nat, k \in D
      PROVE  k + 1 \in D
  <2>1. ASSUME NEW i \in 0..n, i + (k + 1) = n PROVE Stands(all, 0, flat[i])
    <3>1. i + 1 \in 1..n /\ i + 1 \in 0..n /\ (i + 1) + k = n /\ (i + 1) - 1 = i
      BY <1>1, <2>1, SMT
    <3>2. Stands(all, 0, flat[i + 1])
      BY <1>8, <3>1
    <3> QED
      BY <1>6, <3>1, <3>2, Zenon
  <2>2. k + 1 \in Nat
    OBVIOUS
  <2> QED
    BY <2>1, <2>2
<1>9. \A i \in 0..n : Stands(all, 0, flat[i])
  <2> HIDE DEF D
  <2>1. Nat \subseteq D
    BY <1>7, <1>8, SetInduction
  <2>2. ASSUME NEW i \in 0..n PROVE Stands(all, 0, flat[i])
    <3> DEFINE k == n - i
    <3>1. k \in Nat /\ i + k = n
      BY <1>1, SMT
    <3> HIDE DEF k
    <3> QED
      BY <2>1, <3>1 DEF D
  <2> QED
    BY <2>2
<1>10. \A i \in 1..n :
         /\ flat[i] = flat[i - 1] \o seqs[i] /\ Len(flat[i]) = Len(flat[i - 1]) + Len(seqs[i])
         /\ Stands(all, 0, flat[i]) /\ Stands(all, Len(flat[i - 1]), seqs[i])
  BY <1>2, <1>3, <1>6, <1>9, Zenon
<1>11. Flats(flat, seqs)
  BY <1>2, <1>10, Zenon DEF Flats, n, all
<1> QED
  BY <1>11, Zenon DEF n

\* Flattening a concatenation concatenates what is flattened.
LEMMA FlattenConcat ==
  ASSUME NEW S, NEW a \in Seq(Seq(S)), NEW b \in Seq(Seq(S))
  PROVE  FlattenSeq(a \o b) = FlattenSeq(a) \o FlattenSeq(b)
<1> DEFINE c == a \o b
           m == Len(a)
           n == Len(b)
<1>1. /\ m \in Nat /\ n \in Nat /\ c \in Seq(Seq(S)) /\ Len(c) = m + n
      /\ \A i \in 1..(m + n) : c[i] = IF i <= m THEN a[i] ELSE b[i - m]
  BY ConcatProperties, LenProperties
<1> HIDE DEF c
<1>2. PICK fa \in [0..m -> Seq(S)] :
        /\ fa[0] = <<>> /\ \A i \in 1..m : fa[i] = fa[i - 1] \o a[i]
        /\ FlattenSeq(a) = fa[m]
  BY FlattenFacts
<1>3. PICK fb \in [0..n -> Seq(S)] :
        /\ fb[0] = <<>> /\ \A i \in 1..n : fb[i] = fb[i - 1] \o b[i]
        /\ FlattenSeq(b) = fb[n]
  BY FlattenFacts
<1>4. PICK fc \in [0..(m + n) -> Seq(S)] :
        /\ fc[0] = <<>> /\ \A i \in 1..(m + n) : fc[i] = fc[i - 1] \o c[i]
        /\ FlattenSeq(c) = fc[m + n]
  <2>1. \E fc \in [0..Len(c) -> Seq(S)] :
        /\ fc[0] = <<>> /\ \A i \in 1..Len(c) : fc[i] = fc[i - 1] \o c[i]
        /\ FlattenSeq(c) = fc[Len(c)]
    BY <1>1, FlattenFacts
  <2> QED
    BY <1>1, <2>1
<1>5. \A i \in 1..n : b[i] \in Seq(S) /\ i - 1 \in 0..n
  BY <1>1, ElementOfSeq
<1> DEFINE D == {k \in Nat : k <= m => fc[k] = fa[k]}
           E == {k \in Nat : k <= n => fc[m + k] = fa[m] \o fb[k]}
<1>6. 0 \in D
  BY <1>2, <1>4
<1>7. ASSUME NEW k \in Nat, k \in D PROVE k + 1 \in D
  <2>1. ASSUME k + 1 <= m PROVE fc[k + 1] = fa[k + 1]
    <3>1. k + 1 \in 1..m /\ k + 1 \in 1..(m + n) /\ (k + 1) - 1 = k /\ k <= m /\ k + 1 <= m
      BY <1>1, <2>1, SMT
    <3>2. fc[k + 1] = fc[k] \o c[k + 1] /\ fa[k + 1] = fa[k] \o a[k + 1] /\ c[k + 1] = a[k + 1]
      BY <1>1, <1>2, <1>4, <3>1
    <3> QED
      BY <1>7, <3>1, <3>2
  <2> QED
    BY <2>1
<1>8. m \in D
  <2> HIDE DEF D
  <2> QED
    BY <1>1, <1>6, <1>7, SetInduction
<1>9. fc[m] = fa[m] /\ fa[m] \in Seq(S)
  BY <1>1, <1>2, <1>8
<1>10. 0 \in E
  <2>1. m + 0 = m /\ fa[m] \o fb[0] = fa[m]
    BY <1>1, <1>3, <1>9, ConcatEmptySeq
  <2> QED
    BY <1>9, <2>1
<1>11. ASSUME NEW k \in Nat, k \in E PROVE k + 1 \in E
  <2>1. ASSUME k + 1 <= n PROVE fc[m + (k + 1)] = fa[m] \o fb[k + 1]
    <3>1. /\ k + 1 \in 1..n /\ m + (k + 1) \in 1..(m + n) /\ (k + 1) - 1 = k /\ k <= n
          /\ (m + (k + 1)) - 1 = m + k /\ ~(m + (k + 1) <= m) /\ (m + (k + 1)) - m = k + 1 /\ k \in 0..n
      BY <1>1, <2>1, SMT
    <3>2. fc[m + (k + 1)] = fc[m + k] \o c[m + (k + 1)] /\ c[m + (k + 1)] = b[k + 1]
      BY <1>1, <1>4, <3>1
    <3>3. fb[k + 1] = fb[k] \o b[k + 1] /\ fb[k] \in Seq(S) /\ b[k + 1] \in Seq(S)
      BY <1>3, <1>5, <3>1
    <3>4. fc[m + k] = fa[m] \o fb[k]
      BY <1>11, <3>1
    <3>5. (fa[m] \o fb[k]) \o b[k + 1] = fa[m] \o (fb[k] \o b[k + 1])
      <4> DEFINE x == fa[m]
                 y == fb[k]
                 z == b[k + 1]
      <4>1. x \in Seq(S) /\ y \in Seq(S) /\ z \in Seq(S)
        BY <1>9, <3>3
      <4> HIDE DEF x, y, z
      <4>2. (x \o y) \o z = x \o (y \o z)
        BY <4>1, ConcatAssociative
      <4> QED
        BY <4>2 DEF x, y, z
    <3> QED
      BY <3>2, <3>3, <3>4, <3>5
  <2>2. k + 1 \in Nat
    OBVIOUS
  <2> QED
    BY <2>1, <2>2, Zenon
<1>12. n \in E
  <2> HIDE DEF E
  <2> QED
    BY <1>1, <1>10, <1>11, SetInduction
<1> QED
  BY <1>1, <1>2, <1>3, <1>4, <1>12 DEF c

\* One and three pieces after one another.
LEMMA OnePiece ==
  ASSUME NEW S, NEW p \in Seq(S)
  PROVE  FlattenSeq(<<p>>) = p
<1> DEFINE ps == <<p>>
<1>1. ps \in Seq(Seq(S)) /\ Len(ps) = 1 /\ ps[1] = p
  OBVIOUS
<1> HIDE DEF ps
<1>2. PICK flat \in [0..Len(ps) -> Seq(S)] :
        /\ flat[0] = <<>> /\ \A i \in 1..Len(ps) : flat[i] = flat[i - 1] \o ps[i]
        /\ FlattenSeq(ps) = flat[Len(ps)]
  BY <1>1, FlattenFacts
<1>3. 1 \in 1..1 /\ 1 - 1 = 0
  BY SMT
<1>4. FlattenSeq(ps) = flat[0] \o p /\ flat[0] = <<>>
  BY <1>1, <1>2, <1>3
<1> QED
  BY <1>4, ConcatEmptySeq DEF ps

LEMMA ThreePieces ==
  ASSUME NEW S, NEW ps \in Seq(Seq(S)), Len(ps) = 3
  PROVE  FlattenSeq(ps) = (ps[1] \o ps[2]) \o ps[3]
<1>1. ps[1] \in Seq(S)
  BY ElementOfSeq
<1>2. PICK flat \in [0..Len(ps) -> Seq(S)] :
        /\ flat[0] = <<>> /\ \A i \in 1..Len(ps) : flat[i] = flat[i - 1] \o ps[i]
        /\ FlattenSeq(ps) = flat[Len(ps)]
  BY <1>1, FlattenFacts
<1>3. 1 \in 1..3 /\ 1 - 1 = 0 /\ 2 \in 1..3 /\ 2 - 1 = 1 /\ 3 \in 1..3 /\ 3 - 1 = 2
  BY SMT
<1>4. /\ flat[1] = flat[0] \o ps[1] /\ flat[0] = <<>> /\ flat[2] = flat[1] \o ps[2]
      /\ FlattenSeq(ps) = flat[2] \o ps[3]
  BY <1>2, <1>3
<1>5. flat[1] = ps[1]
  BY <1>1, <1>4, ConcatEmptySeq
<1> QED
  BY <1>4, <1>5

---------------------------------------------------------------------------
(* The members of a set of numbers in ascending order.                     *)

\* The members of a set of naturals in ascending order.
Enumerates(idx, n, I) ==
  /\ n \in Nat /\ idx \in [1..n -> Nat]
  /\ \A j, k \in 1..n : j < k => idx[j] < idx[k]
  /\ \A j \in 1..n : idx[j] \in I
  /\ \A x \in I : \E j \in 1..n : idx[j] = x

\* Two ascending orders of a set that agree up to a place do not part there.
LEMMA EnumBelow ==
  ASSUME NEW I, NEW a, NEW n, NEW b, NEW m, Enumerates(a, n, I), Enumerates(b, m, I),
         NEW j \in 1..n, j <= m, \A q \in 1..(j - 1) : a[q] = b[q]
  PROVE  ~(a[j] < b[j])
<1>1. SUFFICES ASSUME a[j] < b[j]
               PROVE  FALSE
  OBVIOUS
<1>2. n \in Nat /\ m \in Nat /\ j \in 1..m
  BY SMT DEF Enumerates
<1>3. PICK q \in 1..m : b[q] = a[j]
  BY Zenon DEF Enumerates
<1>4. b[q] \in Nat /\ b[j] \in Nat /\ a[j] \in Nat
  BY <1>2 DEF Enumerates
<1>5. ~(j < q) /\ q # j
  <2>1. j < q => b[j] < b[q]
    BY <1>2, Zenon DEF Enumerates
  <2> QED
    BY <1>1, <1>3, <1>4, <2>1, SMT
<1>6. q \in 1..(j - 1) /\ q < j /\ q \in 1..n
  BY <1>2, <1>5, SMT
<1>7. a[q] = a[j] /\ a[q] < a[j]
  <2>1. a[q] < a[j]
    BY <1>6, Zenon DEF Enumerates
  <2> QED
    BY <1>3, <1>6, <2>1
<1> QED
  BY <1>4, <1>7, SMT

\* Neither of two such orders ends before the other.
LEMMA EnumShort ==
  ASSUME NEW I, NEW a, NEW n, NEW b, NEW m, Enumerates(a, n, I), Enumerates(b, m, I),
         \A q \in 1..n : q <= m => a[q] = b[q]
  PROVE  ~(n < m)
<1>1. SUFFICES ASSUME n < m
               PROVE  FALSE
  OBVIOUS
<1>2. n \in Nat /\ m \in Nat
  BY DEF Enumerates
<1>3. n + 1 \in 1..m
  BY <1>1, <1>2, SMT
<1>4. PICK q \in 1..n : a[q] = b[n + 1]
  BY <1>3, Zenon DEF Enumerates
<1>5. q <= m /\ q \in 1..m /\ q < n + 1
  BY <1>1, <1>2, SMT
<1>6. b[q] = b[n + 1] /\ b[q] < b[n + 1] /\ b[n + 1] \in Nat
  <2>1. b[q] < b[n + 1]
    BY <1>3, <1>5, Zenon DEF Enumerates
  <2>2. b[n + 1] \in Nat
    BY <1>3 DEF Enumerates
  <2> QED
    BY <1>4, <1>5, <2>1, <2>2
<1> QED
  BY <1>6, SMT

\* There is one ascending order.
LEMMA EnumUnique ==
  ASSUME NEW I, NEW a, NEW n, NEW b, NEW m, Enumerates(a, n, I), Enumerates(b, m, I)
  PROVE  n = m /\ a = b /\ n \in Nat
<1>1. n \in Nat /\ m \in Nat /\ a \in [1..n -> Nat] /\ b \in [1..m -> Nat]
  BY Zenon DEF Enumerates
<1> DEFINE D == {k \in Nat : \A q \in 1..n : q <= k /\ q <= m => a[q] = b[q]}
<1>2. 0 \in D
  <2>1. \A q \in 1..n : ~(q <= 0)
    BY <1>1, SMT
  <2> QED
    BY <2>1
<1>3. ASSUME NEW k \in Nat, k \in D
      PROVE  k + 1 \in D
  <2>1. ASSUME NEW q \in 1..n, q <= k + 1, q <= m PROVE a[q] = b[q]
    <3>1. \A x \in 1..(q - 1) : x \in 1..n /\ x <= k /\ x <= m
      BY <1>1, <2>1, SMT
    <3>2. \A x \in 1..(q - 1) : a[x] = b[x]
      BY <1>3, <3>1
    <3>3. q \in 1..m /\ q <= n
      BY <1>1, <2>1, SMT
    <3>4. ~(a[q] < b[q])
      BY <2>1, <3>2, EnumBelow, Zenon
    <3>5. \A x \in 1..(q - 1) : b[x] = a[x]
      BY <3>2
    <3>6. ~(b[q] < a[q])
      BY <3>3, <3>5, EnumBelow, Zenon
    <3>7. a[q] \in Nat /\ b[q] \in Nat
      BY <1>1, <3>3
    <3> QED
      BY <3>4, <3>6, <3>7, SMT
  <2>2. k + 1 \in Nat
    OBVIOUS
  <2> QED
    BY <2>1, <2>2
<1>4. \A q \in 1..n : q <= m => a[q] = b[q]
  <2> HIDE DEF D
  <2>1. n \in D
    BY <1>1, <1>2, <1>3, SetInduction
  <2>2. \A q \in 1..n : q <= n
    BY <1>1, SMT
  <2> QED
    BY <2>1, <2>2 DEF D
<1>5. ~(n < m)
  BY <1>4, EnumShort, Zenon
<1>6. ~(m < n)
  <2>1. \A q \in 1..m : q <= n => q \in 1..n /\ q <= m
    BY <1>1, SMT
  <2>2. \A q \in 1..m : q <= n => b[q] = a[q]
    BY <1>4, <2>1
  <2> QED
    BY <2>2, EnumShort, Zenon
<1>7. n = m
  BY <1>1, <1>5, <1>6, SMT
<1>8. \A q \in 1..n : a[q] = b[q]
  <2>1. \A q \in 1..n : q <= m
    BY <1>1, <1>7, SMT
  <2> QED
    BY <1>4, <2>1
<1> QED
  BY <1>1, <1>7, <1>8

\* A greater member comes last.
LEMMA EnumGrows ==
  ASSUME NEW idx, NEW n, NEW I, Enumerates(idx, n, I), NEW x \in Nat, \A y \in I : y < x
  PROVE  Enumerates([j \in 1..(n + 1) |-> IF j = n + 1 THEN x ELSE idx[j]], n + 1, I \cup {x})
<1> DEFINE g == [j \in 1..(n + 1) |-> IF j = n + 1 THEN x ELSE idx[j]]
<1>1. /\ n \in Nat /\ idx \in [1..n -> Nat] /\ \A j, k \in 1..n : j < k => idx[j] < idx[k]
      /\ \A j \in 1..n : idx[j] \in I
      /\ \A z \in I : \E k \in 1..n : idx[k] = z
  BY Zenon DEF Enumerates
<1>2. /\ n + 1 \in Nat /\ n + 1 \in 1..(n + 1)
      /\ \A j \in 1..(n + 1) : j = n + 1 \/ (j \in 1..n /\ j # n + 1)
      /\ \A j \in 1..n : j \in 1..(n + 1) /\ j # n + 1
      /\ \A j, k \in 1..(n + 1) : j < k => j \in 1..n
  BY <1>1, SMT
<1>3. \A j \in 1..n : g[j] = idx[j]
  BY <1>2
<1>4. g[n + 1] = x
  BY <1>2
<1>5. g \in [1..(n + 1) -> Nat]
  BY <1>1, <1>2
<1> HIDE DEF g
<1>6. ASSUME NEW j \in 1..(n + 1), NEW k \in 1..(n + 1), j < k PROVE g[j] < g[k]
  <2>1. j \in 1..n
    BY <1>2, <1>6
  <2>2. CASE k = n + 1
    BY <1>1, <1>3, <1>4, <2>1, <2>2
  <2>3. CASE k \in 1..n
    BY <1>1, <1>3, <1>6, <2>1, <2>3
  <2> QED
    BY <1>2, <2>2, <2>3
<1>7. \A j \in 1..(n + 1) : g[j] \in I \cup {x}
  BY <1>1, <1>2, <1>3, <1>4
<1>8. ASSUME NEW z \in I \cup {x} PROVE \E j \in 1..(n + 1) : g[j] = z
  <2>1. CASE z = x
    BY <1>2, <1>4, <2>1
  <2>2. CASE z \in I
    <3>1. PICK k \in 1..n : idx[k] = z
      BY <1>1, <2>2, Zenon
    <3>2. k \in 1..(n + 1) /\ g[k] = z
      BY <1>2, <1>3, <3>1
    <3> QED
      BY <3>2
  <2> QED
    BY <2>1, <2>2
<1>9. Enumerates(g, n + 1, I \cup {x})
  BY <1>2, <1>5, <1>6, <1>7, <1>8, Zenon DEF Enumerates
<1> QED
  BY <1>9 DEF g
===============================================================================
