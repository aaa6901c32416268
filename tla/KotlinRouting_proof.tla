------------------------- MODULE KotlinRouting_proof -------------------------
(***************************************************************************)
(* What one request through the Kotlin builder keeps of what was asked,    *)
(* for any requests, values and reports: first of the flagfile, then of    *)
(* the route, the plan and the commands.                                   *)
(***************************************************************************)
EXTENDS KotlinRouting, Lemmas, FiniteSetTheorems

---------------------------------------------------------------------------
(* Parse, one token at a time.                                             *)
Start == [map |-> [f \in {} |-> <<>>], cur |-> None]

\* g is what the loop has read of a sequence of tokens, after each of them.
Reads(g, tokens) ==
  g[0] = Start /\ \A n \in 1..Len(tokens) : g[n] = Take(g[n - 1], tokens[n])

\* The loop has such an outcome, and it is what Parse returns.
LEMMA ParseFacts ==
  ASSUME NEW tokens \in Seq(Line)
  PROVE  \E g : Reads(g, tokens) /\ Parse(tokens) = g[Len(tokens)].map
<1> DEFINE N == Len(tokens)
           Body(g, n) == IF n = 0 THEN [map |-> [f \in {} |-> <<>>], cur |-> None]
                                  ELSE Take(g[n - 1], tokens[n])
           D == {k \in Nat : \E g : \A n \in 0..k : g[n] = Body(g, n)}
           read[n \in 0..N] == IF n = 0 THEN [map |-> [f \in {} |-> <<>>], cur |-> None]
                                        ELSE Take(read[n - 1], tokens[n])
<1>1. N \in Nat
  BY LenProperties
<1>2. 0 \in D
  <2> DEFINE h == [n \in 0..0 |-> Start]
  <2>1. \A n \in 0..0 : h[n] = Body(h, n)
    BY DEF Start
  <2> HIDE DEF h
  <2> QED
    BY <2>1
<1>3. ASSUME NEW k \in Nat, k \in D
      PROVE  k + 1 \in D
  <2>1. PICK g : \A n \in 0..k : g[n] = Body(g, n)
    BY <1>3
  <2> DEFINE h == [n \in 0..(k + 1) |-> IF n = k + 1 THEN Body(g, n) ELSE g[n]]
  <2>2. ASSUME NEW n \in 0..(k + 1)
        PROVE  h[n] = Body(h, n)
    <3>1. n = 0 \/ (n - 1 \in 0..k /\ n - 1 # k + 1 /\ h[n - 1] = g[n - 1])
      OBVIOUS
    <3>2. Body(h, n) = Body(g, n)
      BY <3>1
    <3>3. n # k + 1 => n \in 0..k
      OBVIOUS
    <3>4. n # k + 1 => g[n] = Body(g, n)
      BY <2>1, <3>3
    <3> HIDE DEF Body
    <3> QED
      BY <3>2, <3>4
  <2> HIDE DEF h
  <2>3. \A n \in 0..(k + 1) : h[n] = Body(h, n)
    BY <2>2
  <2> QED
    BY <2>3
<1>4. N \in D
  <2> HIDE DEF D, N
  <2> QED
    BY <1>1, <1>2, <1>3, SetInduction
<1>5. \A n \in 0..N : read[n] = Body(read, n)
  <2> HIDE DEF N
  <2>1. PICK g : \A n \in 0..N : g[n] = Body(g, n)
    BY <1>4
  <2> DEFINE h == [n \in 0..N |-> g[n]]
  <2>2. ASSUME NEW n \in 0..N
        PROVE  g[n] = Body(h, n)
    <3>1. n = 0 \/ n - 1 \in 0..N
      BY <1>1
    <3> QED
      BY <2>1, <3>1
  <2>3. h = [n \in 0..N |-> Body(h, n)]
    BY <2>2, Zenon
  <2>4. read = [n \in 0..N |-> Body(read, n)]
    BY <2>3, Zenon DEF read
  <2> HIDE DEF read
  <2> QED
    BY <2>4
<1>6. Parse(tokens) = read[N].map
  BY Zenon DEF Parse, read
<1> HIDE DEF read
<1>7. Reads(read, tokens)
  <2> HIDE DEF N
  <2>1. 0 \in 0..N /\ \A n \in 1..N : n \in 0..N /\ n # 0
    BY <1>1
  <2> QED
    BY <1>5, <2>1 DEF Reads, Start, N
<1> QED
  BY <1>6, <1>7

---------------------------------------------------------------------------
(* What Parse makes of a whole flagfile.                                   *)

\* The values asked under a flag in the first k fields of a request.
Upto(a, k, f) == UNION {ToSet(a[i].values) : i \in {n \in 1..k : a[n].flag = f}}

\* A state of the loop, what a flag makes of a map, and what values make of it.
At(m, c) == [map |-> m, cur |-> c]
Opening(m, f) == [x \in DOMAIN m \cup {f} |-> List(m, x)]
Adding(m, f, v) == [m EXCEPT ![f] = m[f] \o v]
IsMap(m) == \E D \in SUBSET Line : m \in [D -> Seq(Line)]

\* The tokens after p are the values v.
Values(tokens, p, v) ==
  \A j \in 1..Len(v) : tokens[p + j] = v[j] /\ v[j] \notin Flags \cup Longs

LEMMA TakeFlag ==
  ASSUME NEW m, NEW c, NEW f \in Flags
  PROVE  Take(At(m, c), f) = At(Opening(m, f), f)
BY DEF Take, At, Opening

LEMMA TakeValue ==
  ASSUME NEW m, IsMap(m), NEW f \in DOMAIN m, f # None,
         NEW e, e \notin Flags \cup Longs
  PROVE  Take(At(m, f), e) = At([m EXCEPT ![f] = Append(m[f], e)], f)
BY DEF Take, At, IsMap

LEMMA OpeningFacts ==
  ASSUME NEW m, IsMap(m), NEW f \in Line
  PROVE  /\ IsMap(Opening(m, f)) /\ f \in DOMAIN Opening(m, f)
         /\ \A x : List(Opening(m, f), x) = List(m, x)
<1>1. PICK D \in SUBSET Line : m \in [D -> Seq(Line)]
  BY DEF IsMap
<1>2. \A x \in D \cup {f} : List(m, x) \in Seq(Line)
  BY <1>1, EmptySeq DEF List
<1>3. Opening(m, f) \in [D \cup {f} -> Seq(Line)]
  BY <1>1, <1>2 DEF Opening
<1>4. ASSUME NEW x
      PROVE  List(Opening(m, f), x) = List(m, x)
  BY <1>1 DEF List, Opening
<1>5. D \cup {f} \in SUBSET Line
  BY <1>1
<1>6. IsMap(Opening(m, f))
  BY <1>3, <1>5 DEF IsMap
<1> QED
  BY <1>3, <1>4, <1>6

LEMMA AddingFacts ==
  ASSUME NEW m, IsMap(m), NEW f \in DOMAIN m, NEW v \in Seq(Line)
  PROVE  /\ IsMap(Adding(m, f, v)) /\ DOMAIN Adding(m, f, v) = DOMAIN m
         /\ Adding(m, f, v)[f] = m[f] \o v /\ m[f] \in Seq(Line)
         /\ \A x : ToSet(List(Adding(m, f, v), x))
                     = ToSet(List(m, x)) \cup (IF x = f THEN ToSet(v) ELSE {})
<1>1. PICK D \in SUBSET Line : m \in [D -> Seq(Line)]
  BY DEF IsMap
<1>2. m[f] \in Seq(Line)
  BY <1>1
<1> DEFINE u == m[f] \o v
           n == Adding(m, f, v)
<1>3. u \in Seq(Line)
  BY <1>2, ConcatProperties
<1>4. ToSet(u) = ToSet(m[f]) \cup ToSet(v)
  BY <1>2, ConcatElements
<1>5. n = [m EXCEPT ![f] = u]
  BY DEF Adding
<1> HIDE DEF u, n
<1>6. n \in [D -> Seq(Line)] /\ n[f] = u /\ \A x \in D : x # f => n[x] = m[x]
  BY <1>1, <1>3, <1>5
<1>7. IsMap(n)
  BY <1>6 DEF IsMap
<1>8. ASSUME NEW x
      PROVE  ToSet(List(n, x)) = ToSet(List(m, x)) \cup (IF x = f THEN ToSet(v) ELSE {})
  <2>1. CASE x = f
    BY <1>1, <1>4, <1>6, <2>1 DEF List
  <2>2. CASE x # f
    BY <1>1, <1>6, <2>2 DEF List
  <2> QED
    BY <2>1, <2>2
<1>9. DOMAIN n = DOMAIN m
  BY <1>1, <1>6
<1> QED
  BY <1>2, <1>6, <1>7, <1>8, <1>9 DEF u, n

LEMMA AddingList ==
  ASSUME NEW m, IsMap(m), NEW f \in DOMAIN m, NEW v
  PROVE  \A x : List(Adding(m, f, v), x) = IF x = f THEN List(m, x) \o v ELSE List(m, x)
<1> DEFINE u == m[f] \o v
           n == Adding(m, f, v)
<1>1. n = [m EXCEPT ![f] = u]
  BY DEF Adding
<1> HIDE DEF u, n
<1>2. DOMAIN n = DOMAIN m /\ n[f] = u /\ \A x \in DOMAIN m : x # f => n[x] = m[x]
  BY <1>1
<1>3. ASSUME NEW x
      PROVE  List(n, x) = IF x = f THEN List(m, x) \o v ELSE List(m, x)
  <2>1. CASE x = f
    BY <1>2, <2>1 DEF List, u
  <2>2. CASE x # f
    BY <1>2, <2>2 DEF List
  <2> QED
    BY <2>1, <2>2
<1> QED
  BY <1>3 DEF n

\* Values after a flag go to the end of its list.
LEMMA ReadValues ==
  ASSUME NEW tokens \in Seq(Line), NEW g, Reads(g, tokens),
         NEW m, IsMap(m), NEW f \in DOMAIN m, f # None,
         NEW p \in Nat, g[p] = At(m, f),
         NEW v \in Seq(Line), p + Len(v) <= Len(tokens), Values(tokens, p, v)
  PROVE  g[p + Len(v)] = At(Adding(m, f, v), f)
<1> DEFINE Taken(j) == Adding(m, f, SubSeq(v, 1, j))
           E == {j \in Nat : j <= Len(v) => g[p + j] = At(Taken(j), f)}
<1>1. Len(v) \in Nat /\ Len(tokens) \in Nat /\ m[f] \in Seq(Line)
  BY LenProperties DEF IsMap
<1>2. 0 \in E
  <2>1. SubSeq(v, 1, 0) = <<>> /\ m[f] \o <<>> = m[f]
    BY <1>1
  <2>2. Adding(m, f, <<>>) = m
    <3> DEFINE u == m[f] \o <<>>
    <3>1. Adding(m, f, <<>>) = [m EXCEPT ![f] = u]
      BY DEF Adding
    <3>2. u = m[f]
      BY <2>1
    <3> HIDE DEF u
    <3> QED
      BY <3>1, <3>2 DEF IsMap
  <2>3. Taken(0) = m
    BY <2>1, <2>2, Zenon
  <2>4. p + 0 = p
    OBVIOUS
  <2> HIDE DEF Taken
  <2> QED
    BY <2>3, <2>4
<1>3. ASSUME NEW j \in Nat, j \in E
      PROVE  j + 1 \in E
  <2>1. SUFFICES ASSUME j + 1 <= Len(v)
                 PROVE  g[p + (j + 1)] = At(Taken(j + 1), f)
    OBVIOUS
  <2>2. /\ g[p + j] = At(Taken(j), f) /\ j + 1 \in 1..Len(v)
        /\ p + (j + 1) \in 1..Len(tokens) /\ (p + (j + 1)) - 1 = p + j
    BY <1>1, <1>3, <2>1
  <2>3. tokens[p + (j + 1)] = v[j + 1] /\ v[j + 1] \notin Flags \cup Longs
    BY <2>2 DEF Values
  <2>4. v[j + 1] \in Line
    BY <2>2, ElementOfSeq
  <2>5. g[p + (j + 1)] = Take(At(Taken(j), f), v[j + 1])
    BY <2>2, <2>3 DEF Reads
  <2> DEFINE s == SubSeq(v, 1, j)
             e == v[j + 1]
  <2>6. s \in Seq(Line) /\ SubSeq(v, 1, j + 1) = Append(s, e)
    BY <1>1, <2>2
  <2> HIDE DEF s, e
  <2>7. m[f] \o Append(s, e) = Append(m[f] \o s, e)
    BY <1>1, <2>4, <2>6 DEF e
  <2>8. IsMap(Adding(m, f, s)) /\ f \in DOMAIN Adding(m, f, s) /\ Adding(m, f, s)[f] = m[f] \o s
    BY <2>6, AddingFacts
  <2>9. Adding(m, f, Append(s, e)) = [Adding(m, f, s) EXCEPT ![f] = Append(m[f] \o s, e)]
    BY <1>1, <2>7 DEF Adding, IsMap
  <2>10. Take(At(Adding(m, f, s), f), e)
           = At([Adding(m, f, s) EXCEPT ![f] = Append(Adding(m, f, s)[f], e)], f)
    BY <2>3, <2>8, TakeValue DEF e
  <2>11. Taken(j) = Adding(m, f, s) /\ Taken(j + 1) = Adding(m, f, Append(s, e))
    BY <2>6 DEF s
  <2> QED
    BY <2>5, <2>8, <2>9, <2>10, <2>11 DEF e
<1> HIDE DEF E
<1>4. Len(v) \in E
  BY <1>1, <1>2, <1>3, SetInduction
<1>5. SubSeq(v, 1, Len(v)) = v
  BY <1>1
<1>6. g[p + Len(v)] = At(Taken(Len(v)), f)
  BY <1>1, <1>4 DEF E
<1> QED
  BY <1>5, <1>6

\* u is s, then e, then v.
Joins(s, e, v, u) ==
  /\ Len(u) = (Len(s) + 1) + Len(v) /\ u[Len(s) + 1] = e
  /\ \A j \in 1..Len(v) : u[(Len(s) + 1) + j] = v[j]

LEMMA FieldAt ==
  ASSUME NEW S, NEW s \in Seq(S), NEW e \in S, NEW v \in Seq(S)
  PROVE  LET u == s \o (<<e>> \o v)
         IN  u \in Seq(S) /\ Joins(s, e, v, u) /\ IsPrefix(s, u)
<1> DEFINE w == <<e>> \o v
           u == s \o w
<1>1. Len(s) \in Nat /\ Len(v) \in Nat
  BY LenProperties
<1>2. w \in Seq(S) /\ Len(w) = 1 + Len(v) /\ w[1] = e /\ \A j \in 1..Len(v) : w[1 + j] = v[j]
  BY <1>1
<1> HIDE DEF w
<1>3. s \o w \in Seq(S) /\ Len(s \o w) = Len(s) + Len(w)
  BY <1>2, ConcatProperties
<1>4. /\ u \in Seq(S) /\ Len(u) = Len(s) + Len(w)
      /\ \A i \in 1..(Len(s) + Len(w)) : u[i] = IF i <= Len(s) THEN s[i] ELSE w[i - Len(s)]
  BY <1>1, <1>2, <1>3
<1> HIDE DEF u
<1>5. u[Len(s) + 1] = e
  BY <1>1, <1>2, <1>4
<1>6. ASSUME NEW j \in 1..Len(v)
      PROVE  u[(Len(s) + 1) + j] = v[j]
  <2>1. /\ (Len(s) + 1) + j \in 1..(Len(s) + Len(w)) /\ ~((Len(s) + 1) + j <= Len(s))
        /\ ((Len(s) + 1) + j) - Len(s) = 1 + j
    BY <1>1, <1>2
  <2> QED
    BY <1>2, <1>4, <2>1
<1>7. Len(s) <= Len(u) /\ \A i \in 1..Len(s) : s[i] = u[i]
  BY <1>1, <1>2, <1>4
<1>8. IsPrefix(s, u)
  BY <1>4, <1>7, IsPrefixDef
<1>9. Len(u) = (Len(s) + 1) + Len(v)
  BY <1>1, <1>2, <1>4
<1>10. Joins(s, e, v, u)
  BY <1>5, <1>6, <1>9 DEF Joins
<1> QED
  BY <1>4, <1>8, <1>10 DEF u, w

\* What Requests holds.
LEMMA Fields ==
  ASSUME NEW a \in Requests
  PROVE  /\ Len(a) \in Nat /\ DOMAIN a = 1..Len(a)
         /\ \A i \in 1..Len(a) : /\ a[i].flag \in Flags /\ a[i].flag \in Line
                                 /\ a[i].flag # None /\ a[i].values \in Seq(Line)
<1> DEFINE F == [flag : Flags, values : Seq(Line)]
<1>1. a \in Seq(F)
  BY TokensAssumption
<1>2. \A r \in F : r.flag \in Flags /\ r.values \in Seq(Line)
  OBVIOUS
<1> HIDE DEF F
<1>3. Len(a) \in Nat /\ DOMAIN a = 1..Len(a) /\ \A i \in 1..Len(a) : a[i] \in F
  BY <1>1, LenProperties, ElementOfSeq
<1> QED
  BY <1>2, <1>3, TokensAssumption

\* The flagfile grows by a field at a time.
LEMMA Written ==
  ASSUME NEW a \in Requests
  PROVE  \E flat \in [0..Len(a) -> Seq(Line)] :
           /\ flat[0] = <<>>
           /\ \A i \in 1..Len(a) : Joins(flat[i - 1], a[i].flag, a[i].values, flat[i])
           /\ Tokens(a) = flat[Len(a)]
           /\ \A k \in 0..Len(a) : IsPrefix(flat[k], flat[Len(a)])
<1> DEFINE K == Len(a)
           Row(i) == <<a[i].flag>> \o a[i].values
           seqs == [i \in DOMAIN a |-> Row(i)]
<1>1. /\ K \in Nat /\ DOMAIN a = 1..K
      /\ \A i \in 1..K : a[i].flag \in Line /\ a[i].values \in Seq(Line)
  BY Fields
<1>2. ASSUME NEW e \in Line, NEW v \in Seq(Line)
      PROVE  <<e>> \o v \in Seq(Line)
  BY <1>2
<1>3. \A i \in 1..K : Row(i) \in Seq(Line)
  BY <1>1, <1>2
<1>a. ASSUME NEW i \in 1..K, NEW s \in Seq(Line)
      PROVE  Joins(s, a[i].flag, a[i].values, s \o Row(i)) /\ IsPrefix(s, s \o Row(i))
  <2> DEFINE e == a[i].flag
             v == a[i].values
  <2>1. e \in Line /\ v \in Seq(Line)
    BY <1>1
  <2> HIDE DEF e, v
  <2>2. Joins(s, e, v, s \o (<<e>> \o v)) /\ IsPrefix(s, s \o (<<e>> \o v))
    BY <2>1, FieldAt
  <2> QED
    BY <2>2 DEF e, v
<1> HIDE DEF K, Row
<1>4. seqs \in Seq(Seq(Line)) /\ Len(seqs) = K /\ \A i \in 1..K : seqs[i] = Row(i)
  BY <1>1, <1>3
<1>5. Tokens(a) = FlattenSeq(seqs)
  BY DEF Tokens, Row
<1> HIDE DEF seqs
<1>6. PICK flat \in [0..Len(seqs) -> Seq(Line)] :
        /\ flat[0] = <<>> /\ \A i \in 1..Len(seqs) : flat[i] = flat[i - 1] \o seqs[i]
        /\ FlattenSeq(seqs) = flat[Len(seqs)]
  BY <1>4, FlattenFacts
<1>7. /\ flat \in [0..K -> Seq(Line)] /\ flat[0] = <<>> /\ Tokens(a) = flat[K]
      /\ \A i \in 1..K : flat[i] = flat[i - 1] \o Row(i)
  BY <1>4, <1>5, <1>6
<1> DEFINE E == {n \in Nat : n <= K => \A k \in 0..n : IsPrefix(flat[k], flat[n])}
<1>8. 0 \in E
  <2>1. flat[0] \in Seq(Line) /\ \A k \in 0..0 : k = 0
    BY <1>1, <1>7
  <2>2. IsPrefix(flat[0], flat[0])
    BY <2>1, PrefixFacts
  <2> QED
    BY <2>1, <2>2
<1>9. ASSUME NEW n \in Nat, n \in E
      PROVE  n + 1 \in E
  <2>1. SUFFICES ASSUME n + 1 <= K, NEW k \in 0..(n + 1)
                 PROVE  IsPrefix(flat[k], flat[n + 1])
    OBVIOUS
  <2>2. /\ n \in 0..K /\ n + 1 \in 1..K /\ n + 1 \in 0..K /\ (n + 1) - 1 = n /\ n <= K
        /\ (k = n + 1 \/ k \in 0..n) /\ k \in 0..K
    BY <1>1, <2>1
  <2>3. /\ flat[n] \in Seq(Line) /\ flat[n + 1] \in Seq(Line) /\ flat[k] \in Seq(Line)
    BY <1>7, <2>2
  <2>4. flat[n + 1] = flat[n] \o Row(n + 1)
    BY <1>7, <2>2
  <2>5. IsPrefix(flat[n], flat[n + 1])
    BY <1>a, <2>2, <2>3, <2>4
  <2>6. CASE k \in 0..n
    <3>1. IsPrefix(flat[k], flat[n])
      BY <1>9, <2>2, <2>6
    <3> QED
      BY <2>3, <2>5, <3>1, PrefixFacts
  <2>7. CASE k = n + 1
    BY <2>3, <2>7, PrefixFacts
  <2> QED
    BY <2>2, <2>6, <2>7
<1> HIDE DEF E
<1>10. K \in E
  BY <1>1, <1>8, <1>9, SetInduction
<1>11. \A k \in 0..K : IsPrefix(flat[k], flat[K])
  BY <1>1, <1>10 DEF E
<1>12. ASSUME NEW i \in 1..K
       PROVE  Joins(flat[i - 1], a[i].flag, a[i].values, flat[i])
  <2>1. i - 1 \in 0..K
    BY <1>1
  <2> QED
    BY <1>a, <1>7, <2>1
<1> QED
  BY <1>7, <1>11, <1>12 DEF K

\* After t the loop has m and, under f, the values v.
Grown(g, t, m, f, v) ==
  \E n : /\ IsMap(n) /\ g[Len(t)] = At(n, f)
         /\ \A x : List(n, x) = IF x = f THEN List(m, x) \o v ELSE List(m, x)
         /\ \A x : ToSet(List(n, x)) = ToSet(List(m, x)) \cup (IF x = f THEN ToSet(v) ELSE {})

\* What the loop makes of one field.
LEMMA FieldRead ==
  ASSUME NEW tokens \in Seq(Line), NEW g, Reads(g, tokens),
         NEW s \in Seq(Line), NEW f \in Flags, f \in Line, f # None, NEW v \in Seq(Line),
         ToSet(v) \cap (Flags \cup Longs) = {},
         NEW t \in Seq(Line), Joins(s, f, v, t), IsPrefix(t, tokens),
         NEW m, IsMap(m), NEW c, g[Len(s)] = At(m, c)
  PROVE  Grown(g, t, m, f, v)
<1> DEFINE p == Len(s)
           opened == Opening(m, f)
           n == Adding(opened, f, v)
<1>1. Len(t) <= Len(tokens) /\ \A i \in 1..Len(t) : t[i] = tokens[i]
  BY IsPrefixDef
<1>2. p \in Nat /\ Len(v) \in Nat /\ Len(tokens) \in Nat /\ DOMAIN v = 1..Len(v)
  BY LenProperties
<1>3. Len(t) = (p + 1) + Len(v) /\ t[p + 1] = f /\ \A j \in 1..Len(v) : t[(p + 1) + j] = v[j]
  BY DEF Joins
<1>4. g[p] = At(m, c)
  OBVIOUS
<1>5. IsMap(opened) /\ f \in DOMAIN opened /\ \A x : List(opened, x) = List(m, x)
  BY OpeningFacts
<1> HIDE DEF p
<1>6. g[p + 1] = At(opened, f)
  <2>1. p + 1 \in 1..Len(t) /\ p + 1 \in 1..Len(tokens) /\ (p + 1) - 1 = p
    BY <1>1, <1>2, <1>3
  <2>2. tokens[p + 1] = f
    BY <1>1, <1>3, <2>1
  <2>3. g[p + 1] = Take(At(m, c), f)
    BY <1>4, <2>1, <2>2 DEF Reads
  <2> QED
    BY <2>3, TakeFlag
<1>7. Values(tokens, p + 1, v)
  <2>1. ASSUME NEW j \in 1..Len(v)
        PROVE  tokens[(p + 1) + j] = v[j] /\ v[j] \notin Flags \cup Longs
    <3>1. (p + 1) + j \in 1..Len(t)
      BY <1>2, <1>3
    <3>2. v[j] \in ToSet(v)
      BY <1>2 DEF ToSet
    <3> QED
      BY <1>1, <1>3, <3>1, <3>2
  <2> QED
    BY <2>1 DEF Values
<1>8. (p + 1) + Len(v) <= Len(tokens) /\ p + 1 \in Nat
  BY <1>1, <1>2, <1>3
<1> HIDE DEF opened
<1>9. g[(p + 1) + Len(v)] = At(n, f)
  BY <1>5, <1>6, <1>7, <1>8, ReadValues
<1>10. /\ IsMap(n)
       /\ \A x : ToSet(List(n, x))
                   = ToSet(List(opened, x)) \cup (IF x = f THEN ToSet(v) ELSE {})
  BY <1>5, AddingFacts
<1>a. \A x : List(n, x) = IF x = f THEN List(opened, x) \o v ELSE List(opened, x)
  BY <1>5, AddingList
<1> HIDE DEF n
<1>11. \A x : ToSet(List(n, x)) = ToSet(List(m, x)) \cup (IF x = f THEN ToSet(v) ELSE {})
  BY <1>5, <1>10
<1>12. g[Len(t)] = At(n, f)
  BY <1>3, <1>9
<1>13. \A x : List(n, x) = IF x = f THEN List(m, x) \o v ELSE List(m, x)
  BY <1>5, <1>a
<1> QED
  BY <1>10, <1>11, <1>12, <1>13 DEF Grown

\* Nothing stands twice in s.
OneToOne(s) == \A i, j \in DOMAIN s : s[i] = s[j] => i = j

LEMMA ConcatOneToOne ==
  ASSUME NEW S, NEW s \in Seq(S), NEW t \in Seq(S), OneToOne(s), OneToOne(t),
         ToSet(s) \cap ToSet(t) = {}
  PROVE  OneToOne(s \o t)
<1> DEFINE a == Len(s)
           b == Len(t)
           u == s \o t
<1>1. /\ a \in Nat /\ b \in Nat /\ DOMAIN s = 1..a /\ DOMAIN t = 1..b
      /\ DOMAIN u = 1..(a + b)
      /\ \A i \in 1..(a + b) : u[i] = IF i <= a THEN s[i] ELSE t[i - a]
  BY ConcatProperties, LenProperties
<1> HIDE DEF a, b, u
<1>2. ASSUME NEW i \in 1..(a + b), NEW j \in 1..(a + b), u[i] = u[j]
      PROVE  i = j
  <2>1. CASE i <= a /\ j <= a
    <3>1. i \in DOMAIN s /\ j \in DOMAIN s /\ s[i] = s[j]
      BY <1>1, <1>2, <2>1
    <3> QED
      BY <3>1 DEF OneToOne
  <2>2. CASE ~(i <= a) /\ ~(j <= a)
    <3>1. i - a \in DOMAIN t /\ j - a \in DOMAIN t /\ t[i - a] = t[j - a]
      BY <1>1, <1>2, <2>2
    <3>2. i - a = j - a
      BY <3>1 DEF OneToOne
    <3> QED
      BY <1>1, <3>2
  <2>3. CASE i <= a /\ ~(j <= a)
    <3>1. i \in DOMAIN s /\ j - a \in DOMAIN t /\ s[i] = t[j - a]
      BY <1>1, <1>2, <2>3
    <3> QED
      BY <3>1 DEF ToSet
  <2>4. CASE ~(i <= a) /\ j <= a
    <3>1. i - a \in DOMAIN t /\ j \in DOMAIN s /\ t[i - a] = s[j]
      BY <1>1, <1>2, <2>4
    <3> QED
      BY <3>1 DEF ToSet
  <2> QED
    BY <2>1, <2>2, <2>3, <2>4
<1> QED
  BY <1>1, <1>2 DEF OneToOne, u

(* Under each flag the builder finds the values that were asked under it,  *)
(* none of them twice if none was asked twice.                             *)
LEMMA Understood ==
  ASSUME NEW a \in Requests, Plain(a)
  PROVE  \A f : /\ List(Parse(Tokens(a)), f) \in Seq(Line)
                /\ ToSet(List(Parse(Tokens(a)), f)) = Of(a, f)
                /\ Distinct(a, f) => OneToOne(List(Parse(Tokens(a)), f))
<1> DEFINE K == Len(a)
           tokens == Tokens(a)
<1>1. /\ K \in Nat /\ DOMAIN a = 1..K
      /\ \A i \in 1..K : /\ a[i].flag \in Flags /\ a[i].flag \in Line
                         /\ a[i].flag # None /\ a[i].values \in Seq(Line)
  BY Fields
<1> HIDE DEF K
<1>2. PICK flat \in [0..K -> Seq(Line)] :
        /\ flat[0] = <<>>
        /\ \A i \in 1..K : Joins(flat[i - 1], a[i].flag, a[i].values, flat[i])
        /\ tokens = flat[K]
        /\ \A k \in 0..K : IsPrefix(flat[k], flat[K])
  BY Written DEF K
<1> HIDE DEF tokens
<1>3. tokens \in Seq(Line)
  BY <1>1, <1>2
<1>4. PICK g : Reads(g, tokens) /\ Parse(tokens) = g[Len(tokens)].map
  BY <1>3, ParseFacts
<1> DEFINE Done(k) == \E m, c : /\ IsMap(m) /\ g[Len(flat[k])] = At(m, c)
                                /\ \A f : ToSet(List(m, f)) = Upto(a, k, f)
                                /\ \A f : Distinct(a, f) => OneToOne(List(m, f))
           E == {n \in Nat : n <= K => Done(n)}
<1>5. 0 \in E
  <2> DEFINE m == [f \in {} |-> <<>>]
  <2>1. Len(flat[0]) = 0
    BY <1>2
  <2>2. g[0] = At(m, None)
    BY <1>4 DEF Reads, Start, At
  <2>3. \A f : ToSet(List(m, f)) = Upto(a, 0, f)
    BY DEF List, ToSet, Upto
  <2>a. \A f : OneToOne(List(m, f))
    BY DEF List, OneToOne
  <2>4. IsMap(m)
    <3>1. {} \in SUBSET Line /\ m \in [{} -> Seq(Line)]
      OBVIOUS
    <3> HIDE DEF m
    <3> QED
      BY <3>1 DEF IsMap
  <2> HIDE DEF m
  <2>5. Done(0)
    BY <2>1, <2>2, <2>3, <2>4, <2>a
  <2> QED
    BY <2>5
<1>6. ASSUME NEW k \in Nat, k \in E
      PROVE  k + 1 \in E
  <2>1. SUFFICES ASSUME k + 1 <= K
                 PROVE  Done(k + 1)
    OBVIOUS
  <2>2. Done(k)
    BY <1>1, <1>6, <2>1
  <2>3. PICK m, c : /\ IsMap(m) /\ g[Len(flat[k])] = At(m, c)
                    /\ \A f : ToSet(List(m, f)) = Upto(a, k, f)
                    /\ \A f : Distinct(a, f) => OneToOne(List(m, f))
    BY <2>2
  <2>4. k \in 0..K /\ k + 1 \in 0..K /\ k + 1 \in 1..K /\ (k + 1) - 1 = k
    BY <1>1, <2>1
  <2> DEFINE s == flat[k]
             t == flat[k + 1]
             f0 == a[k + 1].flag
             v == a[k + 1].values
  <2>5. /\ s \in Seq(Line) /\ t \in Seq(Line) /\ f0 \in Flags /\ f0 \in Line /\ f0 # None
        /\ v \in Seq(Line)
    BY <1>1, <1>2, <2>4
  <2>6. Joins(s, f0, v, t)
    BY <1>2, <2>4
  <2>7. IsPrefix(t, tokens)
    BY <1>2, <2>4
  <2>8. ToSet(v) \cap (Flags \cup Longs) = {}
    BY <1>1, <2>4 DEF Plain
  <2>9. \A x : Upto(a, k + 1, x) = Upto(a, k, x) \cup (IF x = f0 THEN ToSet(v) ELSE {})
    <3>1. \A i : i \in 1..(k + 1) <=> i \in 1..k \/ i = k + 1
      OBVIOUS
    <3> QED
      BY <3>1 DEF Upto
  <2>10. g[Len(s)] = At(m, c)
    BY <2>3
  <2>d. Distinct(a, f0) => OneToOne(v) /\ Upto(a, k, f0) \cap ToSet(v) = {}
    <3>1. ASSUME Distinct(a, f0)
          PROVE  OneToOne(v)
      <4>1. k + 1 \in {i \in DOMAIN a : a[i].flag = f0}
        BY <1>1, <2>4
      <4>2. \A x \in DOMAIN v, y \in DOMAIN v : v[x] = v[y] => x = y
        BY <3>1, <4>1 DEF Distinct
      <4> QED
        BY <4>2 DEF OneToOne
    <3>2. ASSUME Distinct(a, f0), NEW x \in Upto(a, k, f0), x \in ToSet(v)
          PROVE  FALSE
      <4>1. PICK i \in 1..k : a[i].flag = f0 /\ x \in ToSet(a[i].values)
        BY <3>2 DEF Upto
      <4>2. PICK p \in DOMAIN a[i].values : a[i].values[p] = x
        BY <4>1 DEF ToSet
      <4>3. PICK q \in DOMAIN v : v[q] = x
        BY <3>2 DEF ToSet
      <4>4. i \in DOMAIN a /\ k + 1 \in DOMAIN a /\ i # k + 1
        BY <1>1, <2>4, <4>1
      <4> QED
        BY <3>2, <4>1, <4>2, <4>3, <4>4 DEF Distinct
    <3> QED
      BY <3>1, <3>2
  <2>e. \A x : List(m, x) \in Seq(Line)
    BY <2>3, EmptySeq DEF List, IsMap
  <2> HIDE DEF s, t, f0, v, E
  <2>a. Reads(g, tokens)
    BY <1>4
  <2>b. IsMap(m)
    BY <2>3
  <2>c. Grown(g, t, m, f0, v)
    BY <1>3, <2>a, <2>b, <2>5, <2>6, <2>7, <2>8, <2>10, FieldRead
  <2>11. PICK n : /\ IsMap(n) /\ g[Len(t)] = At(n, f0)
                  /\ \A x : List(n, x) = IF x = f0 THEN List(m, x) \o v ELSE List(m, x)
                  /\ \A x : ToSet(List(n, x))
                              = ToSet(List(m, x)) \cup (IF x = f0 THEN ToSet(v) ELSE {})
    BY <2>c DEF Grown
  <2>12. \A x : ToSet(List(n, x)) = Upto(a, k + 1, x)
    BY <2>3, <2>9, <2>11
  <2>13. g[Len(flat[k + 1])] = At(n, f0)
    BY <2>11 DEF t
  <2>14. ASSUME NEW x, Distinct(a, x)
         PROVE  OneToOne(List(n, x))
    <3>1. CASE x # f0
      BY <2>3, <2>11, <2>14, <3>1
    <3>2. CASE x = f0
      <4>1. /\ List(m, f0) \in Seq(Line) /\ v \in Seq(Line) /\ OneToOne(v)
            /\ OneToOne(List(m, f0)) /\ ToSet(List(m, f0)) \cap ToSet(v) = {}
        BY <2>3, <2>5, <2>d, <2>e, <2>14, <3>2
      <4>2. OneToOne(List(m, f0) \o v)
        BY <4>1, ConcatOneToOne
      <4> QED
        BY <2>11, <3>2, <4>2
    <3> QED
      BY <3>1, <3>2
  <2> QED
    BY <2>11, <2>12, <2>13, <2>14
<1>7. Done(K)
  <2> HIDE DEF E
  <2>1. K \in E
    BY <1>1, <1>5, <1>6, SetInduction
  <2> QED
    BY <1>1, <2>1 DEF E
<1>8. PICK m, c : /\ IsMap(m) /\ g[Len(tokens)] = At(m, c)
                  /\ \A f : ToSet(List(m, f)) = Upto(a, K, f)
                  /\ \A f : Distinct(a, f) => OneToOne(List(m, f))
  BY <1>2, <1>7
<1>9. Parse(tokens) = m
  BY <1>4, <1>8 DEF At
<1>10. \A f : Upto(a, K, f) = Of(a, f)
  BY <1>1 DEF Upto, Of
<1>11. \A f : List(m, f) \in Seq(Line)
  BY <1>8, EmptySeq DEF List, IsMap
<1> QED
  BY <1>8, <1>9, <1>10, <1>11 DEF tokens

---------------------------------------------------------------------------
(* The steps of a request, whatever is asked.                              *)
Meant(a) == Typed(Parse(Tokens(a)))

\* A second command makes the source jar.
Second(r) == r.srcjar # None /\ ~Processing(r)
AllMade(r) == IF Second(r) THEN Emits(r) \cup {r.srcjar} ELSE Emits(r)

LEMMA PlanFacts ==
  ASSUME NEW r
  PROVE  /\ Plan(r) # <<>> /\ Len(Plan(r)) = (IF Second(r) THEN 2 ELSE 1)
         /\ Head(Plan(r)) = Compile(r) /\ Head(Plan(r)).emits = Emits(r)
         /\ Second(r) => /\ Tail(Plan(r)) # <<>> /\ Len(Tail(Plan(r))) = 1
                         /\ Head(Tail(Plan(r))).emits = {r.srcjar}
                         /\ Tail(Tail(Plan(r))) = <<>>
         /\ ~Second(r) => Tail(Plan(r)) = <<>>
<1> DEFINE c == Compile(r)
           x == [emits |-> {r.srcjar}, loads |-> [j \in DOMAIN Xplugin |-> 0], builtins |-> {},
                 args |-> Under("source", ToSet(r.sources))]
<1>1. c.emits = Emits(r) /\ x.emits = {r.srcjar}
  BY DEF Compile
<1>2. Plan(r) = <<c>> \o (IF Second(r) THEN <<x>> ELSE <<>>)
  BY DEF Plan, Second
<1> HIDE DEF c, x
<1>3. <<c>> \o <<x>> = <<c, x>> /\ <<c>> \o <<>> = <<c>>
  BY PairFacts
<1>4. CASE Second(r)
  <2>1. Plan(r) = <<c, x>>
    BY <1>2, <1>3, <1>4
  <2>2. /\ <<c, x>> # <<>> /\ Len(<<c, x>>) = 2 /\ Head(<<c, x>>) = c /\ Tail(<<c, x>>) = <<x>>
        /\ <<x>> # <<>> /\ Len(<<x>>) = 1 /\ Head(<<x>>) = x /\ Tail(<<x>>) = <<>>
    OBVIOUS
  <2> QED
    BY <1>1, <1>4, <2>1, <2>2 DEF c
<1>5. CASE ~Second(r)
  <2>1. Plan(r) = <<c>>
    BY <1>2, <1>3, <1>5
  <2>2. <<c>> # <<>> /\ Len(<<c>>) = 1 /\ Head(<<c>>) = c /\ Tail(<<c>>) = <<>>
    OBVIOUS
  <2> QED
    BY <1>1, <1>5, <2>1, <2>2 DEF c
<1> QED
  BY <1>4, <1>5

\* What is made is never None.
LEMMA NoneMade ==
  /\ asked \in Requests => None \notin Declared
  /\ \A r : None \notin Emits(r)
<1>1. ASSUME asked \in Requests, None \in Declared
      PROVE  FALSE
  <2>1. PICK f \in Artifacts : None \in Of(asked, f)
    BY <1>1 DEF Declared, Asked
  <2>2. PICK i \in DOMAIN asked : None \in ToSet(asked[i].values)
    BY <2>1 DEF Of
  <2>3. asked[i].values \in Seq(Line)
    BY <1>1, Fields
  <2> DEFINE v == asked[i].values
  <2>4. v \in Seq(Line)
    BY <2>3
  <2>5. None \in ToSet(v)
    BY <2>2
  <2> HIDE DEF v
  <2>6. PICK j \in DOMAIN v : v[j] = None
    BY <2>5 DEF ToSet
  <2>7. v[j] \in Line
    BY <2>4, <2>6
  <2> QED
    BY <2>6, <2>7, TokensAssumption
<1>2. \A r : None \notin Emits(r)
  BY DEF Emits, Present
<1> QED
  BY <1>1, <1>2

\* How far a request has come, and what is made by then.
Flow ==
  /\ asked \in Requests /\ native \in BOOLEAN /\ abiGen \in BOOLEAN
  /\ pc \in {"asked", "parsed", "routed", "run", "deps", "done"} /\ code \in {0, 1}
  /\ pc # "done" => code = 0 /\ jdeps = None
  /\ pc \in {"asked", "parsed", "routed"} => cmds = <<>> /\ made = {}
  /\ pc \in {"asked", "parsed"} => route = None
  /\ pc \in {"parsed", "routed", "run", "deps"} => req = Meant(asked)
  /\ pc \in {"routed", "run", "deps"} => route = RouteOf(req)
  /\ pc \in {"run", "deps"} => route = "FAST" /\ Plannable(req)

\* What is left of the plan is what is not made yet.
Running ==
  pc = "run" => \/ made = {} /\ cmds = Plan(req)
                \/ /\ Second(req) /\ made # {} /\ made = Emits(req)
                   /\ cmds = Tail(Plan(req))

Ran == pc = "deps" => cmds = <<>> /\ made = AllMade(req)

\* The outcomes: of the stock tools, then of Elide.
Outcome ==
  pc = "done" =>
    \/ route # "FAST" /\ jdeps = None /\ ((code = 1 /\ made = {}) \/ made = Declared)
    \/ /\ route = "FAST" /\ route = RouteOf(req) /\ req = Meant(asked)
       /\ \/ code = 1 /\ cmds = <<>> /\ made = {} /\ jdeps = None
          \/ code = 1 /\ cmds # <<>> /\ jdeps = None
          \/ /\ cmds = <<>> /\ Plannable(req)
             /\ IF req.jdeps = None THEN code = 0 /\ made = AllMade(req) /\ jdeps = None
                ELSE IF native
                     THEN /\ code = (IF Fails(req) THEN 1 ELSE 0)
                          /\ made = AllMade(req) /\ jdeps = None
                     ELSE /\ code = 0 /\ made = AllMade(req) \cup {req.jdeps}
                          /\ DOMAIN jdeps = ToSet(req.classpath)

Shape ==
  /\ None \notin made /\ route \in {None, "FAST", "FALLBACK"} /\ Len(cmds) \in 0..2

Inv == Flow /\ Running /\ Ran /\ Outcome /\ Shape

\* A source jar comes of a compile that makes something first.
LEMMA SecondAfterFirst ==
  ASSUME NEW r, Plannable(r), Second(r)
  PROVE  Emits(r) # {}
<1>1. r.output # None /\ ~Processing(r)
  BY DEF Plannable, Second
<1>2. /\ r.output \in ToSet(<<r.abiJar, r.output>>)
      /\ r.output \in ToSet(<<r.jdeps, r.abiJar, r.output>>)
  BY DEF ToSet
<1>3. r.ksp[1] = None /\ r.kapt[1] = None
  BY <1>1 DEF Processing
<1>4. r.output \in Emits(r)
  BY <1>1, <1>2, <1>3 DEF Emits, Present
<1> QED
  BY <1>4

\* Before the end the outcome is open, and the rest is as it was.
LEMMA Starts == Init => Inv
BY DEF Init, Inv, Flow, Running, Ran, Outcome, Shape

LEMMA Steps == Inv /\ [Next]_vars => Inv'
<1> SUFFICES ASSUME Inv, [Next]_vars
             PROVE  Inv'
  OBVIOUS
<1> USE DEF Inv
<1>1. CASE StockKsp2
  <2>1. /\ pc = "asked" /\ pc' = "done" /\ route' = None /\ jdeps' = None /\ cmds' = <<>>
        /\ asked' = asked /\ native' = native /\ abiGen' = abiGen
    BY <1>1 DEF StockKsp2, config, Flow
  <2>2. (code' = 1 /\ made' = {}) \/ (code' = 0 /\ made' = Declared)
    BY <1>1 DEF StockKsp2, Flow
  <2>3. Declared' = Declared
    BY <2>1 DEF Declared, Asked
  <2>4. Outcome'
    BY <2>1, <2>2, <2>3, TokensAssumption DEF Outcome, Flow
  <2>5. None \notin made'
    BY <2>2, NoneMade DEF Flow
  <2>6. Shape'
    BY <2>1, <2>5 DEF Shape
  <2>7. Flow'
    BY <2>1, <2>2 DEF Flow
  <2> QED
    BY <2>1, <2>4, <2>6, <2>7 DEF Running, Ran
<1>2. CASE Read
  BY <1>2 DEF Read, config, Flow, Running, Ran, Outcome, Shape, Meant
<1>3. CASE Choose
  <2>1. RouteOf(req) \in {"FAST", "FALLBACK"}
    BY DEF RouteOf
  <2>2. /\ pc = "parsed" /\ pc' = "routed" /\ route' = RouteOf(req)
        /\ req' = req /\ asked' = asked /\ native' = native /\ abiGen' = abiGen
        /\ cmds' = cmds /\ made' = made /\ jdeps' = jdeps /\ code' = code
    BY <1>3 DEF Choose, config
  <2>3. RouteOf(req)' = RouteOf(req)
    BY <2>2 DEF RouteOf
  <2>4. Meant(asked)' = Meant(asked)
    BY <2>2
  <2> QED
    BY <2>1, <2>2, <2>3, <2>4 DEF Flow, Running, Ran, Outcome, Shape
<1>4. CASE Stock
  <2>1. /\ pc = "routed" /\ pc' = "done" /\ route = "FALLBACK" /\ route' = route /\ jdeps' = None
        /\ cmds' = <<>> /\ asked' = asked /\ native' = native /\ abiGen' = abiGen
    BY <1>4 DEF Stock, config, Flow
  <2>2. (code' = 1 /\ made' = {}) \/ (code' = 0 /\ made' = Declared)
    BY <1>4 DEF Stock, Flow
  <2>3. Declared' = Declared
    BY <2>1 DEF Declared, Asked
  <2>4. Outcome'
    BY <2>1, <2>2, <2>3 DEF Outcome, Flow
  <2>5. None \notin made'
    BY <2>2, NoneMade DEF Flow
  <2>6. Shape'
    BY <2>1, <2>5 DEF Shape
  <2>7. Flow'
    BY <2>1, <2>2 DEF Flow
  <2> QED
    BY <2>1, <2>4, <2>6, <2>7 DEF Running, Ran
<1>5. CASE MakePlan
  <2>1. /\ pc = "routed" /\ route = "FAST" /\ route' = route /\ req' = req
        /\ asked' = asked /\ native' = native /\ abiGen' = abiGen
        /\ made' = {} /\ jdeps' = None /\ None \notin made'
    BY <1>5 DEF MakePlan, config, Flow
  <2>2. /\ Plannable(req)' = Plannable(req) /\ Plan(req)' = Plan(req)
        /\ RouteOf(req)' = RouteOf(req) /\ Meant(asked)' = Meant(asked)
    BY <2>1 DEF Plannable, Plan, Compile, Emits, Args, Under, RouteOf
  <2>3. req = Meant(asked) /\ route = RouteOf(req) /\ cmds = <<>> /\ code = 0
    BY <2>1 DEF Flow
  <2>4. Len(Plan(req)) \in 0..2
    BY PlanFacts
  <2>5. CASE Plannable(req) /\ pc' = "run" /\ cmds' = Plan(req) /\ UNCHANGED code
    <3>1. Flow'
      BY <2>1, <2>2, <2>3, <2>5 DEF Flow
    <3>2. Running' /\ Ran' /\ Outcome' /\ Shape'
      BY <2>1, <2>2, <2>3, <2>4, <2>5 DEF Running, Ran, Outcome, Shape
    <3> QED
      BY <3>1, <3>2
  <2>6. CASE pc' = "done" /\ code' = 1 /\ UNCHANGED cmds
    <3>1. Flow'
      BY <2>1, <2>2, <2>3, <2>6 DEF Flow
    <3>2. Running' /\ Ran' /\ Outcome' /\ Shape'
      BY <2>1, <2>2, <2>3, <2>6 DEF Running, Ran, Outcome, Shape
    <3> QED
      BY <3>1, <3>2
  <2> QED
    BY <1>5, <2>5, <2>6 DEF MakePlan
<1>6. CASE RunCommand
  <2>1. /\ pc = "run" /\ cmds # <<>> /\ route' = route /\ req' = req
        /\ asked' = asked /\ native' = native /\ abiGen' = abiGen /\ jdeps' = None
    BY <1>6 DEF RunCommand, config, Flow
  <2>2. /\ Plannable(req)' = Plannable(req) /\ Plan(req)' = Plan(req)
        /\ RouteOf(req)' = RouteOf(req) /\ Meant(asked)' = Meant(asked)
        /\ Emits(req)' = Emits(req) /\ Second(req)' = Second(req)
        /\ AllMade(req)' = AllMade(req)
    BY <2>1 DEF Plannable, Plan, Compile, Emits, Args, Under, RouteOf, AllMade, Second
  <2>3. /\ req = Meant(asked) /\ route = RouteOf(req) /\ route = "FAST" /\ Plannable(req)
        /\ code = 0
    BY <2>1 DEF Flow
  <2>4. CASE /\ made' = made \cup Head(cmds).emits
             /\ cmds' = Tail(cmds)
             /\ pc' = IF Len(cmds) = 1 THEN "deps" ELSE "run"
             /\ UNCHANGED code
    <3>1. Flow'
      BY <2>1, <2>2, <2>3, <2>4 DEF Flow
    <3>2. Outcome'
      BY <2>4 DEF Outcome
    <3>3. None \notin Emits(req)
      BY NoneMade
    <3>4. CASE made = {} /\ cmds = Plan(req) /\ Second(req)
      <4>1. /\ Len(cmds) = 2 /\ pc' = "run" /\ cmds' = Tail(Plan(req)) /\ made' = Emits(req)
            /\ Len(cmds') = 1
        <5>1. /\ Len(Plan(req)) = 2 /\ Head(Plan(req)).emits = Emits(req)
              /\ Len(Tail(Plan(req))) = 1
          BY <3>4, PlanFacts
        <5> QED
          BY <2>4, <3>4, <5>1
      <4>2. Emits(req) # {}
        BY <2>3, <3>4, SecondAfterFirst
      <4> QED
        BY <2>1, <2>2, <3>1, <3>2, <3>3, <3>4, <4>1, <4>2 DEF Running, Ran, Shape
    <3>5. CASE made = {} /\ cmds = Plan(req) /\ ~Second(req)
      <4>1. Len(cmds) = 1 /\ pc' = "deps" /\ cmds' = <<>> /\ made' = Emits(req)
        BY <2>4, <3>5, PlanFacts
      <4>2. AllMade(req) = Emits(req)
        BY <3>5 DEF AllMade
      <4> QED
        BY <2>1, <2>2, <3>1, <3>2, <3>3, <4>1, <4>2 DEF Running, Ran, Shape
    <3>6. CASE /\ Second(req) /\ made # {} /\ made = Emits(req)
               /\ cmds = Tail(Plan(req))
      <4>1. /\ Len(cmds) = 1 /\ pc' = "deps" /\ cmds' = <<>>
            /\ made' = Emits(req) \cup {req.srcjar}
        BY <2>4, <3>6, PlanFacts
      <4>2. AllMade(req) = Emits(req) \cup {req.srcjar} /\ req.srcjar # None
        BY <3>6 DEF AllMade, Second
      <4> QED
        BY <2>1, <2>2, <3>1, <3>2, <3>3, <4>1, <4>2 DEF Running, Ran, Shape
    <3> QED
      BY <2>1, <3>4, <3>5, <3>6 DEF Running
  <2>5. CASE pc' = "done" /\ code' = 1 /\ UNCHANGED <<cmds, made, refs>>
    <3>1. Flow'
      BY <2>1, <2>2, <2>3, <2>5 DEF Flow
    <3>2. Running' /\ Ran' /\ Outcome' /\ Shape'
      BY <2>1, <2>2, <2>3, <2>5 DEF Running, Ran, Outcome, Shape
    <3> QED
      BY <3>1, <3>2
  <2> QED
    BY <1>6, <2>4, <2>5 DEF RunCommand
<1>7. CASE Deps
  <2>1. /\ pc = "deps" /\ pc' = "done" /\ route' = route /\ req' = req /\ cmds' = cmds
        /\ asked' = asked /\ native' = native /\ abiGen' = abiGen /\ refs' = refs
    BY <1>7 DEF Deps, config
  <2>2. /\ Plannable(req)' = Plannable(req) /\ RouteOf(req)' = RouteOf(req)
        /\ Meant(asked)' = Meant(asked) /\ AllMade(req)' = AllMade(req)
        /\ Fails(req)' = Fails(req)
    BY <2>1 DEF Plannable, Emits, RouteOf, AllMade, Second, Fails, Missing
  <2>3. /\ req = Meant(asked) /\ route = RouteOf(req) /\ route = "FAST" /\ Plannable(req)
        /\ code = 0 /\ jdeps = None /\ cmds = <<>> /\ made = AllMade(req) /\ None \notin made
    BY <2>1 DEF Flow, Ran, Shape
  <2>4. DOMAIN Kinds(req) = ToSet(req.classpath)
    BY DEF Kinds
  <2>5. CASE req.jdeps = None
    <3>1. made' = made /\ jdeps' = jdeps /\ code' = code
      BY <1>7, <2>5 DEF Deps
    <3> QED
      BY <2>1, <2>2, <2>3, <2>5, <3>1 DEF Flow, Running, Ran, Outcome, Shape
  <2>6. CASE req.jdeps # None /\ native
    <3>1. code' = (IF Fails(req) THEN 1 ELSE 0) /\ made' = made /\ jdeps' = jdeps
      BY <1>7, <2>6 DEF Deps
    <3> QED
      BY <2>1, <2>2, <2>3, <2>6, <3>1 DEF Flow, Running, Ran, Outcome, Shape
  <2>7. CASE req.jdeps # None /\ ~native
    <3>1. jdeps' = Kinds(req) /\ made' = made \cup {req.jdeps} /\ code' = code
      BY <1>7, <2>7 DEF Deps
    <3>2. DOMAIN jdeps' = ToSet(req'.classpath)
      BY <2>1, <2>4, <3>1
    <3> QED
      BY <2>1, <2>2, <2>3, <2>7, <3>1, <3>2 DEF Flow, Running, Ran, Outcome, Shape
  <2> QED
    BY <2>5, <2>6, <2>7
<1>8. CASE UNCHANGED vars
  <2>1. /\ native' = native /\ abiGen' = abiGen /\ asked' = asked /\ req' = req /\ pc' = pc
        /\ route' = route /\ cmds' = cmds /\ made' = made /\ refs' = refs /\ jdeps' = jdeps
        /\ code' = code
    BY <1>8 DEF vars
  <2>2. /\ Plannable(req)' = Plannable(req) /\ RouteOf(req)' = RouteOf(req)
        /\ Meant(asked)' = Meant(asked) /\ AllMade(req)' = AllMade(req)
        /\ Fails(req)' = Fails(req) /\ Plan(req)' = Plan(req) /\ Declared' = Declared
        /\ Emits(req)' = Emits(req) /\ Second(req)' = Second(req)
    BY <2>1 DEF Plannable, Emits, RouteOf, AllMade, Second, Fails, Missing, Plan, Compile,
                Args, Under, Declared, Asked
  <2> QED
    BY <2>1, <2>2 DEF Flow, Running, Ran, Outcome, Shape
<1> QED
  BY <1>1, <1>2, <1>3, <1>4, <1>5, <1>6, <1>7, <1>8 DEF Next

LEMMA Always == Spec => []Inv
BY Starts, Steps, PTL DEF Spec

(* One request goes through its steps with what each may hold: no missing  *)
(* artifact is ever written, at most two commands wait, and the jdeps of a *)
(* request are about its own classpath.                                    *)
THEOREM TypeCorrect == Spec => []TypeOK
<1>1. Inv => TypeOK
  BY DEF Inv, Flow, Ran, Running, Outcome, Shape, TypeOK
<1> QED
  BY <1>1, Always, PTL

---------------------------------------------------------------------------
(* What the builder understands of a request as rules_kotlin writes it.    *)
Names(x, S) == (x = None /\ S = {}) \/ (x # None /\ S = {x})

LEMMA Sole ==
  ASSUME NEW m, NEW f, List(m, f) \in Seq(Line), \A v, w \in ToSet(List(m, f)) : v = w
  PROVE  Names(First(m, f), ToSet(List(m, f)))
<1> DEFINE s == List(m, f)
<1>1. s \in Seq(Line) /\ \A v, w \in ToSet(s) : v = w
  OBVIOUS
<1>2. First(m, f) = IF s = <<>> THEN None ELSE Head(s)
  BY DEF First
<1> HIDE DEF s
<1>3. CASE s = <<>>
  BY <1>2, <1>3 DEF Names, ToSet, s
<1>4. CASE s # <<>>
  <2>1. 1 \in DOMAIN s /\ Head(s) = s[1] /\ s[1] \in Line
    BY <1>1, <1>4
  <2>2. s[1] \in ToSet(s)
    BY <2>1 DEF ToSet
  <2>3. ToSet(s) = {s[1]}
    BY <1>1, <2>2
  <2>4. s[1] # None
    BY <2>1, TokensAssumption
  <2> QED
    BY <1>2, <1>4, <2>1, <2>3, <2>4 DEF Names, s
<1> QED
  BY <1>3, <1>4

\* Two names of which one is used at most.
LEMMA SoleOf ==
  ASSUME NEW m, NEW f, NEW g, NEW S, NEW T, Names(First(m, f), S), Names(First(m, g), T),
         S = {} \/ T = {}
  PROVE  Names(FirstOf(m, f, g), S \cup T)
BY DEF Names, FirstOf

LEMMA EitherOf ==
  ASSUME NEW m, NEW f, NEW g, List(m, f) \in Seq(Line), List(m, g) \in Seq(Line),
         ToSet(List(m, f)) = {} \/ ToSet(List(m, g)) = {}
  PROVE  ToSet(Either(m, f, g)) = ToSet(List(m, f)) \cup ToSet(List(m, g))
<1> DEFINE s == List(m, f)
           t == List(m, g)
<1>1. s \in Seq(Line) /\ t \in Seq(Line) /\ (ToSet(s) = {} \/ ToSet(t) = {})
  OBVIOUS
<1>2. Either(m, f, g) = IF s # <<>> THEN s ELSE t
  BY DEF Either
<1> HIDE DEF s, t
<1>3. CASE s = <<>>
  <2>1. ToSet(s) = {}
    BY <1>3 DEF ToSet
  <2> QED
    BY <1>2, <1>3, <2>1 DEF s, t
<1>4. CASE s # <<>>
  <2>1. 1 \in DOMAIN s
    BY <1>1, <1>4
  <2>2. ToSet(s) # {}
    BY <2>1 DEF ToSet
  <2>3. ToSet(t) = {}
    BY <1>1, <2>2
  <2> QED
    BY <1>2, <1>4, <2>3 DEF s, t
<1> QED
  BY <1>3, <1>4

\* The fields of r say what a asks.
MeansOutputs(r, a) ==
  /\ Names(r.output, Of(a, "--output")) /\ Names(r.abiJar, Of(a, "--abi_jar"))
  /\ Names(r.jdeps, Of(a, "--kotlin_output_jdeps"))
  /\ Names(r.srcjar, Of(a, "--kotlin_output_srcjar"))
  /\ Names(r.kapt[1], Of(a, "--generated_java_srcjar"))
  /\ Names(r.kapt[2], Of(a, "--kapt_generated_class_jar"))
  /\ Names(r.kapt[3], Of(a, "--kapt_generated_stub_jar"))
  /\ Names(r.ksp[1], Of(a, "--generated_sources_output"))
  /\ Names(r.ksp[2], Of(a, "--generated_classes_output"))
  /\ r.kapt = <<r.kapt[1], r.kapt[2], r.kapt[3]>> /\ r.ksp = <<r.ksp[1], r.ksp[2]>>

MeansInputs(r, a) ==
  /\ ToSet(r.sources) = Of(a, "--sources") /\ ToSet(r.friends) = Of(a, "--kotlin_friend_paths")
  /\ ToSet(r.pluginOptions) = Of(a, "--compiler_plugin_options")
  /\ r.direct = Of(a, "--direct_dependencies") /\ r.processors = Of(a, "--processors")
  /\ ToSet(r.sourceJars) = Of(a, "--source_jars")
  /\ r.processorOptions
       = Of(a, "--ksp_options") \cup {AOptions[o] : o \in Of(a, "--javacopts") \cap DOMAIN AOptions}
  /\ Names(r.targetLabel, Of(a, "--target_label"))
  /\ Names(r.moduleName, Of(a, "--kotlin_module_name") \cup Of(a, "--module_name"))
  /\ Names(r.apiVersion, Of(a, "--kotlin_api_version") \cup Of(a, "--api_version"))
  /\ Names(r.jvmTarget, Of(a, "--kotlin_jvm_target") \cup Of(a, "--jvm_target"))
  /\ Names(r.languageVersion, Of(a, "--kotlin_language_version") \cup Of(a, "--language_version"))
  /\ ToSet(r.classpath) = Of(a, "--classpath") \cup Of(a, "--libraries")
  /\ ToSet(r.processorPath) = Of(a, "--processorpath") \cup Of(a, "--processor_classpath")
  /\ r.strict = "error" <=> "error" \in Of(a, "--strict_kotlin_deps")

MeansPlugins(r, a) ==
  /\ ToSet(r.plugins) = Of(a, "--compiler_plugin_classpath") /\ OneToOne(r.plugins)
  /\ ToSet(r.passthrough) = Of(a, "--kotlin_passthrough_flags") /\ OneToOne(r.passthrough)

LEMMA Meaning ==
  ASSUME NEW a \in Requests, Ordinary(a)
  PROVE  MeansOutputs(Meant(a), a) /\ MeansInputs(Meant(a), a) /\ MeansPlugins(Meant(a), a)
<1> DEFINE m == Parse(Tokens(a))
           r == Meant(a)
<1>1. \A f : /\ List(m, f) \in Seq(Line) /\ ToSet(List(m, f)) = Of(a, f)
             /\ Distinct(a, f) => OneToOne(List(m, f))
  BY Understood DEF Ordinary
<1> HIDE DEF m
<1>2. ASSUME NEW f, \A v, w \in Of(a, f) : v = w
      PROVE  Names(First(m, f), Of(a, f))
  BY <1>1, <1>2, Sole
<1>3. ASSUME NEW f, NEW g, \A v, w \in Of(a, f) : v = w, \A v, w \in Of(a, g) : v = w,
             Of(a, f) = {} \/ Of(a, g) = {}
      PROVE  Names(FirstOf(m, f, g), Of(a, f) \cup Of(a, g))
  BY <1>2, <1>3, SoleOf
<1>4. ASSUME NEW f, NEW g, Of(a, f) = {} \/ Of(a, g) = {}
      PROVE  ToSet(Either(m, f, g)) = Of(a, f) \cup Of(a, g)
  BY <1>1, <1>4, EitherOf
<1>5. r = Typed(m)
  BY DEF Meant, m
<1> HIDE DEF r
<1>6. MeansOutputs(r, a)
  <2>1. /\ r.output = First(m, "--output") /\ r.abiJar = First(m, "--abi_jar")
        /\ r.jdeps = First(m, "--kotlin_output_jdeps")
        /\ r.srcjar = First(m, "--kotlin_output_srcjar")
    BY <1>5 DEF Typed
  <2>2. r.kapt = <<First(m, "--generated_java_srcjar"), First(m, "--kapt_generated_class_jar"),
                   First(m, "--kapt_generated_stub_jar")>>
    BY <1>5 DEF Typed
  <2>3. r.ksp = <<First(m, "--generated_sources_output"), First(m, "--generated_classes_output")>>
    BY <1>5 DEF Typed
  <2>4. \A f \in Artifacts : Names(First(m, f), Of(a, f))
    BY <1>2 DEF Ordinary
  <2> QED
    BY <2>1, <2>2, <2>3, <2>4 DEF Artifacts, MeansOutputs
<1>7. MeansInputs(r, a)
  <2>1. /\ r.sources = List(m, "--sources") /\ r.friends = List(m, "--kotlin_friend_paths")
        /\ r.pluginOptions = List(m, "--compiler_plugin_options")
        /\ r.direct = ToSet(List(m, "--direct_dependencies"))
        /\ r.processors = ToSet(List(m, "--processors"))
        /\ r.sourceJars = List(m, "--source_jars")
        /\ r.processorOptions
             = ToSet(List(m, "--ksp_options"))
                 \cup {AOptions[o] : o \in ToSet(List(m, "--javacopts")) \cap DOMAIN AOptions}
    BY <1>5 DEF Typed
  <2>2. /\ r.moduleName = FirstOf(m, "--kotlin_module_name", "--module_name")
        /\ r.apiVersion = FirstOf(m, "--kotlin_api_version", "--api_version")
        /\ r.jvmTarget = FirstOf(m, "--kotlin_jvm_target", "--jvm_target")
        /\ r.languageVersion = FirstOf(m, "--kotlin_language_version", "--language_version")
        /\ r.targetLabel = First(m, "--target_label")
    BY <1>5 DEF Typed
  <2>3. /\ r.classpath = Either(m, "--classpath", "--libraries")
        /\ r.processorPath = Either(m, "--processorpath", "--processor_classpath")
    BY <1>5 DEF Typed
  <2>4. r.strict = IF First(m, "--strict_kotlin_deps") = None
                   THEN "off" ELSE First(m, "--strict_kotlin_deps")
    BY <1>5 DEF Typed
  <2>5. /\ Of(a, "--classpath") = {} \/ Of(a, "--libraries") = {}
        /\ Of(a, "--processorpath") = {} \/ Of(a, "--processor_classpath") = {}
        /\ Of(a, "--kotlin_module_name") = {} \/ Of(a, "--module_name") = {}
        /\ Of(a, "--kotlin_api_version") = {} \/ Of(a, "--api_version") = {}
        /\ Of(a, "--kotlin_jvm_target") = {} \/ Of(a, "--jvm_target") = {}
        /\ Of(a, "--kotlin_language_version") = {} \/ Of(a, "--language_version") = {}
    BY DEF Ordinary, SecondNames
  <2>6. /\ ToSet(r.classpath) = Of(a, "--classpath") \cup Of(a, "--libraries")
        /\ ToSet(r.processorPath) = Of(a, "--processorpath") \cup Of(a, "--processor_classpath")
    BY <1>4, <2>3, <2>5
  <2>7. \A f \in {"--kotlin_module_name", "--module_name", "--kotlin_api_version",
                  "--api_version", "--kotlin_jvm_target", "--jvm_target",
                  "--kotlin_language_version", "--language_version", "--target_label",
                  "--strict_kotlin_deps"} : \A v, w \in Of(a, f) : v = w
    BY DEF Ordinary
  <2>8. /\ Names(r.moduleName, Of(a, "--kotlin_module_name") \cup Of(a, "--module_name"))
        /\ Names(r.apiVersion, Of(a, "--kotlin_api_version") \cup Of(a, "--api_version"))
        /\ Names(r.jvmTarget, Of(a, "--kotlin_jvm_target") \cup Of(a, "--jvm_target"))
        /\ Names(r.languageVersion,
                 Of(a, "--kotlin_language_version") \cup Of(a, "--language_version"))
    BY <1>3, <2>2, <2>5, <2>7
  <2>9. /\ Names(First(m, "--strict_kotlin_deps"), Of(a, "--strict_kotlin_deps"))
        /\ Names(r.targetLabel, Of(a, "--target_label"))
    BY <1>2, <2>2, <2>7
  <2>10. r.strict = "error" <=> "error" \in Of(a, "--strict_kotlin_deps")
    BY <2>4, <2>9 DEF Names
  <2> QED
    BY <1>1, <2>1, <2>6, <2>8, <2>9, <2>10 DEF MeansInputs
<1>8. MeansPlugins(r, a)
  <2>1. /\ r.plugins = List(m, "--compiler_plugin_classpath")
        /\ r.passthrough = List(m, "--kotlin_passthrough_flags")
    BY <1>5 DEF Typed
  <2> QED
    BY <1>1, <2>1 DEF MeansPlugins, Ordinary
<1> QED
  BY <1>6, <1>7, <1>8 DEF r

---------------------------------------------------------------------------
(* What is made, given and checked of such a request.                      *)
LEMMA PresentFacts ==
  /\ \A x : Present(<<x>>) = {x} \ {None}
  /\ \A x, y : Present(<<x, y>>) = {x, y} \ {None}
  /\ \A x, y, z : Present(<<x, y, z>>) = {x, y, z} \ {None}
BY DEF Present, ToSet

\* What the stock builder is kept for, and what makes a request KSP2 or KAPT.
LEMMA FastRoute ==
  ASSUME NEW r, RouteOf(r) = "FAST"
  PROVE  /\ r.ksp[1] # None => native
         /\ r.processors # {} => native \/ r.ksp[1] # None
BY DEF RouteOf

\* The commands make what is declared; the jdeps, with native tools only.
LEMMA Promised ==
  ASSUME asked \in Requests, Ordinary(asked), req = Meant(asked), native \in BOOLEAN,
         RouteOf(req) = "FAST"
  PROVE  /\ native => Declared \subseteq AllMade(req)
         /\ Declared \subseteq AllMade(req) \cup {req.jdeps}
         /\ req.jdeps = None => Declared \subseteq AllMade(req)
<1> DEFINE r == req
           O(f) == Of(asked, f)
<1>1. MeansOutputs(r, asked) /\ MeansInputs(r, asked)
  BY Meaning
<1>2. /\ r.ksp[1] # None => native
      /\ r.processors # {} => native \/ r.ksp[1] # None
  BY FastRoute
<1>3. Declared = UNION {O(f) : f \in Artifacts}
  BY DEF Declared, Asked
<1>4. CASE /\ O("--generated_sources_output") # {}
           /\ \A f \in Artifacts \ Ksp2s : O(f) = {}
  <2>1. native /\ r.ksp[1] # None /\ ~Second(r)
    BY <1>1, <1>2, <1>4 DEF MeansOutputs, Names, Second, Processing
  <2>2. Emits(r) = {r.ksp[1], r.ksp[2]} \ {None}
    BY <1>1, <2>1, PresentFacts DEF Emits, MeansOutputs
  <2>3. O("--generated_sources_output") \cup O("--generated_classes_output") \subseteq Emits(r)
    BY <1>1, <2>2 DEF MeansOutputs, Names
  <2>4. Declared \subseteq Emits(r)
    BY <1>3, <1>4, <2>3 DEF Ksp2s
  <2> QED
    BY <2>1, <2>4 DEF AllMade
<1>5. CASE /\ O("--generated_java_srcjar") # {} /\ O("--processors") # {}
           /\ \A f \in Artifacts \ Kapts : O(f) = {}
  <2>1. O("--generated_sources_output") = {}
    BY <1>5 DEF Artifacts, Kapts
  <2>2. native /\ r.ksp[1] = None /\ r.kapt[1] # None /\ ~Second(r)
    BY <1>1, <1>2, <1>5, <2>1 DEF MeansOutputs, MeansInputs, Names, Second, Processing
  <2>3. Emits(r) = {r.kapt[1], r.kapt[2], r.kapt[3]} \ {None}
    BY <1>1, <2>2, PresentFacts DEF Emits, MeansOutputs
  <2>4. O("--generated_java_srcjar") \cup O("--kapt_generated_class_jar")
          \cup O("--kapt_generated_stub_jar") \subseteq Emits(r)
    BY <1>1, <2>3 DEF MeansOutputs, Names
  <2>5. Declared \subseteq Emits(r)
    BY <1>3, <1>5, <2>4 DEF Kapts
  <2> QED
    BY <2>2, <2>5 DEF AllMade
<1>6. CASE \A f \in Ksp2s \cup Kapts : O(f) = {}
  <2>1. ~Processing(r)
    BY <1>1, <1>6 DEF MeansOutputs, Names, Processing, Ksp2s, Kapts
  <2>2. r.kapt[1] = None /\ r.ksp[1] = None
    BY <2>1 DEF Processing
  <2>3. /\ native => Emits(r) = {r.jdeps, r.abiJar, r.output} \ {None}
        /\ ~native => Emits(r) = {r.abiJar, r.output} \ {None}
    BY <2>1, <2>2, PresentFacts DEF Emits
  <2>4. AllMade(r) = IF r.srcjar # None THEN Emits(r) \cup {r.srcjar} ELSE Emits(r)
    BY <2>1 DEF AllMade, Second
  <2>5. /\ O("--output") \cup O("--abi_jar") \cup O("--kotlin_output_srcjar") \subseteq AllMade(r)
        /\ O("--kotlin_output_jdeps") \subseteq {r.jdeps}
        /\ r.jdeps = None => O("--kotlin_output_jdeps") = {}
        /\ native => O("--kotlin_output_jdeps") \subseteq AllMade(r)
    BY <1>1, <2>3, <2>4 DEF MeansOutputs, Names
  <2>6. Declared = O("--output") \cup O("--abi_jar") \cup O("--kotlin_output_srcjar")
                     \cup O("--kotlin_output_jdeps")
    BY <1>3, <1>6 DEF Artifacts, Ksp2s, Kapts
  <2> QED
    BY <2>5, <2>6
<1> QED
  BY <1>4, <1>5, <1>6 DEF Ordinary

(* "Processing requests produce their declared source/class/stub jars      *)
(* only; compilation requests produce implementation/ABI jars and optional *)
(* srcjar" (ElideCompile.kt 85-86): whatever rules_kotlin asks, a success  *)
(* leaves every artifact it declared, by whichever route.                  *)
THEOREM EveryArtifact ==
  ASSUME \A a \in Requests : Ordinary(a)
  PROVE  Spec => []DeclaredMade
<1>1. Inv => DeclaredMade
  <2> SUFFICES ASSUME Inv, pc = "done", code = 0
               PROVE  Declared \subseteq made
    BY DEF DeclaredMade
  <2>1. asked \in Requests /\ Ordinary(asked) /\ native \in BOOLEAN
    BY DEF Inv, Flow
  <2>2. CASE route # "FAST"
    BY <2>2 DEF Inv, Outcome
  <2>3. CASE route = "FAST"
    <3>1. /\ RouteOf(req) = "FAST" /\ req = Meant(asked)
          /\ IF req.jdeps = None THEN made = AllMade(req)
             ELSE IF native THEN made = AllMade(req)
             ELSE made = AllMade(req) \cup {req.jdeps}
      BY <2>3 DEF Inv, Outcome
    <3> QED
      BY <2>1, <3>1, Promised
  <2> QED
    BY <2>2, <2>3
<1> QED
  BY <1>1, Always, PTL

\* What the compile of a request is given.
LEMMA Given ==
  ASSUME asked \in Requests, Ordinary(asked), req = Meant(asked), native \in BOOLEAN,
         RouteOf(req) = "FAST"
  PROVE  Owed \subseteq Args(req)
<1> DEFINE r == req
           O(f) == Of(asked, f)
<1>1. MeansOutputs(r, asked) /\ MeansInputs(r, asked) /\ MeansPlugins(r, asked)
  BY Meaning
<1>2. /\ r.ksp[1] # None => native
      /\ r.processors # {} => native \/ r.ksp[1] # None
  BY FastRoute
<1>3. ASSUME NEW name, NEW S, NEW T, Under(name, T) \subseteq Args(r), S \subseteq T
      PROVE  Under(name, S) \subseteq Args(r)
  BY <1>3 DEF Under
<1>4. \A name, f, g : /\ Wants(name, {f}) = Under(name, O(f))
                      /\ Wants(name, {f, g}) = Under(name, O(f) \cup O(g))
  <2>1. \A f, g : UNION {Asked(h) : h \in {f}} = O(f)
                  /\ UNION {Asked(h) : h \in {f, g}} = O(f) \cup O(g)
    BY DEF Asked
  <2> QED
    BY <2>1 DEF Wants
<1>5. \A x, S : Names(x, S) => Present(<<x>>) = S
  BY PresentFacts DEF Names
<1>6. /\ Wants("source", {"--sources"}) \subseteq Args(r)
      /\ Wants("sourcejar", {"--source_jars"}) \subseteq Args(r)
      /\ Wants("classpath", {"--classpath", "--libraries"}) \subseteq Args(r)
      /\ Wants("friend", {"--kotlin_friend_paths"}) \subseteq Args(r)
      /\ Wants("P", {"--compiler_plugin_options"}) \subseteq Args(r)
  <2>1. /\ Under("source", ToSet(r.sources)) \subseteq Args(r)
        /\ Under("sourcejar", ToSet(r.sourceJars)) \subseteq Args(r)
        /\ Under("classpath", ToSet(r.classpath)) \subseteq Args(r)
        /\ Under("friend", ToSet(r.friends)) \subseteq Args(r)
        /\ Under("P", ToSet(r.pluginOptions)) \subseteq Args(r)
    BY DEF Args
  <2> QED
    BY <1>1, <1>4, <2>1 DEF MeansInputs
<1>7. /\ Wants("module", {"--kotlin_module_name", "--module_name"}) \subseteq Args(r)
      /\ Wants("target", {"--kotlin_jvm_target", "--jvm_target"}) \subseteq Args(r)
      /\ Wants("api", {"--kotlin_api_version", "--api_version"}) \subseteq Args(r)
      /\ Wants("language", {"--kotlin_language_version", "--language_version"}) \subseteq Args(r)
  <2>1. /\ Under("module", Present(<<r.moduleName>>)) \subseteq Args(r)
        /\ Under("target", Present(<<r.jvmTarget>>)) \subseteq Args(r)
        /\ Under("api", Present(<<r.apiVersion>>)) \subseteq Args(r)
        /\ Under("language", Present(<<r.languageVersion>>)) \subseteq Args(r)
    BY DEF Args
  <2> QED
    BY <1>1, <1>4, <1>5, <2>1 DEF MeansInputs
<1>8. Under("passthrough", Asked("--kotlin_passthrough_flags")
                             \ {Xplugin[j] : j \in DOMAIN Xplugin}) \subseteq Args(r)
  <2>1. Under("passthrough", ToSet(r.passthrough) \ {Xplugin[j] : j \in Rewritten(r)})
          \subseteq Args(r)
    BY DEF Args
  <2>2. {Xplugin[j] : j \in Rewritten(r)} \subseteq {Xplugin[j] : j \in DOMAIN Xplugin}
    BY JarsAssumption DEF Rewritten
  <2>3. Asked("--kotlin_passthrough_flags") = ToSet(r.passthrough)
    BY <1>1 DEF MeansPlugins, Asked
  <2>4. Asked("--kotlin_passthrough_flags") \ {Xplugin[j] : j \in DOMAIN Xplugin}
          \subseteq ToSet(r.passthrough) \ {Xplugin[j] : j \in Rewritten(r)}
    BY <2>2, <2>3, Zenon
  <2> QED
    BY <1>3, <2>1, <2>4
<1>9. IsProcessing = Processing(r)
  <2>1. /\ r.kapt[1] # None <=> O("--generated_java_srcjar") # {}
        /\ r.ksp[1] # None <=> O("--generated_sources_output") # {}
    BY <1>1 DEF MeansOutputs, Names
  <2> QED
    BY <2>1 DEF IsProcessing, Asked, Processing
<1>10. O("--generated_java_srcjar") # {} => r.ksp[1] = None /\ r.kapt[1] # None /\ native
  <2>1. O("--generated_java_srcjar") # {}
          => O("--processors") # {} /\ O("--generated_sources_output") = {}
    BY DEF Ordinary, Ksp2s, Kapts, Artifacts
  <2> QED
    BY <1>1, <1>2, <2>1 DEF MeansOutputs, MeansInputs, Names
<1>11. IsProcessing => native
  BY <1>1, <1>2, <1>10 DEF IsProcessing, Asked, MeansOutputs, Names
<1>12. IsProcessing =>
         /\ Wants("processorpath", {"--processorpath", "--processor_classpath"}) \subseteq Args(r)
         /\ Wants("option", {"--ksp_options"}) \subseteq Args(r)
         /\ Under("option", {AOptions[o] : o \in Asked("--javacopts") \cap DOMAIN AOptions})
              \subseteq Args(r)
  <2>1. IsProcessing => /\ Under("processorpath", ToSet(r.processorPath)) \subseteq Args(r)
                        /\ Under("option", r.processorOptions) \subseteq Args(r)
    BY <1>9, <1>11 DEF Args
  <2>2. /\ O("--ksp_options") \subseteq r.processorOptions
        /\ {AOptions[o] : o \in Asked("--javacopts") \cap DOMAIN AOptions}
             \subseteq r.processorOptions
        /\ ToSet(r.processorPath) = O("--processorpath") \cup O("--processor_classpath")
    BY <1>1 DEF MeansInputs, Asked
  <2> QED
    BY <1>3, <1>4, <2>1, <2>2
<1>13. ~IsProcessing /\ native => Wants("label", {"--target_label"}) \subseteq Args(r)
  <2>1. ~IsProcessing /\ native => Under("label", Present(<<r.targetLabel>>)) \subseteq Args(r)
    BY <1>9 DEF Args
  <2> QED
    BY <1>1, <1>4, <1>5, <2>1 DEF MeansInputs
<1>14. Asked("--generated_java_srcjar") # {}
         => Wants("processor", {"--processors"}) \subseteq Args(r)
  <2>1. Asked("--generated_java_srcjar") # {} => Under("processor", r.processors) \subseteq Args(r)
    BY <1>10 DEF Args, Processing, Asked
  <2> QED
    BY <1>1, <1>4, <2>1 DEF MeansInputs
<1> QED
  BY <1>6, <1>7, <1>8, <1>12, <1>13, <1>14 DEF Owed

(* "optioned plugins (e.g. Metro) silently lose their options"             *)
(* (ElideCompile.kt 166): none of what rules_kotlin asks of a compile -    *)
(* sources, classpath, names and versions, passthrough flags, plugin       *)
(* options, processors and their options - is lost on the way through the  *)
(* flagfile, the names of its flags, the route and the plan.               *)
THEOREM AllReachesTheCompile ==
  ASSUME \A a \in Requests : Ordinary(a)
  PROVE  Spec => []NothingLost
<1>1. Inv => NothingLost
  <2> SUFFICES ASSUME Inv, pc = "run", made = {}
               PROVE  Owed \subseteq Head(cmds).args
    BY DEF NothingLost
  <2>1. /\ asked \in Requests /\ Ordinary(asked) /\ native \in BOOLEAN
        /\ req = Meant(asked) /\ RouteOf(req) = "FAST"
    BY DEF Inv, Flow
  <2>2. Head(cmds) = Compile(req)
    BY PlanFacts DEF Inv, Running
  <2>3. Owed \subseteq Args(req)
    BY <2>1, Given
  <2> QED
    BY <2>2, <2>3 DEF Compile
<1> QED
  BY <1>1, Always, PTL

(* Strict dependencies of native mode: after commands that succeed a       *)
(* request fails exactly if it asks for errors and refers to a jar it does *)
(* not declare (Jdeps.kt 8-18, Main.kt 91-94).                             *)
THEOREM StrictAsAsked ==
  ASSUME \A a \in Requests : Ordinary(a)
  PROVE  Spec => []StrictDeps
<1>1. Inv => StrictDeps
  <2> SUFFICES ASSUME Inv, pc = "done", route = "FAST", native,
                      Asked("--kotlin_output_jdeps") # {}, cmds = <<>>, Declared \subseteq made
               PROVE  code = 1 <=>
                        /\ "error" \in Asked("--strict_kotlin_deps")
                        /\ \E j \in Asked("--classpath") \cap DOMAIN refs :
                             refs[j] = "EXPLICIT" /\ j \notin Asked("--direct_dependencies")
    BY DEF StrictDeps
  <2>1. asked \in Requests /\ Ordinary(asked) /\ req = Meant(asked)
    BY DEF Inv, Flow, Outcome
  <2>2. MeansOutputs(req, asked) /\ MeansInputs(req, asked)
    BY <2>1, Meaning
  <2>3. req.jdeps # None
    BY <2>2 DEF MeansOutputs, Names, Asked
  <2>4. made # {}
    BY DEF Declared, Artifacts
  <2>5. code = (IF Fails(req) THEN 1 ELSE 0)
    BY <2>3, <2>4 DEF Inv, Outcome
  <2>6. ToSet(req.classpath) = Asked("--classpath")
    BY <2>1, <2>2 DEF MeansInputs, Ordinary, Asked
  <2>7. /\ req.direct = Asked("--direct_dependencies")
        /\ req.strict = "error" <=> "error" \in Asked("--strict_kotlin_deps")
    BY <2>2 DEF MeansInputs, Asked
  <2> QED
    BY <2>5, <2>6, <2>7 DEF Fails, Missing
<1> QED
  BY <1>1, Always, PTL

LEMMA Once ==
  ASSUME NEW s, OneToOne(s), NEW x \in ToSet(s)
  PROVE  Times(s, x) = 1
<1>1. PICK i \in DOMAIN s : s[i] = x
  BY DEF ToSet
<1>2. {j \in DOMAIN s : s[j] = x} = {i}
  BY <1>1 DEF OneToOne
<1> QED
  BY <1>2, FS_Singleton DEF Times

(* Every compiler plugin of a request runs exactly once: its builtin, or   *)
(* its jar, whether it came on the plugin classpath, in the passthrough    *)
(* flags or in both (ElideCompile.kt 163-172, BuiltinPlugins.kt 48-61).    *)
THEOREM EachPluginOnce ==
  ASSUME \A a \in Requests : Ordinary(a)
  PROVE  Spec => []PluginsOnce
<1>1. Inv => PluginsOnce
  <2> SUFFICES ASSUME Inv, pc = "run", made = {}, NEW j \in DOMAIN Xplugin,
                      \/ j \in Asked("--compiler_plugin_classpath")
                      \/ Xplugin[j] \in Asked("--kotlin_passthrough_flags")
               PROVE  IF j \in DOMAIN BuiltinFor
                      THEN Head(cmds).loads[j] = 0 /\ BuiltinFor[j] \in Head(cmds).builtins
                      ELSE Head(cmds).loads[j] = 1
    BY DEF PluginsOnce
  <2> DEFINE r == req
  <2>1. asked \in Requests /\ Ordinary(asked) /\ r = Meant(asked)
    BY DEF Inv, Flow
  <2>2. MeansPlugins(r, asked)
    BY <2>1, Meaning
  <2>3. Head(cmds) = Compile(r)
    BY PlanFacts DEF Inv, Running
  <2>4. /\ Head(cmds).loads = Loads(r)
        /\ Head(cmds).builtins = {BuiltinFor[k] : k \in Rewritten(r)}
    BY <2>3 DEF Compile
  <2>5. j \in ToSet(r.plugins) \/ Xplugin[j] \in ToSet(r.passthrough)
    BY <2>2 DEF MeansPlugins, Asked
  <2> HIDE DEF r
  <2>6. CASE j \in DOMAIN BuiltinFor
    <3>1. j \in Rewritten(r)
      BY <2>5, <2>6 DEF Rewritten
    <3>2. Loads(r)[j] = 0
      BY <3>1 DEF Loads
    <3> QED
      BY <2>4, <2>6, <3>1, <3>2
  <2>7. CASE j \notin DOMAIN BuiltinFor
    <3>1. j \notin Rewritten(r)
      BY <2>7 DEF Rewritten
    <3>2. Loads(r)[j] = IF Xplugin[j] \in ToSet(r.passthrough)
                        THEN Times(r.passthrough, Xplugin[j]) ELSE Times(r.plugins, j)
      BY <3>1 DEF Loads
    <3>3. OneToOne(r.plugins) /\ OneToOne(r.passthrough)
      BY <2>2 DEF MeansPlugins
    <3>4. Loads(r)[j] = 1
      BY <2>5, <3>2, <3>3, Once
    <3> QED
      BY <2>4, <2>7, <3>4
  <2> QED
    BY <2>6, <2>7
<1> QED
  BY <1>1, Always, PTL

=============================================================================
