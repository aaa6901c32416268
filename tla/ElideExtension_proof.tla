------------------------ MODULE ElideExtension_proof ------------------------
(***************************************************************************)
(* What the module extension guarantees for any list of modules, any       *)
(* tables of pinned versions and any order of fetching.                    *)
(***************************************************************************)
EXTENDS ElideExtension, Lemmas

---------------------------------------------------------------------------
(* The order of versions, and the highest of those asked for.              *)

LEMMA KeyType ==
  ASSUME NEW v \in Versions
  PROVE  \A i \in 1..5 : Key(v)[i] \in Int
<1>1. v \in Version
  BY VersionsAssumption
<1>2. /\ v.core[1] \in Int /\ v.core[2] \in Int /\ v.core[3] \in Int /\ v.text \in Int
  BY <1>1 DEF Version
<1>3. \A i \in 1..5 : i = 1 \/ i = 2 \/ i = 3 \/ i = 4 \/ i = 5
  OBVIOUS
<1> QED
  BY <1>2, <1>3 DEF Key

LEMMA BelowIsStrict ==
  ASSUME NEW v \in Versions
  PROVE  ~Below(v, v)
BY KeyType DEF Below

LEMMA BelowIsTransitive ==
  ASSUME NEW u \in Versions, NEW v \in Versions, NEW w \in Versions, Below(u, v), Below(v, w)
  PROVE  Below(u, w)
<1>1. PICK i \in 1..5 : Key(u)[i] < Key(v)[i] /\ \A j \in 1..(i - 1) : Key(u)[j] = Key(v)[j]
  BY DEF Below
<1>2. PICK k \in 1..5 : Key(v)[k] < Key(w)[k] /\ \A j \in 1..(k - 1) : Key(v)[j] = Key(w)[j]
  BY DEF Below
<1>3. \A x \in {u, v, w} : \A j \in 1..5 : Key(x)[j] \in Int
  BY KeyType
<1>4. CASE i <= k
  <2>1. Key(v)[i] <= Key(w)[i] /\ Key(u)[i] \in Int /\ Key(v)[i] \in Int /\ Key(w)[i] \in Int
    BY <1>2, <1>3, <1>4
  <2>2. Key(u)[i] < Key(w)[i]
    BY <1>1, <2>1
  <2>3. \A j \in 1..(i - 1) : Key(u)[j] = Key(w)[j]
    BY <1>1, <1>2, <1>4
  <2> QED
    BY <2>2, <2>3 DEF Below
<1>5. CASE k < i
  <2>1. Key(u)[k] = Key(v)[k]
    BY <1>1, <1>5
  <2>2. \A j \in 1..(k - 1) : Key(u)[j] = Key(w)[j]
    BY <1>1, <1>2, <1>5
  <2> QED
    BY <1>2, <2>1, <2>2 DEF Below
<1> QED
  BY <1>4, <1>5

(* select_version answers one of the versions asked for, and none of them  *)
(* is above it, however many there are.                                    *)
LEMMA SelectIsHighest ==
  ASSUME NEW asked \in Seq(Versions), asked # <<>>
  PROVE  /\ Select(asked) \in ToSet(asked)
         /\ \A w \in ToSet(asked) : ~Below(Select(asked), w)
<1> DEFINE Highest(k, n) == \A j \in 1..n : ~Below(asked[k], asked[j])
           S == {n \in Nat : n + 1 <= Len(asked) => \E k \in 1..(n + 1) : Highest(k, n + 1)}
<1>1. /\ Len(asked) \in Nat \ {0} /\ DOMAIN asked = 1..Len(asked)
      /\ \A k \in 1..Len(asked) : asked[k] \in Versions
  BY EmptySeq, LenProperties, ElementOfSeq
<1>2. 0 \in S
  <2>1. Highest(1, 0 + 1)
    BY <1>1, BelowIsStrict
  <2> QED
    BY <2>1
<1>3. ASSUME NEW n \in Nat, n \in S
      PROVE  n + 1 \in S
  <2> SUFFICES ASSUME (n + 1) + 1 <= Len(asked)
               PROVE  \E k \in 1..((n + 1) + 1) : Highest(k, (n + 1) + 1)
    OBVIOUS
  <2> DEFINE m == (n + 1) + 1
  <2>1. PICK k \in 1..(n + 1) : Highest(k, n + 1)
    BY <1>1, <1>3
  <2>2. /\ m \in 1..Len(asked) /\ k \in 1..Len(asked) /\ 1..m = 1..(n + 1) \cup {m}
        /\ 1..(n + 1) \subseteq 1..Len(asked)
    BY <1>1
  <2>3. CASE Below(asked[k], asked[m])
    <3>1. \A j \in 1..(n + 1) : ~Below(asked[m], asked[j])
      BY <1>1, <2>1, <2>2, <2>3, BelowIsTransitive
    <3>2. Highest(m, m)
      BY <1>1, <2>2, <3>1, BelowIsStrict
    <3> QED
      BY <2>2, <3>2
  <2>4. CASE ~Below(asked[k], asked[m])
    <3>1. Highest(k, m)
      BY <2>1, <2>2, <2>4
    <3> QED
      BY <2>2, <3>1
  <2> QED
    BY <2>3, <2>4
<1>4. Len(asked) - 1 \in S
  <2>1. \A n \in Nat : n \in S => n + 1 \in S
    BY <1>3
  <2> HIDE DEF S
  <2>2. Nat \subseteq S
    BY <1>2, <2>1, SetInduction
  <2> QED
    BY <1>1, <2>2
<1>5. PICK k \in 1..Len(asked) : Highest(k, Len(asked))
  BY <1>1, <1>4
<1>6. asked[k] \in ToSet(asked) /\ \A w \in ToSet(asked) : ~Below(asked[k], w)
  BY <1>1, <1>5 DEF ToSet
<1> QED
  BY <1>6 DEF Select

\* Releases above their prereleases, and higher numbers above lower ones.
LEMMA OutranksIsAbove ==
  ASSUME NEW v \in Versions, NEW w \in Versions, Outranks(v, w)
  PROVE  Below(w, v)
<1>1. /\ v \in Version /\ w \in Version /\ v.numeric /\ w.numeric
  BY VersionsAssumption DEF Outranks, Regular
<1>2. /\ Key(v) = <<v.core[1], v.core[2], v.core[3], IF v.pre THEN 0 ELSE 1, v.text>>
      /\ Key(w) = <<w.core[1], w.core[2], w.core[3], IF w.pre THEN 0 ELSE 1, w.text>>
  BY <1>1 DEF Key
<1>3. /\ v.core \in Nat \X Nat \X Nat /\ w.core \in Nat \X Nat \X Nat
  BY <1>1 DEF Version
<1>4. \A i \in 1..3 : Key(v)[i] = v.core[i] /\ Key(w)[i] = w.core[i]
  BY <1>2
<1>5. CASE \E i \in 1..3 : v.core[i] > w.core[i] /\ \A j \in 1..(i - 1) : v.core[j] = w.core[j]
  <2>1. PICK i \in 1..3 : v.core[i] > w.core[i] /\ \A j \in 1..(i - 1) : v.core[j] = w.core[j]
    BY <1>5
  <2>2. Key(w)[i] < Key(v)[i] /\ \A j \in 1..(i - 1) : Key(w)[j] = Key(v)[j]
    BY <1>4, <2>1
  <2> QED
    BY <2>2 DEF Below
<1>6. CASE v.core = w.core /\ ~v.pre /\ w.pre
  <2>1. Key(w)[4] < Key(v)[4]
    BY <1>2, <1>6
  <2>2. \A j \in 1..(4 - 1) : Key(w)[j] = Key(v)[j]
    BY <1>4, <1>6
  <2> QED
    BY <2>1, <2>2 DEF Below
<1> QED
  BY <1>5, <1>6 DEF Outranks

---------------------------------------------------------------------------
(* The invariant.                                                          *)

\* The tags of the root module: those whose settings count.
RootTags == UNION {ToSet(m.installs) \cup ToSet(m.uses) :
                     m \in {x \in ToSet(modules) : x.root}}

\* What the loop over the modules has gathered from those visited.
Gathered ==
  /\ phase # "tags" => visited = Len(modules)
  /\ \A k \in 1..visited : \A i \in DOMAIN modules[k].installs :
       /\ modules[k].installs[i].version \in ToSet(versions)
       /\ modules[k].installs[i].python => python
  /\ use # None => use \in RootTags

\* A redirection or a name of repositories is one the root asked for.
Redirects(p, u, py) ==
  /\ u => \E t \in RootTags : t.url
  /\ py => \E t \in RootTags : t.pythonUrl
  /\ p # "elide" => \E t \in RootTags : t.prefix = p

\* What was decided when the repositories were declared.
Wired ==
  /\ phase # "wired" => DOMAIN repos = {} /\ hub = {}
  /\ phase = "wired" /\ Tagged /\ (\A v \in DOMAIN Pinned : Pinned[v] = Platforms)
       => {t.repo : t \in hub} = DOMAIN repos
  /\ phase = "wired" /\ use = None =>
       \A n \in DOMAIN repos :
         /\ versions # <<>> /\ repos[n].version = Select(versions)
         /\ python => repos[n].overlay /\ n[2] \in Overlays[Select(versions)]

\* How far the fetch of each repository has come.
Fetching ==
  \A n \in DOMAIN repos :
    LET repo == repos[n] IN
      /\ repo.local => ~repo.overlay
      /\ repo.stage = "base" => repo.overlay
      /\ repo.stage \in {"whole", "ready"} =>
           repo.binary = IF repo.overlay THEN "python" ELSE "base"
      /\ repo.stage = "ready" /\ n[2] \notin Windows => repo.runs

Named ==
  /\ Redirects(prefix, url, pythonUrl)
  /\ \A n \in DOMAIN repos : Redirects(n[1], repos[n].url, repos[n].pythonUrl)

---------------------------------------------------------------------------
(* Types.                                                                  *)

\* A step of a repository's rule keeps what the rule was given.
Fetch ==
  \E n \in DOMAIN repos : Base(n) \/ Overlay(n) \/ Restore(n) \/ Link(n) \/ FetchFails(n)

SameRule(n) ==
  /\ repos'[n].version = repos[n].version /\ repos'[n].url = repos[n].url
  /\ repos'[n].pythonUrl = repos[n].pythonUrl /\ repos'[n].overlay = repos[n].overlay
  /\ repos'[n].local = repos[n].local

\* And changes how far its own repository has come, and nothing else.
Advances(n, stage, after, binary, runs) ==
  /\ \A m \in DOMAIN repos \ {n} : repos'[m] = repos[m]
  /\ repos[n].stage = stage /\ repos'[n].stage = after
  /\ repos'[n].binary = binary /\ repos'[n].runs = runs

LEMMA FetchedType ==
  ASSUME NEW repo \in Repository,
         NEW stage \in {"declared", "base", "whole", "ready", "failed"},
         NEW binary \in {"none", "base", "python"}, NEW runs \in BOOLEAN
  PROVE  Fetched(repo, stage, binary, runs) \in Repository
BY DEF Fetched, Repository

LEMMA StepFetches ==
  ASSUME TypeOK, NEW n \in DOMAIN repos, NEW stage,
         NEW after \in {"declared", "base", "whole", "ready", "failed"},
         NEW binary \in {"none", "base", "python"}, NEW runs \in BOOLEAN,
         Step(n, stage, after, binary, runs)
  PROVE  /\ UNCHANGED <<read, phase, hub>> /\ phase = "wired" /\ TypeOK'
         /\ DOMAIN repos' = DOMAIN repos /\ \A m \in DOMAIN repos : SameRule(m)
         /\ Advances(n, stage, after, binary, runs)
<1> DEFINE new == Fetched(repos[n], after, binary, runs)
<1>1. /\ repos' = [repos EXCEPT ![n] = new] /\ phase = "wired" /\ repos[n].stage = stage
      /\ UNCHANGED <<read, phase, hub>>
  BY DEF Step
<1>2. repos[n] \in Repository /\ \A m \in DOMAIN repos : repos[m] \in Repository
  BY DEF TypeOK
<1>3. /\ new \in Repository /\ new.stage = after /\ new.binary = binary /\ new.runs = runs
      /\ new.version = repos[n].version /\ new.url = repos[n].url
      /\ new.pythonUrl = repos[n].pythonUrl /\ new.overlay = repos[n].overlay
      /\ new.local = repos[n].local
  BY <1>2, FetchedType DEF Fetched
<1> HIDE DEF new
<1>4. /\ DOMAIN repos' = DOMAIN repos /\ repos'[n] = new
      /\ \A m \in DOMAIN repos \ {n} : repos'[m] = repos[m]
  BY <1>1
<1>5. \A m \in DOMAIN repos : SameRule(m)
  BY <1>3, <1>4 DEF SameRule
<1>6. \A m \in DOMAIN repos' : repos'[m] \in Repository
  BY <1>2, <1>3, <1>4
<1>7. TypeOK'
  BY <1>1, <1>4, <1>6 DEF TypeOK, read
<1> QED
  BY <1>1, <1>3, <1>4, <1>5, <1>7 DEF Advances

LEMMA FetchKeeps ==
  ASSUME TypeOK, Fetch
  PROVE  /\ UNCHANGED <<read, phase, hub>> /\ phase = "wired" /\ TypeOK'
         /\ DOMAIN repos' = DOMAIN repos /\ \A m \in DOMAIN repos : SameRule(m)
<1>1. PICK n \in DOMAIN repos : Base(n) \/ Overlay(n) \/ Restore(n) \/ Link(n) \/ FetchFails(n)
  BY DEF Fetch
<1>2. repos[n].binary \in {"none", "base", "python"} /\ repos[n].runs \in BOOLEAN
  BY DEF TypeOK, Repository
<1>3. \E stage : \E after \in {"declared", "base", "whole", "ready", "failed"} :
        \E binary \in {"none", "base", "python"} : \E runs \in BOOLEAN :
          Step(n, stage, after, binary, runs)
  BY <1>1, <1>2 DEF Base, Overlay, Restore, Link, FetchFails
<1>4. PICK stage : \E after \in {"declared", "base", "whole", "ready", "failed"} :
        \E binary \in {"none", "base", "python"} : \E runs \in BOOLEAN :
          Step(n, stage, after, binary, runs)
  BY <1>3
<1>5. PICK after \in {"declared", "base", "whole", "ready", "failed"},
           binary \in {"none", "base", "python"}, runs \in BOOLEAN :
             Step(n, stage, after, binary, runs)
  BY <1>4
<1> QED
  BY <1>5, StepFetches, Zenon

LEMMA VisitedType ==
  ASSUME TypeOK, Visit
  PROVE  LET m == modules[visited + 1] IN
           /\ visited + 1 \in 1..Len(modules) /\ m \in BazelModule /\ m \in ToSet(modules)
           /\ m.installs \in Seq(InstallTag) /\ m.uses \in Seq(UseTag)
           /\ m.installs # <<>> => /\ Last(m.installs) \in InstallTag
                                   /\ Last(m.installs) \in ToSet(m.installs)
           /\ m.uses # <<>> => Last(m.uses) \in UseTag /\ Last(m.uses) \in ToSet(m.uses)
<1> DEFINE m == modules[visited + 1]
<1>1. modules \in Seq(BazelModule)
  BY ModulesAssumption DEF TypeOK
<1>2. Len(modules) \in Nat /\ visited \in 0..Len(modules) /\ visited < Len(modules)
  BY <1>1, LenProperties DEF TypeOK, Visit
<1>3. visited + 1 \in 1..Len(modules) /\ m \in BazelModule /\ m \in ToSet(modules)
  BY <1>1, <1>2, LenProperties, ElementOfSeq DEF ToSet
<1> HIDE DEF m
<1>4. m.installs \in Seq(InstallTag) /\ m.uses \in Seq(UseTag)
  BY <1>3 DEF BazelModule
<1>5. ASSUME NEW S, NEW s \in Seq(S), s # <<>>
      PROVE  Last(s) \in S /\ Last(s) \in ToSet(s)
  BY <1>5, LenProperties, EmptySeq, ElementOfSeq DEF Last, ToSet
<1> QED
  BY <1>3, <1>4, <1>5 DEF m

\* The versions the install tags of a module ask for.
Asked(m) == [i \in DOMAIN m.installs |-> m.installs[i].version]

LEMMA AskedType ==
  ASSUME NEW m, m.installs \in Seq(InstallTag)
  PROVE  /\ Asked(m) \in Seq(Versions)
         /\ \A i \in DOMAIN m.installs : m.installs[i].version \in ToSet(Asked(m))
<1>1. /\ Len(m.installs) \in Nat /\ DOMAIN m.installs = 1..Len(m.installs)
      /\ \A i \in 1..Len(m.installs) : m.installs[i] \in InstallTag
  BY LenProperties, ElementOfSeq
<1>2. \A i \in 1..Len(m.installs) : m.installs[i].version \in Versions
  BY <1>1 DEF InstallTag
<1>3. Asked(m) \in [1..Len(m.installs) -> Versions]
  BY <1>1, <1>2 DEF Asked
<1> QED
  BY <1>1, <1>3 DEF Asked, ToSet

LEMMA SelectType ==
  ASSUME TypeOK, versions # <<>>
  PROVE  Select(versions) \in Versions
<1>1. versions \in Seq(Versions)
  BY DEF TypeOK
<1>2. Select(versions) \in ToSet(versions)
  BY <1>1, SelectIsHighest
<1> QED
  BY <1>1, <1>2, LenProperties, ElementOfSeq DEF ToSet

LEMMA DeclaredType ==
  ASSUME NEW version \in Versions, NEW u \in BOOLEAN, NEW py \in BOOLEAN, NEW o \in BOOLEAN
  PROVE  Declared(version, u, py, o) \in Repository /\ DeclaredLocal(version) \in Repository
BY DEF Declared, DeclaredLocal, Repository

LEMMA StepTypes ==
  ASSUME TypeOK, [Next]_vars
  PROVE  TypeOK'
<1>0. use # None => /\ use \in UseTag /\ use.version \in Versions /\ use.prefix \in RepoPrefixes
                    /\ use.hashes \subseteq Keys /\ use.pythonUrl \in BOOLEAN
  BY DEF TypeOK, UseTag
<1>1. CASE Visit
  <2> DEFINE m == modules[visited + 1]
  <2>1. /\ visited + 1 \in 1..Len(modules) /\ m \in BazelModule
        /\ m.installs \in Seq(InstallTag)
        /\ m.installs # <<>> => Last(m.installs) \in InstallTag
        /\ m.uses # <<>> => Last(m.uses) \in UseTag
    BY <1>1, VisitedType
  <2>2. /\ visited' = visited + 1 /\ versions' = versions \o Asked(m)
        /\ python' = (python \/ \E i \in DOMAIN m.installs : m.installs[i].python)
        /\ \/ /\ m.installs # <<>>
              /\ prefix' = Last(m.installs).prefix /\ url' = Last(m.installs).url
              /\ pythonUrl' = Last(m.installs).pythonUrl
           \/ UNCHANGED <<prefix, url, pythonUrl>>
        /\ use' = use \/ (m.uses # <<>> /\ use' = Last(m.uses))
        /\ UNCHANGED <<modules, host, phase, repos, hub>>
    BY <1>1 DEF Visit, Asked
  <2> HIDE DEF m
  <2>3. versions' \in Seq(Versions)
    BY <2>1, <2>2, AskedType, ConcatProperties DEF TypeOK
  <2>4. prefix' \in RepoPrefixes /\ url' \in BOOLEAN /\ pythonUrl' \in BOOLEAN
    BY <2>1, <2>2 DEF TypeOK, InstallTag
  <2>5. use' \in UseTag \cup {None} /\ python' \in BOOLEAN
    BY <2>1, <2>2 DEF TypeOK
  <2>6. visited' \in 0..Len(modules)
    BY <2>1, <2>2 DEF TypeOK
  <2> QED
    BY <2>2, <2>3, <2>4, <2>5, <2>6 DEF TypeOK
<1>2. CASE Wire
  BY <1>2 DEF Wire, TypeOK, read
<1>3. ASSUME UNCHANGED read, Fail
      PROVE  TypeOK'
  BY <1>3 DEF Fail, TypeOK, read
<1>4. ASSUME UNCHANGED read, phase' = "wired", NEW p \in RepoPrefixes, NEW keys \in SUBSET Keys,
             hub' = Hub(p, keys), DOMAIN repos' \subseteq RepoPrefixes \X Keys,
             \A n \in DOMAIN repos' : repos'[n] \in Repository
      PROVE  TypeOK'
  <2>1. hub' \subseteq [key : Keys, repo : RepoPrefixes \X Keys]
    BY <1>4 DEF Hub
  <2> QED
    BY <1>4, <2>1 DEF TypeOK, read
<1>5. CASE UseLocal
  <2>1. use # None /\ UNCHANGED read
    BY <1>5 DEF UseLocal
  <2>2. CASE LocalRefused
    BY <1>3, <1>5, <2>2 DEF UseLocal
  <2>3. CASE ~LocalRefused
    <3>1. host \in Keys
      BY <2>3 DEF LocalRefused, TypeOK
    <3>2. /\ phase' = "wired" /\ hub' = Hub(use.prefix, {host})
          /\ repos' = [n \in {<<use.prefix, host>>} |-> DeclaredLocal(use.version)]
      BY <1>5, <2>3 DEF UseLocal
    <3>3. DeclaredLocal(use.version) \in Repository
      BY <1>0, <2>1, DeclaredType
    <3>4. /\ DOMAIN repos' \subseteq RepoPrefixes \X Keys
          /\ \A n \in DOMAIN repos' : repos'[n] \in Repository
      BY <1>0, <2>1, <3>1, <3>2, <3>3
    <3>5. use.prefix \in RepoPrefixes /\ {host} \in SUBSET Keys
      BY <1>0, <2>1, <3>1
    <3> QED
      BY <1>4, <2>1, <3>2, <3>4, <3>5
  <2> QED
    BY <2>2, <2>3
<1>6. CASE UseRelease
  <2>1. use # None /\ UNCHANGED read
    BY <1>6 DEF UseRelease
  <2>2. \/ Fail
        \/ /\ phase' = "wired" /\ hub' = Hub(use.prefix, use.hashes)
           /\ repos' = [n \in {<<use.prefix, k>> : k \in use.hashes} |->
                         Declared(use.version, TRUE, use.pythonUrl, n[2] \in use.pythonHashes)]
    BY <1>6 DEF UseRelease
  <2>3. ASSUME NEW n
        PROVE  Declared(use.version, TRUE, use.pythonUrl, n[2] \in use.pythonHashes) \in Repository
    <3>1. (n[2] \in use.pythonHashes) \in BOOLEAN /\ TRUE \in BOOLEAN
      OBVIOUS
    <3> QED
      BY <1>0, <2>1, <3>1, DeclaredType, Zenon
  <2>4. CASE /\ phase' = "wired" /\ hub' = Hub(use.prefix, use.hashes)
             /\ repos' = [n \in {<<use.prefix, k>> : k \in use.hashes} |->
                         Declared(use.version, TRUE, use.pythonUrl, n[2] \in use.pythonHashes)]
    <3>1. use.prefix \in RepoPrefixes /\ use.hashes \in SUBSET Keys
      BY <1>0, <2>1
    <3>2. /\ DOMAIN repos' \subseteq RepoPrefixes \X Keys
          /\ \A n \in DOMAIN repos' : repos'[n] \in Repository
      <4>1. DOMAIN repos' \subseteq RepoPrefixes \X Keys
        BY <2>4, <3>1
      <4>2. ASSUME NEW n \in DOMAIN repos'
            PROVE  repos'[n] \in Repository
        <5>1. repos'[n] = Declared(use.version, TRUE, use.pythonUrl, n[2] \in use.pythonHashes)
          BY <2>4, Zenon
        <5> QED
          BY <2>3, <5>1, Zenon
      <4> QED
        BY <4>1, <4>2
    <3> QED
      BY <1>4, <2>1, <2>4, <3>1, <3>2
  <2> QED
    BY <1>3, <2>1, <2>2, <2>4
<1>7. CASE NoInstall
  <2>1. UNCHANGED <<read, repos>> /\ phase' = "wired" /\ hub' = Hub(prefix, Platforms)
    BY <1>7 DEF NoInstall
  <2>2. prefix \in RepoPrefixes /\ Platforms \in SUBSET Keys
    BY PlatformsAssumption DEF TypeOK
  <2> QED
    BY <1>4, <2>1, <2>2 DEF TypeOK
<1>8. CASE Install
  <2> DEFINE v == Select(versions)
             overlays == IF python /\ v \in DOMAIN Overlays THEN Overlays[v] ELSE {}
  <2>1. UNCHANGED read /\ versions # <<>>
    BY <1>8 DEF Install
  <2>2. \/ Fail
        \/ /\ v \in DOMAIN Pinned /\ phase' = "wired" /\ hub' = Hub(prefix, Platforms)
           /\ repos' = [n \in {<<prefix, k>> : k \in Pinned[v]} |->
                         Declared(v, url, pythonUrl, n[2] \in overlays)]
    BY <1>8 DEF Install
  <2>3. v \in Versions /\ (v \in DOMAIN Pinned => Pinned[v] \subseteq Keys)
    BY <2>1, SelectType, PinsAssumption, PlatformsAssumption
  <2> HIDE DEF v, overlays
  <2>4. prefix \in RepoPrefixes /\ Platforms \in SUBSET Keys /\ url \in BOOLEAN /\ pythonUrl \in BOOLEAN
    BY PlatformsAssumption DEF TypeOK
  <2>5. ASSUME NEW n
        PROVE  Declared(v, url, pythonUrl, n[2] \in overlays) \in Repository
    <3>1. (n[2] \in overlays) \in BOOLEAN
      OBVIOUS
    <3> QED
      BY <2>3, <2>4, <3>1, DeclaredType, Zenon
  <2>6. CASE /\ v \in DOMAIN Pinned /\ phase' = "wired" /\ hub' = Hub(prefix, Platforms)
             /\ repos' = [n \in {<<prefix, k>> : k \in Pinned[v]} |->
                         Declared(v, url, pythonUrl, n[2] \in overlays)]
    <3>1. /\ DOMAIN repos' \subseteq RepoPrefixes \X Keys
          /\ \A n \in DOMAIN repos' : repos'[n] \in Repository
      BY <2>3, <2>4, <2>5, <2>6
    <3> QED
      BY <1>4, <2>1, <2>4, <2>6, <3>1
  <2> QED
    BY <1>3, <2>1, <2>2, <2>6
<1>9. CASE Fetch
  BY <1>9, FetchKeeps
<1>10. CASE UNCHANGED vars
  BY <1>10 DEF TypeOK, vars
<1> QED
  BY <1>1, <1>2, <1>5, <1>6, <1>7, <1>8, <1>9, <1>10 DEF Next, Fetch

(* Every variable keeps its type, each repository's name and rule among    *)
(* them.                                                                   *)
THEOREM TypeCorrect == Spec => []TypeOK
<1>1. Init => TypeOK
  <2> SUFFICES ASSUME Init
               PROVE  TypeOK
    OBVIOUS
  <2>1. modules \in Seq(BazelModule)
    BY ModulesAssumption DEF Init
  <2>2. 0 \in 0..Len(modules) /\ <<>> \in Seq(Versions)
    BY <2>1, LenProperties, EmptySeq
  <2>3. prefix \in RepoPrefixes
    BY PrefixAssumption DEF Init
  <2>4. DOMAIN repos = {}
    BY DEF Init
  <2> QED
    BY <2>2, <2>3, <2>4 DEF Init, TypeOK
<1> QED
  BY <1>1, StepTypes, PTL DEF Spec

---------------------------------------------------------------------------
(* What the loop over the modules gathers.                                 *)

\* What Visit does to the variables, in terms of the module it visits.
LEMMA VisitChanges ==
  ASSUME TypeOK, Visit
  PROVE  LET m == modules[visited + 1] IN
           /\ visited' = visited + 1 /\ UNCHANGED <<modules, host, phase, repos, hub>>
           /\ versions' = versions \o Asked(m)
           /\ python' = (python \/ \E i \in DOMAIN m.installs : m.installs[i].python)
           /\ \/ UNCHANGED <<prefix, url, pythonUrl>>
              \/ \E t \in RootTags :
                   prefix' = t.prefix /\ url' = t.url /\ pythonUrl' = t.pythonUrl
           /\ use' = use \/ use' \in RootTags
<1> DEFINE m == modules[visited + 1]
<1>1. /\ m \in ToSet(modules)
      /\ m.installs # <<>> => Last(m.installs) \in ToSet(m.installs)
      /\ m.uses # <<>> => Last(m.uses) \in ToSet(m.uses)
  BY VisitedType
<1>2. /\ visited' = visited + 1 /\ UNCHANGED <<modules, host, phase, repos, hub>>
      /\ versions' = versions \o Asked(m)
      /\ python' = (python \/ \E i \in DOMAIN m.installs : m.installs[i].python)
      /\ \/ UNCHANGED <<prefix, url, pythonUrl>>
         \/ /\ m.root /\ m.installs # <<>>
            /\ prefix' = Last(m.installs).prefix /\ url' = Last(m.installs).url
            /\ pythonUrl' = Last(m.installs).pythonUrl
      /\ use' = use \/ (m.root /\ m.uses # <<>> /\ use' = Last(m.uses))
  BY DEF Visit, Decides, Asked
<1> HIDE DEF m
<1>3. m.root => /\ m.installs # <<>> => Last(m.installs) \in RootTags
                /\ m.uses # <<>> => Last(m.uses) \in RootTags
  BY <1>1 DEF RootTags
<1>4. \/ UNCHANGED <<prefix, url, pythonUrl>>
      \/ \E t \in RootTags : prefix' = t.prefix /\ url' = t.url /\ pythonUrl' = t.pythonUrl
  BY <1>2, <1>3
<1>5. use' = use \/ use' \in RootTags
  BY <1>2, <1>3
<1> QED
  BY <1>2, <1>4, <1>5 DEF m

LEMMA VisitGathers ==
  ASSUME TypeOK, Gathered, Visit
  PROVE  Gathered'
<1> DEFINE m == modules[visited + 1]
<1>1. /\ visited' = visited + 1 /\ UNCHANGED <<modules, phase>>
      /\ versions' = versions \o Asked(m)
      /\ python' = (python \/ \E i \in DOMAIN m.installs : m.installs[i].python)
      /\ use' = use \/ use' \in RootTags
  BY VisitChanges
<1>2. phase = "tags" /\ visited \in Nat
  BY DEF Visit, TypeOK
<1>3. m.installs \in Seq(InstallTag)
  BY VisitedType
<1>4. /\ Asked(m) \in Seq(Versions)
      /\ \A i \in DOMAIN m.installs : m.installs[i].version \in ToSet(Asked(m))
  BY <1>3, AskedType
<1>5. \A v \in ToSet(versions) \cup ToSet(Asked(m)) : v \in ToSet(versions')
  <2>1. versions \in Seq(Versions)
    BY DEF TypeOK
  <2> QED
    BY <1>1, <1>4, <2>1, ConcatElements
<1>6. RootTags' = RootTags
  BY <1>1 DEF RootTags
<1>7. ASSUME NEW k \in 1..visited', NEW i \in DOMAIN modules[k].installs
      PROVE  /\ modules[k].installs[i].version \in ToSet(versions')
             /\ modules[k].installs[i].python => python'
  <2>1. CASE k \in 1..visited
    BY <1>1, <1>5, <1>7, <2>1 DEF Gathered
  <2>2. CASE k = visited + 1
    BY <1>1, <1>4, <1>5, <1>7, <2>2
  <2> QED
    BY <1>1, <1>2, <1>7, <2>1, <2>2
<1> HIDE DEF m
<1> QED
  BY <1>1, <1>2, <1>6, <1>7 DEF Gathered

\* What was gathered does not change once the tags are read.
LEMMA StepGathers ==
  ASSUME TypeOK, Gathered, [Next]_vars
  PROVE  Gathered'
<1>1. ASSUME UNCHANGED read, phase # "tags"
      PROVE  Gathered'
  BY <1>1 DEF Gathered, RootTags, read
<1>2. CASE Visit
  BY <1>2, VisitGathers
<1>3. CASE Wire
  BY <1>3 DEF Wire, Gathered, RootTags, read
<1>4. CASE UseLocal \/ UseRelease \/ NoInstall \/ Install
  <2>1. UNCHANGED read /\ phase = "wire"
    BY <1>4 DEF UseLocal, UseRelease, NoInstall, Install
  <2> QED
    BY <1>1, <2>1
<1>5. CASE Fetch
  BY <1>1, <1>5, FetchKeeps
<1>6. CASE UNCHANGED vars
  BY <1>6 DEF Gathered, RootTags, vars
<1> QED
  BY <1>2, <1>3, <1>4, <1>5, <1>6 DEF Next, Fetch

---------------------------------------------------------------------------
(* What is declared, once, when the tags are read.                         *)

LEMMA StepNames ==
  ASSUME TypeOK, Gathered, Named, Wired, [Next]_vars
  PROVE  Named'
<1>1. CASE Visit
  <2>1. /\ UNCHANGED <<modules, repos>>
        /\ \/ UNCHANGED <<prefix, url, pythonUrl>>
           \/ \E t \in RootTags :
                prefix' = t.prefix /\ url' = t.url /\ pythonUrl' = t.pythonUrl
    BY <1>1, VisitChanges
  <2>2. RootTags' = RootTags
    BY <2>1 DEF RootTags
  <2>3. Redirects(prefix', url', pythonUrl')
    BY <2>1 DEF Named, Redirects
  <2> QED
    BY <2>1, <2>2, <2>3 DEF Named, Redirects
<1>2. ASSUME UNCHANGED read,
             \A n \in DOMAIN repos' : Redirects(n[1], repos'[n].url, repos'[n].pythonUrl)
      PROVE  Named'
  <2>1. RootTags' = RootTags
    BY <1>2 DEF RootTags, read
  <2> QED
    BY <1>2, <2>1 DEF Named, Redirects, read
<1>3. ASSUME UNCHANGED <<read, repos>> PROVE Named'
  BY <1>2, <1>3 DEF Named
<1>4. CASE UseLocal
  <2>1. use # None /\ UNCHANGED read /\ use \in RootTags
    BY <1>4 DEF UseLocal, Gathered
  <2>2. \/ Fail
        \/ repos' = [n \in {<<use.prefix, host>>} |-> DeclaredLocal(use.version)]
    BY <1>4 DEF UseLocal
  <2>3. CASE repos' = [n \in {<<use.prefix, host>>} |-> DeclaredLocal(use.version)]
    <3>1. \A n \in DOMAIN repos' :
            n[1] = use.prefix /\ ~repos'[n].url /\ ~repos'[n].pythonUrl
      BY <2>3 DEF DeclaredLocal, Declared
    <3> QED
      BY <1>2, <2>1, <3>1 DEF Redirects
  <2> QED
    BY <1>3, <2>1, <2>2, <2>3 DEF Fail
<1>5. CASE UseRelease
  <2>1. use # None /\ UNCHANGED read /\ use \in RootTags
    BY <1>5 DEF UseRelease, Gathered
  <2>2. \/ Fail
        \/ /\ use.url
           /\ repos' = [n \in {<<use.prefix, k>> : k \in use.hashes} |->
                         Declared(use.version, TRUE, use.pythonUrl, n[2] \in use.pythonHashes)]
    BY <1>5 DEF UseRelease
  <2>3. CASE /\ use.url
             /\ repos' = [n \in {<<use.prefix, k>> : k \in use.hashes} |->
                         Declared(use.version, TRUE, use.pythonUrl, n[2] \in use.pythonHashes)]
    <3>1. \A n \in DOMAIN repos' :
            n[1] = use.prefix /\ repos'[n].url = TRUE /\ repos'[n].pythonUrl = use.pythonUrl
      BY <2>3 DEF Declared
    <3> QED
      BY <1>2, <2>1, <2>3, <3>1 DEF Redirects
  <2> QED
    BY <1>3, <2>1, <2>2, <2>3 DEF Fail
<1>6. CASE Install
  <2> DEFINE v == Select(versions)
             overlays == IF python /\ v \in DOMAIN Overlays THEN Overlays[v] ELSE {}
  <2>1. UNCHANGED read
    BY <1>6 DEF Install
  <2>2. \/ Fail
        \/ repos' = [n \in {<<prefix, k>> : k \in Pinned[v]} |->
                       Declared(v, url, pythonUrl, n[2] \in overlays)]
    BY <1>6 DEF Install
  <2> HIDE DEF v, overlays
  <2>3. CASE repos' = [n \in {<<prefix, k>> : k \in Pinned[v]} |->
                         Declared(v, url, pythonUrl, n[2] \in overlays)]
    <3>1. \A n \in DOMAIN repos' :
            n[1] = prefix /\ repos'[n].url = url /\ repos'[n].pythonUrl = pythonUrl
      BY <2>3 DEF Declared
    <3> QED
      BY <1>2, <2>1, <3>1 DEF Named
  <2> QED
    BY <1>3, <2>1, <2>2, <2>3 DEF Fail
<1>7. CASE Fetch
  <2>1. /\ UNCHANGED read /\ DOMAIN repos' = DOMAIN repos
        /\ \A n \in DOMAIN repos : SameRule(n)
    BY <1>7, FetchKeeps
  <2> QED
    BY <1>2, <2>1 DEF Named, SameRule
<1>8. CASE Wire \/ NoInstall
  BY <1>3, <1>8 DEF Wire, NoInstall
<1>9. CASE UNCHANGED vars
  BY <1>3, <1>9 DEF vars, read
<1> QED
  BY <1>1, <1>4, <1>5, <1>6, <1>7, <1>8, <1>9 DEF Next, Fetch

(* Each way of declaring gives the hub the toolchains of what it declares. *)
LEMMA StepWires ==
  ASSUME TypeOK, Wired, [Next]_vars
  PROVE  Wired'
<1>1. ASSUME UNCHANGED <<repos, hub>>, phase # "wired", phase' # "wired" PROVE Wired'
  BY <1>1 DEF Wired
<1>2. CASE Visit \/ Wire
  BY <1>1, <1>2 DEF Visit, Wire
<1>3. ASSUME Fail, phase # "wired" PROVE Wired'
  BY <1>1, <1>3 DEF Fail
<1>4. ASSUME NEW p, NEW keys
      PROVE  {t.repo : t \in Hub(p, keys)} = {<<p, k>> : k \in keys}
  <2>1. \A k \in keys : [key |-> k, repo |-> <<p, k>>] \in Hub(p, keys)
    BY DEF Hub
  <2>2. \A k \in keys : <<p, k>> \in {t.repo : t \in Hub(p, keys)}
    <3> TAKE k \in keys
    <3>1. [key |-> k, repo |-> <<p, k>>].repo = <<p, k>>
      OBVIOUS
    <3> QED
      BY <2>1, <3>1
  <2>3. \A x \in {t.repo : t \in Hub(p, keys)} : x \in {<<p, k>> : k \in keys}
    BY DEF Hub
  <2> QED
    BY <2>2, <2>3
<1>5. CASE UseLocal
  <2>1. use # None /\ UNCHANGED read /\ phase = "wire"
    BY <1>5 DEF UseLocal
  <2>2. \/ Fail
        \/ /\ hub' = Hub(use.prefix, {host})
           /\ repos' = [n \in {<<use.prefix, host>>} |-> DeclaredLocal(use.version)]
           /\ phase' = "wired"
    BY <1>5 DEF UseLocal
  <2>3. CASE /\ hub' = Hub(use.prefix, {host})
             /\ repos' = [n \in {<<use.prefix, host>>} |-> DeclaredLocal(use.version)]
             /\ phase' = "wired"
    <3>0. {t.repo : t \in Hub(use.prefix, {host})} = {<<use.prefix, k>> : k \in {host}}
      BY <1>4, Zenon
    <3>1. {t.repo : t \in hub'} = DOMAIN repos'
      BY <2>3, <3>0
    <3>2. use' # None
      BY <2>1 DEF read
    <3> QED
      BY <2>3, <3>1, <3>2 DEF Wired
  <2> QED
    BY <1>3, <2>1, <2>2, <2>3
<1>6. CASE UseRelease
  <2>1. use # None /\ UNCHANGED read /\ phase = "wire"
    BY <1>6 DEF UseRelease
  <2>2. \/ Fail
        \/ /\ hub' = Hub(use.prefix, use.hashes)
           /\ DOMAIN repos' = {<<use.prefix, k>> : k \in use.hashes}
           /\ phase' = "wired"
    BY <1>6 DEF UseRelease
  <2>3. CASE /\ hub' = Hub(use.prefix, use.hashes)
             /\ DOMAIN repos' = {<<use.prefix, k>> : k \in use.hashes}
             /\ phase' = "wired"
    <3>1. {t.repo : t \in hub'} = DOMAIN repos'
      BY <1>4, <2>3
    <3>2. use' # None
      BY <2>1 DEF read
    <3> QED
      BY <2>3, <3>1, <3>2 DEF Wired
  <2> QED
    BY <1>3, <2>1, <2>2, <2>3
<1>7. CASE NoInstall
  <2>1. /\ use' = None /\ versions' = <<>> /\ phase' = "wired" /\ DOMAIN repos' = {}
    BY <1>7 DEF NoInstall, read, Wired
  <2> QED
    BY <2>1 DEF Wired, Tagged
<1>8. CASE Install
  <2> DEFINE v == Select(versions)
             overlays == IF python /\ v \in DOMAIN Overlays THEN Overlays[v] ELSE {}
  <2>1. UNCHANGED read /\ phase = "wire" /\ use = None /\ versions # <<>>
    BY <1>8 DEF Install
  <2>2. \/ Fail
        \/ /\ v \in DOMAIN Pinned /\ ~(python /\ ~(Pinned[v] \subseteq overlays))
           /\ phase' = "wired" /\ hub' = Hub(prefix, Platforms)
           /\ repos' = [n \in {<<prefix, k>> : k \in Pinned[v]} |->
                          Declared(v, url, pythonUrl, n[2] \in overlays)]
    BY <1>8 DEF Install, Uncovered
  <2>3. python => \A k \in overlays : k \in Overlays[v]
    OBVIOUS
  <2>4. (Select(versions))' = v
    BY <2>1 DEF read, Select
  <2> HIDE DEF v, overlays
  <2>5. CASE /\ v \in DOMAIN Pinned /\ ~(python /\ ~(Pinned[v] \subseteq overlays))
             /\ phase' = "wired" /\ hub' = Hub(prefix, Platforms)
             /\ repos' = [n \in {<<prefix, k>> : k \in Pinned[v]} |->
                            Declared(v, url, pythonUrl, n[2] \in overlays)]
    <3>1. (\A w \in DOMAIN Pinned : Pinned[w] = Platforms)
             => {t.repo : t \in hub'} = DOMAIN repos'
      BY <1>4, <2>5
    <3>2. \A n \in DOMAIN repos' : n[2] \in Pinned[v]
      BY <2>5
    <3>3. \A n \in DOMAIN repos' :
            repos'[n].version = v /\ repos'[n].overlay = (n[2] \in overlays)
      BY <2>5, Zenon DEF Declared
    <3>4. python => \A n \in DOMAIN repos' : repos'[n].overlay /\ n[2] \in Overlays[v]
      BY <2>3, <2>5, <3>2, <3>3
    <3>5. UNCHANGED <<use, python, versions>>
      BY <2>1 DEF read
    <3> QED
      BY <2>1, <2>4, <2>5, <3>1, <3>3, <3>4, <3>5 DEF Wired
  <2> QED
    BY <1>3, <2>1, <2>2, <2>5
<1>9. CASE Fetch
  <2>1. /\ UNCHANGED <<read, phase, hub>> /\ phase = "wired" /\ DOMAIN repos' = DOMAIN repos
        /\ \A n \in DOMAIN repos : SameRule(n)
    BY <1>9, FetchKeeps
  <2>2. UNCHANGED <<use, python, versions, hub, phase>>
    BY <2>1 DEF read
  <2>3. Tagged' = Tagged /\ (Select(versions))' = Select(versions)
    BY <2>2 DEF Tagged, Select
  <2> QED
    BY <2>1, <2>2, <2>3 DEF Wired, SameRule
<1>10. CASE UNCHANGED vars
  <2>1. UNCHANGED <<use, python, versions, hub, phase, repos>>
    BY <1>10 DEF vars
  <2>2. Tagged' = Tagged /\ (Select(versions))' = Select(versions)
    BY <2>1 DEF Tagged, Select
  <2> QED
    BY <2>1, <2>2 DEF Wired
<1> QED
  BY <1>2, <1>5, <1>6, <1>7, <1>8, <1>9, <1>10 DEF Next, Fetch

---------------------------------------------------------------------------
(* What is fetched.                                                        *)
LEMMA StepFetching ==
  ASSUME TypeOK, Wired, Fetching, [Next]_vars
  PROVE  Fetching'
<1>1. ASSUME UNCHANGED repos PROVE Fetching'
  BY <1>1 DEF Fetching
<1>2. CASE Visit \/ Wire \/ NoInstall \/ UNCHANGED vars
  BY <1>1, <1>2 DEF Visit, Wire, NoInstall, vars
<1>3. ASSUME \A n \in DOMAIN repos' :
               repos'[n].stage = "declared" /\ (repos'[n].local => ~repos'[n].overlay)
      PROVE  Fetching'
  BY <1>3 DEF Fetching
<1>4. CASE UseLocal
  <2>1. \/ Fail
        \/ repos' = [n \in {<<use.prefix, host>>} |-> DeclaredLocal(use.version)]
    BY <1>4 DEF UseLocal
  <2> QED
    BY <1>1, <1>3, <2>1 DEF Fail, DeclaredLocal, Declared
<1>5. CASE UseRelease
  <2>1. \/ Fail
        \/ repos' = [n \in {<<use.prefix, k>> : k \in use.hashes} |->
                       Declared(use.version, TRUE, use.pythonUrl, n[2] \in use.pythonHashes)]
    BY <1>5 DEF UseRelease
  <2> QED
    BY <1>1, <1>3, <2>1 DEF Fail, Declared
<1>6. CASE Install
  <2> DEFINE v == Select(versions)
             overlays == IF python /\ v \in DOMAIN Overlays THEN Overlays[v] ELSE {}
  <2>1. \/ Fail
        \/ repos' = [n \in {<<prefix, k>> : k \in Pinned[v]} |->
                       Declared(v, url, pythonUrl, n[2] \in overlays)]
    BY <1>6 DEF Install
  <2> HIDE DEF v, overlays
  <2> QED
    BY <1>1, <1>3, <2>1 DEF Fail, Declared
<1>7. CASE Fetch
  <2> SUFFICES ASSUME NEW n \in DOMAIN repos,
                      Base(n) \/ Overlay(n) \/ Restore(n) \/ Link(n) \/ FetchFails(n)
               PROVE  Fetching'
    BY <1>7 DEF Fetch
  <2>1. repos[n].binary \in {"none", "base", "python"} /\ repos[n].runs \in BOOLEAN
        /\ repos[n].overlay \in BOOLEAN
    BY DEF TypeOK, Repository
  <2>2. ASSUME NEW stage, NEW after \in {"declared", "base", "whole", "ready", "failed"},
               NEW binary \in {"none", "base", "python"}, NEW runs \in BOOLEAN,
               Step(n, stage, after, binary, runs),
               repos[n].stage = stage =>
                 /\ after = "base" => repos[n].overlay
                 /\ after \in {"whole", "ready"} =>
                      binary = IF repos[n].overlay THEN "python" ELSE "base"
                 /\ after = "ready" /\ n[2] \notin Windows => runs
        PROVE  Fetching'
    <3>0. /\ DOMAIN repos' = DOMAIN repos /\ \A m \in DOMAIN repos : SameRule(m)
          /\ Advances(n, stage, after, binary, runs)
      BY <2>2, StepFetches, Zenon
    <3>1. /\ DOMAIN repos' = DOMAIN repos /\ \A m \in DOMAIN repos : SameRule(m)
          /\ \A m \in DOMAIN repos \ {n} : repos'[m] = repos[m]
          /\ repos[n].stage = stage /\ repos'[n].stage = after
          /\ repos'[n].binary = binary /\ repos'[n].runs = runs
      BY <3>0 DEF Advances
    <3>2. repos[n].local => ~repos[n].overlay
      BY DEF Fetching
    <3>3. /\ repos'[n].local => ~repos'[n].overlay
          /\ repos'[n].stage = "base" => repos'[n].overlay
          /\ repos'[n].stage \in {"whole", "ready"} =>
               repos'[n].binary = IF repos'[n].overlay THEN "python" ELSE "base"
          /\ repos'[n].stage = "ready" /\ n[2] \notin Windows => repos'[n].runs
      BY <2>2, <3>1, <3>2, Zenon DEF SameRule
    <3> QED
      BY <3>1, <3>3 DEF Fetching
  <2>3. CASE Base(n)
    <3>1. /\ Step(n, "declared", IF repos[n].overlay THEN "base" ELSE "whole", "base", repos[n].runs)
          /\ (IF repos[n].overlay THEN "base" ELSE "whole")
               \in {"declared", "base", "whole", "ready", "failed"}
      BY <2>3 DEF Base
    <3> QED
      BY <2>1, <2>2, <3>1
  <2>4. CASE Overlay(n)
    BY <2>2, <2>4 DEF Overlay, Fetching
  <2>5. CASE Restore(n)
    <3>1. Step(n, "whole", "ready", repos[n].binary, n[2] \notin Windows)
      BY <2>5 DEF Restore
    <3>2. PICK runs \in BOOLEAN : runs <=> n[2] \notin Windows
      OBVIOUS
    <3>3. Step(n, "whole", "ready", repos[n].binary, runs)
      BY <3>1, <3>2
    <3>4. n[2] \notin Windows => runs
      BY <3>2
    <3>5. repos[n].stage = "whole" => repos[n].binary = IF repos[n].overlay THEN "python" ELSE "base"
      BY DEF Fetching
    <3> QED
      BY <2>1, <2>2, <3>3, <3>4, <3>5
  <2>6. CASE Link(n)
    BY <2>2, <2>6 DEF Link, Fetching
  <2>7. CASE FetchFails(n)
    BY <2>1, <2>2, <2>7 DEF FetchFails
  <2> QED
    BY <2>3, <2>4, <2>5, <2>6, <2>7
<1> QED
  BY <1>2, <1>4, <1>5, <1>6, <1>7 DEF Next, Fetch

---------------------------------------------------------------------------
(* The properties.                                                         *)

InductiveInvariant == TypeOK /\ Gathered /\ Named /\ Wired /\ Fetching

(* Nothing is lost from tags to repositories: what was gathered, what was  *)
(* declared of it and how far each repository has come stay in step.       *)
THEOREM WiringKept == Spec => []InductiveInvariant
<1>1. Init => Gathered /\ Named /\ Wired /\ Fetching
  BY DEF Init, Gathered, Named, Redirects, Wired, Fetching
<1>2. InductiveInvariant /\ [Next]_vars => InductiveInvariant'
  BY StepTypes, StepGathers, StepNames, StepWires, StepFetching DEF InductiveInvariant
<1> QED
  BY <1>1, <1>2, TypeCorrect, PTL DEF Spec, InductiveInvariant

(* Every toolchain of the hub names a declared repository of its platform  *)
(* and every repository has a toolchain, once any tag is given, provided   *)
(* that each pinned version is pinned for every platform, as those of      *)
(* versions.bzl are ("the pinned install path materializes all four",      *)
(* hub.bzl 49).                                                            *)
THEOREM HubIsExact ==
  ASSUME \A v \in DOMAIN Pinned : Pinned[v] = Platforms
  PROVE  Spec => []ToolchainsHaveRepos
<1>1. InductiveInvariant => ToolchainsHaveRepos
  BY DEF InductiveInvariant, Wired, ToolchainsHaveRepos
<1> QED
  BY <1>1, WiringKept, PTL

(* However many modules ask, in whatever order, no version of three        *)
(* numbers asked for outranks the one installed.                           *)
THEOREM InstallsTheHighest == Spec => []HighestInstalled
<1>1. ASSUME TypeOK, Gathered, Wired
      PROVE  HighestInstalled
  <2> SUFFICES ASSUME phase = "wired", use = None, NEW n \in DOMAIN repos,
                      NEW m \in ToSet(modules), NEW i \in DOMAIN m.installs
               PROVE  ~Outranks(m.installs[i].version, repos[n].version)
    BY DEF HighestInstalled
  <2>1. versions # <<>> /\ repos[n].version = Select(versions) /\ visited = Len(modules)
    BY <1>1 DEF Wired, Gathered
  <2>2. PICK k \in 1..Len(modules) : modules[k] = m
    BY <1>1, ModulesAssumption, LenProperties DEF ToSet, TypeOK
  <2>3. m.installs[i].version \in ToSet(versions)
    BY <1>1, <2>1, <2>2 DEF Gathered
  <2>4. versions \in Seq(Versions)
    BY <1>1 DEF TypeOK
  <2>5. /\ m.installs[i].version \in Versions /\ Select(versions) \in Versions
        /\ ~Below(Select(versions), m.installs[i].version)
    BY <2>1, <2>3, <2>4, SelectIsHighest, LenProperties, ElementOfSeq DEF ToSet
  <2> QED
    BY <2>1, <2>5, OutranksIsAbove
<1> QED
  BY <1>1, WiringKept, PTL DEF InductiveInvariant

(* Python asked for by any module is in every repository declared.         *)
THEOREM PythonEverywhere == Spec => []PythonForAll
<1>1. ASSUME TypeOK, Gathered, Wired
      PROVE  PythonForAll
  <2> SUFFICES ASSUME phase = "wired", use = None, NEW n \in DOMAIN repos,
                      NEW m \in ToSet(modules), NEW i \in DOMAIN m.installs,
                      m.installs[i].python
               PROVE  repos[n].overlay /\ n[2] \in Overlays[repos[n].version]
    BY DEF PythonForAll
  <2>1. PICK k \in 1..Len(modules) : modules[k] = m
    BY <1>1, ModulesAssumption, LenProperties DEF ToSet, TypeOK
  <2>2. visited = Len(modules)
    BY <1>1 DEF Gathered
  <2>3. python
    BY <1>1, <2>1, <2>2 DEF Gathered
  <2> QED
    BY <1>1, <2>3 DEF Wired
<1> QED
  BY <1>1, WiringKept, PTL DEF InductiveInvariant

(* Only the root module redirects downloads or names repositories.         *)
THEOREM OnlyRootDecides == Spec => []RootDecides
<1>1. InductiveInvariant => RootDecides
  BY DEF InductiveInvariant, Named, Redirects, RootTags, RootDecides
<1> QED
  BY <1>1, WiringKept, PTL

(* Whatever the order of fetching, a repository that is ready holds the    *)
(* binary its toolchain promises, executable on POSIX systems.             *)
THEOREM ReadyIsRunnable == Spec => []ReadyToRun
<1>1. InductiveInvariant => ReadyToRun
  BY DEF InductiveInvariant, Fetching, ReadyToRun
<1> QED
  BY <1>1, WiringKept, PTL

=============================================================================
