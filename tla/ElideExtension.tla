--------------------------- MODULE ElideExtension ---------------------------
(***************************************************************************)
(* The module extension (elide/extensions.bzl with private/versions.bzl,   *)
(* private/hub.bzl and private/download.bzl): the tags of every Bazel      *)
(* module decide on one Elide version, a repository for each platform and  *)
(* the hub of toolchains that names them; Bazel then fetches, in any       *)
(* order, the repositories it needs.                                       *)
(*                                                                         *)
(* Bazel is not in this repository: it lists the modules, root first, and  *)
(* a repository whose rule fails is not used.                              *)
(***************************************************************************)
EXTENDS Integers, FiniteSets, SequencesExt

CONSTANTS
  Keys,        \* "<os>_<cpu>" pairs
  Platforms,   \* those Elide is released for (PLATFORMS)
  Windows,     \* those of Windows
  Versions,    \* the version strings, read as by _parse_semver
  Pinned,      \* Pinned[v]: the platforms ELIDE_VERSIONS has a hash for
  Overlays,    \* Overlays[v]: those PYTHON_VERSIONS has one for
  RepoPrefixes, \* what the names of repositories begin with
  ModuleLists, \* the lists of modules and their tags
  None

(* A version string: the numbers of its core, padded by zeros; whether     *)
(* they are numbers and fewer than three; whether it is a prerelease; and  *)
(* its place among all strings in lexical order.                           *)
Version ==
  [core : Nat \X Nat \X Nat, numeric : BOOLEAN, short : BOOLEAN, pre : BOOLEAN, text : Nat]

(* What an install tag and a use tag say; "url" and "pythonUrl" only say   *)
(* whether a template is given, "emptyHash" whether a Python hash is "".   *)
InstallTag ==
  [version : Versions, python : BOOLEAN, prefix : RepoPrefixes, url : BOOLEAN, pythonUrl : BOOLEAN]
UseTag ==
  [local : BOOLEAN, version : Versions, hashes : SUBSET Keys, pythonHashes : SUBSET Keys,
   url : BOOLEAN, pythonUrl : BOOLEAN, emptyHash : BOOLEAN, prefix : RepoPrefixes]
BazelModule == [root : BOOLEAN, installs : Seq(InstallTag), uses : Seq(UseTag)]

ASSUME PlatformsAssumption == Platforms \subseteq Keys /\ Windows \subseteq Keys
ASSUME ModulesAssumption == ModuleLists \subseteq Seq(BazelModule)
ASSUME NoneAssumption == None \notin UseTag
ASSUME PrefixAssumption == "elide" \in RepoPrefixes
ASSUME VersionsAssumption ==
  /\ Versions \subseteq Version
  /\ \A v, w \in Versions : v.text = w.text => v = w
ASSUME PinsAssumption ==
  /\ DOMAIN Pinned \subseteq Versions /\ DOMAIN Overlays \subseteq DOMAIN Pinned
  /\ \A v \in DOMAIN Pinned : Pinned[v] \subseteq Platforms
  /\ \A v \in DOMAIN Overlays : Overlays[v] \subseteq Platforms

VARIABLES
  modules, host,            \* the modules and the platform Bazel runs on
  phase,                    \* "tags", "wire", "wired", or "failed"
  visited,                  \* how many modules were visited
  versions,                 \* the versions asked for by install tags
  prefix, url, pythonUrl,   \* what the last install tag of the root says
  python,                   \* whether any install tag asks for Python
  use,                      \* the last use tag of the root, or None
  repos,                    \* the repositories declared, by name
  hub                       \* the toolchains the hub registers

vars == <<modules, host, phase, visited, versions, prefix, url, pythonUrl, python, use,
          repos, hub>>
read == <<modules, host, visited, versions, prefix, url, pythonUrl, python, use>>

---------------------------------------------------------------------------
(* _parse_semver and select_version                                        *)
Key(v) ==
  IF v.numeric THEN <<v.core[1], v.core[2], v.core[3], IF v.pre THEN 0 ELSE 1, v.text>>
               ELSE <<-1, 0, 0, 0, v.text>>

\* A mutant: the strings themselves are compared.
BelowByText(v, w) == v.text < w.text

Below(v, w) ==
  \E i \in 1..5 : Key(v)[i] < Key(w)[i] /\ \A j \in 1..(i - 1) : Key(v)[j] = Key(w)[j]

Select(asked) == CHOOSE v \in ToSet(asked) : \A w \in ToSet(asked) : ~Below(v, w)

---------------------------------------------------------------------------
(* A repository: what its rule is given, and how far its fetch has come.   *)
Repository ==
  [version : Versions, url : BOOLEAN, pythonUrl : BOOLEAN, overlay : BOOLEAN, local : BOOLEAN,
   stage : {"declared", "base", "whole", "ready", "failed"},
   binary : {"none", "base", "python"}, runs : BOOLEAN]

TypeOK ==
  /\ modules \in ModuleLists /\ host \in Keys \cup {None}
  /\ phase \in {"tags", "wire", "wired", "failed"}
  /\ visited \in 0..Len(modules)
  /\ versions \in Seq(Versions)
  /\ prefix \in RepoPrefixes /\ use \in UseTag \cup {None}
  /\ url \in BOOLEAN /\ pythonUrl \in BOOLEAN /\ python \in BOOLEAN
  /\ DOMAIN repos \subseteq RepoPrefixes \X Keys /\ \A n \in DOMAIN repos : repos[n] \in Repository
  /\ hub \subseteq [key : Keys, repo : RepoPrefixes \X Keys]

Init ==
  /\ modules \in ModuleLists /\ host \in Keys \cup {None}
  /\ phase = "tags" /\ visited = 0 /\ versions = <<>>
  /\ prefix = "elide" /\ url = FALSE /\ pythonUrl = FALSE /\ python = FALSE /\ use = None
  /\ repos = [n \in {} |-> None] /\ hub = {}

---------------------------------------------------------------------------
\* A mutant: any module decides, root or not.
AnyDecides(m) == TRUE

\* Whose settings count: mod.is_root (172).
Decides(m) == m.root

\* The loop over modules and their tags (168-179).
Visit ==
  /\ phase = "tags" /\ visited < Len(modules)
  /\ visited' = visited + 1
  /\ LET m == modules[visited + 1] IN
       /\ versions' = versions \o [i \in DOMAIN m.installs |-> m.installs[i].version]
       /\ python' = (python \/ \E i \in DOMAIN m.installs : m.installs[i].python)
       /\ IF Decides(m) /\ m.installs # <<>>
          THEN /\ prefix' = Last(m.installs).prefix /\ url' = Last(m.installs).url
               /\ pythonUrl' = Last(m.installs).pythonUrl
          ELSE UNCHANGED <<prefix, url, pythonUrl>>
       /\ use' = IF Decides(m) /\ m.uses # <<>> THEN Last(m.uses) ELSE use
  /\ UNCHANGED <<modules, host, phase, repos, hub>>

Wire ==
  /\ phase = "tags" /\ visited = Len(modules)
  /\ phase' = "wire"
  /\ UNCHANGED <<read, repos, hub>>

Declared(version, custom, customPython, overlay) ==
  [version |-> version, url |-> custom, pythonUrl |-> customPython, overlay |-> overlay,
   local |-> FALSE, stage |-> "declared", binary |-> "none", runs |-> FALSE]

DeclaredLocal(version) == [Declared(version, FALSE, FALSE, FALSE) EXCEPT !.local = TRUE]

\* A mutant: the hub registers every platform, whatever the tag covers.
EveryPlatform(p, keys) == {[key |-> k, repo |-> <<p, k>>] : k \in Platforms}

\* The hub: a toolchain for each key given (hub.bzl 51-61).
Hub(p, keys) == {[key |-> k, repo |-> <<p, k>>] : k \in keys}

Fail == phase' = "failed" /\ UNCHANGED <<repos, hub>>

\* A mutant: a host that maps to no platform is not refused.
OverlaidLocally == use.pythonHashes # {} \/ use.pythonUrl

LocalRefused == use.pythonHashes # {} \/ use.pythonUrl \/ host = None

\* elide.use(local_path): one repository, for the host (106-125).
UseLocal ==
  /\ phase = "wire" /\ use # None /\ use.local
  /\ IF LocalRefused
     THEN Fail
     ELSE /\ phase' = "wired"
          /\ repos' = [n \in {<<use.prefix, host>>} |-> DeclaredLocal(use.version)]
          /\ hub' = Hub(use.prefix, {host})
  /\ UNCHANGED read

\* elide.use(url_template, integrity): a repository for each hash (127-158).
UseRelease ==
  /\ phase = "wire" /\ use # None /\ ~use.local
  /\ IF \/ ~use.url \/ use.hashes = {}
        \/ (use.pythonHashes # {}) # use.pythonUrl
        \/ use.pythonHashes # {} /\ (use.pythonHashes # use.hashes \/ use.emptyHash)
     THEN Fail
     ELSE /\ phase' = "wired"
          /\ repos' = [n \in {<<use.prefix, k>> : k \in use.hashes} |->
                         Declared(use.version, TRUE, use.pythonUrl, n[2] \in use.pythonHashes)]
          /\ hub' = Hub(use.prefix, use.hashes)
  /\ UNCHANGED read

\* No tags: a hub of every platform and no repository (185-187).
NoInstall ==
  /\ phase = "wire" /\ use = None /\ versions = <<>>
  /\ phase' = "wired"
  /\ hub' = Hub(prefix, Platforms)
  /\ UNCHANGED <<read, repos>>

\* A mutant: platforms without an overlay are installed without one.
NoneUncovered(v, overlays) == FALSE

Uncovered(v, overlays) == python /\ ~(Pinned[v] \subseteq overlays)

\* elide.install: the highest version asked for, if it is pinned (189-221).
Install ==
  /\ phase = "wire" /\ use = None /\ versions # <<>>
  /\ LET v == Select(versions) IN
       IF v \notin DOMAIN Pinned THEN Fail
       ELSE LET overlays == IF python /\ v \in DOMAIN Overlays THEN Overlays[v] ELSE {} IN
            IF Uncovered(v, overlays) THEN Fail
            ELSE /\ phase' = "wired"
                 /\ repos' = [n \in {<<prefix, k>> : k \in Pinned[v]} |->
                                Declared(v, url, pythonUrl, n[2] \in overlays)]
                 /\ hub' = Hub(prefix, Platforms)
  /\ UNCHANGED read

---------------------------------------------------------------------------
(* The repository rules (download.bzl).  An archive's bin/elide comes      *)
(* without the exec bit; a local distribution is linked as it is.          *)
Fetched(repo, stage, binary, runs) ==
  [version |-> repo.version, url |-> repo.url, pythonUrl |-> repo.pythonUrl,
   overlay |-> repo.overlay, local |-> repo.local,
   stage |-> stage, binary |-> binary, runs |-> runs]

Step(n, stage, after, binary, runs) ==
  /\ phase = "wired" /\ repos[n].stage = stage
  /\ repos' = [repos EXCEPT ![n] = Fetched(repos[n], after, binary, runs)]
  /\ UNCHANGED <<read, phase, hub>>

Base(n) ==
  /\ ~repos[n].local
  /\ Step(n, "declared", IF repos[n].overlay THEN "base" ELSE "whole", "base", repos[n].runs)

\* The overlay replaces bin/elide (89-96).
Overlay(n) == Step(n, "base", "whole", "python", FALSE)

\* A mutant: only what the base archive brought is made executable.
RestoreBase(n) ==
  Step(n, "whole", "ready", repos[n].binary, repos[n].binary = "base")

\* The exec bits, except on Windows, then the BUILD file (101-125).
Restore(n) ==
  Step(n, "whole", "ready", repos[n].binary, n[2] \notin Windows)

Link(n) ==
  /\ repos[n].local
  /\ Step(n, "declared", "ready", "base", TRUE)

\* A download fails or has another hash, or local_path does not exist.
FetchFails(n) ==
  \E stage \in {"declared", "base"} :
    Step(n, stage, "failed", repos[n].binary, repos[n].runs)

Next ==
  \/ Visit \/ Wire \/ UseLocal \/ UseRelease \/ NoInstall \/ Install
  \/ \E n \in DOMAIN repos : Base(n) \/ Overlay(n) \/ Restore(n) \/ Link(n) \/ FetchFails(n)

Spec == Init /\ [][Next]_vars

---------------------------------------------------------------------------
Tagged == use # None \/ versions # <<>>

(* "Register a toolchain only for platforms that actually have a repo"     *)
(* (hub.bzl 47): once any tag is given, every toolchain names a declared   *)
(* repository of its platform, and every repository has a toolchain.       *)
ToolchainsHaveRepos ==
  phase = "wired" /\ Tagged => {t.repo : t \in hub} = DOMAIN repos

\* "X.Y.Z" as the table's releases are written, and "latest".
Regular(v) == v.numeric /\ ~v.short

(* "Returns the highest of `versions`, ranking releases above their        *)
(* prereleases" (versions.bzl select_version): no version of three numbers *)
(* asked for by any module outranks the one installed, whatever the order  *)
(* of modules and tags and the strings' own order.                         *)
Outranks(v, w) ==
  /\ Regular(v) /\ Regular(w)
  /\ \/ \E i \in 1..3 : v.core[i] > w.core[i] /\ \A j \in 1..(i - 1) : v.core[j] = w.core[j]
     \/ v.core = w.core /\ ~v.pre /\ w.pre
HighestInstalled ==
  phase = "wired" /\ use = None =>
    \A n \in DOMAIN repos, m \in ToSet(modules) : \A i \in DOMAIN m.installs :
      ~Outranks(m.installs[i].version, repos[n].version)

(* "Non-numeric or short versions sort lexically after numeric ones"       *)
(* (versions.bzl 241): one that any module asks for is chosen before any   *)
(* version of three numbers.                                               *)
IrregularLast ==
  phase = "wired" /\ use = None
    /\ (\E m \in ToSet(modules) : \E i \in DOMAIN m.installs :
          ~Regular(m.installs[i].version)) =>
    \A n \in DOMAIN repos : ~Regular(repos[n].version)

(* "any module requesting Python enables it for the selected version";     *)
(* "Missing overlay pins fail during module resolution" (README.md         *)
(* 142-144): all repositories get the overlay of their version, or none is *)
(* declared.                                                               *)
PythonForAll ==
  phase = "wired" /\ use = None /\ (\E m \in ToSet(modules) : \E i \in DOMAIN m.installs :
                                       m.installs[i].python) =>
    \A n \in DOMAIN repos : repos[n].overlay /\ n[2] \in Overlays[repos[n].version]

(* "Register a toolchain only for platforms that actually have a repo"     *)
(* (hub.bzl 47), whatever the modules say: every toolchain of the hub      *)
(* names a declared repository.                                            *)
NoEmptyToolchain == phase = "wired" => {t.repo : t \in hub} \subseteq DOMAIN repos

(* Only the root module redirects downloads or names repositories: what    *)
(* other modules' tags say of either changes nothing (extensions.bzl       *)
(* 172-179).                                                               *)
RootDecides ==
  LET tags == UNION {ToSet(m.installs) \cup ToSet(m.uses) : m \in {x \in ToSet(modules) : x.root}}
  IN phase = "wired" =>
       \A n \in DOMAIN repos :
         /\ repos[n].url => \E t \in tags : t.url
         /\ repos[n].pythonUrl => \E t \in tags : t.pythonUrl
         /\ n[1] # "elide" => \E t \in tags : t.prefix = n[1]

(* A repository Bazel may use holds the binary its toolchain promises, the *)
(* overlay's where there is one, and on POSIX systems one that can be      *)
(* executed (download.bzl 89-119).                                         *)
ReadyToRun ==
  \A n \in DOMAIN repos : repos[n].stage = "ready" =>
    /\ repos[n].binary = IF repos[n].overlay THEN "python" ELSE "base"
    /\ n[2] \notin Windows => repos[n].runs
=============================================================================
