----------------------------- MODULE SbomEnrich -----------------------------
(***************************************************************************)
(* The SBOM of a release: release_prep.sh has syft write an SPDX document  *)
(* and tools/sbom_enrich.py rewrite it in place, with one package and one  *)
(* DEPENDS_ON relationship for each bazel_dep of MODULE.bazel.  sbom_prep  *)
(* is the same two commands by hand, and the second may be given alone.    *)
(* Any step may be the last: an exception, a signal or a full disk ends    *)
(* the script (errexit) and leaves the file as it is then.                 *)
(*                                                                         *)
(* A run of sbom_prep.sh is one that ends before Publish.                  *)
(*                                                                         *)
(* MODULE.bazel is a sequence of statements, each with its call, the order *)
(* of its keywords and the two values the pattern captures; a "comment"    *)
(* holds a bazel_dep that is commented out.  A list of the document that   *)
(* is absent is empty here.                                                *)
(***************************************************************************)
EXTENDS Naturals, Sequences, FiniteSets, SequencesExt

CONSTANTS
  Names,        \* names of Bazel modules
  SafeNames,    \* words of letters, digits, dots and dashes only
  Sanitize,     \* re.sub of sbom_enrich.py, line 37: each other character to a dash
  Versions,
  ScanWords,    \* the SPDX ids syft gives out
  Scans,        \* the documents syft may write
  Modules,      \* what MODULE.bazel may hold
  None,
  Torn          \* a file that is not a whole JSON document

\* A mutant: the name goes into the id as it is.
Unsanitized(name) == <<"bazeldep", name>>

Id(name) == <<"bazeldep", Sanitize[name]>>

ScanIds == {<<"syft", word>> : word \in ScanWords}
Ids == ScanIds \cup {<<"bazeldep", word>> : word \in SafeNames}
DocumentId == <<"syft", "DOCUMENT">>

Package == [id : Ids, name : Names \cup {None}, version : Versions \cup {None}]
Relationship == [from : Ids, type : {"DEPENDS_ON", "OTHER"}, to : Ids]
Document == [describes : Seq(Ids), packages : Seq(Package), relationships : Seq(Relationship)]
Statement == [call : {"bazel_dep", "comment", "other"}, keywords : Seq(STRING),
              name : Names, version : Versions \cup {None}]

Dependency == [name : Names, version : Versions]

PackageIds(doc) == {doc.packages[i].id : i \in DOMAIN doc.packages}

(* Every package has an id of its own; what is depended on is a package.   *)
Sound(doc) ==
  /\ \A i, j \in DOMAIN doc.packages : doc.packages[i].id = doc.packages[j].id => i = j
  /\ \A i \in DOMAIN doc.relationships :
       doc.relationships[i].type = "DEPENDS_ON" => doc.relationships[i].to \in PackageIds(doc)

ASSUME SanitizeAssumption == Sanitize \in [Names -> SafeNames]
ASSUME ScansAssumption ==
  \A doc \in Scans : doc \in Document /\ Sound(doc) /\ PackageIds(doc) \subseteq ScanIds
ASSUME ModulesAssumption ==
  \A module \in Modules : module \in Seq(Statement) /\ \A i \in DOMAIN module :
    "version" \in Range(module[i].keywords) => module[i].version # None
ASSUME SentinelAssumption == None \notin Names \cup Versions /\ {None, Torn} \cap Document = {}
                             /\ None # Torn /\ None \notin Modules /\ "DOCUMENT" \in ScanWords

VARIABLES
  text,         \* MODULE.bazel
  file,         \* the .spdx.json: None, Torn or a document
  pc,           \* the next step of the script
  byHand,       \* sbom_enrich.py was started on its own: nothing is published
  spdx,         \* the document in memory
  deps,         \* the (name, version) pairs still to be added
  existing,     \* the ids of its packages
  published,    \* the asset of the release
  scanned,      \* ghost: what syft wrote into the file
  loaded,       \* ghost: what the last json.load read
  enrichedFor   \* ghost: the MODULE.bazel the file was last enriched for

vars == <<text, file, pc, byHand, spdx, deps, existing, published, scanned, loaded, enrichedFor>>
memory == <<spdx, deps, existing, loaded>>

(* The Python process ends and its memory with it. *)
Ended == spdx' = None /\ deps' = <<>> /\ existing' = {} /\ loaded' = None

(***************************************************************************)
(* parse_bazel_deps.  The pattern wants the keyword name and then version  *)
(* right after the parenthesis; it says nothing of what follows them, nor  *)
(* of what stands before, so that it finds a call in a comment too.        *)
(***************************************************************************)
\* A mutant: the parenthesis must close behind the version.
NoFlagAfterVersion(s) ==
  s.call \in {"bazel_dep", "comment"} /\ s.keywords = <<"name", "version">>

Matches(s) ==
  /\ s.call \in {"bazel_dep", "comment"}
  /\ Len(s.keywords) >= 2
  /\ s.keywords[1] = "name" /\ s.keywords[2] = "version"

WithMatch(found, s) ==
  IF Matches(s) THEN Append(found, [name |-> s.name, version |-> s.version]) ELSE found

parse_bazel_deps(module) ==
  LET found[i \in 0..Len(module)] ==
        IF i = 0 THEN <<>> ELSE WithMatch(found[i - 1], module[i])
  IN found[Len(module)]

Root(doc) == IF doc.describes # <<>> THEN doc.describes[1] ELSE DocumentId

\* A mutant: packages of an earlier run are not known.
NothingKnown(doc) == {}

Known(doc) == PackageIds(doc)

Enriched(doc, dep) ==
  [describes |-> doc.describes,
   packages |-> Append(doc.packages,
                       [id |-> Id(dep.name), name |-> dep.name, version |-> dep.version]),
   relationships |-> Append(doc.relationships,
                            [from |-> Root(doc), type |-> "DEPENDS_ON", to |-> Id(dep.name)])]

Init ==
  /\ text \in Modules
  /\ file = None /\ scanned = None /\ enrichedFor = None
  /\ pc = "idle" /\ byHand = FALSE
  /\ spdx = None /\ deps = <<>> /\ existing = {} /\ loaded = None
  /\ published = None

(***************************************************************************)
(* Between two runs a developer may edit MODULE.bazel.                     *)
(***************************************************************************)
Edit ==
  /\ pc = "idle"
  /\ text' \in Modules \ {text}
  /\ UNCHANGED <<file, pc, byHand, published, scanned, enrichedFor>> /\ UNCHANGED memory

(* syft writes the file anew, whatever it held. *)
Scan ==
  /\ pc = "idle"
  /\ file' \in Scans
  /\ scanned' = file' /\ enrichedFor' = None
  /\ byHand' = FALSE /\ pc' = "load"
  /\ UNCHANGED <<text, published>> /\ UNCHANGED memory

ScanFails ==
  /\ pc = "idle"
  /\ file' = Torn /\ scanned' = None /\ enrichedFor' = None
  /\ UNCHANGED <<text, pc, byHand, published>> /\ UNCHANGED memory

StartByHand ==
  /\ pc = "idle" /\ file # None
  /\ pc' = "load" /\ byHand' = TRUE
  /\ UNCHANGED <<text, file, published, scanned, enrichedFor>> /\ UNCHANGED memory

(***************************************************************************)
(* main: json.load raises on a file that is not whole; then MODULE.bazel   *)
(* is read, and enrich prepares the root, the lists and the known ids.     *)
(***************************************************************************)
\* A mutant: a file that cannot be read is taken for an empty document.
TornIsEmpty(f) ==
  IF f = Torn THEN [describes |-> <<>>, packages |-> <<>>, relationships |-> <<>>] ELSE f

Loaded(f) == f

Load ==
  /\ pc = "load" /\ Loaded(file) # Torn
  /\ spdx' = Loaded(file) /\ loaded' = Loaded(file)
  /\ pc' = "parse"
  /\ UNCHANGED <<text, file, byHand, deps, existing, published, scanned, enrichedFor>>

LoadFails ==
  /\ pc = "load" /\ Loaded(file) = Torn
  /\ pc' = "idle" /\ Ended
  /\ UNCHANGED <<text, file, byHand, published, scanned, enrichedFor>>

Parse ==
  /\ pc = "parse"
  /\ deps' = parse_bazel_deps(text)
  /\ existing' = Known(spdx)
  /\ pc' = "add"
  /\ UNCHANGED <<text, file, byHand, spdx, published, scanned, loaded, enrichedFor>>

\* A mutant: the id of an added package is not remembered.
ForgottenAdd(id) == existing' = existing

Remember(id) == existing' = existing \cup {id}

Add ==
  /\ pc = "add" /\ deps # <<>>
  /\ Id(Head(deps).name) \notin existing
  /\ Remember(Id(Head(deps).name))
  /\ spdx' = Enriched(spdx, Head(deps))
  /\ deps' = Tail(deps)
  /\ UNCHANGED <<text, file, pc, byHand, published, scanned, loaded, enrichedFor>>

Skip ==
  /\ pc = "add" /\ deps # <<>>
  /\ Id(Head(deps).name) \in existing
  /\ deps' = Tail(deps)
  /\ UNCHANGED <<text, file, pc, byHand, spdx, existing, published, scanned, loaded, enrichedFor>>

(* open(spdx_path, "w") empties the file before json.dump writes it. *)
Truncate ==
  /\ pc = "add" /\ deps = <<>>
  /\ file' = Torn
  /\ pc' = "dump"
  /\ UNCHANGED <<text, byHand, published, scanned, enrichedFor>> /\ UNCHANGED memory

Dump ==
  /\ pc = "dump"
  /\ file' = spdx /\ enrichedFor' = text
  /\ pc' = (IF byHand THEN "idle" ELSE "publish") /\ Ended
  /\ UNCHANGED <<text, byHand, published, scanned>>

(* release_ruleset ships the file once the script has exited with 0. *)
Publish ==
  /\ pc = "publish"
  /\ published' = [doc |-> file, module |-> text, scan |-> scanned]
  /\ pc' = "idle"
  /\ UNCHANGED <<text, file, byHand, scanned, enrichedFor>> /\ UNCHANGED memory

Crash ==
  /\ pc # "idle"
  /\ pc' = "idle" /\ Ended
  /\ UNCHANGED <<text, file, byHand, published, scanned, enrichedFor>>

Next ==
  \/ Edit \/ Scan \/ ScanFails \/ StartByHand
  \/ Load \/ LoadFails \/ Parse \/ Add \/ Skip
  \/ Truncate \/ Dump \/ Publish \/ Crash

Spec == Init /\ [][Next]_vars

-----------------------------------------------------------------------------
TypeOK ==
  /\ text \in Modules
  /\ file \in {None, Torn} \cup Document
  /\ pc \in {"idle", "load", "parse", "add", "dump", "publish"} /\ byHand \in BOOLEAN
  /\ spdx \in {None} \cup Document /\ loaded \in {None} \cup Document
  /\ deps \in Seq(Dependency)
  /\ existing \subseteq Ids
  /\ published \in {None} \cup [doc : Document, module : Modules, scan : Document]
  /\ scanned \in {None} \cup Document
  /\ enrichedFor \in {None} \cup Modules

\* A bazel_dep with a version, the package it asks for, and those added to a scan.
Declares(s) == s.call = "bazel_dep" /\ "version" \in Range(s.keywords)
Declared(module) == {i \in DOMAIN module : Declares(module[i])}
PackageFor(s) == [id |-> Id(s.name), name |-> s.name, version |-> s.version]
Beyond(long, short) == {i \in DOMAIN long : i > Len(short)}
Added(p) == {p.doc.packages[i] : i \in Beyond(p.doc.packages, p.scan.packages)}

(* The statement whose id no other bazel_dep has.                          *)
Alone(module, i) ==
  \A j \in Declared(module) : Id(module[j].name) = Id(module[i].name) => j = i

(***************************************************************************)
(* "adds one SPDX package per direct bazel_dep (name + version)", lines    *)
(* 5-8 and 30: the packages a published SBOM holds beyond what syft found  *)
(* are those of the dependencies MODULE.bazel declares.                    *)
(***************************************************************************)
OnePackageEach ==
  published # None =>
    Added(published) = {PackageFor(published.module[i]) : i \in Declared(published.module)}

(***************************************************************************)
(* A published SBOM holds, beyond what syft found, only packages of the    *)
(* dependencies its MODULE.bazel declares, development ones too; one that  *)
(* shares its id with no other has its package, with the name and version  *)
(* declared there; and each package has one DEPENDS_ON from the root of    *)
(* the document.                                                           *)
(***************************************************************************)
PublishedIsExact ==
  published # None =>
    LET doc == published.doc
        module == published.module
    IN
      /\ Added(published) \subseteq {PackageFor(module[i]) : i \in Declared(module)}
      /\ \A i \in Declared(module) : Alone(module, i) => PackageFor(module[i]) \in Added(published)
      /\ \A p \in Added(published) :
           Cardinality({i \in Beyond(doc.relationships, published.scan.relationships) :
             doc.relationships[i] = [from |-> Root(published.scan), type |-> "DEPENDS_ON",
                                     to |-> p.id]}) = 1

(***************************************************************************)
(* Whatever step a run ended at and however often it is run again, a whole *)
(* document still begins with all that syft found: an interrupted rewrite  *)
(* is never taken for an empty document.                                   *)
(***************************************************************************)
ScanKept ==
  file \in {None, Torn}
  \/ /\ scanned # None
     /\ IsPrefix(scanned.packages, file.packages)
     /\ IsPrefix(scanned.relationships, file.relationships)
     /\ file.describes = scanned.describes

(***************************************************************************)
(* No two packages of the file share an id, though two module names may    *)
(* become one id and MODULE.bazel may change between two runs, and every   *)
(* DEPENDS_ON names a package of the file.                                 *)
(***************************************************************************)
IdsUnique == file \notin {None, Torn} => Sound(file)

(***************************************************************************)
(* Run again with the MODULE.bazel it was last enriched for, the tool      *)
(* writes the very document it read (sbom_enrich_test.py, 45-50).          *)
(***************************************************************************)
RerunChangesNothing ==
  [][pc = "dump" /\ file' \notin {None, Torn} /\ enrichedFor = text => file' = loaded]_vars

=============================================================================
