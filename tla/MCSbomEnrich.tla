---------------------------- MODULE MCSbomEnrich ----------------------------
(* Small instances of SbomEnrich: four module names, two of which become   *)
(* one id, with development dependencies, an override and a bazel_dep      *)
(* without a version; two documents syft may write.                        *)
EXTENDS SbomEnrich

MCSanitize == [rules_java |-> "rules-java"] @@ [n \in {"rules-java", "platforms", "stardoc"} |-> n]

Dep(name, version) == [call |-> "bazel_dep", keywords |-> <<"name", "version">>,
                       name |-> name, version |-> version]
DevDep(name, version) == [Dep(name, version) EXCEPT !.keywords = Append(@, "dev_dependency")]
Overridden(name) == [Dep(name, None) EXCEPT !.keywords = <<"name">>]
Override(name) == [call |-> "other", keywords |-> <<"module_name", "path">>,
                   name |-> name, version |-> None]

VersionFirst(name, version) == [Dep(name, version) EXCEPT !.keywords = <<"version", "name">>]
CommentedOut(name, version) == [Dep(name, version) EXCEPT !.call = "comment"]

(* An edit adds a dependency, changes a version or the order of the names. *)
MCModules == {
  <<Dep("platforms", "1"), Dep("rules_java", "1"), DevDep("stardoc", "1")>>,
  <<Dep("platforms", "2"), Dep("rules-java", "1"), Dep("rules_java", "2")>>,
  <<Overridden("platforms"), Override("platforms"), DevDep("rules_java", "1")>>,
  <<>>}

\* What the pattern of sbom_enrich.py does not expect.
MCUnusual == {<<VersionFirst("platforms", "1"), CommentedOut("stardoc", "1")>>}

Found(word) == [id |-> <<"syft", word>>, name |-> None, version |-> None]
MCScans == {
  [describes |-> <<<<"syft", "root">>>>,
   packages |-> <<Found("root"), Found("file")>>,
   relationships |-> <<[from |-> DocumentId, type |-> "OTHER", to |-> <<"syft", "root">>]>>],
  [describes |-> <<>>, packages |-> <<>>, relationships |-> <<>>]}
=============================================================================
