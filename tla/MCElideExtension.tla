-------------------------- MODULE MCElideExtension --------------------------
(* The root module and one it depends on, each with up to two tags; eight  *)
(* versions, of which five are pinned and three of those have overlays,    *)
(* one of them for part of the platforms.                                  *)
EXTENDS ElideExtension

V(a, b, c, pre, text) ==
  [core |-> <<a, b, c>>, numeric |-> TRUE, short |-> FALSE, pre |-> pre, text |-> text]

v110  == V(1, 10, 0, FALSE, 1)   \* "1.10.0"
v16   == [V(1, 6, 0, FALSE, 2) EXCEPT !.short = TRUE]   \* "1.6"
v160  == V(1, 6, 0, FALSE, 3)    \* "1.6.0"
v160r == V(1, 6, 0, TRUE, 4)     \* "1.6.0-rc.2"
v162  == V(1, 6, 2, FALSE, 5)    \* "1.6.2"
v162n == V(1, 6, 2, FALSE, 6)    \* "1.6.2+20261103"
latest == V(999999999, 0, 0, FALSE, 0)
custom == [core |-> <<0, 0, 0>>, numeric |-> FALSE, short |-> FALSE, pre |-> FALSE, text |-> 7]

MCVersions == {v110, v16, v160, v160r, v162, v162n, latest, custom}
MCPinned == [v \in {v160, v160r, v162, v162n, v110} |-> {"linux", "win"}]
MCOverlays == [v \in {v160, v162, v110} |-> IF v = v110 THEN {"linux"} ELSE {"linux", "win"}]

Inst(v, p, redirected, py) ==
  [version |-> v, python |-> py, prefix |-> p, url |-> redirected, pythonUrl |-> redirected]

Use(local, hashes, pythonHashes, redirected, pyRedirected, emptyHash) ==
  [local |-> local, version |-> custom, hashes |-> hashes, pythonHashes |-> pythonHashes,
   url |-> redirected, pythonUrl |-> pyRedirected, emptyHash |-> emptyHash, prefix |-> "mine"]

Module(root, installs, uses) == [root |-> root, installs |-> installs, uses |-> uses]

RootInstalls ==
  {<<>>} \cup {<<Inst(v, "elide", FALSE, FALSE)>> : v \in MCVersions}
         \cup {<<Inst(v160r, "elide", TRUE, FALSE), Inst(v162, "ours", r, p)>> :
                 r \in BOOLEAN, p \in BOOLEAN}
DepInstalls ==
  {<<>>} \cup {<<Inst(v, "theirs", TRUE, p)>> : v \in MCVersions, p \in BOOLEAN}
RootUses ==
  {<<>>, <<Use(TRUE, {}, {}, FALSE, FALSE, FALSE)>>, <<Use(TRUE, {}, {}, FALSE, TRUE, FALSE)>>,
   <<Use(FALSE, {"linux"}, {}, TRUE, FALSE, FALSE)>>}
  \cup {<<Use(TRUE, {}, {}, FALSE, FALSE, FALSE),
          Use(FALSE, {"linux", "win"}, py, TRUE, py # {}, empty)>> :
          py \in {{}, {"linux"}, {"linux", "win"}}, empty \in BOOLEAN}

MCModuleLists ==
  {<<Module(TRUE, r, u), Module(FALSE, d, <<>>)>> :
     r \in RootInstalls, d \in DepInstalls, u \in {<<>>}}
  \cup {<<Module(TRUE, <<Inst(v162, "elide", FALSE, TRUE)>>, u),
          Module(FALSE, d, <<Use(TRUE, {}, {}, FALSE, FALSE, FALSE)>>)>> :
          u \in RootUses, d \in {<<>>, <<Inst(v110, "theirs", TRUE, TRUE)>>}}
=============================================================================
