--------------------------------- MODULE Graph ---------------------------------
(***************************************************************************)
(* The dependency graph that `crei graph`, `crei lint` and `crei status`   *)
(* draw from the loaded units (internal/cli/graph.go), and what the        *)
(* diagram leaves out of it (graphreduce.go).                              *)
(***************************************************************************)
EXTENDS Project

\* The unit a name in a [Unit] directive stands for, or the name itself.
Target(all, name) ==
  IF \E u \in all : u.service = name
  THEN (CHOOSE u \in all : u.service = name).file ELSE name

\* What a unit refers to by other keys, and by which.
Resources(u) ==
  {<<"image", u.image>>, <<"pod", u.pod>>}
    \cup {"network"} \X u.networks \cup {"volume"} \X u.volumes

AddUnitEdges(u, all) ==
  {[from |-> u.file, to |-> Target(all, d[2]), rel |-> d[1]] : d \in u.deps}

\* Only what is a unit of the project.
AddResourceEdges(u, all) ==
  {[from |-> u.file, to |-> r[2], rel |-> r[1]] :
     r \in {s \in Resources(u) : s[2] \in Files(all)}}

\* Mutant: references are looked up among the quadlets named only.
EdgesWithin(focus, all) ==
  UNION {AddUnitEdges(u, focus) \cup AddResourceEdges(u, focus) : u \in focus}

\* The edges out of the units in focus, whatever quadlet they lead to.
BuildEdges(focus, all) ==
  UNION {AddUnitEdges(u, all) \cup AddResourceEdges(u, all) : u \in focus}

BuildNodes(focus, all) == Files(focus) \cup {e.to : e \in BuildEdges(focus, all)}

\* mergedEdges: the labels between two nodes.
Rels(edges, from, to) == {e.rel : e \in {x \in edges : x.from = from /\ x.to = to}}

-----------------------------------------------------------------------------
(* The reduced graph.                                                       *)

\* A unit's own build: the edge says no more than that it is built.  Builds have no
\* image key.
OwnBuild(all, e) ==
  \E u, b \in all :
    /\ e = [from |-> u.file, to |-> b.file, rel |-> "image"]
    /\ b.kind = "build" /\ u.kind # "build" /\ b.quadlet = u.quadlet /\ b.stem = u.stem

\* Folded builds that no other edge touches.
HiddenBuilds(all, edges) ==
  {e.to : e \in {x \in edges :
     /\ OwnBuild(all, x)
     /\ \A y \in edges : x.to \in {y.from, y.to} => OwnBuild(all, y) /\ y.to = x.to}}

FoldedEdge(all, edges, e) == OwnBuild(all, e) /\ e.to \in HiddenBuilds(all, edges)

KeptEdges(all, edges) == {e \in edges : ~FoldedEdge(all, edges, e)}

\* Nodes of no edge, before the reduction.
Orphans(nodes, edges) == {n \in nodes : \A e \in edges : n \notin {e.from, e.to}}

Visible(all, nodes, edges) == nodes \ (HiddenBuilds(all, edges) \cup Orphans(nodes, edges))

\* The units in whose label the hidden build appears.
Folds(all, edges, b) == {e.from : e \in {x \in edges : OwnBuild(all, x) /\ x.to = b}}

-----------------------------------------------------------------------------
(* What keeps a unit down (internal/cli/status.go).                         *)

\* Without a unit behind one of these, systemd does not start the dependent.
HardDepRels ==
  {"Requires", "Requisite", "BindsTo", "image", "pod", "network", "volume"}

\* The failed units nearest to a unit along its hard dependencies, of which status
\* names the first in the order of the edges.
FirstFailedDep(edges, from, failed) ==
  LET hard == {e \in edges : e.rel \in HardDepRels}
      near[n \in 0 .. Cardinality(hard)] ==
        IF n = 0 THEN {from}
        ELSE LET last == near[n - 1] IN
             IF (last \ {from}) \cap failed # {} THEN last
             ELSE last \cup {e.to : e \in {x \in hard : x.from \in last}}
  IN (near[Cardinality(hard)] \ {from}) \cap failed

\* For a unit that is down, over the whole project whatever quadlet is asked for.
Blocked(u, all, failed) == FirstFailedDep(BuildEdges(all, all), u.file, failed)
=============================================================================
