------------------------------- MODULE LintProofs -------------------------------
(***************************************************************************)
(* What lint, evaluation and the diagram of its graph promise of a project *)
(* for every project, edit and compose file.  The reduction of the diagram *)
(* only hides: no edge it keeps has an end that is not drawn, and every    *)
(* node is drawn, set apart, or named in the label of one that is drawn.   *)
(***************************************************************************)
EXTENDS Lint, FiniteSetTheorems, WellFoundedInduction, TLAPS

-----------------------------------------------------------------------------
(* What the diagram leaves out.                                             *)

\* Every end of an edge is a node; files differ in kind only if they differ.
Proper(all, nodes, edges) ==
  /\ \A e \in edges : e.from \in nodes /\ e.to \in nodes
  /\ \A u, v \in all : u.file = v.file => u.kind = v.kind

\* A kept edge ("a build kept visible by other relationships keeps its consumer
\* edge too", graphreduce.go) joins two drawn nodes.
THEOREM KeptEdgesAreDrawn ==
  ASSUME NEW all, NEW nodes, NEW edges, Proper(all, nodes, edges),
         NEW e \in KeptEdges(all, edges)
  PROVE  {e.from, e.to} \subseteq Visible(all, nodes, edges)
  <1>1. e \in edges /\ ~FoldedEdge(all, edges, e)
    BY DEF KeptEdges
  <1>2. \A n \in {e.from, e.to} : n \in nodes /\ n \notin Orphans(nodes, edges)
    BY <1>1 DEF Proper, Orphans
  <1>3. ASSUME NEW n \in {e.from, e.to}, n \in HiddenBuilds(all, edges)
        PROVE  FALSE
    <2>1. PICK x \in edges : /\ OwnBuild(all, x) /\ x.to = n
                             /\ \A y \in edges : x.to \in {y.from, y.to}
                                  => OwnBuild(all, y) /\ y.to = x.to
      BY <1>3 DEF HiddenBuilds
    <2>2. OwnBuild(all, e) /\ e.to = n
      BY <1>1, <1>3, <2>1
    <2> QED
      BY <1>1, <1>3, <2>2 DEF FoldedEdge
  <1> QED
    BY <1>2, <1>3 DEF Visible

\* A node that is not drawn is an orphan, or a build in the label of one that is
\* drawn ("the rules only hide, never delete", graphreduce.go).
THEOREM NothingIsLost ==
  ASSUME NEW all, NEW nodes, NEW edges, Proper(all, nodes, edges),
         NEW n \in nodes \ Visible(all, nodes, edges), n \notin Orphans(nodes, edges)
  PROVE  \E c \in Folds(all, edges, n) : c \in Visible(all, nodes, edges)
  <1>1. n \in HiddenBuilds(all, edges)
    BY DEF Visible
  <1>2. PICK x \in edges : OwnBuild(all, x) /\ x.to = n
    BY <1>1 DEF HiddenBuilds
  <1>3. x.from \in Folds(all, edges, n)
    BY <1>2 DEF Folds
  <1>4. x.from \in nodes /\ x.from \notin Orphans(nodes, edges)
    BY <1>2 DEF Proper, Orphans
  <1>5. ASSUME x.from \in HiddenBuilds(all, edges)
        PROVE  FALSE
    <2>1. PICK y \in edges : OwnBuild(all, y) /\ y.to = x.from
      BY <1>5 DEF HiddenBuilds
    <2>2. PICK u, b \in all :
            /\ x = [from |-> u.file, to |-> b.file, rel |-> "image"]
            /\ b.kind = "build" /\ u.kind # "build"
      BY <1>2 DEF OwnBuild
    <2>3. PICK v, c \in all :
            /\ y = [from |-> v.file, to |-> c.file, rel |-> "image"]
            /\ c.kind = "build"
      BY <2>1 DEF OwnBuild
    <2>4. c.file = u.file
      BY <2>1, <2>2, <2>3
    <2> QED
      BY <2>2, <2>3, <2>4 DEF Proper
  <1> QED
    BY <1>3, <1>4, <1>5 DEF Visible

\* The graph of a project that loads is proper.
LEMMA BuiltIsProper ==
  ASSUME NEW all, NEW focus \in SUBSET all, UniqueFilenames(all)
  PROVE  Proper(all, BuildNodes(focus, all), BuildEdges(focus, all))
  <1>1. \A e \in BuildEdges(focus, all) : e.from \in Files(focus)
    BY DEF BuildEdges, AddUnitEdges, AddResourceEdges, Files
  <1> QED
    BY <1>1 DEF Proper, BuildNodes, UniqueFilenames

\* What `crei graph --format drawio` draws of any project that loads, or of some of
\* its quadlets: edges between drawn nodes, and every unit somewhere.
THEOREM DiagramIsComplete ==
  ASSUME NEW all, NEW focus \in SUBSET all, UniqueFilenames(all)
  PROVE  LET nodes == BuildNodes(focus, all)
             edges == BuildEdges(focus, all)
             drawn == Visible(all, nodes, edges)
         IN /\ \A e \in KeptEdges(all, edges) : {e.from, e.to} \subseteq drawn
            /\ \A n \in nodes : \/ n \in drawn \cup Orphans(nodes, edges)
                               \/ \E c \in drawn : c \in Folds(all, edges, n)
  <1> DEFINE nodes == BuildNodes(focus, all)
             edges == BuildEdges(focus, all)
  <1>1. Proper(all, nodes, edges)
    BY BuiltIsProper
  <1> HIDE DEF nodes, edges
  <1>2. \A e \in KeptEdges(all, edges) : {e.from, e.to} \subseteq Visible(all, nodes, edges)
    BY <1>1, KeptEdgesAreDrawn
  <1>3. \A n \in nodes :
          \/ n \in Visible(all, nodes, edges) \cup Orphans(nodes, edges)
          \/ \E c \in Visible(all, nodes, edges) : c \in Folds(all, edges, n)
    BY <1>1, NothingIsLost
  <1> QED
    BY <1>2, <1>3 DEF nodes, edges

-----------------------------------------------------------------------------
(* Units as they are written and as they are loaded.                        *)

Fields == DOMAIN Plain \cup {"value", "quadlet", "kind", "stem", "file"}

\* What evaluation and the author leave of a unit as it is.
Same(u, v) ==
  /\ Fields \subseteq DOMAIN v
  /\ v.quadlet = u.quadlet /\ v.kind = u.kind /\ v.file = u.file /\ v.service = u.service
  /\ v.image = u.image /\ v.pod = u.pod /\ v.networks = u.networks /\ v.volumes = u.volumes
  /\ v.defaults = u.defaults /\ v.tags = u.tags /\ v.settings = u.settings

\* The fields that are used below are fields.
LEMMA FieldNames ==
  ASSUME NEW u, Fields \subseteq DOMAIN u
  PROVE  {"value", "quadlet", "kind", "stem", "file", "service", "deps", "image", "pod",
          "networks", "volumes", "defaults", "tags", "assets", "context", "inputs", "stamp",
          "settings", "valid"} \subseteq DOMAIN u
  <1>1. {"service", "deps", "image", "pod", "networks", "volumes", "defaults", "tags", "assets",
         "context", "inputs", "stamp", "settings", "valid"} \subseteq DOMAIN Plain
    BY DEF Plain
  <1> QED
    BY <1>1 DEF Fields

\* Expanding the assets.
LEMMA ExpandKeeps ==
  ASSUME NEW u, Fields \subseteq DOMAIN u, NEW contents
  PROVE  /\ Same(u, ExpandAssets(u, contents))
         /\ ExpandAssets(u, contents).deps = u.deps
  <1> DEFINE found == {<<x[1], contents[x[2]]>> : x \in UNION {Matches[g] : g \in u.assets}}
             e == [u EXCEPT !.assets = {}, !.context = @ \cup found]
  <1>1. ExpandAssets(u, contents) = e
    BY DEF ExpandAssets
  <1>2. DOMAIN e = DOMAIN u
    OBVIOUS
  <1>3. /\ e.quadlet = u.quadlet /\ e.kind = u.kind /\ e.file = u.file /\ e.service = u.service
        /\ e.image = u.image /\ e.pod = u.pod /\ e.networks = u.networks /\ e.volumes = u.volumes
        /\ e.defaults = u.defaults /\ e.tags = u.tags /\ e.settings = u.settings
        /\ e.deps = u.deps
    BY FieldNames
  <1> QED
    BY <1>1, <1>2, <1>3 DEF Same

\* What a container that consumes a tag is made to wait for.
Added(U, u) ==
  IF u.kind = "container" THEN UNION {TagDeps(u, b) : b \in BuildersOf(U, u)} ELSE {}

\* Stamping the hashes.
LEMMA StampKeeps ==
  ASSUME NEW U, NEW u, Fields \subseteq DOMAIN u
  PROVE  Same(u, Stamp(U, u)) /\ Stamp(U, u).deps = u.deps \cup Added(U, u)
  <1> DEFINE builders == BuildersOf(U, u)
             added == UNION {TagDeps(u, b) : b \in builders}
             s == [u EXCEPT !.stamp = HashData(u)]
             t == [u EXCEPT !.stamp = HashData(CHOOSE b \in builders : TRUE),
                            !.deps = @ \cup added]
  <1>1. CASE u.kind = "build"
    <2>1. Stamp(U, u) = s /\ Added(U, u) = {}
      BY <1>1 DEF Stamp, Added
    <2>2. DOMAIN s = DOMAIN u
      OBVIOUS
    <2>3. /\ s.quadlet = u.quadlet /\ s.kind = u.kind /\ s.file = u.file /\ s.service = u.service
          /\ s.image = u.image /\ s.pod = u.pod /\ s.networks = u.networks
          /\ s.volumes = u.volumes /\ s.defaults = u.defaults /\ s.tags = u.tags
          /\ s.settings = u.settings /\ s.deps = u.deps
      BY FieldNames
    <2> QED
      BY <2>1, <2>2, <2>3 DEF Same
  <1>2. CASE u.kind = "container" /\ builders # {}
    <2>1. Stamp(U, u) = t /\ Added(U, u) = added
      BY <1>2 DEF Stamp, Added
    <2>2. DOMAIN t = DOMAIN u
      OBVIOUS
    <2>3. /\ t.quadlet = u.quadlet /\ t.kind = u.kind /\ t.file = u.file /\ t.service = u.service
          /\ t.image = u.image /\ t.pod = u.pod /\ t.networks = u.networks
          /\ t.volumes = u.volumes /\ t.defaults = u.defaults /\ t.tags = u.tags
          /\ t.settings = u.settings
      BY FieldNames
    <2>4. t.deps = u.deps \cup added
      BY FieldNames
    <2> QED
      BY <2>1, <2>2, <2>3, <2>4 DEF Same
  <1>3. CASE u.kind # "build" /\ ~(u.kind = "container" /\ builders # {})
    <2>1. Stamp(U, u) = u
      BY <1>3 DEF Stamp
    <2>2. Added(U, u) = {}
      BY <1>3 DEF Added
    <2> QED
      BY <2>1, <2>2 DEF Same
  <1> QED
    BY <1>1, <1>2, <1>3

Expanded(us, contents) == {ExpandAssets(u, contents) : u \in us}
Evaluated(u, us, contents) == Stamp(Expanded(us, contents), ExpandAssets(u, contents))

\* A container waits for the same services whatever else becomes of the units.
LEMMA AddedAlike ==
  ASSUME NEW us, NEW t, \A v \in us : Same(v, t[v]), NEW u \in us
  PROVE  Added({t[v] : v \in us}, t[u]) = Added(us, u)
  <1>1. \A b \in us : TagDeps(t[u], t[b]) = TagDeps(u, b)
    BY DEF Same, TagDeps
  <1>2. BuildersOf({t[v] : v \in us}, t[u]) = {t[b] : b \in BuildersOf(us, u)}
    <2>1. \A b \in us : /\ t[b].kind = "build" <=> b.kind = "build"
                        /\ t[u].image \in {t[b].file} \cup t[b].tags
                             <=> u.image \in {b.file} \cup b.tags
      BY DEF Same
    <2> QED
      BY <2>1 DEF BuildersOf, Builds
  <1>3. \A b \in BuildersOf(us, u) : b \in us
    BY DEF BuildersOf, Builds
  <1>4. UNION {TagDeps(t[u], b) : b \in BuildersOf({t[v] : v \in us}, t[u])}
          = UNION {TagDeps(u, b) : b \in BuildersOf(us, u)}
    BY <1>1, <1>2, <1>3
  <1> QED
    BY <1>4 DEF Added, Same

\* So it is when the assets are expanded.
LEMMA AddedBefore ==
  ASSUME NEW us, \A v \in us : Fields \subseteq DOMAIN v, NEW u \in us, NEW contents
  PROVE  Added(Expanded(us, contents), ExpandAssets(u, contents)) = Added(us, u)
  <1> DEFINE t == [v \in us |-> ExpandAssets(v, contents)]
  <1>1. \A v \in us : Same(v, t[v])
    BY ExpandKeeps
  <1>2. Expanded(us, contents) = {t[v] : v \in us} /\ t[u] = ExpandAssets(u, contents)
    BY DEF Expanded
  <1> HIDE DEF t
  <1> QED
    BY <1>1, <1>2, AddedAlike

\* What is loaded.
LEMMA LoadedAre ==
  ASSUME NEW us, NEW contents
  PROVE  Evaluate(us, contents) = {Evaluated(u, us, contents) : u \in us}
  BY DEF Evaluate, InjectBuildHashes, Evaluated, Expanded

\* What is loaded of each unit.
LEMMA LoadedUnits ==
  ASSUME NEW us, \A v \in us : Fields \subseteq DOMAIN v, NEW contents
  PROVE  /\ Evaluate(us, contents) = {Evaluated(u, us, contents) : u \in us}
         /\ \A u \in us : /\ Same(u, Evaluated(u, us, contents))
                          /\ Evaluated(u, us, contents).deps = u.deps \cup Added(us, u)
  <1>1. Evaluate(us, contents) = {Evaluated(u, us, contents) : u \in us}
    BY DEF Evaluate, InjectBuildHashes, Evaluated, Expanded
  <1>2. ASSUME NEW u \in us
        PROVE  /\ Same(u, Evaluated(u, us, contents))
               /\ Evaluated(u, us, contents).deps = u.deps \cup Added(us, u)
    <2> DEFINE e == ExpandAssets(u, contents)  U == Expanded(us, contents)
    <2>1. Same(u, e) /\ e.deps = u.deps /\ Fields \subseteq DOMAIN e
      BY ExpandKeeps DEF Same
    <2> HIDE DEF e, U
    <2>2. Same(e, Stamp(U, e)) /\ Stamp(U, e).deps = e.deps \cup Added(U, e)
      BY <2>1, StampKeeps
    <2>3. Added(U, e) = Added(us, u)
      BY AddedBefore DEF U, e
    <2>4. Evaluated(u, us, contents) = Stamp(U, e)
      BY DEF Evaluated, U, e
    <2> QED
      BY <2>1, <2>2, <2>3, <2>4 DEF Same
  <1> QED
    BY <1>1, <1>2

-----------------------------------------------------------------------------
(* The inductive invariant.                                                 *)

\* What is true of every unit that the author or the importer writes, and of what is
\* left of it when findings were followed.
Sound(u) ==
  /\ Fields \subseteq DOMAIN u
  /\ u.file \in Files(Writable)
  /\ ServiceNames(u) \subseteq UNION {ServiceNames(w) : w \in Writable}
  /\ u.tags \subseteq UNION {w.tags : w \in Writable}
  /\ \A d \in u.deps : d[1] \notin ResourceRels
  /\ u.kind = "build" => u.service # None
  /\ IsFiniteSet(u.deps) /\ IsFiniteSet(u.networks) /\ IsFiniteSet(u.volumes)
  /\ u.settings # None => Whole(u.settings)

IInv ==
  /\ imported \in Composes \cup {None}
  /\ IsFiniteSet(units)
  /\ \A u \in units : Sound(u)

\* What is written is sound.
LEMMA WritableIsSound == \A u \in Writable : Sound(u)
  <1> SUFFICES ASSUME NEW u \in Writable PROVE Sound(u)
    OBVIOUS
  <1>1. u.file \in Files(Writable)
    BY DEF Files
  <1> QED
    BY <1>1, LintAssumption, RestartAssumption DEF LintAssumption, RestartAssumption, Sound, Fields

\* A unit without some of its directives.
Trimmed(u, D) == [u EXCEPT !.deps = @ \ D]

LEMMA TrimKeeps ==
  ASSUME NEW u, Fields \subseteq DOMAIN u, NEW D
  PROVE  Same(u, Trimmed(u, D)) /\ Trimmed(u, D).deps = u.deps \ D
  <1> DEFINE t == [u EXCEPT !.deps = @ \ D]
  <1>1. DOMAIN t = DOMAIN u
    OBVIOUS
  <1>2. /\ t.quadlet = u.quadlet /\ t.kind = u.kind /\ t.file = u.file /\ t.service = u.service
        /\ t.image = u.image /\ t.pod = u.pod /\ t.networks = u.networks
        /\ t.volumes = u.volumes /\ t.defaults = u.defaults /\ t.tags = u.tags
        /\ t.settings = u.settings
    BY FieldNames
  <1>3. t.deps = u.deps \ D
    BY FieldNames
  <1> QED
    BY <1>1, <1>2, <1>3 DEF Same, Trimmed

LEMMA TrimmedIsSound ==
  ASSUME NEW u, Sound(u), NEW D
  PROVE  Sound(Trimmed(u, D))
  <1> DEFINE t == Trimmed(u, D)
  <1>1. Same(u, t) /\ t.deps = u.deps \ D
    BY TrimKeeps DEF Sound
  <1> HIDE DEF t
  <1>2. IsFiniteSet(t.deps)
    BY <1>1, FS_Difference DEF Sound
  <1>3. ServiceNames(t) \subseteq ServiceNames(u)
    BY <1>1 DEF Same, ServiceNames
  <1> QED
    BY <1>1, <1>2, <1>3 DEF Same, Sound, t

\* The invariant holds at first.
LEMMA Initially == Init => IInv
  <1> SUFFICES ASSUME Init PROVE IInv
    OBVIOUS
  <1>1. units \subseteq Writable /\ IsFiniteSet(units) /\ imported = None
    BY LintAssumption DEF LintAssumption, Init, Writable
  <1> QED
    BY <1>1, WritableIsSound DEF IInv

\* Every step keeps it.
LEMMA Inductive == IInv /\ [Next]_vars => IInv'
  <1> SUFFICES ASSUME IInv, [Next]_vars PROVE IInv'
    OBVIOUS
  <1>1. CASE Write
    <2>1. PICK d \in Drafts : units' = {u \in units : ~(u.value = d.value /\ u.file = d.file)} \cup {d}
      BY <1>1 DEF Write
    <2>2. IsFiniteSet({u \in units : ~(u.value = d.value /\ u.file = d.file)})
      BY FS_Subset DEF IInv
    <2>3. IsFiniteSet(units')
      BY <2>1, <2>2, FS_AddElement
    <2>4. Sound(d)
      BY WritableIsSound DEF Writable
    <2> QED
      BY <1>1, <2>1, <2>3, <2>4 DEF IInv, Write
  <1>2. CASE Follow
    <2>1. PICK u \in units : \E D : units' = (units \ {u}) \cup {Trimmed(u, D)}
      BY <1>2 DEF Follow, Trimmed
    <2>2. PICK D : units' = (units \ {u}) \cup {Trimmed(u, D)}
      BY <2>1
    <2>3. IsFiniteSet(units')
      BY <2>2, FS_RemoveElement, FS_AddElement DEF IInv
    <2>4. Sound(Trimmed(u, D))
      BY TrimmedIsSound DEF IInv
    <2> QED
      BY <1>2, <2>2, <2>3, <2>4 DEF IInv, Follow
  <1>3. CASE Import
    <2>1. PICK c \in Composes : /\ imported' = c
                                /\ units' = {u \in units : u.value # c.name} \cup Convert(c)
      BY <1>3 DEF Import
    <2>2. IsFiniteSet(Convert(c)) /\ Convert(c) \subseteq Writable
      BY LintAssumption DEF LintAssumption, Writable
    <2>3. IsFiniteSet({u \in units : u.value # c.name})
      BY FS_Subset DEF IInv
    <2>4. IsFiniteSet(units')
      BY <2>1, <2>2, <2>3, FS_Union
    <2> QED
      BY <2>1, <2>2, <2>4, WritableIsSound DEF IInv
  <1>4. CASE UNCHANGED <<units, imported>>
    BY <1>4 DEF IInv
  <1> QED
    BY <1>1, <1>2, <1>3, <1>4 DEF Next, vars, WriteAsset, FillIn

\* Whatever is written, replaced, followed, imported and filled in, units are as the
\* schema has them: their files are told from services and from the image registry.
THEOREM UnitsAreSound == Spec => []IInv
  BY Initially, Inductive, PTL DEF Spec

-----------------------------------------------------------------------------
(* What follows a build.                                                    *)

\* An image leads to one build: no tag is the name of a build's file.
TagsAreNoFiles(us) == \A u, v \in us : v.file \notin u.tags

\* The unit file of a container says what its build is.
LEMMA StampSaysBuild ==
  ASSUME NEW us, \A v \in us : Fields \subseteq DOMAIN v, NEW contents,
         UniqueFilenames(us), OneBuilder(us), TagsAreNoFiles(us),
         NEW c \in Evaluate(us, contents), NEW b \in Evaluate(us, contents), Consumes(c, b)
  PROVE  b = [UnitFile(c).stamp EXCEPT !.stamp = UnitFile(c).stamp]
  <1> DEFINE e(v) == ExpandAssets(v, contents)  U == Expanded(us, contents)
  <1>0. Evaluate(us, contents) = {Evaluated(u, us, contents) : u \in us}
    BY LoadedUnits
  <1>9. \A u \in us : Evaluated(u, us, contents) = Stamp(U, e(u))
    BY DEF Evaluated
  <1>1. PICK c0 \in us, b0 \in us : c = Stamp(U, e(c0)) /\ b = Stamp(U, e(b0))
    BY <1>0, <1>9
  <1>2. Same(c0, c) /\ Same(b0, b)
    BY <1>1, LoadedUnits DEF Evaluated
  <1>3. \A v \in us : Same(v, e(v))
    BY ExpandKeeps
  <1>4. c0.kind = "container" /\ b0.kind = "build" /\ c0.image \in {b0.file} \cup b0.tags
    BY <1>2 DEF Same, Consumes
  <1>5. b = [e(b0) EXCEPT !.stamp = e(b0)]
    <2>1. e(b0).kind = "build"
      BY <1>3, <1>4 DEF Same
    <2> HIDE DEF e
    <2> QED
      BY <1>1, <2>1 DEF Stamp, HashData
  <1>6. BuildersOf(U, e(c0)) = {e(b0)}
    <2> HIDE DEF e
    <2>1. \A v \in us : v.kind = "build" /\ c0.image \in {v.file} \cup v.tags => v = b0
      BY <1>4 DEF UniqueFilenames, OneBuilder, Builds, TagsAreNoFiles
    <2>2. U = {e(v) : v \in us}
      BY DEF Expanded, e
    <2>3. \A v \in us : /\ e(v).kind = v.kind /\ e(v).file = v.file /\ e(v).tags = v.tags
                        /\ e(c0).image = c0.image
      BY <1>3 DEF Same
    <2> HIDE DEF U
    <2> QED
      BY <1>4, <2>1, <2>2, <2>3 DEF BuildersOf, Builds
  <1>7. c.stamp = e(b0)
    <2>1. e(c0).kind = "container" /\ "stamp" \in DOMAIN e(c0) /\ "deps" \in DOMAIN e(c0)
      BY <1>3, <1>4, FieldNames DEF Same
    <2> HIDE DEF e
    <2>2. Stamp(U, e(c0)) =
            [e(c0) EXCEPT !.stamp = HashData(CHOOSE x \in {e(b0)} : TRUE),
                          !.deps = @ \cup UNION {TagDeps(e(c0), x) : x \in {e(b0)}}]
      BY <1>6, <2>1 DEF Stamp
    <2>3. Stamp(U, e(c0)).stamp = HashData(CHOOSE x \in {e(b0)} : TRUE)
      BY <2>1, <2>2
    <2> QED
      BY <1>1, <2>3 DEF HashData
  <1>8. UnitFile(c).stamp = c.stamp
    <2>1. {"stamp", "inputs", "context"} \subseteq DOMAIN c
      BY <1>2, FieldNames DEF Same
    <2> QED
      BY <2>1 DEF UnitFile
  <1> QED
    BY <1>5, <1>7, <1>8

\* Whatever changes in a build, in its assets too, changes the unit file of each
\* container of its image, by file name and by tag (injectBuildHashes), for all
\* projects in which no tag is the name of a build's file.
THEOREM StampsFollow ==
  ASSUME \A u, v \in Writable : v.file \notin u.tags
  PROVE  Spec => StampFollows
  <1> DEFINE Fine == /\ \A v \in units : Fields \subseteq DOMAIN v
                     /\ UniqueFilenames(units) /\ OneBuilder(units) /\ TagsAreNoFiles(units)
  <1>1. IInv /\ Loads => Fine
    <2>1. IInv => \A u, v \in units : v.file \notin u.tags
      BY DEF IInv, Sound, Files
    <2> QED
      BY <2>1 DEF IInv, Sound, Loads, LoadFails, TagsAreNoFiles
  <1>2. (IInv /\ Loads)' => Fine'
    BY <1>1, PTL
  <1>3. ASSUME IInv, IInv', Loads, Loads', NEW b \in Loaded, NEW c \in Loaded,
               NEW b2 \in Loaded', NEW c2 \in Loaded', Consumes(c, b), Consumes(c2, b2),
               UnitFile(c) = UnitFile(c2)
        PROVE  b = b2
    <2>1. b = [UnitFile(c).stamp EXCEPT !.stamp = UnitFile(c).stamp]
      BY <1>1, <1>3, StampSaysBuild DEF Loaded
    <2>2. Fine'
      BY <1>2, <1>3
    <2>3. b2 \in Evaluate(units', assets') /\ c2 \in Evaluate(units', assets')
      BY <1>3 DEF Loaded
    <2>4. b2 = [UnitFile(c2).stamp EXCEPT !.stamp = UnitFile(c2).stamp]
      BY <1>3, <2>2, <2>3, StampSaysBuild
    <2> QED
      BY <1>3, <2>1, <2>4
  <1>4. IInv /\ IInv' /\ [Next]_vars =>
          [Loads /\ Loads' =>
             \A b, c \in Loaded, b2, c2 \in Loaded' :
               /\ Consumes(c, b) /\ Consumes(c2, b2) /\ c.file = c2.file /\ b.file = b2.file
               /\ UnitFile(c) = UnitFile(c2)
               => b = b2]_vars
    BY <1>3
  <1> QED
    BY UnitsAreSound, <1>4, PTL DEF Spec, StampFollows

-----------------------------------------------------------------------------
(* Lint of some quadlets.                                                   *)

\* The edges from some of the units are those of the graph of all that start at their
\* files.
LEMMA EdgesOf ==
  ASSUME NEW all, UniqueFilenames(all), NEW focus \in SUBSET all
  PROVE  BuildEdges(focus, all) = {e \in BuildEdges(all, all) : e.from \in Files(focus)}
  <1>1. \A u \in all : \A e \in AddUnitEdges(u, all) \cup AddResourceEdges(u, all) : e.from = u.file
    BY DEF AddUnitEdges, AddResourceEdges
  <1>2. \A u \in all : u.file \in Files(focus) <=> u \in focus
    BY DEF Files, UniqueFilenames
  <1> QED
    BY <1>1, <1>2 DEF BuildEdges

\* What lint finds at units it finds at those of the quadlets alone too.
LEMMA UnitFindingsOf ==
  ASSUME NEW all, UniqueFilenames(all), NEW focus \in SUBSET all
  PROVE  LintQuadlets(focus, all) = {f \in LintQuadlets(all, all) : f.unit \in Files(focus)}
  <1>0. \A u \in all : u.file \in Files(focus) <=> u \in focus
    BY DEF Files, UniqueFilenames
  <1>1. RedundantResources(focus, all)
          = {f \in RedundantResources(all, all) : f.unit \in Files(focus)}
    <2> DEFINE E == BuildEdges(all, all)  F == BuildEdges(focus, all)
    <2>1. F = {e \in E : e.from \in Files(focus)}
      BY EdgesOf
    <2> HIDE DEF E, F
    <2>2. \A x \in F : Rels(F, x.from, x.to) = Rels(E, x.from, x.to)
      BY <2>1 DEF Rels
    <2> DEFINE redundant(e) == Finding("deps/redundant-resource", e.from, <<e.rel, e.to>>)
               S == {x \in E : /\ x.rel \in SubsumedByQuadlet
                               /\ Rels(E, x.from, x.to) \cap ResourceRels # {}}
    <2>3. {x \in F : /\ x.rel \in SubsumedByQuadlet
                     /\ Rels(F, x.from, x.to) \cap ResourceRels # {}}
            = {x \in S : x.from \in Files(focus)}
      BY <2>1, <2>2
    <2>4. RedundantResources(focus, all) = {redundant(e) : e \in {x \in S : x.from \in Files(focus)}}
      BY <2>3 DEF RedundantResources, F
    <2>5. RedundantResources(all, all) = {redundant(e) : e \in S}
      BY DEF RedundantResources, E
    <2>6. \A e : redundant(e).unit = e.from
      BY DEF Finding
    <2> HIDE DEF redundant, S
    <2> QED
      BY <2>4, <2>5, <2>6
  <1>2. RedundantOnline(focus) = {f \in RedundantOnline(all) : f.unit \in Files(focus)}
    BY <1>0 DEF RedundantOnline, Finding
  <1>3. TimeoutFindings(focus) = {f \in TimeoutFindings(all) : f.unit \in Files(focus)}
    BY <1>0 DEF TimeoutFindings, Finding
  <1> QED
    BY <1>1, <1>2, <1>3 DEF LintQuadlets

\* So it is with images, those of the registry apart.
LEMMA ImageFindingsOf ==
  ASSUME NEW all, UniqueFilenames(all), NEW focus \in SUBSET all, Registry \notin Files(all)
  PROVE  ImageFindings(focus, all)
           = {f \in ImageFindings(all, all) : f.unit = Registry \/ f.unit \in Files(focus)}
  <1>1. \A u \in all : u.file # Registry /\ (u.file \in Files(focus) <=> u \in focus)
    BY DEF Files, UniqueFilenames
  <1> DEFINE unpinned == {Finding("image/unpinned", Registry, e.image) :
                            e \in {x \in Entries : x.parses => x.tag # None /\ x.digest = None}}
             S == {v \in all :
                     /\ v.kind = "container" /\ v.image # None
                     /\ v.image \notin {b.file : b \in {w \in all : w.kind \in {"build", "image"}}}
                     /\ v.image \notin {Reference(e) : e \in Entries}}
             unmanaged(u) == Finding("image/unmanaged", u.file, u.image)
  <1>2. ImageFindings(all, all) = unpinned \cup {unmanaged(u) : u \in S}
    BY DEF ImageFindings
  <1>3. {v \in focus :
           /\ v.kind = "container" /\ v.image # None
           /\ v.image \notin {b.file : b \in {w \in all : w.kind \in {"build", "image"}}}
           /\ v.image \notin {Reference(e) : e \in Entries}} = {v \in S : v \in focus}
    OBVIOUS
  <1>4. ImageFindings(focus, all) = unpinned \cup {unmanaged(u) : u \in {v \in S : v \in focus}}
    BY <1>3 DEF ImageFindings
  <1>5. /\ \A f \in unpinned : f.unit = Registry
        /\ \A u : unmanaged(u).unit = u.file
        /\ \A u \in S : u \in all
    BY DEF Finding
  <1> HIDE DEF unpinned, S, unmanaged
  <1> QED
    BY <1>1, <1>2, <1>4, <1>5

\* The files of what is loaded are those of the project, and unique if they are.
LEMMA LoadedFiles ==
  ASSUME NEW us, \A v \in us : Fields \subseteq DOMAIN v, NEW contents
  PROVE  /\ Files(Evaluate(us, contents)) = Files(us)
         /\ UniqueFilenames(us) => UniqueFilenames(Evaluate(us, contents))
  <1>1. Evaluate(us, contents) = {Evaluated(u, us, contents) : u \in us}
    BY LoadedUnits
  <1>2. \A u \in us : Evaluated(u, us, contents).file = u.file
    <2>1. \A u \in us : Same(u, Evaluated(u, us, contents))
      BY LoadedUnits
    <2> QED
      BY <2>1 DEF Same
  <1> QED
    BY <1>1, <1>2 DEF Files, UniqueFilenames

\* Lint of one quadlet says of its units and of the image registry what lint of the
\* project says of them, for every project that loads.
THEOREM FocusIsFaithful == Spec => []FocusAgrees
  <1>1. ASSUME IInv PROVE FocusAgrees
    <2> SUFFICES ASSUME Loads, NEW u \in Loaded
                 PROVE  LintCommand(Loaded, {u.quadlet}) =
                          {f \in LintCommand(Loaded, {}) :
                             \/ f.unit = Registry
                             \/ \E v \in Loaded : v.quadlet = u.quadlet /\ v.file = f.unit}
      BY DEF FocusAgrees
    <2> DEFINE all == Loaded  focus == {v \in all : v.quadlet = u.quadlet}
    <2>1. \A v \in units : Fields \subseteq DOMAIN v
      BY <1>1 DEF IInv, Sound
    <2>2. UniqueFilenames(units)
      BY DEF Loads, LoadFails
    <2>3. Files(all) = Files(units) /\ UniqueFilenames(all)
      BY <2>1, <2>2, LoadedFiles DEF Loaded
    <2>4. Registry \notin Files(all)
      BY <1>1, <2>3, LintAssumption DEF LintAssumption, IInv, Sound, Files
    <2>5. FilterQuadlets(all, {u.quadlet}) = focus /\ FilterQuadlets(all, {}) = all
      BY DEF FilterQuadlets
    <2>6. focus \in SUBSET all
      OBVIOUS
    <2>7. \A f : (\E v \in all : v.quadlet = u.quadlet /\ v.file = f.unit) <=> f.unit \in Files(focus)
      BY DEF Files
    <2> HIDE DEF all, focus
    <2>8. LintQuadlets(focus, all) = {f \in LintQuadlets(all, all) : f.unit \in Files(focus)}
      BY <2>3, <2>6, UnitFindingsOf
    <2>9. ImageFindings(focus, all)
            = {f \in ImageFindings(all, all) : f.unit = Registry \/ f.unit \in Files(focus)}
      BY <2>3, <2>4, <2>6, ImageFindingsOf
    <2>10. Files(focus) \subseteq Files(all)
      BY <2>6 DEF Files
    <2>11. \A f \in LintQuadlets(all, all) \cup GraphFindings(all) : f.unit = Registry => f.unit \notin Files(all)
      BY <2>4
    <2>12. LintQuadlets(all, all) = {f \in LintQuadlets(all, all) : f.unit \in Files(all)}
      BY <2>3, UnitFindingsOf
    <2>13. LintCommand(all, {u.quadlet}) =
             Enabled(LintQuadlets(focus, all)
               \cup {f \in GraphFindings(all) : f.unit \in Files(focus)}
               \cup ImageFindings(focus, all))
      BY <2>5 DEF LintCommand
    <2>14. LintCommand(all, {}) =
             Enabled(LintQuadlets(all, all)
               \cup {f \in GraphFindings(all) : f.unit \in Files(all)}
               \cup ImageFindings(all, all))
      BY <2>5 DEF LintCommand
    <2>15. LintCommand(all, {u.quadlet}) =
             {f \in LintCommand(all, {}) : f.unit = Registry \/ f.unit \in Files(focus)}
      BY <2>4, <2>8, <2>9, <2>10, <2>12, <2>13, <2>14 DEF Enabled
    <2> QED
      BY <2>7, <2>15 DEF all
  <1> QED
    BY UnitsAreSound, <1>1, PTL

-----------------------------------------------------------------------------
(* What waits for a build.                                                  *)

\* What one more step along the hard edges reaches, unless something failed was found.
Reach(hard, from, failed, last) ==
  IF (last \ {from}) \cap failed # {} THEN last
  ELSE last \cup {e.to : e \in {x \in hard : x.from \in last}}

\* The nearest units, up to k steps away.
Nears(near, hard, from, failed, k) ==
  near = [n \in 0 .. k |->
            IF n = 0 THEN {from} ELSE Reach(hard, from, failed, near[n - 1])]

\* A set of numbers that has 0, and every number's successor, has all numbers.
LEMMA AllNumbers ==
  ASSUME NEW S, 0 \in S, \A n \in Nat : n \in S => n + 1 \in S
  PROVE  Nat \subseteq S
  <1> DEFINE T == Nat \ S
  <1> SUFFICES ASSUME T # {} PROVE FALSE
    OBVIOUS
  <1>1. T \in SUBSET Nat
    OBVIOUS
  <1>2. \A n \in Nat : n + 1 \in T => n \in T
    OBVIOUS
  <1>3. 0 \notin T
    OBVIOUS
  <1> HIDE DEF T
  <1>4. PICK m \in T : \A y \in T : <<y, m>> \notin OpToRel(<, Nat)
    BY <1>1, NatLessThanWellFounded, WFMin
  <1>5. \A y \in T : ~(y < m)
    BY <1>1, <1>4 DEF OpToRel
  <1>6. m # 0 /\ m - 1 \in Nat /\ m - 1 < m /\ (m - 1) + 1 = m
    BY <1>1, <1>3
  <1> QED
    BY <1>2, <1>5, <1>6

\* The search is defined.
LEMMA NearsExist ==
  ASSUME NEW hard, NEW from, NEW failed, NEW k \in Nat
  PROVE  \E near : Nears(near, hard, from, failed, k)
  <1> DEFINE S == {n \in Nat : \E near : Nears(near, hard, from, failed, n)}
  <1>1. 0 \in S
    <2> DEFINE f == [n \in 0 .. 0 |-> {from}]
    <2>1. f = [n \in 0 .. 0 |-> IF n = 0 THEN {from} ELSE Reach(hard, from, failed, f[n - 1])]
      OBVIOUS
    <2> QED
      BY <2>1 DEF Nears
  <1>2. ASSUME NEW n \in Nat, n \in S PROVE n + 1 \in S
    <2>1. PICK f : f = [i \in 0 .. n |->
                          IF i = 0 THEN {from} ELSE Reach(hard, from, failed, f[i - 1])]
      BY <1>2 DEF Nears
    <2> DEFINE g == [i \in 0 .. n + 1 |-> IF i <= n THEN f[i] ELSE Reach(hard, from, failed, f[n])]
               h == [i \in 0 .. n + 1 |->
                       IF i = 0 THEN {from} ELSE Reach(hard, from, failed, g[i - 1])]
    <2>2. ASSUME NEW i \in 0 .. n + 1 PROVE g[i] = h[i]
      <3>1. CASE i = 0
        BY <2>1, <3>1
      <3>2. CASE i \in 1 .. n
        <4>1. i \in 0 .. n /\ i # 0 /\ i <= n /\ i - 1 \in 0 .. n + 1 /\ i - 1 <= n
          BY <3>2
        <4>2. g[i] = f[i] /\ g[i - 1] = f[i - 1]
          BY <4>1
        <4>3. f[i] = Reach(hard, from, failed, f[i - 1])
          BY <2>1, <4>1
        <4>4. h[i] = Reach(hard, from, failed, g[i - 1])
          BY <4>1
        <4> QED
          BY <4>2, <4>3, <4>4
      <3>3. CASE i = n + 1
        <4>1. i # 0 /\ ~(i <= n) /\ i - 1 = n /\ n \in 0 .. n + 1
          BY <3>3
        <4>2. g[n] = f[n] /\ g[i] = Reach(hard, from, failed, f[n])
          BY <4>1
        <4>3. h[i] = Reach(hard, from, failed, g[n])
          BY <4>1
        <4> QED
          BY <4>2, <4>3
      <3> QED
        BY <3>1, <3>2, <3>3
    <2>3. g = h
      BY <2>2
    <2>4. Nears(g, hard, from, failed, n + 1)
      BY <2>3 DEF Nears
    <2> QED
      BY <2>4
  <1> QED
    BY <1>1, <1>2, AllNumbers

\* A failed unit that a hard edge leads to is found.
LEMMA NearestIsFound ==
  ASSUME NEW edges, NEW from, NEW to, to # from,
         NEW e \in edges, e.from = from, e.to = to, e.rel \in HardDepRels,
         IsFiniteSet({x \in edges : x.rel \in HardDepRels})
  PROVE  FirstFailedDep(edges, from, {to}) = {to}
  <1> DEFINE hard == {x \in edges : x.rel \in HardDepRels}
             K == Cardinality(hard)
             near == CHOOSE f : Nears(f, hard, from, {to}, K)
  <1>1. FirstFailedDep(edges, from, {to}) = (near[K] \ {from}) \cap {to}
    BY DEF FirstFailedDep, Nears, Reach
  <1>2. K \in Nat /\ K # 0
    BY FS_CardinalityType, FS_EmptySet
  <1>3. e \in hard
    OBVIOUS
  <1> HIDE DEF hard, K
  <1>4. Nears(near, hard, from, {to}, K)
    BY <1>2, NearsExist
  <1> HIDE DEF near
  <1>5. near[0] = {from}
    BY <1>2, <1>4 DEF Nears
  <1>6. ASSUME NEW n \in 1 .. K PROVE near[n] = Reach(hard, from, {to}, near[n - 1])
    <2>1. n \in 0 .. K /\ n # 0
      BY <1>2
    <2>2. near = [i \in 0 .. K |->
                    IF i = 0 THEN {from} ELSE Reach(hard, from, {to}, near[i - 1])]
      BY <1>4 DEF Nears
    <2> QED
      BY <2>1, <2>2
  <1>7. to \in near[1]
    <2>1. near[1] = Reach(hard, from, {to}, near[0])
      BY <1>2, <1>6
    <2> QED
      BY <1>3, <1>5, <2>1 DEF Reach
  <1> DEFINE S == {n \in Nat : n + 1 <= K => to \in near[n + 1]}
  <1>8. 0 \in S
    BY <1>7
  <1>9. ASSUME NEW n \in Nat, n \in S PROVE n + 1 \in S
    <2> SUFFICES ASSUME n + 2 <= K PROVE to \in near[n + 2]
      OBVIOUS
    <2>1. to \in near[n + 1]
      BY <1>2, <1>9
    <2>2. near[n + 2] = Reach(hard, from, {to}, near[n + 1])
      BY <1>2, <1>6
    <2> QED
      BY <2>1, <2>2 DEF Reach
  <1>10. to \in near[K]
    <2>1. K - 1 \in Nat /\ K - 1 + 1 = K
      BY <1>2
    <2>2. K - 1 \in S
      BY <1>8, <1>9, <2>1, AllNumbers
    <2> QED
      BY <1>2, <2>1, <2>2
  <1> QED
    BY <1>1, <1>10

\* A function of finite domain has finitely many values.
LEMMA FiniteValues ==
  ASSUME NEW S, IsFiniteSet(S), NEW f, f = [x \in S |-> f[x]]
  PROVE  IsFiniteSet({f[x] : x \in S})
  <1> DEFINE T == {f[x] : x \in S}
  <1>1. f \in Surjection(S, T)
    BY DEF Surjection
  <1> QED
    BY <1>1, FS_Surjection

\* A pair is finite.
LEMMA PairIsFinite == \A x, y : IsFiniteSet({x, y})
  <1> SUFFICES ASSUME NEW x, NEW y PROVE IsFiniteSet({x, y})
    OBVIOUS
  <1>1. IsFiniteSet({x}) /\ IsFiniteSet({y})
    BY FS_Singleton
  <1>2. {x, y} = {x} \cup {y}
    OBVIOUS
  <1> QED
    BY <1>1, <1>2, FS_Union

\* The graph of a project of finitely many units and references is finite.
LEMMA FiniteEdges ==
  ASSUME NEW all, IsFiniteSet(all),
         \A u \in all : IsFiniteSet(u.deps) /\ IsFiniteSet(u.networks) /\ IsFiniteSet(u.volumes)
  PROVE  IsFiniteSet(BuildEdges(all, all))
  <1>1. ASSUME NEW u \in all PROVE IsFiniteSet(AddUnitEdges(u, all) \cup AddResourceEdges(u, all))
    <2>1. IsFiniteSet(AddUnitEdges(u, all))
      <3> DEFINE f == [d \in u.deps |-> [from |-> u.file, to |-> Target(all, d[2]), rel |-> d[1]]]
      <3>1. IsFiniteSet({f[d] : d \in u.deps})
        BY FiniteValues
      <3> QED
        BY <3>1 DEF AddUnitEdges
    <2>2. IsFiniteSet(Resources(u))
      <3>1. IsFiniteSet({"network"} \X u.networks) /\ IsFiniteSet({"volume"} \X u.volumes)
        BY FS_Singleton, FS_Product
      <3>2. IsFiniteSet({<<"image", u.image>>, <<"pod", u.pod>>})
        BY PairIsFinite
      <3> QED
        BY <3>1, <3>2, FS_Union DEF Resources
    <2>3. IsFiniteSet(AddResourceEdges(u, all))
      <3> DEFINE R == {s \in Resources(u) : s[2] \in Files(all)}
                 f == [r \in R |-> [from |-> u.file, to |-> r[2], rel |-> r[1]]]
      <3>1. IsFiniteSet(R)
        BY <2>2, FS_Subset
      <3>2. AddResourceEdges(u, all) = {f[r] : r \in R}
        BY DEF AddResourceEdges
      <3> HIDE DEF R
      <3>3. IsFiniteSet({f[r] : r \in R})
        BY <3>1, FiniteValues
      <3> QED
        BY <3>2, <3>3
    <2> QED
      BY <2>1, <2>3, FS_Union
  <1> DEFINE f == [u \in all |-> AddUnitEdges(u, all) \cup AddResourceEdges(u, all)]
  <1>2. IsFiniteSet({f[u] : u \in all})
    BY FiniteValues
  <1>3. \A T \in {f[u] : u \in all} : IsFiniteSet(T)
    BY <1>1
  <1>4. BuildEdges(all, all) = UNION {f[u] : u \in all}
    BY DEF BuildEdges
  <1> HIDE DEF f
  <1> QED
    BY <1>2, <1>3, <1>4, FS_UNION

\* So is that of what is loaded.
LEMMA FinitelyLoaded ==
  ASSUME NEW us, IsFiniteSet(us), \A u \in us : Sound(u), NEW contents
  PROVE  /\ IsFiniteSet(Evaluate(us, contents))
         /\ \A u \in Evaluate(us, contents) :
              IsFiniteSet(u.deps) /\ IsFiniteSet(u.networks) /\ IsFiniteSet(u.volumes)
  <1>0. \A u \in us : Fields \subseteq DOMAIN u
    BY DEF Sound
  <1>1. Evaluate(us, contents) = {Evaluated(u, us, contents) : u \in us}
    BY <1>0, LoadedUnits
  <1>2. IsFiniteSet(Evaluate(us, contents))
    <2> DEFINE f == [u \in us |-> Evaluated(u, us, contents)]
    <2>1. IsFiniteSet({f[u] : u \in us})
      BY FiniteValues
    <2> QED
      BY <1>1, <2>1
  <1>3. ASSUME NEW u \in us PROVE IsFiniteSet(Added(us, u))
    <2>1. \A b : IsFiniteSet(TagDeps(u, b))
      <3> SUFFICES ASSUME NEW b PROVE IsFiniteSet(TagDeps(u, b))
        OBVIOUS
      <3>1. IsFiniteSet({"After", "Requires"}) /\ IsFiniteSet({b.service})
        BY FS_Singleton, PairIsFinite
      <3>2. IsFiniteSet({"After", "Requires"} \X {b.service})
        BY <3>1, FS_Product
      <3> QED
        BY <3>2, FS_EmptySet DEF TagDeps
    <2> DEFINE B == BuildersOf(us, u)
               f == [b \in B |-> TagDeps(u, b)]
    <2>2. IsFiniteSet(B)
      BY FS_Subset DEF BuildersOf, Builds
    <2> HIDE DEF B
    <2>3. IsFiniteSet({f[b] : b \in B})
      BY <2>2, FiniteValues
    <2>4. \A T \in {f[b] : b \in B} : IsFiniteSet(T)
      BY <2>1
    <2>5. IsFiniteSet(UNION {f[b] : b \in B})
      <3> HIDE DEF f
      <3> QED
        BY <2>3, <2>4, FS_UNION
    <2>6. {f[b] : b \in B} = {TagDeps(u, b) : b \in B}
      OBVIOUS
    <2> HIDE DEF f
    <2>7. Added(us, u) \in {UNION {f[b] : b \in B}, {}}
      BY <2>6 DEF Added, B
    <2> QED
      BY <2>5, <2>7, FS_EmptySet
  <1>4. ASSUME NEW u \in us
        PROVE  LET v == Evaluated(u, us, contents) IN
               IsFiniteSet(v.deps) /\ IsFiniteSet(v.networks) /\ IsFiniteSet(v.volumes)
    <2> DEFINE v == Evaluated(u, us, contents)
    <2>1. Same(u, v) /\ v.deps = u.deps \cup Added(us, u)
      BY <1>0, LoadedUnits
    <2>2. IsFiniteSet(u.deps \cup Added(us, u))
      BY <1>3, FS_Union DEF Sound
    <2> HIDE DEF v
    <2>3. IsFiniteSet(v.deps) /\ IsFiniteSet(v.networks) /\ IsFiniteSet(v.volumes)
      BY <2>1, <2>2 DEF Same, Sound
    <2> QED
      BY <2>3 DEF v
  <1> QED
    BY <1>1, <1>2, <1>4

\* The closest coupling of a few.
LEMMA MaxOfFew ==
  ASSUME NEW S \in SUBSET (0 .. 3), S # {}
  PROVE  Max(S) \in S /\ \A i \in S : Max(S) >= i
  <1>1. \E m \in S : \A i \in S : m >= i
    <2>1. CASE 3 \in S
      BY <2>1
    <2>2. CASE 3 \notin S /\ 2 \in S
      BY <2>2
    <2>3. CASE 3 \notin S /\ 2 \notin S /\ 1 \in S
      BY <2>3
    <2>4. CASE 3 \notin S /\ 2 \notin S /\ 1 \notin S
      <3>1. ASSUME NEW i \in S PROVE i = 0
        <4>1. i \in 0 .. 3
          OBVIOUS
        <4>2. i # 1 /\ i # 2 /\ i # 3
          BY <2>4
        <4> QED
          BY <4>1, <4>2
      <3>2. 0 \in S
        BY <3>1
      <3>3. \A i \in S : 0 >= i
        BY <3>1
      <3> QED
        BY <3>2, <3>3
    <2> QED
      BY <2>1, <2>2, <2>3, <2>4
  <1> QED
    BY <1>1 DEF Max

\* The unit behind a service of which only one unit is.
LEMMA TargetOf ==
  ASSUME NEW all, NEW b \in all, \A u \in all : u.service = b.service => u = b
  PROVE  Target(all, b.service) = b.file
  BY DEF Target

\* What a container of a build's image is made to wait for, and the edge in the graph.
LEMMA WaitsFor ==
  ASSUME NEW us, \A u \in us : Sound(u), UniqueServices(us), NEW contents,
         NEW b \in Evaluate(us, contents), NEW c \in Evaluate(us, contents), Consumes(c, b)
  PROVE  LET all == Evaluate(us, contents) IN
         /\ {<<"After", b.service>>, <<"Requires", b.service>>} \subseteq Generated(c, all)
         /\ \E e \in BuildEdges(all, all) :
              e.from = c.file /\ e.to = b.file /\ e.rel \in HardDepRels
  <1> DEFINE all == Evaluate(us, contents)
  <1>1. \A u \in us : Fields \subseteq DOMAIN u
    BY DEF Sound
  <1>2. all = {Evaluated(u, us, contents) : u \in us}
    BY <1>1, LoadedUnits
  <1>3. \A u \in us : /\ Same(u, Evaluated(u, us, contents))
                      /\ Evaluated(u, us, contents).deps = u.deps \cup Added(us, u)
    BY <1>1, LoadedUnits
  <1>4. PICK b0 \in us : /\ b = Evaluated(b0, us, contents) /\ Same(b0, b)
    BY <1>2, <1>3
  <1>5. PICK c0 \in us : /\ c = Evaluated(c0, us, contents) /\ Same(c0, c)
                         /\ c.deps = c0.deps \cup Added(us, c0)
    BY <1>2, <1>3
  <1>6. /\ c0.kind = "container" /\ b0.kind = "build" /\ c0.image \in {b0.file} \cup b0.tags
        /\ b.service = b0.service /\ c.service = c0.service /\ b.file = b0.file
        /\ c.image = c0.image /\ b.tags = b0.tags
    BY <1>4, <1>5 DEF Same, Consumes
  <1>7. b.service # None /\ c.service # b.service
    BY <1>6 DEF Sound, UniqueServices
  <1>8. \A u \in all : u.service = b.service => u = b
    <2>1. ASSUME NEW u \in us, Evaluated(u, us, contents).service = b.service PROVE u = b0
      <3>1. u.service = b0.service
        BY <1>3, <1>6, <2>1 DEF Same
      <3> QED
        BY <1>6, <1>7, <3>1 DEF UniqueServices
    <2> QED
      BY <1>2, <1>4, <2>1
  <1> HIDE DEF all
  <1>9. b \in all /\ c \in all
    BY DEF all
  <1>10. CASE c.image = b.file
    <2>1. <<"image", b.file>> \in Resources(c)
      BY <1>10 DEF Resources
    <2>2. [from |-> c.file, to |-> b.file, rel |-> "image"] \in BuildEdges(all, all)
      <3>1. b.file \in Files(all)
        BY <1>9 DEF Files
      <3>2. [from |-> c.file, to |-> b.file, rel |-> "image"] \in AddResourceEdges(c, all)
        BY <2>1, <3>1 DEF AddResourceEdges
      <3> QED
        BY <1>9, <3>2 DEF BuildEdges
    <2>3. {<<"After", b.service>>, <<"Requires", b.service>>} \subseteq Generated(c, all)
      <3> DEFINE of(rel) == {v.service : v \in {w \in all : <<rel, w.file>> \in Resources(c)}}
      <3>1. b.service \in of("image")
        BY <1>9, <2>1
      <3>2. b.service \in UNION {of(r) : r \in {"image", "network", "volume"}}
        BY <3>1
      <3>3. {"Requires", "After"} \X (UNION {of(r) : r \in {"image", "network", "volume"}})
              \subseteq Generated(c, all)
        BY DEF Generated
      <3> HIDE DEF of
      <3> QED
        BY <3>2, <3>3
    <2> QED
      BY <2>2, <2>3 DEF HardDepRels, all
  <1>11. CASE c.image \in b.tags
    <2>1. {<<"After", b.service>>, <<"Requires", b.service>>} \subseteq c.deps
      <3>1. b0 \in BuildersOf(us, c0)
        BY <1>6, <1>11 DEF BuildersOf, Builds
      <3>2. TagDeps(c0, b0) = {"After", "Requires"} \X {b.service}
        BY <1>6, <1>7, <1>11 DEF TagDeps
      <3>3. TagDeps(c0, b0) \subseteq Added(us, c0)
        BY <1>6, <3>1 DEF Added
      <3> QED
        BY <1>5, <3>2, <3>3
    <2>2. {<<"After", b.service>>, <<"Requires", b.service>>} \subseteq Generated(c, all)
      BY <2>1 DEF Generated
    <2>3. [from |-> c.file, to |-> b.file, rel |-> "Requires"] \in BuildEdges(all, all)
      <3>1. Target(all, b.service) = b.file
        BY <1>8, <1>9, TargetOf
      <3>2. <<"Requires", b.service>>[2] = b.service /\ <<"Requires", b.service>>[1] = "Requires"
        OBVIOUS
      <3>3. [from |-> c.file, to |-> b.file, rel |-> "Requires"] \in AddUnitEdges(c, all)
        BY <2>1, <3>1, <3>2 DEF AddUnitEdges
      <3> QED
        BY <1>9, <3>3 DEF BuildEdges
    <2> QED
      BY <2>2, <2>3 DEF HardDepRels, all
  <1> QED
    BY <1>6, <1>10, <1>11

\* Every container of an image that the project builds starts after the build and not
\* without it, and is said to be kept down by it when it failed: by file name, by tag,
\* and whatever quadlets they are in, for every project that loads.
THEOREM ConsumersDoWait == Spec => []ConsumersWait
  <1>1. ASSUME IInv, Loads, NEW b \in Loaded, NEW c \in Loaded, Consumes(c, b)
        PROVE  /\ b.service \in Wiring(c, Loaded).before
               /\ Wiring(c, Loaded).couples[b.service] >= 2
               /\ Blocked(c, Loaded, {b.file}) = {b.file}
    <2> DEFINE all == Loaded  g == Generated(c, all)
    <2>1. UniqueServices(units) /\ UniqueFilenames(units) /\ \A u \in units : Sound(u)
      BY <1>1 DEF Loads, LoadFails, IInv
    <2>2. all = Evaluate(units, assets)
      BY DEF Loaded
    <2>3. /\ {<<"After", b.service>>, <<"Requires", b.service>>} \subseteq g
          /\ \E e \in BuildEdges(all, all) :
               e.from = c.file /\ e.to = b.file /\ e.rel \in HardDepRels
      BY <1>1, <2>1, <2>2, WaitsFor
    <2>4. c.file # b.file
      <3>1. UniqueFilenames(all)
        BY <2>1, <2>2, LoadedFiles DEF Sound
      <3> QED
        BY <1>1, <3>1 DEF Consumes, UniqueFilenames
    <2>5. IsFiniteSet(BuildEdges(all, all))
      BY <1>1, <2>1, <2>2, FinitelyLoaded, FiniteEdges DEF IInv
    <2> HIDE DEF all, g
    <2>6. Blocked(c, all, {b.file}) = {b.file}
      <3> DEFINE edges == BuildEdges(all, all)
      <3>1. PICK e \in edges : e.from = c.file /\ e.to = b.file /\ e.rel \in HardDepRels
        BY <2>3
      <3>2. IsFiniteSet({x \in edges : x.rel \in HardDepRels})
        BY <2>5, FS_Subset
      <3> HIDE DEF edges
      <3>3. FirstFailedDep(edges, c.file, {b.file}) = {b.file}
        BY <2>4, <3>1, <3>2, NearestIsFound
      <3> QED
        BY <3>3 DEF Blocked, edges
    <2>7. b.service \in Wiring(c, all).before
      <3>1. <<"After", b.service>>[1] = "After" /\ <<"After", b.service>>[2] = b.service
        OBVIOUS
      <3> QED
        BY <2>3, <3>1 DEF Wiring, g
    <2>8. Wiring(c, all).couples[b.service] >= 2
      <3> DEFINE S == {0} \cup {i \in 1 .. 3 : <<Couplings[i], b.service>> \in g}
      <3>1. b.service \in {d[2] : d \in g}
        <4>1. <<"After", b.service>>[2] = b.service
          OBVIOUS
        <4> QED
          BY <2>3, <4>1
      <3>2. Wiring(c, all).couples[b.service] = Max(S)
        BY <3>1 DEF Wiring, g
      <3>3. Couplings[2] = "Requires"
        BY DEF Couplings
      <3>4. 2 \in S
        BY <2>3, <3>3
      <3>5. S \in SUBSET (0 .. 3) /\ S # {}
        BY <3>4
      <3> HIDE DEF S
      <3> QED
        BY <3>2, <3>4, <3>5, MaxOfFew
    <2> QED
      BY <2>6, <2>7, <2>8 DEF all
  <1>2. IInv => ConsumersWait
    BY <1>1 DEF ConsumersWait
  <1> QED
    BY UnitsAreSound, <1>2, PTL

-----------------------------------------------------------------------------
(* What following a finding leaves.                                         *)

\* The services of the units that a unit refers to by a key.
ServicesBy(u, all, rel) == {v.service : v \in {w \in all : <<rel, w.file>> \in Resources(u)}}

\* The directives that Quadlet makes of a unit's other keys.
Implied(u, all) ==
  {"BindsTo", "After"} \X ServicesBy(u, all, "pod")
    \cup {"Requires", "After"} \X
           (UNION {ServicesBy(u, all, r) : r \in {"image", "network", "volume"}})
    \cup (IF u.defaults THEN {"After", "Wants"} \X Online ELSE {})

\* How a service that has these directives is wired.
Wired(g) ==
  [before |-> {d[2] : d \in {x \in g : x[1] = "After"}},
   couples |-> [n \in {d[2] : d \in g} |->
     Max({0} \cup {i \in 1 .. 3 : <<Couplings[i], n>> \in g})]]

\* A directive says no more than these.
Covered(d, g) ==
  \/ d \in g
  \/ /\ d[1] \in SubsumedByQuadlet /\ <<"After", d[2]>> \in g
     /\ <<"Requires", d[2]>> \in g \/ <<"BindsTo", d[2]>> \in g

\* To take out what is covered changes nothing.
LEMMA WiredAlike ==
  ASSUME NEW g, NEW h \in SUBSET g, \A d \in g : Covered(d, h)
  PROVE  Wired(g) = Wired(h)
  <1>0. \A n : /\ <<"After", n>>[1] = "After" /\ <<"After", n>>[2] = n
               /\ \A i \in 1 .. 3 : <<Couplings[i], n>>[1] = Couplings[i]
               /\ \A i \in 1 .. 3 : <<Couplings[i], n>>[2] = n
    OBVIOUS
  <1>1. {d[2] : d \in {x \in g : x[1] = "After"}} = {d[2] : d \in {x \in h : x[1] = "After"}}
    BY <1>0 DEF Covered
  <1>2. {d[2] : d \in g} = {d[2] : d \in h}
    BY <1>0 DEF Covered
  <1>3. ASSUME NEW n
        PROVE  Max({0} \cup {i \in 1 .. 3 : <<Couplings[i], n>> \in g})
                 = Max({0} \cup {i \in 1 .. 3 : <<Couplings[i], n>> \in h})
    <2> DEFINE S == {0} \cup {i \in 1 .. 3 : <<Couplings[i], n>> \in g}
               T == {0} \cup {i \in 1 .. 3 : <<Couplings[i], n>> \in h}
    <2>1. T \subseteq S /\ S \in SUBSET (0 .. 3) /\ T \in SUBSET (0 .. 3) /\ 0 \in T
      OBVIOUS
    <2>2. ASSUME NEW i \in S PROVE \E j \in T : j >= i
      <3>1. CASE i \in T
        <4>1. i \in 0 .. 3
          BY <2>1
        <4> QED
          BY <3>1, <4>1
      <3>2. CASE i \notin T
        <4> DEFINE d == <<Couplings[i], n>>
        <4>1. i \in 1 .. 3 /\ d \in g /\ d \notin h
          BY <3>2
        <4>2. d[1] = Couplings[i] /\ d[2] = n
          OBVIOUS
        <4> HIDE DEF d
        <4>3. Couplings[i] \in SubsumedByQuadlet /\ (<<"Requires", n>> \in h \/ <<"BindsTo", n>> \in h)
          BY <4>1, <4>2 DEF Covered
        <4>4. Couplings[2] = "Requires" /\ Couplings[3] = "BindsTo"
          BY DEF Couplings
        <4>5. i # 3
          BY <4>3, <4>4 DEF SubsumedByQuadlet
        <4>6. 2 \in T \/ 3 \in T
          BY <4>3, <4>4
        <4> QED
          BY <4>1, <4>5, <4>6
      <3> QED
        BY <3>1, <3>2
    <2> HIDE DEF S, T
    <2>3. Max(S) \in S /\ Max(T) \in T /\ (\A i \in S : Max(S) >= i) /\ (\A i \in T : Max(T) >= i)
      BY <2>1, MaxOfFew
    <2>4. Max(T) \in S /\ Max(S) >= Max(T)
      BY <2>1, <2>3
    <2>5. PICK j \in T : j >= Max(S)
      BY <2>2, <2>3
    <2>6. Max(T) >= j
      BY <2>3
    <2>7. Max(S) \in 0 .. 3 /\ Max(T) \in 0 .. 3 /\ j \in 0 .. 3
      BY <2>1, <2>3
    <2>8. Max(S) = Max(T)
      BY <2>4, <2>5, <2>6, <2>7
    <2> QED
      BY <2>8 DEF S, T
  <1> QED
    BY <1>1, <1>2, <1>3 DEF Wired

\* The wiring is that of the unit's own directives and of those implied.
LEMMA WiringIs ==
  ASSUME NEW u, NEW all
  PROVE  Wiring(u, all) = Wired(u.deps \cup Implied(u, all))
  <1>1. Generated(u, all) = u.deps \cup Implied(u, all)
    BY DEF Generated, Implied, ServicesBy
  <1> QED
    BY <1>1 DEF Wiring, Wired

\* Units that are alike to Quadlet, their directives apart.
Alike(v, w) ==
  /\ v.file = w.file /\ v.service = w.service /\ v.defaults = w.defaults
  /\ v.image = w.image /\ v.pod = w.pod /\ v.networks = w.networks /\ v.volumes = w.volumes

\* In projects of units that are alike, the same directives are implied.
LEMMA ImpliedAlike ==
  ASSUME NEW A, NEW B, NEW v \in A, NEW w \in B, Alike(v, w),
         \A x \in A : \E y \in B : Alike(x, y), \A y \in B : \E x \in A : Alike(x, y)
  PROVE  Implied(v, A) = Implied(w, B)
  <1>1. Resources(v) = Resources(w) /\ v.defaults = w.defaults
    BY DEF Alike, Resources
  <1>2. ASSUME NEW rel PROVE ServicesBy(v, A, rel) = ServicesBy(w, B, rel)
    <2>1. ASSUME NEW x \in A, <<rel, x.file>> \in Resources(v)
          PROVE  x.service \in ServicesBy(w, B, rel)
      <3>1. PICK y \in B : y.file = x.file /\ y.service = x.service
        BY DEF Alike
      <3> QED
        BY <1>1, <2>1, <3>1 DEF ServicesBy
    <2>2. ASSUME NEW y \in B, <<rel, y.file>> \in Resources(w)
          PROVE  y.service \in ServicesBy(v, A, rel)
      <3>1. PICK x \in A : y.file = x.file /\ y.service = x.service
        BY DEF Alike
      <3> QED
        BY <1>1, <2>2, <3>1 DEF ServicesBy
    <2>3. ServicesBy(v, A, rel) \subseteq ServicesBy(w, B, rel)
      BY <2>1 DEF ServicesBy
    <2>4. ServicesBy(w, B, rel) \subseteq ServicesBy(v, A, rel)
      BY <2>2 DEF ServicesBy
    <2> QED
      BY <2>3, <2>4
  <1> QED
    BY <1>1, <1>2 DEF Implied

\* The findings about directives are of the rules about directives.
LEMMA OtherRules ==
  ASSUME NEW all,
         NEW f \in TimeoutFindings(all) \cup GraphFindings(all) \cup ImageFindings(all, all)
  PROVE  f.rule \notin {"deps/redundant-resource", "deps/redundant-network-online"}
  <1> DEFINE About2 == {"deps/redundant-resource", "deps/redundant-network-online"}
  <1>1. ASSUME f \in TimeoutFindings(all) PROVE f.rule \notin About2
    <2>1. PICK u \in all : \E r \in StartFindings(u) \cup RestartFindings(u) \cup StopFindings(u) :
                              f = Finding(r, u.file, None)
      BY <1>1 DEF TimeoutFindings
    <2>2. StartFindings(u) \cap About2 = {}
      BY DEF StartFindings
    <2>3. RestartFindings(u) \cap About2 = {}
      BY DEF RestartFindings
    <2>4. StopFindings(u) \cap About2 = {}
      BY DEF StopFindings
    <2> QED
      BY <2>1, <2>2, <2>3, <2>4 DEF Finding
  <1>2. ASSUME f \in NetworkFindings(all) PROVE f.rule \notin About2
    <2>1. PICK n \in all : \E r \in PairFindings(all, n) \cup {"graph/orphan-network"} :
                              f = Finding(r, n.file, None)
      <3>1. PICK n \in all :
              \E r \in IF n.pair THEN PairFindings(all, n)
                       ELSE IF Attachers(all, n) = {} THEN {"graph/orphan-network"} ELSE {} :
                f = Finding(r, n.file, None)
        BY <1>2 DEF NetworkFindings
      <3> QED
        BY <3>1
    <2>2. PairFindings(all, n) \subseteq {"graph/pair-cardinality", "graph/pair-unwired"}
      BY DEF PairFindings
    <2> QED
      BY <2>1, <2>2 DEF Finding
  <1>3. ASSUME NEW rule, NEW takes, NEW x \in Shared(rule, takes) PROVE x.rule = rule
    <2>1. \E name, unit : x = Finding(rule, unit, name)
      BY Zenon DEF Shared
    <2> QED
      BY <2>1 DEF Finding
  <1>4. ASSUME f \in GraphFindings(all) \ NetworkFindings(all) PROVE f.rule \notin About2
    <2> HIDE DEF About2
    <2>1. f.rule \in {"graph/duplicate-name", "graph/duplicate-router"}
      BY <1>3, <1>4 DEF GraphFindings
    <2> QED
      BY <2>1 DEF About2
  <1>5. ASSUME f \in ImageFindings(all, all) PROVE f.rule \notin About2
    BY <1>5 DEF ImageFindings, Finding
  <1> QED
    BY <1>1, <1>2, <1>4, <1>5

\* What lint calls redundant is covered by what Quadlet makes of the unit's other keys,
\* when files are told from services and only [Unit] has no resource relations.
LEMMA RedundantIsCovered ==
  ASSUME NEW all, UniqueFilenames(all), NEW v \in all,
         \A w \in all : \A d \in w.deps : d[1] \notin ResourceRels,
         \A d \in v.deps : d[2] \notin Files(all),
         NEW d \in v.deps,
         \/ \E f \in RedundantResources(all, all) :
              /\ f.unit = v.file
              /\ d[1] = f.about[1] /\ Target(all, d[2]) = f.about[2]
         \/ \E f \in RedundantOnline(all) : f.unit = v.file /\ d = f.about
  PROVE  Covered(d, Implied(v, all))
  <1>1. ASSUME NEW f \in RedundantOnline(all), f.unit = v.file, d = f.about
        PROVE  d \in Implied(v, all)
    <2>1. v.defaults /\ d \in {"After", "Wants"} \X Online
      BY <1>1 DEF RedundantOnline, Finding, UniqueFilenames
    <2> QED
      BY <2>1 DEF Implied
  <1>2. ASSUME NEW f \in RedundantResources(all, all), f.unit = v.file,
               d[1] = f.about[1], Target(all, d[2]) = f.about[2]
        PROVE  Covered(d, Implied(v, all))
    <2> DEFINE edges == BuildEdges(all, all)
    <2>1. PICK e \in edges : /\ f = Finding("deps/redundant-resource", e.from, <<e.rel, e.to>>)
                             /\ e.rel \in SubsumedByQuadlet
                             /\ Rels(edges, e.from, e.to) \cap ResourceRels # {}
      BY <1>2 DEF RedundantResources
    <2>2. e.from = v.file /\ d[1] = e.rel /\ Target(all, d[2]) = e.to
      BY <1>2, <2>1 DEF Finding
    <2>3. PICK x \in edges : x.from = v.file /\ x.to = e.to /\ x.rel \in ResourceRels
      BY <2>1, <2>2 DEF Rels
    <2>4. PICK w \in all : x \in AddUnitEdges(w, all) \cup AddResourceEdges(w, all)
      BY DEF BuildEdges
    <2>5. x \notin AddUnitEdges(w, all)
      BY <2>3 DEF AddUnitEdges
    <2>6. PICK r \in Resources(w) : /\ r[2] \in Files(all)
                                    /\ x = [from |-> w.file, to |-> r[2], rel |-> r[1]]
      BY <2>4, <2>5 DEF AddResourceEdges
    <2>7. w = v /\ r[2] = e.to /\ r[1] \in ResourceRels
      BY <2>3, <2>6 DEF UniqueFilenames
    <2>8. PICK y \in all : d[2] = y.service /\ y.file = e.to
      BY <2>2, <2>6, <2>7 DEF Target
    <2>9. r = <<r[1], r[2]>>
      BY <2>6 DEF Resources
    <2>10. d[2] \in ServicesBy(v, all, r[1])
      BY <2>6, <2>7, <2>8, <2>9 DEF ServicesBy
    <2>11. CASE r[1] = "pod"
      <3>1. {"BindsTo", "After"} \X ServicesBy(v, all, "pod") \subseteq Implied(v, all)
        BY DEF Implied
      <3> QED
        BY <2>1, <2>2, <2>10, <2>11, <3>1 DEF Covered
    <2>12. CASE r[1] # "pod"
      <3>1. r[1] \in {"image", "network", "volume"}
        BY <2>7, <2>12 DEF ResourceRels
      <3>2. d[2] \in UNION {ServicesBy(v, all, s) : s \in {"image", "network", "volume"}}
        BY <2>10, <3>1
      <3>3. {"Requires", "After"} \X
              (UNION {ServicesBy(v, all, s) : s \in {"image", "network", "volume"}})
              \subseteq Implied(v, all)
        BY DEF Implied
      <3> QED
        BY <2>1, <2>2, <3>2, <3>3 DEF Covered
    <2> QED
      BY <2>11, <2>12
  <1> QED
    BY <1>1, <1>2 DEF Covered

\* What lint calls redundant in a unit is covered by what the loaded unit implies.
LEMMA RemovedIsCovered ==
  ASSUME IInv, Loads, NEW u \in units, NEW f \in LintCommand(Loaded, {}),
         NEW d \in u.deps, d \in About(u, f)
  PROVE  Covered(d, Implied(Evaluated(u, units, assets), Loaded))
  <1> DEFINE p == [x \in units |-> Evaluated(x, units, assets)]
             v == p[u]
  <1>1. /\ UniqueFilenames(units)
        /\ \A x \in units : Sound(x) /\ Fields \subseteq DOMAIN x
    BY DEF Loads, LoadFails, IInv, Sound
  <1>2. Loaded = {p[x] : x \in units}
    <2>1. Loaded = {Evaluated(x, units, assets) : x \in units}
      BY LoadedAre DEF Loaded
    <2> QED
      BY <2>1
  <1>3. ASSUME NEW x \in units
        PROVE  Same(x, p[x]) /\ p[x].deps = x.deps \cup Added(units, x)
    <2>1. Same(x, Evaluated(x, units, assets))
            /\ Evaluated(x, units, assets).deps = x.deps \cup Added(units, x)
      BY <1>1, LoadedUnits
    <2> QED
      BY <2>1
  <1>4. v = Evaluated(u, units, assets)
    OBVIOUS
  <1> HIDE DEF p
  <1>5. v.file = u.file /\ v.deps = u.deps \cup Added(units, u) /\ v \in Loaded
    BY <1>2, <1>3 DEF Same
  <1> HIDE DEF v
  <1>6. \/ /\ f \in RedundantResources(Loaded, Loaded) /\ f.unit = v.file
           /\ d[1] = f.about[1] /\ Target(Loaded, d[2]) = f.about[2]
        \/ f \in RedundantOnline(Loaded) /\ f.unit = v.file /\ d = f.about
    <2>1. f \in LintQuadlets(Loaded, Loaded) \cup GraphFindings(Loaded)
                  \cup ImageFindings(Loaded, Loaded)
      BY DEF LintCommand, Enabled, FilterQuadlets
    <2>2. \/ f \in RedundantResources(Loaded, Loaded)
          \/ f \in RedundantOnline(Loaded)
          \/ f.rule \notin {"deps/redundant-resource", "deps/redundant-network-online"}
      BY <2>1, OtherRules DEF LintQuadlets
    <2>3. /\ f \in RedundantResources(Loaded, Loaded) => f.rule = "deps/redundant-resource"
          /\ f \in RedundantOnline(Loaded) => f.rule = "deps/redundant-network-online"
      BY DEF RedundantResources, RedundantOnline, Finding
    <2>4. f.unit = u.file
      BY DEF About
    <2>5. CASE f.rule = "deps/redundant-resource"
      <3>1. d[1] = f.about[1] /\ Target(Loaded, d[2]) = f.about[2]
        BY <2>4, <2>5 DEF About
      <3> QED
        BY <1>5, <2>2, <2>3, <2>4, <2>5, <3>1
    <2>6. CASE f.rule = "deps/redundant-network-online"
      <3>1. d = f.about
        BY <2>4, <2>6 DEF About
      <3> QED
        BY <1>5, <2>2, <2>3, <2>4, <2>6, <3>1
    <2>7. CASE f.rule \notin {"deps/redundant-resource", "deps/redundant-network-online"}
      BY <2>4, <2>7 DEF About
    <2> QED
      BY <2>5, <2>6, <2>7
  <1>7. UniqueFilenames(Loaded) /\ Files(Loaded) = Files(units)
    BY <1>1, LoadedFiles DEF Loaded
  <1>8. \A y \in Loaded : \A e \in y.deps : e[1] \notin ResourceRels
    <2>1. ASSUME NEW y \in units, NEW e \in Added(units, y) PROVE e[1] \notin ResourceRels
      BY DEF Added, TagDeps, ResourceRels
    <2> QED
      BY <1>1, <1>2, <1>3, <2>1 DEF Sound
  <1>9. Files(units) \subseteq Files(Writable)
    BY <1>1 DEF Sound, Files
  <1>10. \A y \in units : ServiceNames(y) \cap Files(Writable) = {}
    BY <1>1, LintAssumption DEF LintAssumption, Sound
  <1>11. \A e \in v.deps : e[2] \notin Files(Loaded)
    <2>1. ASSUME NEW e \in Added(units, u)
          PROVE  \E b \in units : e[2] = b.service
      BY DEF Added, TagDeps, BuildersOf, Builds
    <2>2. \A y \in units : y.service \in ServiceNames(y)
      BY DEF ServiceNames
    <2>3. \A e \in u.deps : e[2] \in ServiceNames(u)
      BY DEF ServiceNames
    <2> QED
      BY <1>5, <1>7, <1>9, <1>10, <2>1, <2>2, <2>3
  <1>12. d \in v.deps /\ v \in Loaded
    BY <1>5
  <1>13. Covered(d, Implied(v, Loaded))
    BY <1>6, <1>7, <1>8, <1>11, <1>12, RedundantIsCovered
  <1> QED
    BY <1>4, <1>13

\* To do what lint says changes nothing of what a service starts after and of how
\* closely it is coupled to it, in every project.
THEOREM FollowingIsSafe == Spec => FollowingKeeps
  <1>1. ASSUME IInv, Follow, NEW v \in Loaded, NEW w \in Loaded', v.file = w.file
        PROVE  Wiring(v, Loaded) = Wiring(w, Loaded')
    <2>1. PICK u \in units, f \in LintCommand(Loaded, {}) :
            units' = (units \ {u}) \cup {Trimmed(u, About(u, f))}
      BY <1>1 DEF Follow, Trimmed
    <2>2. /\ UniqueFilenames(units)
          /\ \A x \in units : Sound(x) /\ Fields \subseteq DOMAIN x
      BY <1>1 DEF Follow, Loads, LoadFails, IInv, Sound
    <2> DEFINE D == About(u, f)
               t == [x \in units |-> IF x = u THEN Trimmed(u, D) ELSE x]
               p == [x \in units |-> Evaluated(x, units, assets)]
               q == [x \in units |-> Evaluated(t[x], units', assets')]
    <2>3. units' = {t[x] : x \in units}
      BY <2>1
    <2>4. \A x \in units : Same(x, t[x])
      <3>1. Same(u, Trimmed(u, D))
        BY <2>2, TrimKeeps
      <3>2. \A x \in units : Same(x, x)
        BY <2>2 DEF Same
      <3> HIDE DEF D
      <3> QED
        BY <3>1, <3>2
    <2>5. \A x \in units' : Fields \subseteq DOMAIN x
      BY <2>3, <2>4 DEF Same
    <2>6. Loaded = {p[x] : x \in units}
      <3>1. Loaded = {Evaluated(x, units, assets) : x \in units}
        BY LoadedAre DEF Loaded
      <3> QED
        BY <3>1
    <2>7. Loaded' = {q[x] : x \in units}
      <3>1. Evaluate(units', assets') = {Evaluated(x, units', assets') : x \in units'}
        BY LoadedAre
      <3>2. Loaded' = {Evaluated(x, units', assets') : x \in units'}
        BY <3>1 DEF Loaded
      <3> HIDE DEF t
      <3>3. {Evaluated(x, units', assets') : x \in units'} = {q[x] : x \in units}
        BY <2>3
      <3> QED
        BY <3>2, <3>3
    <2>8. ASSUME NEW x \in units
          PROVE  Same(x, p[x]) /\ p[x].deps = x.deps \cup Added(units, x)
      <3>1. Same(x, Evaluated(x, units, assets))
              /\ Evaluated(x, units, assets).deps = x.deps \cup Added(units, x)
        BY <2>2, LoadedUnits
      <3> QED
        BY <3>1
    <2>9. ASSUME NEW x \in units
          PROVE  Same(x, q[x]) /\ q[x].deps = t[x].deps \cup Added(units, x)
      <3>1. t[x] \in units'
        BY <2>3
      <3> HIDE DEF t
      <3>2. /\ Same(t[x], Evaluated(t[x], units', assets'))
            /\ Evaluated(t[x], units', assets').deps = t[x].deps \cup Added(units', t[x])
        BY <2>5, <3>1, LoadedUnits
      <3>3. Added(units', t[x]) = Added(units, x)
        BY <2>3, <2>4, AddedAlike
      <3>4. q[x] = Evaluated(t[x], units', assets')
        OBVIOUS
      <3> HIDE DEF q
      <3> QED
        BY <2>4, <3>2, <3>3, <3>4 DEF Same
    <2> HIDE DEF p, q
    <2>10. PICK x \in units : v = p[x] /\ w = q[x]
      <3>1. PICK y \in units : v = p[y]
        BY <2>6
      <3>2. PICK z \in units : w = q[z]
        BY <2>7
      <3>3. y.file = z.file
        BY <1>1, <2>8, <2>9, <3>1, <3>2 DEF Same
      <3> QED
        BY <2>2, <3>1, <3>2, <3>3 DEF UniqueFilenames
    <2>11. Implied(v, Loaded) = Implied(w, Loaded')
      <3>1. \A y \in units : Alike(p[y], q[y])
        BY <2>8, <2>9 DEF Same, Alike
      <3>2. Alike(v, w)
        BY <2>10, <3>1
      <3>3. /\ \A y \in Loaded : \E z \in Loaded' : Alike(y, z)
            /\ \A z \in Loaded' : \E y \in Loaded : Alike(y, z)
        BY <2>6, <2>7, <3>1
      <3> QED
        BY <1>1, <3>2, <3>3, ImpliedAlike
    <2>12. CASE x # u
      <3>1. v.deps = w.deps
        BY <2>8, <2>9, <2>10, <2>12
      <3> QED
        BY <2>11, <3>1, WiringIs
    <2>13. CASE x = u
      <3> DEFINE I == Implied(v, Loaded)
      <3>1. v.deps = u.deps \cup Added(units, u)
        BY <2>8, <2>10, <2>13
      <3>2. w.deps = (u.deps \ D) \cup Added(units, u)
        <4>1. Trimmed(u, D).deps = u.deps \ D
          BY <2>2, TrimKeeps
        <4> HIDE DEF D
        <4> QED
          BY <2>9, <2>10, <2>13, <4>1
      <3>3. ASSUME NEW d \in u.deps, d \in D PROVE Covered(d, I)
        <4>1. Loads
          BY <1>1 DEF Follow
        <4>2. v = Evaluated(u, units, assets)
          BY <2>10, <2>13 DEF p
        <4> QED
          BY <1>1, <3>3, <4>1, <4>2, RemovedIsCovered
      <3> DEFINE g == v.deps \cup I  h == w.deps \cup I
      <3>4. h \in SUBSET g
        BY <3>1, <3>2
      <3>5. \A d \in g : Covered(d, h)
        <4> SUFFICES ASSUME NEW d \in g PROVE Covered(d, h)
          OBVIOUS
        <4>1. CASE d \in h
          BY <4>1 DEF Covered
        <4>2. CASE d \notin h
          <5>1. d \in u.deps /\ d \in D
            <6> HIDE DEF D
            <6> QED
              BY <3>1, <3>2, <4>2
          <5>2. Covered(d, I)
            BY <3>3, <5>1
          <5> HIDE DEF I
          <5> QED
            BY <5>2 DEF Covered
        <4> QED
          BY <4>1, <4>2
      <3> HIDE DEF g, h
      <3>6. Wired(g) = Wired(h)
        BY <3>4, <3>5, WiredAlike
      <3>7. Wiring(v, Loaded) = Wired(g) /\ Wiring(w, Loaded') = Wired(h)
        BY <2>11, WiringIs DEF g, h
      <3> QED
        BY <3>6, <3>7
    <2> QED
      BY <2>12, <2>13
  <1>2. IInv /\ [Next]_vars =>
          [Follow => \A u \in Loaded, v \in Loaded' :
             u.file = v.file => Wiring(u, Loaded) = Wiring(v, Loaded')]_vars
    BY <1>1
  <1> QED
    BY UnitsAreSound, <1>2, PTL DEF Spec, FollowingKeeps

-----------------------------------------------------------------------------
(* The variables of an import.                                              *)

\* The default that an occurrence carries over.
Carried(t) == IF HasDefault(t) /\ t.inner = {} THEN t.default ELSE None

Variables(tokens) == {t.name : t \in Range(tokens)}

\* One more occurrence, and the struct after the first k.
Recorded(last, t) == [last EXCEPT ![t.name] = Occurs(@, Carried(t))]

Envs(env, tokens, k) ==
  env = [i \in 0 .. k |->
           IF i = 0 THEN [n \in Variables(tokens) |-> Unseen] ELSE Recorded(env[i - 1], tokens[i])]

\* The struct is defined.
LEMMA EnvsExist ==
  ASSUME NEW tokens, NEW k \in Nat
  PROVE  \E env : Envs(env, tokens, k)
  <1> DEFINE S == {n \in Nat : \E env : Envs(env, tokens, n)}
             first == [n \in Variables(tokens) |-> Unseen]
  <1>1. 0 \in S
    <2> DEFINE f == [i \in 0 .. 0 |-> first]
    <2> HIDE DEF first
    <2>1. f = [i \in 0 .. 0 |-> IF i = 0 THEN first ELSE Recorded(f[i - 1], tokens[i])]
      OBVIOUS
    <2> QED
      BY <2>1 DEF Envs, first
  <1>2. ASSUME NEW n \in Nat, n \in S PROVE n + 1 \in S
    <2> HIDE DEF first
    <2>1. PICK f : f = [i \in 0 .. n |-> IF i = 0 THEN first ELSE Recorded(f[i - 1], tokens[i])]
      BY <1>2 DEF Envs, first
    <2> DEFINE g == [i \in 0 .. n + 1 |-> IF i <= n THEN f[i] ELSE Recorded(f[n], tokens[i])]
               h == [i \in 0 .. n + 1 |-> IF i = 0 THEN first ELSE Recorded(g[i - 1], tokens[i])]
    <2>2. ASSUME NEW i \in 0 .. n + 1 PROVE g[i] = h[i]
      <3>1. CASE i = 0
        BY <2>1, <3>1
      <3>2. CASE i \in 1 .. n
        <4>1. i \in 0 .. n /\ i # 0 /\ i <= n /\ i - 1 \in 0 .. n + 1 /\ i - 1 <= n
          BY <3>2
        <4>2. g[i] = f[i] /\ g[i - 1] = f[i - 1]
          BY <4>1
        <4>3. f[i] = Recorded(f[i - 1], tokens[i])
          BY <2>1, <4>1
        <4>4. h[i] = Recorded(g[i - 1], tokens[i])
          BY <4>1
        <4> QED
          BY <4>2, <4>3, <4>4
      <3>3. CASE i = n + 1
        <4>1. i # 0 /\ ~(i <= n) /\ i - 1 = n /\ n \in 0 .. n + 1
          BY <3>3
        <4>2. g[n] = f[n] /\ g[i] = Recorded(f[n], tokens[i])
          BY <4>1
        <4>3. h[i] = Recorded(g[n], tokens[i])
          BY <4>1
        <4> QED
          BY <4>2, <4>3
      <3> QED
        BY <3>1, <3>2, <3>3
    <2>3. g = h
      BY <2>2
    <2>4. Envs(g, tokens, n + 1)
      BY <2>3 DEF Envs, first
    <2> QED
      BY <2>4
  <1> QED
    BY <1>1, <1>2, AllNumbers

\* What the struct says of a variable of which these are the occurrences so far.
Says(v, occurs) ==
  /\ v.bare \in BOOLEAN /\ v.warned \in BOOLEAN
  /\ v.warned => v.bare
  /\ v.bare => v.default = None
  /\ v.bare <=> \E j \in DOMAIN occurs : occurs[j] = None
  /\ DOMAIN occurs = {} => v.default = None
  /\ ~v.bare => \A m \in DOMAIN occurs :
                  (\A j \in DOMAIN occurs : m <= j) => v.default = occurs[m]

\* The occurrences of a variable among the first k tokens.
Occurrences(tokens, n, k) ==
  [j \in {i \in 1 .. k : tokens[i].name = n} |-> Carried(tokens[j])]

\* One more occurrence.
LEMMA SaysMore ==
  ASSUME NEW tokens, NEW n, NEW k \in Nat, NEW v, Says(v, Occurrences(tokens, n, k)),
         tokens[k + 1].name = n
  PROVE  Says(Occurs(v, Carried(tokens[k + 1])), Occurrences(tokens, n, k + 1))
  <1> DEFINE o == Occurrences(tokens, n, k)  x == Carried(tokens[k + 1])
             p == Occurrences(tokens, n, k + 1)
             w == Occurs(v, x)
  <1>1. /\ DOMAIN p = DOMAIN o \cup {k + 1} /\ DOMAIN o \subseteq 1 .. k
        /\ p[k + 1] = x
        /\ \A j \in DOMAIN o : p[j] = o[j]
    BY DEF Occurrences
  <1> HIDE DEF o, p, x
  <1>2. Says(v, o)
    BY DEF o
  <1>3. /\ w.bare = (v.bare \/ x = None)
        /\ w.warned = (v.warned \/ (w.bare /\ (v.default # None \/ x # None) /\ ~v.warned))
        /\ w.default = IF w.bare /\ (v.default # None \/ x # None) /\ ~v.warned THEN None
                       ELSE IF v.default = None /\ ~v.bare THEN x ELSE v.default
    BY DEF Occurs
  <1> HIDE DEF w
  <1>4. w.bare \in BOOLEAN /\ w.warned \in BOOLEAN /\ (w.warned => w.bare)
    BY <1>2, <1>3 DEF Says
  <1>5. w.bare => w.default = None
    BY <1>2, <1>3 DEF Says
  <1>6. w.bare <=> \E j \in DOMAIN p : p[j] = None
    BY <1>1, <1>2, <1>3 DEF Says
  <1>7. DOMAIN p # {}
    BY <1>1
  <1>8. ASSUME ~w.bare, NEW m \in DOMAIN p, \A j \in DOMAIN p : m <= j
        PROVE  w.default = p[m]
    <2>1. ~v.bare /\ x # None
      BY <1>3, <1>8
    <2>2. w.default = IF v.default = None THEN x ELSE v.default
      BY <1>3, <1>8, <2>1
    <2>3. CASE DOMAIN o = {}
      BY <1>1, <1>2, <2>2, <2>3 DEF Says
    <2>4. CASE DOMAIN o # {}
      <3>1. PICK j \in DOMAIN o : j <= k
        BY <1>1, <2>4
      <3>2. m # k + 1
        BY <1>1, <1>8, <3>1
      <3>3. m \in DOMAIN o /\ \A i \in DOMAIN o : m <= i
        BY <1>1, <1>8, <3>2
      <3>4. v.default = o[m]
        BY <1>2, <2>1, <3>3 DEF Says
      <3>5. o[m] # None
        BY <1>2, <2>1, <3>3 DEF Says
      <3> QED
        BY <1>1, <2>2, <3>3, <3>4, <3>5
    <2> QED
      BY <2>3, <2>4
  <1>9. Says(w, p)
    BY <1>4, <1>5, <1>6, <1>7, <1>8 DEF Says
  <1> QED
    BY <1>9 DEF w, p, x

\* The struct tells of each variable what its occurrences are.
LEMMA EnvSays ==
  ASSUME NEW c, ~c.resolve, c.tokens \in Seq(Range(c.tokens)), NEW n \in Variables(c.tokens)
  PROVE  /\ DOMAIN Env(c) = Variables(c.tokens)
         /\ Says(Env(c)[n], Occurrences(c.tokens, n, Len(c.tokens)))
  <1> DEFINE tokens == c.tokens  K == Len(tokens)
             env == CHOOSE e : Envs(e, tokens, K)
  <1>1. Env(c) = env[K]
    BY DEF Env, Envs, Variables, Recorded, Carried
  <1>2. K \in Nat /\ \A i \in 1 .. K : tokens[i].name \in Variables(tokens)
    BY DEF Variables, Range
  <1> HIDE DEF tokens, K
  <1>3. Envs(env, tokens, K)
    BY <1>2, EnvsExist
  <1> HIDE DEF env
  <1>4. env[0] = [i \in Variables(tokens) |-> Unseen]
    BY <1>2, <1>3 DEF Envs
  <1>5. ASSUME NEW i \in 1 .. K PROVE env[i] = Recorded(env[i - 1], tokens[i])
    <2>1. i \in 0 .. K /\ i # 0
      BY <1>2
    <2>2. env = [j \in 0 .. K |-> IF j = 0 THEN [m \in Variables(tokens) |-> Unseen]
                                  ELSE Recorded(env[j - 1], tokens[j])]
      BY <1>3 DEF Envs
    <2> QED
      BY <2>1, <2>2
  <1> DEFINE Good(k) == DOMAIN env[k] = Variables(tokens) /\ Says(env[k][n], Occurrences(tokens, n, k))
             S == {k \in Nat : k <= K => Good(k)}
  <1>6. n \in Variables(tokens)
    BY DEF tokens
  <1>7. 0 \in S
    <2>1. env[0][n] = Unseen /\ DOMAIN env[0] = Variables(tokens)
      BY <1>4, <1>6
    <2>2. DOMAIN Occurrences(tokens, n, 0) = {}
      BY DEF Occurrences
    <2>3. Says(Unseen, Occurrences(tokens, n, 0))
      BY <2>2 DEF Says, Unseen
    <2> QED
      BY <2>1, <2>3
  <1>8. ASSUME NEW k \in Nat, k \in S PROVE k + 1 \in S
    <2> SUFFICES ASSUME k + 1 <= K PROVE Good(k + 1)
      OBVIOUS
    <2>1. Good(k)
      BY <1>2, <1>8
    <2>2. k + 1 \in 1 .. K /\ (k + 1) - 1 = k
      BY <1>2
    <2>3. env[k + 1] = Recorded(env[k], tokens[k + 1])
      BY <1>5, <2>2
    <2>4. DOMAIN env[k + 1] = Variables(tokens)
      BY <2>1, <2>3 DEF Recorded
    <2>5. CASE tokens[k + 1].name = n
      <3>1. env[k + 1][n] = Occurs(env[k][n], Carried(tokens[k + 1]))
        BY <1>6, <2>1, <2>3, <2>5 DEF Recorded
      <3>2. Says(env[k + 1][n], Occurrences(tokens, n, k + 1))
        BY <2>1, <2>5, <3>1, SaysMore
      <3> QED
        BY <2>4, <3>2
    <2>6. CASE tokens[k + 1].name # n
      <3>1. env[k + 1][n] = env[k][n]
        BY <1>6, <2>1, <2>3, <2>6 DEF Recorded
      <3>2. Occurrences(tokens, n, k + 1) = Occurrences(tokens, n, k)
        <4>1. {i \in 1 .. k + 1 : tokens[i].name = n} = {i \in 1 .. k : tokens[i].name = n}
          BY <2>6
        <4> QED
          BY <4>1 DEF Occurrences
      <3> QED
        BY <2>1, <2>4, <3>1, <3>2
    <2> QED
      BY <2>5, <2>6
  <1>9. K \in S
    <2> HIDE DEF S
    <2> QED
      BY <1>2, <1>7, <1>8, AllNumbers
  <1> QED
    BY <1>1, <1>2, <1>9 DEF tokens, K

\* A set of numbers has a least one.
LEMMA LeastOf ==
  ASSUME NEW S \in SUBSET Nat, S # {}
  PROVE  Min(S) \in S /\ \A i \in S : Min(S) <= i
  <1>1. PICK m \in S : \A y \in S : <<y, m>> \notin OpToRel(<, Nat)
    BY NatLessThanWellFounded, WFMin
  <1>2. \A y \in S : ~(y < m)
    BY <1>1 DEF OpToRel
  <1>3. \A y \in S : m <= y
    BY <1>2
  <1> QED
    BY <1>3 DEF Min

\* No variable that an import lifts comes to nothing unnoticed, in whatever order it occurs
\* with a default and without, nor one of a named file whose values are baked in.
THEOREM VariablesAreAsked == Spec => []VariablesAsked
  <1>1. ASSUME IInv PROVE VariablesAsked
    <2> SUFFICES ASSUME imported \in Composes PROVE VariablesAsked
      BY <1>1 DEF IInv, VariablesAsked
    <2> DEFINE c == imported
    <2>1. /\ c.tokens \in Seq(Range(c.tokens))
          /\ \A t \in Range(c.tokens) : HasDefault(t) /\ t.inner = {} => t.default # None
      BY LintAssumption DEF LintAssumption
    <2>2. CASE c.resolve
      BY <2>2, Zenon DEF VariablesAsked, Empties, Scanned, HasDefault
    <2>3. CASE ~c.resolve
      <3> SUFFICES ASSUME NEW i \in DOMAIN c.tokens
                   PROVE  LET t == c.tokens[i]
                              same == {j \in DOMAIN c.tokens : c.tokens[j].name = t.name}
                          IN IF \E j \in same : c.tokens[j].op # "-" \/ c.tokens[j].inner # {}
                             THEN t.name \in Required(c)
                             ELSE Env(c)[t.name].default = c.tokens[Min(same)].default
        BY <2>3, Zenon DEF VariablesAsked
      <3> DEFINE n == c.tokens[i].name
                 same == {j \in DOMAIN c.tokens : c.tokens[j].name = n}
                 o == Occurrences(c.tokens, n, Len(c.tokens))
                 v == Env(c)[n]
      <3>1. n \in Variables(c.tokens)
        BY <2>1 DEF Variables, Range
      <3>2. DOMAIN c.tokens = 1 .. Len(c.tokens) /\ Len(c.tokens) \in Nat
        BY <2>1
      <3>3. DOMAIN Env(c) = Variables(c.tokens) /\ Says(v, o)
        BY <2>1, <2>3, <3>1, EnvSays
      <3>4. DOMAIN o = same /\ \A j \in same : o[j] = Carried(c.tokens[j])
        BY <3>2 DEF Occurrences
      <3>5. \A j \in same : c.tokens[j] \in Range(c.tokens)
        BY DEF Range
      <3>6. i \in same /\ same \in SUBSET Nat
        BY <3>2
      <3> HIDE DEF o, same, v
      <3>7. ASSUME NEW j \in same, c.tokens[j].op # "-" \/ c.tokens[j].inner # {}
            PROVE  n \in Required(c)
        <4>1. o[j] = None
          BY <3>4, <3>7 DEF Carried, HasDefault
        <4>2. v.default = None
          BY <3>3, <3>4, <4>1 DEF Says
        <4> QED
          BY <3>1, <3>3, <4>2 DEF Required, v
      <3>8. ASSUME ~ \E j \in same : c.tokens[j].op # "-" \/ c.tokens[j].inner # {}
            PROVE  v.default = c.tokens[Min(same)].default
        <4>1. \A j \in same : o[j] = c.tokens[j].default /\ o[j] # None
          BY <2>1, <3>4, <3>5, <3>8 DEF Carried, HasDefault
        <4>2. ~v.bare
          BY <3>3, <3>4, <4>1 DEF Says
        <4>3. Min(same) \in same /\ \A j \in same : Min(same) <= j
          BY <3>6, LeastOf
        <4> QED
          BY <3>3, <3>4, <4>1, <4>2, <4>3 DEF Says
      <3> QED
        BY <3>7, <3>8 DEF same, v
    <2> QED
      BY <2>2, <2>3
  <1> QED
    BY UnitsAreSound, <1>1, PTL

-----------------------------------------------------------------------------
(* Restarts.                                                                *)

Powers(p, x, n) == p = [i \in 0 .. n |-> IF i = 0 THEN 1 ELSE x * p[i - 1]]

\* The powers are defined.
LEMMA PowersExist ==
  ASSUME NEW x \in Nat, NEW k \in Nat
  PROVE  \E p : Powers(p, x, k)
  <1> DEFINE S == {n \in Nat : \E p : Powers(p, x, n)}
  <1>1. 0 \in S
    <2> DEFINE f == [i \in 0 .. 0 |-> 1]
    <2>1. f = [i \in 0 .. 0 |-> IF i = 0 THEN 1 ELSE x * f[i - 1]]
      OBVIOUS
    <2> QED
      BY <2>1 DEF Powers
  <1>2. ASSUME NEW n \in Nat, n \in S PROVE n + 1 \in S
    <2>1. PICK f : f = [i \in 0 .. n |-> IF i = 0 THEN 1 ELSE x * f[i - 1]]
      BY <1>2 DEF Powers
    <2> DEFINE g == [i \in 0 .. n + 1 |-> IF i <= n THEN f[i] ELSE x * f[n]]
               h == [i \in 0 .. n + 1 |-> IF i = 0 THEN 1 ELSE x * g[i - 1]]
    <2>2. ASSUME NEW i \in 0 .. n + 1 PROVE g[i] = h[i]
      <3>1. CASE i = 0
        BY <2>1, <3>1
      <3>2. CASE i \in 1 .. n
        <4>1. i \in 0 .. n /\ i # 0 /\ i <= n /\ i - 1 \in 0 .. n + 1 /\ i - 1 <= n
          BY <3>2
        <4>2. g[i] = f[i] /\ g[i - 1] = f[i - 1]
          BY <4>1
        <4>3. f[i] = x * f[i - 1]
          BY <2>1, <4>1
        <4>4. h[i] = x * g[i - 1]
          BY <4>1
        <4> QED
          BY <4>2, <4>3, <4>4
      <3>3. CASE i = n + 1
        <4>1. i # 0 /\ ~(i <= n) /\ i - 1 = n /\ n \in 0 .. n + 1
          BY <3>3
        <4>2. g[n] = f[n] /\ g[i] = x * f[n]
          BY <4>1
        <4>3. h[i] = x * g[n]
          BY <4>1
        <4> QED
          BY <4>2, <4>3
      <3> QED
        BY <3>1, <3>2, <3>3
    <2>3. g = h
      BY <2>2
    <2>4. Powers(g, x, n + 1)
      BY <2>3 DEF Powers
    <2> QED
      BY <2>4
  <1> QED
    BY <1>1, <1>2, AllNumbers

\* Each power is the one before it, times the base.
LEMMA PowerIs ==
  ASSUME NEW x \in Nat, NEW n \in Nat
  PROVE  Power(x, 0) = 1 /\ Power(x, n) \in Nat /\ Power(x, n + 1) = x * Power(x, n)
  <1> DEFINE P(k) == CHOOSE p : Powers(p, x, k)
  <1>1. ASSUME NEW k \in Nat
        PROVE  Power(x, k) = P(k)[k] /\ Powers(P(k), x, k)
    BY PowersExist DEF Power, Powers
  <1>2. ASSUME NEW k \in Nat, NEW p, Powers(p, x, k)
        PROVE  p[0] = 1 /\ \A i \in 0 .. k : i # 0 => p[i] = x * p[i - 1]
    <2>1. p = [i \in 0 .. k |-> IF i = 0 THEN 1 ELSE x * p[i - 1]]
      BY <1>2 DEF Powers
    <2>2. 0 \in 0 .. k
      OBVIOUS
    <2> QED
      BY <2>1, <2>2
  <1> HIDE DEF P
  <1>3. ASSUME NEW k \in Nat, NEW j \in Nat
        PROVE  \A i \in Nat : i <= k /\ i <= j => P(k)[i] = P(j)[i] /\ P(k)[i] \in Nat
    <2> DEFINE S == {i \in Nat : i <= k /\ i <= j => P(k)[i] = P(j)[i] /\ P(k)[i] \in Nat}
    <2>1. 0 \in S
      BY <1>1, <1>2
    <2>2. ASSUME NEW i \in Nat, i \in S PROVE i + 1 \in S
      <3> SUFFICES ASSUME i + 1 <= k, i + 1 <= j
                   PROVE  P(k)[i + 1] = P(j)[i + 1] /\ P(k)[i + 1] \in Nat
        OBVIOUS
      <3>1. /\ i + 1 \in 0 .. k /\ i + 1 \in 0 .. j /\ i + 1 # 0 /\ (i + 1) - 1 = i
            /\ i <= k /\ i <= j
        OBVIOUS
      <3>2. P(k)[i + 1] = x * P(k)[i] /\ P(j)[i + 1] = x * P(j)[i]
        BY <1>1, <1>2, <3>1
      <3>3. P(k)[i] = P(j)[i] /\ P(k)[i] \in Nat
        BY <2>2, <3>1
      <3> HIDE DEF S
      <3> QED
        BY <3>2, <3>3
    <2>3. Nat \subseteq S
      BY <2>1, <2>2, AllNumbers
    <2> QED
      BY <2>3
  <1>4. Power(x, 0) = 1
    BY <1>1, <1>2
  <1>5. P(n)[n] \in Nat /\ P(n + 1)[n] = P(n)[n]
    BY <1>3
  <1>6. P(n + 1)[n + 1] = x * P(n + 1)[n]
    <2>1. n + 1 \in Nat /\ n + 1 \in 0 .. (n + 1) /\ n + 1 # 0 /\ (n + 1) - 1 = n
      OBVIOUS
    <2> QED
      BY <1>1, <1>2, <2>1
  <1>7. n + 1 \in Nat
    OBVIOUS
  <1> QED
    BY <1>1, <1>4, <1>5, <1>6, <1>7

\* A geometric series is a quotient of whole numbers.
LEMMA SeriesIs ==
  ASSUME NEW d \in Nat, NEW r \in Nat, r > 1, NEW n \in Nat
  PROVE  /\ (d * (Power(r, n) - 1)) \div (r - 1) \in Nat
         /\ (d * (Power(r, 0) - 1)) \div (r - 1) = 0
         /\ (d * (Power(r, n + 1) - 1)) \div (r - 1)
              = (d * (Power(r, n) - 1)) \div (r - 1) + d * Power(r, n)
  <1> DEFINE S == {k \in Nat : \E q \in Nat : d * (Power(r, k) - 1) = (r - 1) * q}
  <1>1. ASSUME NEW q \in Nat, NEW m \in Nat \ {0} PROVE (m * q) \div m = q
    OBVIOUS
  <1>2. r - 1 \in Nat \ {0}
    OBVIOUS
  <1>3. ASSUME NEW p \in Nat, NEW q \in Nat, d * (p - 1) = (r - 1) * q
        PROVE  d * (r * p - 1) = (r - 1) * (q + d * p) /\ q + d * p \in Nat
    BY <1>3
  <1>4. d * (Power(r, 0) - 1) = (r - 1) * 0
    BY PowerIs
  <1>5. 0 \in S
    BY <1>4
  <1>6. ASSUME NEW k \in Nat, k \in S PROVE k + 1 \in S
    <2>1. PICK q \in Nat : d * (Power(r, k) - 1) = (r - 1) * q
      BY <1>6
    <2>2. Power(r, k) \in Nat /\ Power(r, k + 1) = r * Power(r, k)
      BY PowerIs
    <2> DEFINE t == q + d * Power(r, k)
    <2>3. t \in Nat /\ d * (Power(r, k + 1) - 1) = (r - 1) * t
      BY <1>3, <2>1, <2>2
    <2>4. k + 1 \in Nat
      OBVIOUS
    <2> HIDE DEF t
    <2> QED
      BY <2>3, <2>4
  <1>7. Nat \subseteq S
    BY <1>5, <1>6, AllNumbers
  <1>8. PICK q \in Nat : d * (Power(r, n) - 1) = (r - 1) * q
    BY <1>7
  <1>9. Power(r, n) \in Nat /\ Power(r, n + 1) = r * Power(r, n)
    BY PowerIs
  <1>10. d * (Power(r, n + 1) - 1) = (r - 1) * (q + d * Power(r, n)) /\ q + d * Power(r, n) \in Nat
    BY <1>3, <1>8, <1>9
  <1>11. (d * (Power(r, n + 1) - 1)) \div (r - 1) = q + d * Power(r, n)
    BY <1>1, <1>2, <1>10
  <1>12. (d * (Power(r, n) - 1)) \div (r - 1) = q
    BY <1>1, <1>2, <1>8
  <1>13. (d * (Power(r, 0) - 1)) \div (r - 1) = 0
    BY <1>1, <1>2, <1>4
  <1> QED
    BY <1>11, <1>12, <1>13

\* The settings of restarts that do not ramp, and of those that do.
Flat(s) == s.steps = 0 \/ s.delay = 0 \/ s.max \in {None, Infinity} \/ s.delay >= s.max

LEMMA RatioIs ==
  ASSUME NEW s, Whole(s), s.delay \in Nat, ~Flat(s)
  PROVE  /\ s.max \in Nat /\ s.delay \in Nat \ {0} /\ s.steps \in Nat \ {0}
         /\ Ratio(s) \in Nat /\ Ratio(s) > 1
         /\ s.delay * Power(Ratio(s), s.steps) = s.max
  <1>1. s.max \in Nat /\ s.delay \in 1 .. s.max - 1 /\ s.steps \in Nat \ {0}
    BY DEF Whole, Flat
  <1>2. PICK q \in 1 .. s.max : s.delay * Power(q, s.steps) = s.max
    BY <1>1 DEF Whole
  <1> DEFINE r == Ratio(s)
  <1>3. r \in 1 .. s.max /\ s.delay * Power(r, s.steps) = s.max
    BY <1>2 DEF Ratio
  <1> HIDE DEF r
  <1>4. r # 1
    <2> SUFFICES ASSUME r = 1 PROVE FALSE
      OBVIOUS
    <2> DEFINE S == {n \in Nat : Power(1, n) = 1}
    <2>1. 0 \in S
      BY PowerIs
    <2>2. ASSUME NEW n \in Nat, n \in S PROVE n + 1 \in S
      BY <2>2, PowerIs
    <2>3. Nat \subseteq S
      BY <2>1, <2>2, AllNumbers
    <2>4. Power(1, s.steps) = 1
      BY <1>1, <2>3
    <2> QED
      BY <1>1, <1>3, <2>4
  <1> QED
    BY <1>1, <1>3, <1>4 DEF r

\* Each restart adds its gap to what the restarts before it take.
LEMMA FlatSpan ==
  ASSUME NEW s, Whole(s), s.delay \in Nat, Flat(s), NEW n \in Nat
  PROVE  /\ RestartSpan(s, 0) = 0 /\ RestartSpan(s, n) \in Nat
         /\ RestartSpan(s, n + 1) = RestartSpan(s, n) + Gap(s, n + 1)
         /\ Gap(s, n + 1) = s.delay
  <1>1. Gap(s, n + 1) = s.delay
    BY DEF Gap, Flat, Whole
  <1>2. \A k : RestartSpan(s, k) = k * s.delay
    BY DEF RestartSpan, Flat
  <1>3. 0 * s.delay = 0 /\ n * s.delay \in Nat /\ (n + 1) * s.delay = n * s.delay + s.delay
    OBVIOUS
  <1> QED
    BY <1>1, <1>2, <1>3

LEMMA RampGaps ==
  ASSUME NEW s, Whole(s), s.delay \in Nat, ~Flat(s), NEW n \in Nat
  PROVE  /\ n < s.steps => Gap(s, n + 1) = s.delay * Power(Ratio(s), n)
         /\ n >= s.steps => Gap(s, n + 1) = s.max
  <1>1. /\ s.max \in Nat /\ s.delay \in Nat \ {0} /\ s.steps \in Nat \ {0}
    BY RatioIs
  <1>2. Gap(s, n + 1) = IF n + 1 > s.steps THEN s.max ELSE s.delay * Power(Ratio(s), (n + 1) - 1)
    BY <1>1 DEF Gap, Flat
  <1>3. (n + 1) - 1 = n /\ (n < s.steps <=> ~(n + 1 > s.steps))
    BY <1>1
  <1> QED
    BY <1>1, <1>2, <1>3

LEMMA TwoNumbers ==
  ASSUME NEW i \in Int, NEW j \in Int
  PROVE  /\ Min({i, j}) = IF i <= j THEN i ELSE j
         /\ Max({i, j}) = IF i <= j THEN j ELSE i
  BY DEF Min, Max

LEMMA RampSpan ==
  ASSUME NEW s, Whole(s), s.delay \in Nat, ~Flat(s), NEW n \in Nat
  PROVE  /\ RestartSpan(s, 0) = 0 /\ RestartSpan(s, n) \in Nat
         /\ RestartSpan(s, n + 1) = RestartSpan(s, n) + Gap(s, n + 1)
  <1> DEFINE r == Ratio(s)  N == s.steps  d == s.delay
             series(k) == (d * (Power(r, k) - 1)) \div (r - 1)
  <1>1. /\ s.max \in Nat /\ d \in Nat \ {0} /\ N \in Nat \ {0} /\ r \in Nat /\ r > 1
    BY RatioIs
  <1> HIDE DEF r, d
  <1>2. ASSUME NEW k \in Nat
        PROVE  /\ series(0) = 0 /\ series(k) \in Nat
               /\ series(k + 1) = series(k) + d * Power(r, k)
    BY <1>1, SeriesIs
  <1>3. ASSUME NEW k \in Nat
        PROVE  RestartSpan(s, k) = IF k <= N THEN series(k) ELSE series(N) + (k - N) * s.max
    <2>1. RestartSpan(s, k) = series(Min({k, N})) + Max({0, k - N}) * s.max
      BY DEF RestartSpan, Flat, r, d
    <2>2. Min({k, N}) = IF k <= N THEN k ELSE N
      BY <1>1, TwoNumbers
    <2>3. Max({0, k - N}) = IF 0 <= k - N THEN k - N ELSE 0
      <3>1. k - N \in Int /\ 0 \in Int
        BY <1>1
      <3> QED
        BY <3>1, TwoNumbers
    <2> HIDE DEF series, N
    <2>4. CASE k <= N
      <3>1. Max({0, k - N}) = 0
        BY <1>1, <2>3, <2>4
      <3>2. series(k) \in Nat /\ 0 * s.max = 0
        BY <1>1, <1>2
      <3> QED
        BY <2>1, <2>2, <2>4, <3>1, <3>2
    <2>5. CASE ~(k <= N)
      <3>1. Max({0, k - N}) = k - N
        BY <1>1, <2>3, <2>5
      <3> QED
        BY <2>1, <2>2, <2>5, <3>1
    <2> QED
      BY <2>4, <2>5
  <1>4. /\ n < N => Gap(s, n + 1) = d * Power(r, n)
        /\ n >= N => Gap(s, n + 1) = s.max
    BY RampGaps DEF r, d
  <1> HIDE DEF series, N
  <1>5. RestartSpan(s, 0) = 0
    BY <1>1, <1>2, <1>3
  <1>6. CASE n < N
    <2>1. n <= N /\ n + 1 <= N /\ n + 1 \in Nat
      BY <1>1, <1>6
    <2>2. RestartSpan(s, n) = series(n) /\ RestartSpan(s, n + 1) = series(n + 1)
      BY <1>3, <2>1
    <2> QED
      BY <1>2, <1>4, <1>5, <1>6, <2>2
  <1>7. CASE n >= N
    <2>1. RestartSpan(s, n) = series(N) + (n - N) * s.max
      <3>1. CASE n = N
        <4>1. (n - N) * s.max = 0 /\ series(N) \in Nat
          BY <1>1, <1>2, <3>1
        <4>2. RestartSpan(s, n) = series(N)
          BY <1>3, <3>1
        <4> QED
          BY <4>1, <4>2
      <3>2. CASE ~(n <= N)
        BY <1>3, <3>2
      <3> QED
        BY <1>1, <1>7, <3>1, <3>2
    <2>2. RestartSpan(s, n + 1) = series(N) + ((n + 1) - N) * s.max
      <3>1. n + 1 \in Nat /\ ~(n + 1 <= N)
        BY <1>1, <1>7
      <3> QED
        BY <1>3, <3>1
    <2>3. /\ ((n + 1) - N) * s.max = (n - N) * s.max + s.max
          /\ (n - N) * s.max \in Nat
      <3>1. n - N \in Nat /\ (n + 1) - N = (n - N) + 1
        BY <1>1, <1>7
      <3> QED
        BY <1>1, <3>1
    <2>4. series(N) \in Nat
      BY <1>1, <1>2
    <2> QED
      BY <1>1, <1>4, <1>5, <1>7, <2>1, <2>2, <2>3, <2>4
  <1> QED
    BY <1>1, <1>5, <1>6, <1>7

\* What restarts take, and that they do not get more frequent.
LEMMA SpanIs ==
  ASSUME NEW s, Whole(s), s.delay \in Nat, NEW n \in Nat
  PROVE  /\ RestartSpan(s, 0) = 0 /\ RestartSpan(s, n) \in Nat
         /\ RestartSpan(s, n + 1) = RestartSpan(s, n) + Gap(s, n + 1)
         /\ Gap(s, n + 1) \in Nat /\ Gap(s, n + 1) <= Gap(s, (n + 1) + 1)
  <1>1. CASE Flat(s)
    <2>1. ASSUME NEW k \in Nat PROVE Gap(s, k + 1) = s.delay
      BY <1>1, FlatSpan
    <2>2. n + 1 \in Nat
      OBVIOUS
    <2>3. Gap(s, n + 1) = s.delay /\ Gap(s, (n + 1) + 1) = s.delay
      BY <2>1, <2>2
    <2>4. s.delay <= s.delay
      OBVIOUS
    <2> QED
      BY <1>1, <2>3, <2>4, FlatSpan
  <1>2. CASE ~Flat(s)
    <2> DEFINE r == Ratio(s)  N == s.steps  d == s.delay
    <2>1. /\ s.max \in Nat /\ d \in Nat \ {0} /\ N \in Nat \ {0} /\ r \in Nat /\ r > 1
          /\ d * Power(r, N) = s.max
      BY <1>2, RatioIs
    <2>2. /\ n < N => Gap(s, n + 1) = d * Power(r, n)
          /\ n >= N => Gap(s, n + 1) = s.max
      BY <1>2, RampGaps
    <2>3. n + 1 \in Nat
      OBVIOUS
    <2>4. /\ n + 1 < N => Gap(s, (n + 1) + 1) = d * Power(r, n + 1)
          /\ n + 1 >= N => Gap(s, (n + 1) + 1) = s.max
      BY <1>2, <2>3, RampGaps
    <2> HIDE DEF r, N, d
    <2>5. Power(r, n) \in Nat /\ Power(r, n + 1) = r * Power(r, n)
      BY <2>1, PowerIs
    <2>6. d * Power(r, n) \in Nat /\ d * Power(r, n) <= d * (r * Power(r, n))
      <3> DEFINE p == Power(r, n)
      <3>1. p \in Nat
        BY <2>5
      <3> HIDE DEF p
      <3>2. p <= r * p /\ r * p \in Nat
        BY <2>1, <3>1
      <3>3. d * p <= d * (r * p) /\ d * p \in Nat
        BY <2>1, <3>1, <3>2
      <3> QED
        BY <3>3 DEF p
    <2>7. Gap(s, n + 1) \in Nat /\ Gap(s, n + 1) <= Gap(s, (n + 1) + 1)
      <3>1. CASE n + 1 < N
        BY <2>1, <2>2, <2>4, <2>5, <2>6, <3>1
      <3>2. CASE n + 1 = N
        BY <2>1, <2>2, <2>4, <2>5, <2>6, <3>2
      <3>3. CASE n >= N
        BY <2>1, <2>2, <2>4, <3>3
      <3> QED
        BY <2>1, <3>1, <3>2, <3>3
    <2> QED
      BY <1>2, <2>7, RampSpan
  <1> QED
    BY <1>1, <1>2

\* Later restarts are as far apart as the first, or farther.
LEMMA LaterIsSlower ==
  ASSUME NEW s, Whole(s), s.delay \in Nat, NEW j \in Nat, NEW n \in Nat
  PROVE  RestartSpan(s, j + n) - RestartSpan(s, j) >= RestartSpan(s, n)
  <1> DEFINE span(k) == RestartSpan(s, k)  gap(k) == Gap(s, k)
  <1>1. ASSUME NEW k \in Nat
        PROVE  /\ span(0) = 0 /\ span(k) \in Nat /\ span(k + 1) = span(k) + gap(k + 1)
               /\ gap(k + 1) \in Nat /\ gap(k + 1) <= gap((k + 1) + 1)
    BY SpanIs
  <1> HIDE DEF span, gap
  <1>2. ASSUME NEW k \in Nat, NEW i \in Nat PROVE gap(k + 1) <= gap((i + k) + 1)
    <2> DEFINE S == {m \in Nat : gap(k + 1) <= gap((m + k) + 1)}
    <2>1. 0 \in S
      <3>1. (0 + k) + 1 = k + 1
        OBVIOUS
      <3>2. gap((0 + k) + 1) = gap(k + 1) /\ gap(k + 1) \in Nat
        BY <1>1, <3>1
      <3> QED
        BY <3>2
    <2>2. ASSUME NEW m \in Nat, m \in S PROVE m + 1 \in S
      <3>1. m + k \in Nat /\ (m + 1) + k = (m + k) + 1
        OBVIOUS
      <3>2. gap((m + k) + 1) \in Nat /\ gap((m + k) + 1) <= gap(((m + k) + 1) + 1)
        BY <1>1, <3>1
      <3>3. (m + k) + 1 \in Nat
        BY <3>1
      <3>4. gap(k + 1) \in Nat /\ gap(((m + k) + 1) + 1) \in Nat
        BY <1>1, <3>3
      <3> QED
        BY <2>2, <3>1, <3>2, <3>4
    <2> QED
      BY <2>1, <2>2, AllNumbers
  <1> DEFINE S == {m \in Nat : span(j + m) - span(j) >= span(m)}
  <1>3. 0 \in S
    <2>1. j + 0 = j
      OBVIOUS
    <2> QED
      BY <1>1, <2>1
  <1>4. ASSUME NEW m \in Nat, m \in S PROVE m + 1 \in S
    <2>1. j + m \in Nat /\ j + (m + 1) = (j + m) + 1 /\ m + 1 \in Nat
      OBVIOUS
    <2>2. /\ span(j + (m + 1)) = span(j + m) + gap((j + m) + 1)
          /\ span(j + m) \in Nat /\ gap((j + m) + 1) \in Nat
      BY <1>1, <2>1
    <2>3. span(m + 1) = span(m) + gap(m + 1) /\ span(m) \in Nat /\ gap(m + 1) \in Nat
      BY <1>1
    <2>4. gap(m + 1) <= gap((j + m) + 1)
      BY <1>2
    <2>5. span(j) \in Nat /\ span(j + m) - span(j) >= span(m)
      BY <1>1, <1>4
    <2>6. span(j + (m + 1)) - span(j) >= span(m + 1)
      BY <2>2, <2>3, <2>4, <2>5
    <2> QED
      BY <2>1, <2>6
  <1>5. span(j + n) - span(j) >= span(n)
    BY <1>3, <1>4, AllNumbers
  <1> QED
    BY <1>5 DEF span

\* The next start, and the starts up to the n-th.
NextStart(s, last, i) ==
  LET at == last.at + Gap(s, i)
  IN IF last.opened + Interval(s) <= at
     THEN [at |-> at, opened |-> at, let |-> 1, refused |-> last.refused]
     ELSE [at |-> at, opened |-> last.opened, let |-> last.let + 1,
           refused |-> last.refused \/ last.let >= Burst(s)]

FirstStart == [at |-> 0, opened |-> 0, let |-> 1, refused |-> FALSE]

StartsTo(start, s, n) ==
  start = [i \in 0 .. n |-> IF i = 0 THEN FirstStart ELSE NextStart(s, start[i - 1], i)]

\* The starts are defined.
LEMMA StartsExist ==
  ASSUME NEW s, NEW k \in Nat
  PROVE  \E start : StartsTo(start, s, k)
  <1> DEFINE S == {n \in Nat : \E start : StartsTo(start, s, n)}
  <1>1. 0 \in S
    <2> DEFINE f == [i \in 0 .. 0 |-> FirstStart]
    <2>1. f = [i \in 0 .. 0 |-> IF i = 0 THEN FirstStart ELSE NextStart(s, f[i - 1], i)]
      OBVIOUS
    <2> QED
      BY <2>1 DEF StartsTo
  <1>2. ASSUME NEW n \in Nat, n \in S PROVE n + 1 \in S
    <2>1. PICK f :
            f = [i \in 0 .. n |-> IF i = 0 THEN FirstStart ELSE NextStart(s, f[i - 1], i)]
      BY <1>2 DEF StartsTo
    <2> DEFINE g == [i \in 0 .. n + 1 |-> IF i <= n THEN f[i] ELSE NextStart(s, f[n], i)]
               h == [i \in 0 .. n + 1 |->
                       IF i = 0 THEN FirstStart ELSE NextStart(s, g[i - 1], i)]
    <2>2. ASSUME NEW i \in 0 .. n + 1 PROVE g[i] = h[i]
      <3>1. CASE i = 0
        BY <2>1, <3>1
      <3>2. CASE i \in 1 .. n
        <4>1. i \in 0 .. n /\ i # 0 /\ i <= n /\ i - 1 \in 0 .. n + 1 /\ i - 1 <= n
          BY <3>2
        <4>2. g[i] = f[i] /\ g[i - 1] = f[i - 1]
          BY <4>1
        <4>3. f[i] = NextStart(s, f[i - 1], i)
          BY <2>1, <4>1
        <4>4. h[i] = NextStart(s, g[i - 1], i)
          BY <4>1
        <4> QED
          BY <4>2, <4>3, <4>4
      <3>3. CASE i = n + 1
        <4>1. i # 0 /\ ~(i <= n) /\ i - 1 = n /\ n \in 0 .. n + 1
          BY <3>3
        <4>2. g[n] = f[n] /\ g[i] = NextStart(s, f[n], i)
          BY <4>1
        <4>3. h[i] = NextStart(s, g[n], i)
          BY <4>1
        <4> QED
          BY <4>2, <4>3
      <3> QED
        BY <3>1, <3>2, <3>3
    <2>3. g = h
      BY <2>2
    <2>4. StartsTo(g, s, n + 1)
      BY <2>3 DEF StartsTo
    <2> QED
      BY <2>4
  <1> QED
    BY <1>1, <1>2, AllNumbers

\* One start after another.
LEMMA StartsAre ==
  ASSUME NEW s, NEW k \in Nat, NEW start, StartsTo(start, s, k)
  PROVE  /\ start[0] = FirstStart
         /\ \A i \in Nat : i + 1 <= k => start[i + 1] = NextStart(s, start[i], i + 1)
  <1>1. start = [i \in 0 .. k |-> IF i = 0 THEN FirstStart ELSE NextStart(s, start[i - 1], i)]
    BY DEF StartsTo
  <1>2. start[0] = FirstStart
    BY <1>1
  <1>3. ASSUME NEW i \in Nat, i + 1 <= k PROVE start[i + 1] = NextStart(s, start[i], i + 1)
    <2>1. i + 1 \in 0 .. k /\ i + 1 # 0 /\ (i + 1) - 1 = i
      BY <1>3
    <2> QED
      BY <1>1, <2>1
  <1> QED
    BY <1>2, <1>3

\* A start and the one before.
LEMMA NextIs ==
  ASSUME NEW s, NEW last, NEW i
  PROVE  /\ NextStart(s, last, i).at = last.at + Gap(s, i)
         /\ last.opened + Interval(s) <= last.at + Gap(s, i) =>
              /\ NextStart(s, last, i).opened = last.at + Gap(s, i)
              /\ NextStart(s, last, i).let = 1
              /\ NextStart(s, last, i).refused = last.refused
         /\ ~(last.opened + Interval(s) <= last.at + Gap(s, i)) =>
              /\ NextStart(s, last, i).opened = last.opened
              /\ NextStart(s, last, i).let = last.let + 1
              /\ NextStart(s, last, i).refused = (last.refused \/ last.let >= Burst(s))
  BY DEF NextStart

\* systemd refuses one of enough starts if and only if the burst's restarts fit into
\* the window.
LEMMA RefusedIfWithin ==
  ASSUME NEW s, Whole(s), s.delay \in Nat, NEW W \in Nat \ {0}, NEW B \in Nat \ {0},
         Interval(s) = W, Burst(s) = B
  PROVE  Starts(s).refused <=> RestartSpan(s, B) < W
  <1> DEFINE K == 2 * B + s.steps + 1
             start == CHOOSE f : StartsTo(f, s, K)
             span(k) == RestartSpan(s, k)
             gap(k) == Gap(s, k)
  <1>1. s.steps \in Nat /\ K \in Nat /\ B <= K
    BY DEF Whole
  <1>2. Starts(s) = start[K]
    BY DEF Starts, StartsTo, NextStart, FirstStart
  <1> HIDE DEF K
  <1>3. StartsTo(start, s, K)
    BY <1>1, StartsExist
  <1> HIDE DEF start
  <1>4. start[0] = FirstStart
    BY <1>1, <1>3, StartsAre
  <1>5. ASSUME NEW i \in Nat, i + 1 <= K
        PROVE  LET last == start[i] next == start[i + 1] at == last.at + gap(i + 1) IN
               /\ next.at = at
               /\ last.opened + W <= at =>
                    next.opened = at /\ next.let = 1 /\ next.refused = last.refused
               /\ ~(last.opened + W <= at) =>
                    /\ next.opened = last.opened /\ next.let = last.let + 1
                    /\ next.refused = (last.refused \/ last.let >= B)
    <2>1. start[i + 1] = NextStart(s, start[i], i + 1)
      BY <1>1, <1>3, <1>5, StartsAre
    <2> QED
      BY <2>1, NextIs
  <1>6. ASSUME NEW k \in Nat
        PROVE  /\ span(0) = 0 /\ span(k) \in Nat /\ span(k + 1) = span(k) + gap(k + 1)
               /\ gap(k + 1) \in Nat
    BY SpanIs
  <1>7. ASSUME NEW j \in Nat, NEW k \in Nat PROVE span(j + k) - span(j) >= span(k)
    BY LaterIsSlower
  <1> HIDE DEF span, gap
  <1>8. ASSUME span(B) >= W PROVE ~start[K].refused
    <2> DEFINE Fine(i) ==
                 LET x == start[i] IN
                 /\ x.at = span(i) /\ x.let \in 1 .. B /\ x.let <= i + 1
                 /\ x.opened = span((i + 1) - x.let) /\ ~x.refused
               S == {i \in Nat : i <= K => Fine(i)}
    <2>1. Fine(0)
      <3>1. (0 + 1) - 1 = 0 /\ 1 \in 1 .. B
        OBVIOUS
      <3>2. /\ start[0].at = 0 /\ start[0].let = 1 /\ start[0].opened = 0
            /\ start[0].refused = FALSE
        BY <1>4 DEF FirstStart
      <3>3. span((0 + 1) - 1) = 0 /\ span(0) = 0
        BY <1>6, <3>1
      <3> QED
        BY <3>1, <3>2, <3>3
    <2>2. ASSUME NEW i \in Nat, i + 1 <= K, Fine(i) PROVE Fine(i + 1)
      <3> DEFINE x == start[i]  y == start[i + 1]  l == x.let  j == (i + 1) - l
      <3>1. /\ x.at = span(i) /\ l \in 1 .. B /\ l <= i + 1 /\ x.opened = span(j)
            /\ ~x.refused
        BY <2>2
      <3>2. y.at = span(i + 1) /\ span(i + 1) \in Nat
        BY <1>5, <1>6, <2>2, <3>1
      <3>3. /\ span(j) + W <= span(i + 1) =>
                 y.opened = span(i + 1) /\ y.let = 1 /\ y.refused = x.refused
            /\ ~(span(j) + W <= span(i + 1)) =>
                 /\ y.opened = span(j) /\ y.let = l + 1
                 /\ y.refused = (x.refused \/ l >= B)
        <4>1. x.at + gap(i + 1) = span(i + 1)
          BY <1>6, <3>1
        <4> QED
          BY <1>5, <2>2, <3>1, <4>1
      <3> HIDE DEF x, y
      <3>4. CASE span(j) + W <= span(i + 1)
        <4>1. ((i + 1) + 1) - 1 = i + 1 /\ 1 \in 1 .. B /\ 1 <= (i + 1) + 1
          OBVIOUS
        <4>2. y.opened = span(((i + 1) + 1) - y.let)
          BY <3>3, <3>4, <4>1
        <4>3. y.let \in 1 .. B /\ y.let <= (i + 1) + 1 /\ ~y.refused
          BY <3>1, <3>3, <3>4, <4>1
        <4> QED
          BY <3>2, <4>2, <4>3 DEF y
      <3>5. CASE ~(span(j) + W <= span(i + 1))
        <4>1. j \in Nat /\ j + l = i + 1 /\ l \in Nat
          BY <3>1
        <4>2. l # B
          <5> SUFFICES ASSUME l = B PROVE FALSE
            OBVIOUS
          <5>1. span(j + B) - span(j) >= span(B)
            BY <1>7, <4>1
          <5>2. span(j + B) = span(i + 1) /\ span(j) \in Nat /\ span(B) \in Nat
            BY <1>6, <4>1
          <5> HIDE DEF j, l
          <5> QED
            BY <1>8, <3>2, <3>5, <5>1, <5>2
        <4>3. ((i + 1) + 1) - (l + 1) = j
          BY <3>1
        <4>4. y.opened = span(((i + 1) + 1) - y.let)
          <5> HIDE DEF j
          <5> QED
            BY <3>3, <3>5, <4>3
        <4>5. y.let \in 1 .. B /\ y.let <= (i + 1) + 1
          <5>1. y.let = l + 1
            BY <3>3, <3>5
          <5> HIDE DEF j, l
          <5> QED
            BY <3>1, <4>2, <5>1
        <4>6. ~y.refused
          <5>1. ~(l >= B)
            <6> HIDE DEF l
            <6> QED
              BY <3>1, <4>2
          <5>2. y.refused = (x.refused \/ l >= B) /\ ~x.refused
            BY <3>1, <3>3, <3>5
          <5> QED
            BY <5>1, <5>2, Zenon
        <4> QED
          BY <3>2, <4>4, <4>5, <4>6 DEF y
      <3> QED
        BY <3>4, <3>5
    <2> HIDE DEF Fine
    <2>3. 0 \in S
      BY <2>1
    <2>4. ASSUME NEW i \in Nat, i \in S PROVE i + 1 \in S
      <3> SUFFICES ASSUME i + 1 <= K PROVE Fine(i + 1)
        OBVIOUS
      <3>1. Fine(i)
        BY <1>1, <2>4
      <3> QED
        BY <2>2, <3>1
    <2>5. Nat \subseteq S
      BY <2>3, <2>4, AllNumbers
    <2>6. Fine(K)
      BY <1>1, <2>5
    <2> QED
      BY <2>6 DEF Fine
  <1>9. ASSUME span(B) < W PROVE start[K].refused
    <2> DEFINE Filling(i) ==
                 LET x == start[i] IN
                 /\ i < B => x.at = span(i) /\ x.let = i + 1 /\ x.opened = 0
                 /\ i >= B => x.refused = TRUE
               S == {i \in Nat : i <= K => Filling(i)}
    <2>1. ASSUME NEW i \in Nat, i <= B PROVE span(i) < W
      <3>1. B - i \in Nat /\ i + (B - i) = B
        BY <2>1
      <3>2. span(i + (B - i)) - span(i) >= span(B - i)
        BY <1>7, <3>1
      <3>3. span(B - i) \in Nat /\ span(i) \in Nat /\ span(B) \in Nat
        BY <1>6, <3>1
      <3>4. span(B) - span(i) >= span(B - i)
        BY <3>1, <3>2
      <3> QED
        BY <1>9, <3>3, <3>4
    <2>2. Filling(0)
      <3>1. span(0) = 0
        BY <1>6
      <3> QED
        BY <1>4, <3>1 DEF FirstStart
    <2>3. ASSUME NEW i \in Nat, i + 1 <= K, Filling(i) PROVE Filling(i + 1)
      <3> DEFINE x == start[i]  y == start[i + 1]
      <3>1. CASE i < B
        <4>1. x.at = span(i) /\ x.let = i + 1 /\ x.opened = 0
          BY <2>3, <3>1
        <4>2. x.at + gap(i + 1) = span(i + 1)
          BY <1>6, <4>1
        <4>3. span(i + 1) < W /\ span(i + 1) \in Nat
          BY <1>6, <2>1, <3>1
        <4>4. ~(x.opened + W <= x.at + gap(i + 1))
          BY <4>1, <4>2, <4>3
        <4>5. /\ y.at = x.at + gap(i + 1) /\ y.opened = x.opened /\ y.let = x.let + 1
              /\ y.refused = (x.refused \/ x.let >= B)
          BY <1>5, <2>3, <4>4
        <4> HIDE DEF x, y
        <4>6. y.at = span(i + 1) /\ y.let = (i + 1) + 1 /\ y.opened = 0
          BY <4>1, <4>2, <4>5
        <4>7. i + 1 >= B => y.refused = TRUE
          BY <4>1, <4>5
        <4> QED
          BY <4>6, <4>7 DEF y
      <3>2. CASE i >= B
        <4>1. x.refused = TRUE
          BY <2>3, <3>2
        <4>2. y.refused = x.refused \/ y.refused = (x.refused \/ x.let >= B)
          BY <1>5, <2>3
        <4>3. ~(i + 1 < B)
          BY <3>2
        <4>4. y.refused = TRUE
          BY <4>1, <4>2, Zenon
        <4> QED
          BY <4>3, <4>4
      <3>3. i < B \/ i >= B
        OBVIOUS
      <3> HIDE DEF Filling
      <3> QED
        BY <3>1, <3>2, <3>3
    <2> HIDE DEF Filling
    <2>4. 0 \in S
      BY <2>2
    <2>5. ASSUME NEW i \in Nat, i \in S PROVE i + 1 \in S
      <3> SUFFICES ASSUME i + 1 <= K PROVE Filling(i + 1)
        OBVIOUS
      <3>1. Filling(i)
        BY <1>1, <2>5
      <3> QED
        BY <2>3, <3>1
    <2>6. Nat \subseteq S
      BY <2>4, <2>5, AllNumbers
    <2>7. Filling(K)
      BY <1>1, <2>6
    <2> QED
      BY <1>1, <2>7 DEF Filling
  <1>10. span(B) \in Nat
    BY <1>6
  <1> QED
    BY <1>2, <1>8, <1>9, <1>10 DEF span

\* A unit that fails at every start comes to rest as failed, unless lint reports
\* service/restart-flap or the start limit is off: the closed form of restartSpan is
\* right about systemd's windows for every delay, ramp, interval and burst.
THEOREM FlapsAreCaught == Spec => []FlapsCaught
  <1>1. ASSUME IInv PROVE FlapsCaught
    <2> SUFFICES ASSUME NEW u \in units, u.settings # None, u.settings.restart = "always",
                        ~IsOneshot(u), u.settings.delay \notin {None, Infinity},
                        Interval(u.settings) \notin {0, Infinity}, Burst(u.settings) # 0
                 PROVE  (RestartFindings(u) = {"service/restart-flap"})
                          = ~Starts(u.settings).refused
      BY DEF FlapsCaught
    <2> DEFINE s == u.settings  W == Interval(s)  B == Burst(s)
    <2>1. Whole(s)
      BY <1>1 DEF IInv, Sound
    <2>2. s.delay \in Nat /\ W \in Nat \ {0} /\ B \in Nat \ {0}
      BY <2>1 DEF Whole, Interval, Burst
    <2>3. RestartFindings(u) = IF RestartFlaps(s) THEN {"service/restart-flap"} ELSE {}
      BY RestartAssumption DEF RestartFindings, RestartAssumption
    <2>4. RestartFlaps(s) <=> RestartSpan(s, B) >= W
      BY DEF RestartFlaps
    <2>5. Starts(s).refused <=> RestartSpan(s, B) < W
      BY <2>1, <2>2, RefusedIfWithin
    <2>6. RestartSpan(s, B) \in Nat
      BY <2>1, <2>2, SpanIs
    <2> HIDE DEF s, W, B
    <2> DEFINE reported == RestartFindings(u) = {"service/restart-flap"}
               starts == Starts(s)
    <2>7. reported <=> RestartFlaps(s)
      BY <2>3
    <2>8. reported <=> ~starts.refused
      <3> HIDE DEF reported
      <3> QED
        BY <2>2, <2>4, <2>5, <2>6, <2>7
    <2>9. reported = ~starts.refused
      <3>1. reported \in BOOLEAN
        OBVIOUS
      <3> HIDE DEF reported, starts
      <3> QED
        BY <2>8, <3>1, Zenon
    <2> QED
      BY <2>9 DEF s
  <1> QED
    BY UnitsAreSound, <1>1, PTL
=============================================================================
