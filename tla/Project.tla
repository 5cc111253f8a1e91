-------------------------------- MODULE Project --------------------------------
(***************************************************************************)
(* A CUE project as crei evaluates it (internal/eval) and renders it       *)
(* (internal/render): the checks that refuse it, the assets and build      *)
(* hashes that are worked into its units, and the files it comes to.       *)
(*                                                                         *)
(* A project is the set of its units.  value is the CUE value that is the  *)
(* unit's quadlet and quadlet that quadlet's name.  References to files    *)
(* and tags, directives and targets are names; what evaluation otherwise   *)
(* makes of the text is left out.  valid: the schema accepts the unit;     *)
(* name: its name for podman, the one podman gives it by default included. *)
(***************************************************************************)
EXTENDS Naturals, FiniteSets, TLC

CONSTANTS
  None,     \* an optional field that is not set
  Matches,  \* the files each asset glob finds: pairs of destination and asset
  AssetKey, \* the context key each asset glob is written under
  Clean     \* the path a context key comes to below the context, None outside

\* What the records below have in common; the fields of a kind are empty in others.
Plain ==
  [service |-> None, deps |-> {}, image |-> None, pod |-> None, networks |-> {},
   volumes |-> {}, defaults |-> TRUE, inputs |-> None, tags |-> {}, assets |-> {},
   context |-> {}, stamp |-> None, name |-> None, infra |-> None, pair |-> FALSE,
   routers |-> {}, settings |-> None, valid |-> TRUE]

Builds(units) == {u \in units : u.kind = "build"}
Files(units)  == {u.file : u \in units}

-----------------------------------------------------------------------------
(* What LoadAndValidate refuses.                                            *)

UniqueQuadletNames(units) ==
  \A u, v \in units : u.quadlet = v.quadlet => u.value = v.value

UniqueFilenames(units) == \A u, v \in units : u.file = v.file => u = v

UniqueServices(units) ==
  \A u, v \in units : u.service = v.service => u = v \/ u.service = None

\* A glob that finds nothing, or a file that lands on another entry of the context, which
\* may be an asset: keys are expanded in order, and a file sorts after its own.
AssetsExpand(u) ==
  LET found == UNION {Matches[g] : g \in u.assets} IN
  /\ \A g \in u.assets : Matches[g] # {}
  /\ \A f, g \in u.assets : \A x \in Matches[f], y \in Matches[g] : x[1] = y[1] => f = g
  /\ \A x \in found : \A e \in u.context : e[1] # x[1]
  /\ \A f, g \in u.assets : \A x \in Matches[f] : x[1] = AssetKey[g] => f = g

\* A tag names one build.
OneBuilder(units) ==
  \A b, c \in Builds(units) : b.tags \cap c.tags # {} => b = c

\* What only the renderer refuses: a context entry outside the context, and two
\* for one file.
ContextFits(u) ==
  /\ \A e \in u.context : Clean[e[1]] # None
  /\ \A e, f \in u.context : Clean[e[1]] = Clean[f[1]] => e = f

-----------------------------------------------------------------------------
(* Assets and build hashes.                                                 *)

\* contents: the contents of the asset files.
ExpandAssets(u, contents) ==
  LET found == UNION {Matches[g] : g \in u.assets}
  IN [u EXCEPT !.assets = {}, !.context = @ \cup {<<x[1], contents[x[2]]>> : x \in found}]

\* The hash of a build is all of its data.
HashData(b) == b

\* Mutant: consumers are found by the file name alone.
ByFile(units, c) == {b \in Builds(units) : c.image = b.file}

\* The builds whose image a container consumes, by file name or by tag.
BuildersOf(units, c) == {b \in Builds(units) : c.image \in {b.file} \cup b.tags}

\* Mutant: the order alone is added.
OrderAlone(c, b) ==
  IF c.image \in b.tags /\ b.service \notin {None, c.service}
  THEN {"After"} \X {b.service} ELSE {}

\* Quadlet knows nothing of tags: crei adds the dependency itself.
TagDeps(c, b) ==
  IF c.image \in b.tags /\ b.service \notin {None, c.service}
  THEN {"After", "Requires"} \X {b.service} ELSE {}

\* A file name that is the tag of another build too leads to the hash of either.
Stamp(units, u) ==
  CASE u.kind = "build" -> [u EXCEPT !.stamp = HashData(u)]
    [] u.kind = "container" /\ BuildersOf(units, u) # {} ->
         LET builders == BuildersOf(units, u)
         IN [u EXCEPT !.stamp = HashData(CHOOSE b \in builders : TRUE),
                      !.deps = @ \cup UNION {TagDeps(u, b) : b \in builders}]
    [] OTHER -> u

InjectBuildHashes(units) == {Stamp(units, u) : u \in units}

\* What every command works with.
Evaluate(units, contents) == InjectBuildHashes({ExpandAssets(u, contents) : u \in units})

LoadFails(units) ==
  \/ units = {} \/ (\E u \in units : ~u.valid) \/ ~UniqueQuadletNames(units) \/ ~UniqueFilenames(units)
  \/ ~UniqueServices(units) \/ ~OneBuilder(units)
  \/ \E u \in Builds(units) : ~AssetsExpand(u)

-----------------------------------------------------------------------------
(* The files of the loaded units: a unit's own, its Containerfile and its   *)
(* context.  A unit file says everything but the contents of those.         *)

UnitFile(u) == [u EXCEPT !.inputs = None, !.context = {}]

RenderFails(loaded) == \E u \in Builds(loaded) : ~ContextFits(u)

BuildFileSet(loaded) ==
  LET artifacts == {<<u.stem, "Containerfile", u.inputs>> : u \in Builds(loaded)}
        \cup UNION {{<<u.stem, Clean[e[1]], e[2]>> : e \in u.context} : u \in Builds(loaded)}
  IN {<<u.file, UnitFile(u)>> : u \in loaded} \cup artifacts

\* The quadlets named on a command line, all if none is.
FilterQuadlets(loaded, only) ==
  IF only = {} THEN loaded ELSE {u \in loaded : u.quadlet \in only}
=============================================================================
