------------------------------- MODULE MCApply -------------------------------
(***************************************************************************)
(* A small quadlet directory for TLC: one unit file, one flat file without *)
(* a quadlet extension, and images/ with a path that is a file, a link or  *)
(* a directory holding one more file.                                      *)
(***************************************************************************)
EXTENDS Apply, FiniteSets

CONSTANTS s1, s2, c1, c2, m644, m755

app    == "app.container"
notes  == "notes"
images == "images"
x      == "images/x"
xf     == "images/x/f"
top    == ".crei-1.tmp"
top2   == ".crei-2.tmp"
tmp    == "images/.crei-1.tmp"
xtmp   == "images/x/.crei-1.tmp"

MCPaths == {app, notes, images, x, xf, top, top2, tmp, xtmp}
MCInside == ({images} \X {x, xf, tmp, xtmp}) \cup ({x} \X {xf, xtmp})
MCTemps == {top, top2, tmp, xtmp}
MCRank == [p \in MCPaths |->
  CASE p = top -> 0 [] p = top2 -> 1 [] p = app -> 2 [] p = images -> 3
    [] p = tmp -> 4 [] p = x -> 5 [] p = xtmp -> 6 [] p = xf -> 7 [] p = notes -> 8]

MCPermutations == {[s \in {s1, s2} |-> s], [s \in {s1, s2} |-> IF s = s1 THEN s2 ELSE s1]}

-----------------------------------------------------------------------------
Want(c, m) == [content |-> c, mode |-> m]

\* Goals the project moves between: the unit alone, a file images/x with a
\* mode, a directory images/x with a file, and one file below another.
UnitOnly == [p \in {app} |-> Want(c1, AnyMode)]
WithFile == [p \in {app, x} |-> IF p = app THEN Want(c2, AnyMode) ELSE Want(c1, m755)]
WithDir == [p \in {app, xf} |-> IF p = app THEN Want(c1, AnyMode) ELSE Want(c2, m644)]
Nested == [p \in {x, xf} |-> Want(c1, AnyMode)]

AllProjects == {UnitOnly, WithFile, WithDir, Nested}
FileOrDir == {WithFile, WithDir}
SoundProjects == {UnitOnly, WithFile, WithDir}

-----------------------------------------------------------------------------
\* The trees with these choices for each path.
TreesOf(choice) ==
  {d \in [MCPaths -> UNION {choice[p] : p \in DOMAIN choice} \cup {Absent}] :
     /\ \A p \in MCPaths : d[p] \in (IF p \in DOMAIN choice THEN choice[p] ELSE {Absent})
     /\ TreeOK(d)}

FileNodes == {File(c, m) : c \in {c1, c2}, m \in {m644, m755}}
Few == {Absent, File(c1, m644), File(c2, m755), Link, Dir}

\* What the user or another program may leave at a path.
SomeMeddling == {Absent, Dir, File(c2, m644)}

AnyTree == TreesOf([p \in {app, notes, images, x, xf} |->
  CASE p = app -> {Absent, File(c1, m644), Dir} [] p = notes -> {Absent, Link}
    [] OTHER -> Few])

FewTrees == TreesOf([p \in {app, images, x, xf} |->
  CASE p = app -> {Absent, File(c1, m644)}
    [] p = images -> {Absent, Dir}
    [] OTHER -> {Absent, File(c1, m755), Dir}])

\* A stale artifact that other goals replace by a directory, and the reverse.
TwoTrees == TreesOf([p \in {app, images, x, xf} |->
  CASE p = app -> {Absent}
    [] p = images -> {Dir}
    [] p = x -> {File(c1, m755), Dir}
    [] OTHER -> {Absent, File(c2, m644)}])

\* What an earlier apply of UnitOnly left.
DeployedTree == TreesOf([p \in {app} |-> {File(c1, m644)}])
DeployedRecord == {UnitOnly}
AnyRecord == AllProjects \cup {NoRecord}
NoRecordYet == {NoRecord}
=============================================================================
