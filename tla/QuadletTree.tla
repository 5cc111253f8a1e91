----------------------------- MODULE QuadletTree -----------------------------
(***************************************************************************)
(* The quadlet directory as a tree of files, and the operations that       *)
(* internal/reconcile performs on it: what a plan finds, what removing and *)
(* writing a path do to the tree, and what pruning leaves.                 *)
(*                                                                         *)
(* A path is an opaque value, slash-separated and relative to the quadlet  *)
(* directory in the code.  Inside holds the pairs <<a, p>> such that p     *)
(* lies below the directory a.  The quadlet directory itself is not a      *)
(* path: it exists throughout.                                             *)
(***************************************************************************)
EXTENDS Naturals

CONSTANTS
  Paths,        \* every path of the directory that the model knows
  Inside,       \* the pairs <<a, p>>: p lies below a
  Units,        \* the top-level paths with a quadlet extension
  ImagesDir,    \* images/
  Temps,        \* the names os.CreateTemp can draw (.crei-*.tmp)
  Rank,         \* the order sort.Strings gives the paths
  Contents,     \* the contents a rendered file can have
  Partial,      \* the content of a file whose write is not complete
  NoContent,    \* the content field of a node that is not a regular file
  Modes,        \* permission bits
  DefaultMode,  \* 0o644
  AnyMode       \* the empty mode of a DesiredFile: permissions unmanaged

Anc(p) == {a \in Paths : <<a, p>> \in Inside}

\* The paths of the images/ subtree.
Artifacts == {p \in Paths : <<ImagesDir, p>> \in Inside}

\* a is the directory that holds p.
IsParent(a, p) == a \in Anc(p) /\ \A b \in Anc(p) : b = a \/ b \in Anc(a)

Siblings(p) == {q \in Paths : Anc(q) = Anc(p)}

ASSUME PathsAssumption ==
  /\ Inside \subseteq Paths \X Paths
  /\ \A a, b, c \in Paths :
       <<a, b>> \in Inside /\ <<b, c>> \in Inside => <<a, c>> \in Inside
  /\ \A p \in Paths : <<p, p>> \notin Inside
  /\ \A p \in Paths : \A a, b \in Anc(p) : a = b \/ a \in Anc(b) \/ b \in Anc(a)

ASSUME NamesAssumption ==
  /\ ImagesDir \in Paths /\ Anc(ImagesDir) = {}
  /\ Units \subseteq Paths /\ \A u \in Units : Anc(u) = {}
  /\ ImagesDir \notin Units
  /\ Temps \subseteq Paths /\ Temps \cap (Units \cup {ImagesDir}) = {}
  /\ \A p \in Paths : Anc(p) \cap Temps = {}
  /\ Rank \in [Paths -> Nat]
  /\ \A p, q \in Paths : Rank[p] = Rank[q] => p = q

ASSUME ValuesAssumption ==
  /\ Partial \notin Contents /\ NoContent \notin Contents /\ Partial # NoContent
  /\ DefaultMode \in Modes /\ AnyMode \notin Modes

-----------------------------------------------------------------------------
(* What a path may hold.  A Link is a symlink to a regular file outside     *)
(* the directory: os.Lstat sees a link, os.Stat a file that is no directory.*)

Absent == [kind |-> "absent", content |-> NoContent, mode |-> DefaultMode]
Dir    == [kind |-> "dir",    content |-> NoContent, mode |-> DefaultMode]
Link   == [kind |-> "link",   content |-> NoContent, mode |-> DefaultMode]
File(c, m) == [kind |-> "file", content |-> c, mode |-> m]

Files == {File(c, m) : c \in Contents \cup {Partial}, m \in Modes}
Nodes == {Absent, Dir, Link} \cup Files

IsFile(disk, p) == disk[p].kind = "file"

\* Everything that exists lies in directories that exist.
TreeOK(disk) ==
  /\ disk \in [Paths -> Nodes]
  /\ \A p \in Paths : disk[p] # Absent => \A a \in Anc(p) : disk[a] = Dir

\* Mutant: a directory is removed and its content left.
RemoveEntry(disk, p) == [q \in Paths |-> IF q = p THEN Absent ELSE disk[q]]

\* os.RemoveAll: the path and everything below it.
RemoveAll(disk, p) ==
  [q \in Paths |-> IF q = p \/ p \in Anc(q) THEN Absent ELSE disk[q]]

\* os.RemoveAll fails with ENOTDIR when a file stands where one of the path's
\* directories should be.
RemoveFails(disk, p) == \E a \in Anc(p) : disk[a].kind \in {"file", "link"}

-----------------------------------------------------------------------------
(* The desired files: a goal maps each rendered path to its content and     *)
(* mode.                                                                    *)

Desired == [content : Contents, mode : Modes \cup {AnyMode}]
Goals == UNION {[S -> Desired] : S \in SUBSET (Units \cup Artifacts)}

\* No desired file is the directory of another one.
PrefixFree(goal) == \A p, q \in DOMAIN goal : p \notin Anc(q)

\* Mutant: the mode of a rewritten file is not applied.
DefaultPerm(goal, p) == DefaultMode

Perm(goal, p) == IF goal[p].mode = AnyMode THEN DefaultMode ELSE goal[p].mode

Rendered(goal, p) == File(goal[p].content, Perm(goal, p))

\* ComputePlan calls the path unchanged: a regular file with the desired
\* content and, where the goal sets a mode, that mode.
InSync(disk, goal, p) ==
  /\ IsFile(disk, p)
  /\ disk[p].content = goal[p].content
  /\ goal[p].mode \in {AnyMode, disk[p].mode}

\* The managed files on disk: unit files and every regular file below images/.
ListExisting(disk) == {p \in Units \cup Artifacts : IsFile(disk, p)}

Puts(disk, goal) == {p \in DOMAIN goal : ~InSync(disk, goal, p)}

Dels(disk, goal) == ListExisting(disk) \ DOMAIN goal

Synced(disk, goal) == Puts(disk, goal) = {} /\ Dels(disk, goal) = {}

-----------------------------------------------------------------------------
(* Writing a path.                                                          *)

\* ensureDir stats the parent directory.  A file further up makes os.Stat
\* fail with ENOTDIR, which os.IsNotExist does not match.
EnsureDirFails(disk, p) ==
  \E a \in Anc(p) : ~IsParent(a, p) /\ disk[a].kind \in {"file", "link"}

\* ensureDir: missing directories are made, and a file in the parent's place
\* gives way to a directory.
EnsureDir(disk, p) == [q \in Paths |-> IF q \in Anc(p) THEN Dir ELSE disk[q]]

\* Mutant: a directory at the path is left for the rename to replace.
NoRoom(disk, p) == EnsureDir(disk, p)

\* WriteFile first makes room: a directory or a link at the path is removed.
MakeRoom(disk, p) ==
  LET made == EnsureDir(disk, p)
  IN IF made[p].kind \in {"dir", "link"} THEN RemoveAll(made, p) ELSE made

\* Mutant: the content is written to the target itself.
InPlace(disk, p) == {p}

\* The fresh names os.CreateTemp can draw in the directory that holds p.
FreeTemps(disk, p) == {t \in Temps \cap Siblings(p) : disk[t] = Absent}

DirExists(disk, p) == \A a \in Anc(p) : disk[a] = Dir

\* os.Rename of t over p.
Rename(disk, t, p) == [disk EXCEPT ![p] = disk[t], ![t] = Absent]

\* Mutant: a directory is pruned without looking into it.
PruneAnyDirs(disk) ==
  [p \in Paths |->
     IF p \in Artifacts /\ (disk[p] = Dir \/ \E a \in Anc(p) : a # ImagesDir)
     THEN Absent ELSE disk[p]]

\* PruneEmptyDirs(images/): bottom-up, a directory below images/ with nothing
\* in it is removed, images/ itself never.
PruneEmptyDirs(disk) ==
  [p \in Paths |->
     IF /\ p \in Artifacts /\ disk[p] = Dir
        /\ \A q \in Paths : p \in Anc(q) => disk[q] \in {Absent, Dir}
     THEN Absent ELSE disk[p]]
=============================================================================
