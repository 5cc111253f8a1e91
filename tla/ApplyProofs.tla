----------------------------- MODULE ApplyProofs -----------------------------
(***************************************************************************)
(* Apply, for every directory layout, every set of goals and any number of *)
(* sessions, failures and crashes: the types, that no file is seen         *)
(* half-written, that a successful apply has reached its goal, and that    *)
(* apply implements Reconcile.                                             *)
(***************************************************************************)
EXTENDS Apply, TLAPS

-----------------------------------------------------------------------------
(* What the operations on the quadlet directory preserve: the shape of the  *)
(* tree, the files that are as desired, and the bound on what is listed.    *)

\* A node is a regular file or one of three constants, told apart by kind.
LEMMA NodeKinds ==
  /\ {Absent, Dir, Link} \subseteq Nodes
  /\ \A n \in Nodes :
       /\ n.kind = "absent" <=> n = Absent
       /\ n.kind = "dir" <=> n = Dir
       /\ n.kind = "link" <=> n = Link
       /\ n.kind = "file" <=> n \in Files
       /\ n.kind = "file" => /\ n.content \in Contents \cup {Partial}
                            /\ n.mode \in Modes
                            /\ n = File(n.content, n.mode)
       /\ n.kind # "file" => n.content = NoContent
  BY DEF Nodes, Files, File, Absent, Dir, Link

\* Below a path that is no directory there is nothing.
LEMMA NothingBelow ==
  ASSUME NEW tree, TreeOK(tree), NEW p \in Paths, NEW q \in Paths,
         tree[q] # Absent, p \in Anc(q)
  PROVE  tree[p] = Dir
  BY DEF TreeOK

\* An ancestor of an ancestor is an ancestor.
LEMMA AncTransitive ==
  ASSUME NEW a \in Paths, NEW b \in Paths, NEW c \in Paths, a \in Anc(b), b \in Anc(c)
  PROVE  a \in Anc(c) /\ a # b /\ a # c
  BY PathsAssumption DEF Anc

-----------------------------------------------------------------------------
(* The shape of the tree.                                                   *)

\* os.RemoveAll leaves a tree.
LEMMA RemoveAllTree ==
  ASSUME NEW tree, TreeOK(tree), NEW p \in Paths
  PROVE  TreeOK(RemoveAll(tree, p))
  <1> DEFINE new == RemoveAll(tree, p)
  <1>1. new \in [Paths -> Nodes]
    BY NodeKinds DEF RemoveAll, TreeOK
  <1>2. ASSUME NEW q \in Paths, new[q] # Absent, NEW a \in Anc(q)
        PROVE  new[a] = Dir
    <2>1. tree[q] # Absent /\ q # p /\ p \notin Anc(q)
      BY <1>2 DEF RemoveAll
    <2>2. a \in Paths /\ tree[a] = Dir /\ a # p
      BY <1>2, <2>1 DEF TreeOK, Anc
    <2>3. p \notin Anc(a)
      BY <1>2, <2>1, <2>2, AncTransitive
    <2> QED
      BY <2>2, <2>3 DEF RemoveAll
  <1> QED
    BY <1>1, <1>2 DEF TreeOK

\* ensureDir leaves a tree.
LEMMA EnsureDirTree ==
  ASSUME NEW tree, TreeOK(tree), NEW p \in Paths
  PROVE  TreeOK(EnsureDir(tree, p))
  <1> DEFINE new == EnsureDir(tree, p)
  <1>1. new \in [Paths -> Nodes]
    BY NodeKinds DEF EnsureDir, TreeOK
  <1>2. ASSUME NEW q \in Paths, new[q] # Absent, NEW a \in Anc(q)
        PROVE  new[a] = Dir
    <2>1. a \in Paths
      BY DEF Anc
    <2>2. CASE q \in Anc(p)
      BY <2>1, <2>2, AncTransitive DEF EnsureDir
    <2>3. CASE q \notin Anc(p)
      <3>1. tree[a] = Dir
        BY <1>2, <2>3 DEF EnsureDir, TreeOK
      <3> QED
        BY <2>1, <3>1 DEF EnsureDir
    <2> QED
      BY <2>2, <2>3
  <1> QED
    BY <1>1, <1>2 DEF TreeOK

\* Making room keeps the tree a tree.
LEMMA MakeRoomTree ==
  ASSUME NEW tree, TreeOK(tree), NEW p \in Paths
  PROVE  TreeOK(MakeRoom(tree, p))
  BY EnsureDirTree, RemoveAllTree DEF MakeRoom

\* Replacing what is no directory, in a directory that exists, leaves a tree.
LEMMA PutTree ==
  ASSUME NEW tree, TreeOK(tree), NEW p \in Paths, NEW n \in Nodes,
         tree[p] # Dir, n # Absent => DirExists(tree, p)
  PROVE  TreeOK([tree EXCEPT ![p] = n])
  <1> DEFINE new == [tree EXCEPT ![p] = n]
  <1>1. new \in [Paths -> Nodes]
    BY DEF TreeOK
  <1>2. ASSUME NEW q \in Paths, new[q] # Absent, NEW a \in Anc(q)
        PROVE  new[a] = Dir
    <2>1. a \in Paths /\ a # q
      BY AncTransitive, PathsAssumption DEF Anc
    <2>2. tree[a] = Dir
      BY <1>2, <2>1 DEF TreeOK, DirExists
    <2> QED
      BY <2>1, <2>2 DEF TreeOK
  <1> QED
    BY <1>1, <1>2 DEF TreeOK

\* Renaming a file over something in the same directory leaves a tree.
LEMMA RenameTree ==
  ASSUME NEW tree, TreeOK(tree), NEW t \in Paths, NEW p \in Paths,
         IsFile(tree, t), tree[p] # Dir, Anc(t) = Anc(p), t # p
  PROVE  TreeOK(Rename(tree, t, p))
  <1>1. tree[t] \in Nodes /\ tree[t] # Absent /\ tree[t] # Dir
    BY NodeKinds DEF TreeOK, IsFile, Absent, Dir
  <1>2. DirExists(tree, p)
    BY <1>1 DEF TreeOK, DirExists
  <1> DEFINE one == [tree EXCEPT ![p] = tree[t]]
  <1>3. TreeOK(one)
    BY <1>1, <1>2, PutTree
  <1>4. one[t] # Dir
    BY <1>1 DEF TreeOK
  <1>5. TreeOK([one EXCEPT ![t] = Absent])
    <2> HIDE DEF one
    <2> QED
      BY <1>3, <1>4, PutTree, NodeKinds
  <1> QED
    BY <1>5 DEF Rename

\* Pruning leaves a tree: what lies in a pruned directory is pruned with it.
LEMMA PruneTree ==
  ASSUME NEW tree, TreeOK(tree)
  PROVE  TreeOK(PruneEmptyDirs(tree))
  <1> DEFINE new == PruneEmptyDirs(tree)
  <1>1. new \in [Paths -> Nodes]
    BY NodeKinds DEF PruneEmptyDirs, TreeOK
  <1>2. ASSUME NEW q \in Paths, new[q] # Absent, NEW a \in Anc(q)
        PROVE  new[a] = Dir
    <2>1. tree[q] # Absent /\ a \in Paths
      BY <1>2 DEF PruneEmptyDirs, Anc
    <2>2. tree[a] = Dir
      BY <1>2, <2>1 DEF TreeOK
    <2>3. SUFFICES ASSUME a \in Artifacts,
                          \A r \in Paths : a \in Anc(r) => tree[r] \in {Absent, Dir}
                   PROVE  FALSE
      BY <2>1, <2>2 DEF PruneEmptyDirs
    <2>4. tree[q] = Dir
      BY <1>2, <2>1, <2>3
    <2>5. q \in Artifacts
      BY <1>2, <2>1, <2>3, AncTransitive, NamesAssumption DEF Artifacts, Anc
    <2>6. \A r \in Paths : q \in Anc(r) => tree[r] \in {Absent, Dir}
      BY <1>2, <2>1, <2>3, AncTransitive
    <2> QED
      BY <1>2, <2>4, <2>5, <2>6 DEF PruneEmptyDirs
  <1> QED
    BY <1>1, <1>2 DEF TreeOK

-----------------------------------------------------------------------------
(* What stays in sync, and what stays unlisted.                             *)

\* A file as desired is no directory, and only directories are above it.
LEMMA InSyncShape ==
  ASSUME NEW tree, TreeOK(tree), NEW want, NEW q \in Paths, InSync(tree, want, q)
  PROVE  /\ tree[q] # Absent /\ tree[q] # Dir
         /\ \A a \in Paths : a \in Anc(q) => tree[a] = Dir
  BY DEF TreeOK, InSync, IsFile, Absent, Dir

\* InSync looks at the node only.
LEMMA InSyncNode ==
  ASSUME NEW tree, NEW new, NEW want, NEW q, InSync(tree, want, q), new[q] = tree[q]
  PROVE  InSync(new, want, q)
  BY DEF InSync, IsFile

\* Removing another regular file does not disturb a file as desired.
LEMMA RemoveAllInSync ==
  ASSUME NEW tree, TreeOK(tree), NEW want, NEW p \in Paths, NEW q \in Paths,
         IsFile(tree, p), InSync(tree, want, q), p # q
  PROVE  InSync(RemoveAll(tree, p), want, q)
  <1>1. p \notin Anc(q)
    BY InSyncShape DEF IsFile, Dir
  <1> QED
    BY <1>1, InSyncNode DEF RemoveAll

\* Making room for a desired file does not disturb another one, unless one is
\* the directory of the other.
LEMMA MakeRoomInSync ==
  ASSUME NEW tree, TreeOK(tree), NEW want, DOMAIN want \subseteq Paths,
         PrefixFree(want), NEW p \in DOMAIN want, NEW q \in DOMAIN want,
         InSync(tree, want, q), p # q
  PROVE  InSync(MakeRoom(tree, p), want, q)
  <1>1. p \notin Anc(q) /\ q \notin Anc(p)
    BY DEF PrefixFree
  <1>2. MakeRoom(tree, p)[q] = tree[q]
    BY <1>1 DEF MakeRoom, EnsureDir, RemoveAll
  <1> QED
    BY <1>2, InSyncNode

\* Pruning empty directories disturbs no file in place.
LEMMA PruneInSync ==
  ASSUME NEW tree, NEW want, NEW q \in Paths, InSync(tree, want, q)
  PROVE  InSync(PruneEmptyDirs(tree), want, q)
  <1>1. PruneEmptyDirs(tree)[q] = tree[q]
    BY DEF PruneEmptyDirs, InSync, IsFile, Dir
  <1> QED
    BY <1>1, InSyncNode

\* Removing, making room and pruning list nothing new, and what a removal
\* names is no longer listed.
LEMMA ListShrinks ==
  ASSUME NEW tree, NEW p \in Paths
  PROVE  /\ ListExisting(RemoveAll(tree, p)) \subseteq ListExisting(tree) \ {p}
         /\ ListExisting(MakeRoom(tree, p)) \subseteq ListExisting(tree)
         /\ ListExisting(PruneEmptyDirs(tree)) \subseteq ListExisting(tree)
  <1>1. Units \cup Artifacts \subseteq Paths
    BY NamesAssumption DEF Artifacts
  <1>2. Absent.kind # "file" /\ Dir.kind # "file"
    BY DEF Absent, Dir
  <1>3. \A d, q : q \in Paths /\ IsFile(RemoveAll(d, p), q) => IsFile(d, q) /\ q # p
    BY <1>2 DEF RemoveAll, IsFile
  <1>4. \A q \in Paths : IsFile(EnsureDir(tree, p), q) => IsFile(tree, q)
    BY <1>2 DEF EnsureDir, IsFile
  <1>5. \A q \in Paths : IsFile(MakeRoom(tree, p), q) => IsFile(tree, q)
    BY <1>3, <1>4 DEF MakeRoom
  <1>6. \A q \in Paths : IsFile(PruneEmptyDirs(tree), q) => IsFile(tree, q)
    BY <1>2 DEF PruneEmptyDirs, IsFile
  <1> QED
    BY <1>1, <1>3, <1>5, <1>6 DEF ListExisting

\* A file written as rendered is as desired.
LEMMA RenderedInSync ==
  ASSUME NEW tree, NEW want, NEW p, tree[p] = Rendered(want, p)
  PROVE  InSync(tree, want, p)
  BY DEF InSync, IsFile, Rendered, File, Perm

-----------------------------------------------------------------------------
(* Goals and plans.                                                         *)

\* What every goal of the project gives: managed paths that are no temp names,
\* each with a complete content and a mode.
LEMMA GoalFacts ==
  ASSUME NEW g \in Projects
  PROVE  /\ DOMAIN g \subseteq Units \cup Artifacts
         /\ DOMAIN g \subseteq Paths
         /\ DOMAIN g \cap Temps = {}
         /\ \A p \in DOMAIN g : /\ Rendered(g, p) \in Nodes
                               /\ Rendered(g, p).content # Partial
                               /\ IsFile([q \in {p} |-> Rendered(g, p)], p)
                               /\ Rendered(g, p) # Dir /\ Rendered(g, p) # Absent
  <1>1. PICK S \in SUBSET (Units \cup Artifacts) : g \in [S -> Desired]
    BY ApplyAssumption DEF Goals
  <1>2. Units \cup Artifacts \subseteq Paths
    BY NamesAssumption DEF Artifacts
  <1>3. DOMAIN g \cap Temps = {}
    BY ApplyAssumption
  <1>4. ASSUME NEW p \in DOMAIN g
        PROVE  /\ g[p].content \in Contents /\ Perm(g, p) \in Modes
    BY <1>1, ValuesAssumption DEF Desired, Perm
  <1>5. ASSUME NEW p \in DOMAIN g
        PROVE  /\ Rendered(g, p) \in Nodes
               /\ Rendered(g, p).content # Partial
               /\ IsFile([q \in {p} |-> Rendered(g, p)], p)
               /\ Rendered(g, p) # Dir /\ Rendered(g, p) # Absent
    BY <1>4, <1>5, ValuesAssumption DEF Rendered, Nodes, Files, File, IsFile, Dir, Absent
  <1> QED
    BY <1>1, <1>2, <1>3, <1>5

\* The first path of a plan is unique.
LEMMA FirstUnique ==
  ASSUME NEW S \in SUBSET Paths, NEW p, NEW q, First(S, p), First(S, q)
  PROVE  p = q
  <1>1. p \in Paths /\ q \in Paths /\ Rank[p] <= Rank[q] /\ Rank[q] <= Rank[p]
    BY DEF First
  <1>2. Rank[p] \in Nat /\ Rank[q] \in Nat
    BY <1>1, NamesAssumption
  <1>3. Rank[p] = Rank[q]
    BY <1>1, <1>2
  <1> QED
    BY <1>1, <1>3, NamesAssumption

\* Where the paths of a plan and the temp names lie.
LEMMA PathFacts ==
  /\ Units \cup Artifacts \subseteq Paths
  /\ Temps \subseteq Paths
  /\ NoTemp \notin Temps /\ NoTemp \notin Paths
  BY NamesAssumption, ApplyAssumption DEF Artifacts

\* Dropping a temp file leaves a tree.
LEMMA DropTempTree ==
  ASSUME TypeOK, NEW s \in Sessions, DropTemp(s)
  PROVE  TreeOK(disk')
  <1>1. CASE temp[s] # NoTemp /\ IsFile(disk, temp[s])
    <2>1. temp[s] \in Paths /\ TreeOK(disk) /\ disk[temp[s]] # Dir
      BY <1>1, PathFacts DEF TypeOK, IsFile, Dir
    <2>2. TreeOK([disk EXCEPT ![temp[s]] = Absent])
      BY <2>1, PutTree, NodeKinds
    <2> QED
      BY <1>1, <2>2 DEF DropTemp
  <1>2. CASE ~(temp[s] # NoTemp /\ IsFile(disk, temp[s]))
    BY <1>2 DEF DropTemp, TypeOK
  <1> QED
    BY <1>1, <1>2

\* Every step leaves a tree.
LEMMA TreeStep ==
  ASSUME IInv, [Next]_vars
  PROVE  TreeOK(disk')
  <1> USE DEF IInv
  <1>0. TreeOK(disk) /\ TypeOK
    BY DEF TypeOK
  <1>1. ASSUME NEW s \in Sessions, Remove(s)
        PROVE  TreeOK(disk')
    <2>1. PICK p \in dels[s] : disk' = RemoveAll(disk, p)
      BY <1>1 DEF Remove
    <2>2. p \in Paths
      BY <2>1, PathFacts DEF TypeOK
    <2> QED
      BY <1>0, <2>1, <2>2, RemoveAllTree
  <1>2. ASSUME NEW s \in Sessions, Prepare(s)
        PROVE  TreeOK(disk')
    <2>1. PICK p \in puts[s] : disk' = MakeRoom(disk, p)
      BY <1>2 DEF Prepare
    <2>2. p \in Paths
      BY <2>1, PathFacts DEF TypeOK
    <2> QED
      BY <1>0, <2>1, <2>2, MakeRoomTree
  <1>3. ASSUME NEW s \in Sessions, Stage(s)
        PROVE  TreeOK(disk')
    <2>1. PICK p \in puts[s] : \E t \in FreeTemps(disk, p) :
            DirExists(disk, p) /\ disk' = [disk EXCEPT ![t] = File(Partial, DefaultMode)]
      BY <1>3 DEF Stage
    <2>t. PICK t \in FreeTemps(disk, p) :
            DirExists(disk, p) /\ disk' = [disk EXCEPT ![t] = File(Partial, DefaultMode)]
      BY <2>1
    <2>2. t \in Paths /\ disk[t] = Absent /\ Anc(t) = Anc(p)
      BY <2>t DEF FreeTemps, Siblings
    <2>3. DirExists(disk, t) /\ disk[t] # Dir
      BY <2>t, <2>2 DEF DirExists, Absent, Dir
    <2>4. File(Partial, DefaultMode) \in Nodes
      BY ValuesAssumption DEF Nodes, Files
    <2> QED
      BY <1>0, <2>t, <2>2, <2>3, <2>4, PutTree
  <1>4. ASSUME NEW s \in Sessions, Fill(s)
        PROVE  TreeOK(disk')
    <2>1. PICK p \in puts[s] : disk' = [disk EXCEPT ![temp[s]] = Rendered(goal[s], p)]
      BY <1>4 DEF Fill
    <2>2. temp[s] \in Paths /\ IsFile(disk, temp[s])
      BY <1>4, PathFacts DEF Fill, TypeOK, PhaseOK
    <2>3. disk[temp[s]] # Dir /\ disk[temp[s]] # Absent
      BY <2>2 DEF IsFile, Dir, Absent
    <2>4. DirExists(disk, temp[s])
      BY <1>0, <2>2, <2>3 DEF TreeOK, DirExists
    <2>5. Rendered(goal[s], p) \in Nodes
      BY <2>1, GoalFacts DEF TypeOK, PhaseOK
    <2> QED
      BY <1>0, <2>1, <2>2, <2>3, <2>4, <2>5, PutTree
  <1>5. ASSUME NEW s \in Sessions, Commit(s)
        PROVE  TreeOK(disk')
    <2>1. PICK p \in puts[s] :
            First(puts[s], p) /\ disk[p] # Dir /\ disk' = Rename(disk, temp[s], p)
      BY <1>5 DEF Commit
    <2>2. temp[s] \in Temps /\ IsFile(disk, temp[s])
      BY <1>5 DEF Commit, TypeOK, PhaseOK
    <2>3. Anc(temp[s]) = Anc(p)
      BY <2>1, <2>2, PathFacts DEF TempOK
    <2>4. p \in Paths /\ p \notin Temps
      BY <2>1, GoalFacts DEF TypeOK, PhaseOK
    <2> QED
      BY <1>0, <2>1, <2>2, <2>3, <2>4, PathFacts, RenameTree
  <1>6. ASSUME NEW s \in Sessions, Prune(s)
        PROVE  TreeOK(disk')
    BY <1>0, <1>6, PruneTree DEF Prune
  <1>7. ASSUME NEW s \in Sessions, GiveUp(s) \/ Fail(s)
        PROVE  TreeOK(disk')
    BY <1>0, <1>7, DropTempTree DEF GiveUp, Fail
  <1>8. ASSUME Meddle
        PROVE  TreeOK(disk')
    <2>1. PICK p \in Paths \ Temps, n \in Meddlings :
            DirExists(disk, p) /\ disk' = [RemoveAll(disk, p) EXCEPT ![p] = n]
      BY <1>8 DEF Meddle
    <2>2. n \in Nodes
      BY ApplyAssumption DEF Nodes, Files
    <2> DEFINE cleared == RemoveAll(disk, p)
    <2>3. TreeOK(cleared)
      BY <1>0, RemoveAllTree
    <2>4. cleared[p] # Dir
      BY DEF RemoveAll, Absent, Dir
    <2>5. DirExists(cleared, p)
      <3>1. ASSUME NEW a \in Anc(p)
            PROVE  a \in Paths /\ a # p /\ p \notin Anc(a)
        BY AncTransitive, PathsAssumption DEF Anc
      <3> QED
        BY <2>1, <3>1 DEF DirExists, RemoveAll
    <2> QED
      <3> HIDE DEF cleared
      <3>1. TreeOK([cleared EXCEPT ![p] = n])
        BY <2>2, <2>3, <2>4, <2>5, PutTree
      <3> QED
        BY <2>1, <3>1 DEF cleared
  <1>9. ASSUME UNCHANGED disk
        PROVE  TreeOK(disk')
    BY <1>0, <1>9
  <1> QED
    <2>1. ASSUME NEW s \in Sessions,
                 Plan(s) \/ Confirm(s) \/ Decline(s) \/ Record(s) \/ Adopt(s) \/ Reload(s)
                   \/ GiveUpNotDir(s) \/ Crash(s)
          PROVE  UNCHANGED disk
      BY <2>1 DEF Plan, Confirm, Decline, Record, Adopt, Reload, GiveUpNotDir, Crash
    <2>2. ASSUME Edit \/ UNCHANGED vars
          PROVE  UNCHANGED disk
      BY <2>2 DEF Edit, vars
    <2> QED
      BY <1>1, <1>2, <1>3, <1>4, <1>5, <1>6, <1>7, <1>8, <1>9, <2>1, <2>2
         DEF Next, Work, Answer

\* Every step keeps the types.
LEMMA TypeStep ==
  ASSUME IInv, [Next]_vars
  PROVE  TypeOK'
  <1>1. TypeOK /\ TreeOK(disk')
    BY TreeStep DEF IInv
  <1>2. (UnitFiles(disk))' \in [Units -> Nodes]
    BY <1>1, NamesAssumption DEF UnitFiles, TreeOK
  <1>3. UnitFiles(disk) \in [Units -> Nodes]
    BY <1>1, NamesAssumption DEF UnitFiles, TreeOK, TypeOK
  <1>4. ASSUME NEW s \in Sessions, NEW how \in Results, Return(s, how)
        PROVE  /\ pc' \in [Sessions -> Phases] /\ goal' \in [Sessions -> Projects]
               /\ dels' \in [Sessions -> SUBSET (Units \cup Artifacts)]
               /\ puts' \in [Sessions -> SUBSET (Units \cup Artifacts)]
               /\ temp' \in [Sessions -> Temps \cup {NoTemp}]
               /\ result' \in [Sessions -> Results]
    BY <1>1, <1>4 DEF Return, Goto, TypeOK, Phases
  <1>5. ASSUME NEW who, Notice(who)
        PROVE  clean' \in [Sessions -> BOOLEAN]
    <2>1. CASE disk' = disk /\ recorded' = recorded
      BY <1>1, <1>5, <2>1 DEF Notice, TypeOK
    <2>2. CASE ~(disk' = disk /\ recorded' = recorded)
      <3>1. clean' = [t \in Sessions |-> clean[t] /\ t \in who]
        BY <1>5, <2>2 DEF Notice
      <3>2. \A t \in Sessions : (clean[t] /\ t \in who) \in BOOLEAN
        OBVIOUS
      <3> QED
        BY <3>1, <3>2, Zenon
    <2> QED
      BY <2>1, <2>2
  <1>6. \A ds, ps : NextPhase(ds, ps) \in Phases
    BY DEF NextPhase, Phases
  <1>7. bounds' = bounds => /\ edits' \in 0..MaxEdits /\ meddles' \in 0..MaxMeddles
                            /\ faults' \in 0..MaxFaults /\ crashes' \in 0..faults'
    BY <1>1 DEF bounds, TypeOK
  <1>p. ASSUME NEW s \in Sessions, Plan(s)
        PROVE  TypeOK'
    <2>1. DOMAIN project \subseteq Units \cup Artifacts
      BY <1>1, GoalFacts DEF TypeOK
    <2>2. Dels(disk, project) \subseteq Units \cup Artifacts
      BY DEF Dels, ListExisting
    <2>3. Puts(disk, project) \subseteq Units \cup Artifacts
      BY <2>1 DEF Puts
    <2> QED
      BY <1>1, <1>7, <1>p, <2>2, <2>3 DEF Plan, Goto, TypeOK, Phases, Results
  <1>c. ASSUME NEW s \in Sessions, Confirm(s)
        PROVE  TypeOK'
    BY <1>1, <1>6, <1>7, <1>c DEF Confirm, Goto, TypeOK
  <1>d. ASSUME NEW s \in Sessions, Decline(s)
        PROVE  TypeOK'
    BY <1>1, <1>4, <1>7, <1>d DEF Decline, TypeOK, Results
  <1>r. ASSUME NEW s \in Sessions, Remove(s)
        PROVE  TypeOK'
    BY <1>1, <1>5, <1>6, <1>7, <1>r DEF Remove, Goto, TypeOK
  <1>w. ASSUME NEW s \in Sessions, Prepare(s)
        PROVE  TypeOK'
    BY <1>1, <1>5, <1>7, <1>w DEF Prepare, Goto, TypeOK, Phases
  <1>s. ASSUME NEW s \in Sessions, Stage(s)
        PROVE  TypeOK'
    BY <1>1, <1>5, <1>7, <1>s DEF Stage, Goto, TypeOK, Phases, FreeTemps
  <1>f. ASSUME NEW s \in Sessions, Fill(s)
        PROVE  TypeOK'
    BY <1>1, <1>5, <1>7, <1>f DEF Fill, Goto, TypeOK, Phases
  <1>m. ASSUME NEW s \in Sessions, Commit(s)
        PROVE  TypeOK'
    BY <1>1, <1>5, <1>6, <1>7, <1>m DEF Commit, Goto, TypeOK
  <1>e. ASSUME NEW s \in Sessions, Prune(s)
        PROVE  TypeOK'
    BY <1>1, <1>5, <1>7, <1>e DEF Prune, Goto, TypeOK, Phases
  <1>o. ASSUME NEW s \in Sessions, Record(s)
        PROVE  TypeOK'
    BY <1>1, <1>5, <1>7, <1>o DEF Record, Goto, TypeOK, Phases, Results
  <1>a. ASSUME NEW s \in Sessions, Adopt(s)
        PROVE  TypeOK'
    BY <1>1, <1>5, <1>a, ApplyAssumption DEF Adopt, Goto, TypeOK, Phases, Results
  <1>l. ASSUME NEW s \in Sessions, Reload(s)
        PROVE  TypeOK'
    <2>1. result[s] \in Results
      BY <1>1 DEF TypeOK
    <2> QED
      BY <1>1, <1>3, <1>4, <1>7, <1>l, <2>1 DEF Reload, TypeOK
  <1>g. ASSUME NEW s \in Sessions, GiveUp(s) \/ GiveUpNotDir(s)
        PROVE  TypeOK'
    BY <1>1, <1>4, <1>5, <1>7, <1>g DEF GiveUp, GiveUpNotDir, TypeOK, Results
  <1>i. ASSUME NEW s \in Sessions, Fail(s) \/ Crash(s)
        PROVE  TypeOK'
    BY <1>1, <1>4, <1>5, <1>i, ApplyAssumption DEF Fail, Crash, TypeOK, Results
  <1>t. ASSUME Edit
        PROVE  TypeOK'
    BY <1>1, <1>t, ApplyAssumption DEF Edit, session, TypeOK
  <1>u. ASSUME Meddle
        PROVE  TypeOK'
    BY <1>1, <1>5, <1>u, ApplyAssumption DEF Meddle, session, TypeOK
  <1>v. ASSUME UNCHANGED vars
        PROVE  TypeOK'
    BY <1>1, <1>v DEF vars, session, bounds, TypeOK
  <1> QED
    BY <1>p, <1>c, <1>d, <1>r, <1>w, <1>s, <1>f, <1>m, <1>e, <1>o, <1>a, <1>l, <1>g,
       <1>i, <1>t, <1>u, <1>v DEF Next, Work, Answer

\* Every step keeps plan and phase of each session together.
LEMMA PhaseStep ==
  ASSUME IInv, [Next]_vars, NEW r \in Sessions
  PROVE  PhaseOK(r)'
  <1>1. TypeOK /\ PhaseOK(r)
    BY DEF IInv
  <1>2. TypeOK'
    BY TypeStep
  <1>3. ASSUME NEW s \in Sessions, NEW how, Return(s, how)
        PROVE  PhaseOK(r)'
    BY <1>1, <1>3 DEF Return, Goto, PhaseOK, TypeOK
  <1>p. ASSUME NEW s \in Sessions, Plan(s)
        PROVE  PhaseOK(r)'
    BY <1>1, <1>p DEF Plan, Goto, PhaseOK, TypeOK, Puts, Dels, Synced
  <1>c. ASSUME NEW s \in Sessions, Confirm(s)
        PROVE  PhaseOK(r)'
    BY <1>1, <1>c DEF Confirm, Goto, PhaseOK, TypeOK, NextPhase
  <1>r. ASSUME NEW s \in Sessions, Remove(s)
        PROVE  PhaseOK(r)'
    BY <1>1, <1>r DEF Remove, Goto, PhaseOK, TypeOK, NextPhase
  <1>w. ASSUME NEW s \in Sessions, Prepare(s)
        PROVE  PhaseOK(r)'
    BY <1>1, <1>w DEF Prepare, Goto, PhaseOK, TypeOK
  <1>s. ASSUME NEW s \in Sessions, Stage(s)
        PROVE  PhaseOK(r)'
    <2>1. PICK t \in Temps : temp' = [temp EXCEPT ![s] = t]
      BY <1>s DEF Stage, FreeTemps
    <2>2. t # NoTemp
      BY <2>1, PathFacts
    <2> QED
      BY <1>1, <1>s, <2>1, <2>2 DEF Stage, Goto, PhaseOK, TypeOK
  <1>f. ASSUME NEW s \in Sessions, Fill(s)
        PROVE  PhaseOK(r)'
    BY <1>1, <1>f DEF Fill, Goto, PhaseOK, TypeOK
  <1>m. ASSUME NEW s \in Sessions, Commit(s)
        PROVE  PhaseOK(r)'
    BY <1>1, <1>m DEF Commit, Goto, PhaseOK, TypeOK, NextPhase
  <1>e. ASSUME NEW s \in Sessions, Prune(s)
        PROVE  PhaseOK(r)'
    BY <1>1, <1>e DEF Prune, Goto, PhaseOK, TypeOK
  <1>o. ASSUME NEW s \in Sessions, Record(s) \/ Adopt(s)
        PROVE  PhaseOK(r)'
    BY <1>1, <1>o DEF Record, Adopt, Goto, PhaseOK, TypeOK
  <1>i. ASSUME NEW s \in Sessions,
               Decline(s) \/ Reload(s) \/ GiveUp(s) \/ GiveUpNotDir(s) \/ Fail(s) \/ Crash(s)
        PROVE  PhaseOK(r)'
    BY <1>3, <1>i DEF Decline, Reload, GiveUp, GiveUpNotDir, Fail, Crash
  <1>t. ASSUME Edit \/ Meddle \/ UNCHANGED vars
        PROVE  PhaseOK(r)'
    BY <1>1, <1>t DEF Edit, Meddle, vars, session, PhaseOK
  <1> QED
    BY <1>p, <1>c, <1>r, <1>w, <1>s, <1>f, <1>m, <1>e, <1>o, <1>i, <1>t
       DEF Next, Work, Answer

-----------------------------------------------------------------------------
(* The temp files.                                                          *)

\* A temp file changes only by the step of the session that holds it, or by
\* being removed: no goal, no directory made and no meddling is at its name.
LEMMA TempOnlyVanishes ==
  ASSUME IInv, [Next]_vars, NEW r \in Sessions, temp[r] # NoTemp,
         temp'[r] = temp[r], pc'[r] = pc[r]
  PROVE  disk'[temp[r]] \in {disk[temp[r]], Absent}
  <1> DEFINE t == temp[r]
  <1>1. TypeOK /\ t \in Temps /\ t \in Paths
    BY PathFacts DEF IInv, TypeOK
  <1>2. \A p \in Paths : t \notin Anc(p)
    BY <1>1, NamesAssumption
  <1>3. \A d \in [Paths -> Nodes], p \in Paths : RemoveAll(d, p)[t] \in {d[t], Absent}
    BY <1>1 DEF RemoveAll
  <1>4. disk \in [Paths -> Nodes]
    BY <1>1 DEF TypeOK, TreeOK
  <1>5. ASSUME NEW p \in Paths
        PROVE  MakeRoom(disk, p)[t] \in {disk[t], Absent}
    BY <1>1, <1>2 DEF MakeRoom, EnsureDir, RemoveAll
  <1>6. \A s \in Sessions : temp[s] = t => s = r
    BY DEF IInv, TempOK
  <1>r. ASSUME NEW s \in Sessions, Remove(s)
        PROVE  disk'[t] \in {disk[t], Absent}
    <2>1. PICK p \in dels[s] : disk' = RemoveAll(disk, p)
      BY <1>r DEF Remove
    <2> QED
      BY <1>1, <1>3, <1>4, <2>1, PathFacts DEF TypeOK
  <1>w. ASSUME NEW s \in Sessions, Prepare(s)
        PROVE  disk'[t] \in {disk[t], Absent}
    <2>1. PICK p \in puts[s] : disk' = MakeRoom(disk, p)
      BY <1>w DEF Prepare
    <2> QED
      BY <1>1, <1>5, <2>1, PathFacts DEF TypeOK
  <1>s. ASSUME NEW s \in Sessions, Stage(s)
        PROVE  disk'[t] \in {disk[t], Absent}
    <2>1. PICK u \in Paths \ Held : disk' = [disk EXCEPT ![u] = File(Partial, DefaultMode)]
      BY <1>s DEF Stage, FreeTemps, Siblings
    <2>2. u # t
      BY <2>1 DEF Held
    <2> QED
      BY <1>1, <1>4, <2>1, <2>2
  <1>f. ASSUME NEW s \in Sessions, Fill(s)
        PROVE  disk'[t] \in {disk[t], Absent}
    <2>1. s # r
      BY <1>1, <1>f DEF Fill, Goto, TypeOK
    <2> QED
      BY <1>1, <1>4, <1>6, <1>f, <2>1 DEF Fill
  <1>m. ASSUME NEW s \in Sessions, Commit(s)
        PROVE  disk'[t] \in {disk[t], Absent}
    <2>1. s # r
      BY <1>1, <1>m DEF Commit, TypeOK
    <2>2. PICK p \in puts[s] : disk' = Rename(disk, temp[s], p)
      BY <1>m DEF Commit
    <2>3. p # t
      BY <1>1, <2>2, GoalFacts DEF IInv, PhaseOK, TypeOK
    <2> QED
      BY <1>1, <1>4, <1>6, <2>1, <2>2, <2>3 DEF Rename
  <1>e. ASSUME NEW s \in Sessions, Prune(s)
        PROVE  disk'[t] \in {disk[t], Absent}
    BY <1>1, <1>e DEF Prune, PruneEmptyDirs
  <1>g. ASSUME NEW s \in Sessions, GiveUp(s) \/ Fail(s)
        PROVE  disk'[t] \in {disk[t], Absent}
    BY <1>1, <1>4, <1>g DEF GiveUp, Fail, DropTemp
  <1>u. ASSUME Meddle
        PROVE  disk'[t] \in {disk[t], Absent}
    <2>1. PICK p \in Paths \ Temps :
            \E n \in Meddlings : disk' = [RemoveAll(disk, p) EXCEPT ![p] = n]
      BY <1>u DEF Meddle
    <2>2. disk'[t] = RemoveAll(disk, p)[t]
      BY <1>1, <2>1
    <2> QED
      BY <1>3, <1>4, <2>1, <2>2
  <1>x. ASSUME UNCHANGED disk
        PROVE  disk'[t] \in {disk[t], Absent}
    BY <1>x
  <1> QED
    <2>1. ASSUME NEW s \in Sessions,
                 Plan(s) \/ Confirm(s) \/ Decline(s) \/ Record(s) \/ Adopt(s) \/ Reload(s)
                   \/ GiveUpNotDir(s) \/ Crash(s)
          PROVE  UNCHANGED disk
      BY <2>1 DEF Plan, Confirm, Decline, Record, Adopt, Reload, GiveUpNotDir, Crash
    <2>2. ASSUME Edit \/ UNCHANGED vars
          PROVE  UNCHANGED disk
      BY <2>2 DEF Edit, vars
    <2> QED
      BY <1>r, <1>w, <1>s, <1>f, <1>m, <1>e, <1>g, <1>u, <1>x, <2>1, <2>2
         DEF Next, Work, Answer

\* A step leaves the session alone that does not take it.
LEMMA OthersKeep ==
  ASSUME TypeOK, NEW s \in Sessions, NEW r \in Sessions, r # s,
         Plan(s) \/ Answer(s) \/ Work(s) \/ Fail(s) \/ Crash(s)
  PROVE  /\ pc'[r] = pc[r] /\ goal'[r] = goal[r] /\ dels'[r] = dels[r]
         /\ puts'[r] = puts[r] /\ temp'[r] = temp[r] /\ result'[r] = result[r]
  <1> USE DEF TypeOK, Goto, Return
  <1>1. ASSUME Plan(s) \/ Answer(s) \/ Fail(s) \/ Crash(s)
        PROVE  /\ pc'[r] = pc[r] /\ goal'[r] = goal[r] /\ dels'[r] = dels[r]
               /\ puts'[r] = puts[r] /\ temp'[r] = temp[r] /\ result'[r] = result[r]
    BY <1>1 DEF Plan, Answer, Confirm, Decline, Fail, Crash
  <1>2. ASSUME Remove(s) \/ Prepare(s) \/ Stage(s) \/ Fill(s) \/ Commit(s) \/ Prune(s)
        PROVE  /\ pc'[r] = pc[r] /\ goal'[r] = goal[r] /\ dels'[r] = dels[r]
               /\ puts'[r] = puts[r] /\ temp'[r] = temp[r] /\ result'[r] = result[r]
    BY <1>2 DEF Remove, Prepare, Stage, Fill, Commit, Prune
  <1>3. ASSUME Record(s) \/ Adopt(s) \/ Reload(s) \/ GiveUp(s) \/ GiveUpNotDir(s)
        PROVE  /\ pc'[r] = pc[r] /\ goal'[r] = goal[r] /\ dels'[r] = dels[r]
               /\ puts'[r] = puts[r] /\ temp'[r] = temp[r] /\ result'[r] = result[r]
    BY <1>3 DEF Record, Adopt, Reload, GiveUp, GiveUpNotDir
  <1> QED
    BY <1>1, <1>2, <1>3 DEF Work

\* A session holds a new temp file only by creating it under a name that is
\* not in use.
LEMMA TempFresh ==
  ASSUME IInv, [Next]_vars, NEW s \in Sessions
  PROVE  \/ temp'[s] \in {temp[s], NoTemp}
         \/ temp'[s] \notin Held /\ \A r \in Sessions : r # s => temp'[r] = temp[r]
  <1>1. TypeOK
    BY DEF IInv
  <1>2. ASSUME NEW u \in Sessions,
               Plan(u) \/ Answer(u) \/ Work(u) \/ Fail(u) \/ Crash(u), s # u
        PROVE  temp'[s] = temp[s]
    BY <1>1, <1>2, OthersKeep
  <1>3. ASSUME Stage(s)
        PROVE  temp'[s] \notin Held /\ \A r \in Sessions : r # s => temp'[r] = temp[r]
    BY <1>1, <1>3 DEF Stage, TypeOK
  <1>4. ASSUME Plan(s) \/ Answer(s) \/ Fail(s) \/ Crash(s) \/ Remove(s) \/ Prepare(s)
                 \/ Fill(s) \/ Commit(s) \/ Prune(s) \/ Record(s) \/ Adopt(s) \/ Reload(s)
                 \/ GiveUp(s) \/ GiveUpNotDir(s)
        PROVE  temp'[s] \in {temp[s], NoTemp}
    BY <1>1, <1>4
       DEF Plan, Answer, Confirm, Decline, Fail, Crash, Remove, Prepare, Fill, Commit,
           Prune, Record, Adopt, Reload, GiveUp, GiveUpNotDir, Return, TypeOK
  <1>5. ASSUME Edit \/ Meddle \/ UNCHANGED vars
        PROVE  temp'[s] = temp[s]
    BY <1>5 DEF Edit, Meddle, vars, session
  <1> QED
    BY <1>2, <1>3, <1>4, <1>5 DEF Next, Work

\* Every step keeps the temp files apart and in the hands of their sessions.
LEMMA TempStep ==
  ASSUME IInv, [Next]_vars, NEW r \in Sessions
  PROVE  TempOK(r)'
  <1>1. TypeOK /\ PhaseOK(r) /\ TempOK(r) /\ PhaseOK(r)' /\ TypeOK'
    BY PhaseStep, TypeStep DEF IInv
  <1>2. SUFFICES ASSUME temp'[r] # NoTemp
                 PROVE  TempOK(r)'
    BY DEF TempOK
  <1>3. ASSUME NEW s \in Sessions, temp'[s] = temp'[r]
        PROVE  s = r
    <2>1. CASE temp'[r] = temp[r]
      BY <1>2, <1>3, <2>1, TempFresh, <1>1 DEF TempOK, Held
    <2>2. CASE temp'[r] # temp[r]
      BY <1>2, <1>3, <2>2, TempFresh, <1>1 DEF TempOK, Held
    <2> QED
      BY <2>1, <2>2
  <1>4. ASSUME pc'[r] = pc[r], goal'[r] = goal[r], puts'[r] = puts[r], temp'[r] = temp[r]
        PROVE  TempOK(r)'
    <2>1. disk'[temp[r]] \in {disk[temp[r]], Absent}
      BY <1>2, <1>4, TempOnlyVanishes
    <2>2. ASSUME NEW p \in puts'[r], First(puts'[r], p)
          PROVE  /\ Anc(temp'[r]) = Anc(p)
                 /\ pc'[r] = "commit" =>
                      disk'[temp'[r]] \in {Absent, Rendered(goal'[r], p)}
      BY <1>1, <1>2, <1>4, <2>1, <2>2 DEF TempOK
    <2> QED
      BY <1>3, <2>2 DEF TempOK
  <1>5. ASSUME Stage(r)
        PROVE  TempOK(r)'
    <2>1. PICK p \in puts[r] : \E t \in FreeTemps(disk, p) :
            First(puts[r], p) /\ temp' = [temp EXCEPT ![r] = t]
      BY <1>5 DEF Stage
    <2>2. Anc(temp'[r]) = Anc(p) /\ First(puts[r], p)
      BY <1>1, <2>1 DEF FreeTemps, Siblings, TypeOK
    <2>3. puts' = puts /\ pc'[r] = "fill"
      BY <1>1, <1>5 DEF Stage, Goto, TypeOK
    <2>4. \A q \in puts'[r] : First(puts'[r], q) => Anc(temp'[r]) = Anc(q)
      BY <1>1, <2>2, <2>3, FirstUnique, PathFacts DEF TypeOK
    <2> QED
      BY <1>3, <2>3, <2>4 DEF TempOK
  <1>6. ASSUME Fill(r)
        PROVE  TempOK(r)'
    <2>1. PICK p \in puts[r] :
            First(puts[r], p) /\ disk' = [disk EXCEPT ![temp[r]] = Rendered(goal[r], p)]
      BY <1>6 DEF Fill
    <2>2. temp' = temp /\ goal' = goal /\ puts' = puts
      BY <1>6 DEF Fill
    <2>3. disk'[temp[r]] = Rendered(goal[r], p)
      BY <1>1, <1>2, <2>1, <2>2, PathFacts DEF TypeOK, TreeOK
    <2>4. \A q \in puts[r] : First(puts[r], q) => q = p
      BY <1>1, <2>1, FirstUnique, PathFacts DEF TypeOK
    <2> QED
      BY <1>1, <1>2, <1>3, <2>1, <2>2, <2>3, <2>4 DEF TempOK
  <1>7. ASSUME Plan(r) \/ Answer(r) \/ Fail(r) \/ Crash(r) \/ Remove(r) \/ Prepare(r)
                 \/ Commit(r) \/ Prune(r) \/ Record(r) \/ Adopt(r) \/ Reload(r)
                 \/ GiveUp(r) \/ GiveUpNotDir(r)
        PROVE  FALSE
    <2>1. pc'[r] \in {"fill", "commit"}
      BY <1>1, <1>2 DEF PhaseOK
    <2> QED
      BY <1>1, <1>7, <2>1
         DEF Plan, Answer, Confirm, Decline, Fail, Crash, Remove, Prepare, Commit, Prune,
             Record, Adopt, Reload, GiveUp, GiveUpNotDir, Return, Goto, NextPhase, TypeOK
  <1>8. ASSUME NEW s \in Sessions, s # r,
               Plan(s) \/ Answer(s) \/ Work(s) \/ Fail(s) \/ Crash(s)
        PROVE  TempOK(r)'
    BY <1>1, <1>4, <1>8, OthersKeep
  <1>9. ASSUME Edit \/ Meddle \/ UNCHANGED vars
        PROVE  TempOK(r)'
    BY <1>4, <1>9 DEF Edit, Meddle, vars, session
  <1> QED
    BY <1>5, <1>6, <1>7, <1>8, <1>9 DEF Next, Work

-----------------------------------------------------------------------------
(* No half-written file.                                                    *)

\* What a step leaves at a path that is no temp name is what was there, no
\* regular file, what somebody meddling left, or a file rendered in full.
LEMMA TornStep ==
  ASSUME IInv, [Next]_vars
  PROVE  NoTornFile'
  <1>1. TypeOK /\ NoTornFile /\ disk \in [Paths -> Nodes]
    BY DEF IInv, TypeOK, TreeOK
  <1>2. /\ Absent.content # Partial /\ Dir.content # Partial
        /\ \A n \in Meddlings : n.content # Partial
    BY ValuesAssumption, ApplyAssumption DEF Absent, Dir, Link, File
  <1>3. SUFFICES ASSUME NEW q \in Paths \ Temps
                 PROVE  disk'[q].content # Partial
    BY DEF NoTornFile
  <1>4. \A d : d[q].content # Partial => \A p \in Paths : RemoveAll(d, p)[q].content # Partial
    BY <1>2, <1>3 DEF RemoveAll
  <1>5. disk[q].content # Partial
    BY <1>1, <1>3 DEF NoTornFile
  <1>r. ASSUME NEW s \in Sessions, Remove(s)
        PROVE  disk'[q].content # Partial
    <2>1. PICK p \in dels[s] : disk' = RemoveAll(disk, p)
      BY <1>r DEF Remove
    <2> QED
      BY <1>1, <1>4, <1>5, <2>1, PathFacts DEF TypeOK
  <1>w. ASSUME NEW s \in Sessions, Prepare(s)
        PROVE  disk'[q].content # Partial
    <2>1. PICK p \in puts[s] : disk' = MakeRoom(disk, p)
      BY <1>w DEF Prepare
    <2>2. EnsureDir(disk, p)[q].content # Partial
      BY <1>2, <1>3, <1>5 DEF EnsureDir
    <2> QED
      BY <1>1, <1>4, <2>1, <2>2, PathFacts DEF MakeRoom, TypeOK
  <1>s. ASSUME NEW s \in Sessions, Stage(s)
        PROVE  disk'[q].content # Partial
    <2>1. PICK t \in Temps : disk' = [disk EXCEPT ![t] = File(Partial, DefaultMode)]
      BY <1>s DEF Stage, FreeTemps
    <2> QED
      BY <1>1, <1>3, <1>5, <2>1
  <1>f. ASSUME NEW s \in Sessions, Fill(s)
        PROVE  disk'[q].content # Partial
    <2>1. temp[s] \in Temps
      BY <1>1, <1>f DEF Fill, IInv, PhaseOK, TypeOK
    <2> QED
      BY <1>1, <1>3, <1>5, <1>f, <2>1 DEF Fill
  <1>m. ASSUME NEW s \in Sessions, Commit(s)
        PROVE  disk'[q].content # Partial
    <2>1. PICK p \in puts[s] : First(puts[s], p) /\ disk' = Rename(disk, temp[s], p)
      BY <1>m DEF Commit
    <2>2. temp[s] \in Temps /\ IsFile(disk, temp[s]) /\ pc[s] = "commit" /\ temp[s] # NoTemp
      BY <1>1, <1>m, PathFacts DEF Commit, IInv, PhaseOK, TypeOK
    <2>3. disk[temp[s]] = Rendered(goal[s], p)
      BY <2>1, <2>2 DEF IInv, TempOK, IsFile, Absent
    <2>4. Rendered(goal[s], p).content # Partial /\ p \in Paths
      BY <1>1, <2>1, GoalFacts DEF IInv, PhaseOK, TypeOK
    <2> QED
      BY <1>1, <1>3, <1>5, <2>1, <2>2, <2>3, <2>4 DEF Rename
  <1>e. ASSUME NEW s \in Sessions, Prune(s)
        PROVE  disk'[q].content # Partial
    BY <1>2, <1>3, <1>5, <1>e DEF Prune, PruneEmptyDirs
  <1>g. ASSUME NEW s \in Sessions, GiveUp(s) \/ Fail(s)
        PROVE  disk'[q].content # Partial
    BY <1>1, <1>2, <1>3, <1>5, <1>g DEF GiveUp, Fail, DropTemp
  <1>u. ASSUME Meddle
        PROVE  disk'[q].content # Partial
    <2>1. PICK p \in Paths \ Temps, n \in Meddlings :
            disk' = [RemoveAll(disk, p) EXCEPT ![p] = n]
      BY <1>u DEF Meddle
    <2>2. disk'[q] \in {n, RemoveAll(disk, p)[q]}
      BY <1>3, <2>1 DEF RemoveAll
    <2> QED
      BY <1>2, <1>4, <1>5, <2>2
  <1>x. ASSUME UNCHANGED disk
        PROVE  disk'[q].content # Partial
    BY <1>5, <1>x
  <1> QED
    <2>1. ASSUME NEW s \in Sessions,
                 Plan(s) \/ Confirm(s) \/ Decline(s) \/ Record(s) \/ Adopt(s) \/ Reload(s)
                   \/ GiveUpNotDir(s) \/ Crash(s)
          PROVE  UNCHANGED disk
      BY <2>1 DEF Plan, Confirm, Decline, Record, Adopt, Reload, GiveUpNotDir, Crash
    <2>2. ASSUME Edit \/ UNCHANGED vars
          PROVE  UNCHANGED disk
      BY <2>2 DEF Edit, vars
    <2> QED
      BY <1>r, <1>w, <1>s, <1>f, <1>m, <1>e, <1>g, <1>u, <1>x, <2>1, <2>2
         DEF Next, Work, Answer

-----------------------------------------------------------------------------
(* Progress towards the goal.                                               *)

\* What is as planned at r when r has not moved stays so, or is no longer
\* called clean.
LEMMA OthersDisturb ==
  ASSUME IInv, [Next]_vars, NEW r \in Sessions,
         ~(Plan(r) \/ Answer(r) \/ Work(r) \/ Fail(r) \/ Crash(r)), clean'[r]
  PROVE  /\ clean[r] /\ disk' = disk
         /\ pc'[r] = pc[r] /\ goal'[r] = goal[r] /\ dels'[r] = dels[r]
         /\ puts'[r] = puts[r] /\ temp'[r] = temp[r] /\ result'[r] = result[r]
  <1>1. TypeOK
    BY DEF IInv
  <1>2. ASSUME NEW who, r \notin who, Notice(who)
        PROVE  clean[r] /\ disk' = disk
    BY <1>1, <1>2 DEF Notice, TypeOK
  <1>3. ASSUME UNCHANGED <<disk, clean>>
        PROVE  clean[r] /\ disk' = disk
    BY <1>3
  <1>4. ASSUME NEW s \in Sessions, s # r,
               Plan(s) \/ Answer(s) \/ Work(s) \/ Fail(s) \/ Crash(s)
        PROVE  clean[r] /\ disk' = disk
    <2>1. CASE Plan(s)
      BY <1>1, <1>4, <2>1 DEF Plan, TypeOK
    <2>2. CASE Answer(s) \/ Crash(s) \/ Reload(s) \/ GiveUpNotDir(s)
      BY <1>3, <2>2 DEF Answer, Confirm, Decline, Crash, Reload, GiveUpNotDir
    <2>3. CASE Remove(s) \/ Prepare(s) \/ Stage(s) \/ Fill(s) \/ Commit(s) \/ Prune(s)
                 \/ Record(s) \/ Adopt(s) \/ GiveUp(s) \/ Fail(s)
      <3>1. Notice({s}) /\ r \notin {s}
        BY <1>4, <2>3
           DEF Remove, Prepare, Stage, Fill, Commit, Prune, Record, Adopt, GiveUp, Fail
      <3> QED
        BY <1>2, <3>1
    <2> QED
      BY <1>4, <2>1, <2>2, <2>3 DEF Work
  <1>5. ASSUME Edit \/ UNCHANGED vars
        PROVE  clean[r] /\ disk' = disk
    BY <1>3, <1>5 DEF Edit, vars
  <1>6. ASSUME Meddle
        PROVE  clean[r] /\ disk' = disk
    <2>1. Notice({}) /\ r \notin {}
      BY <1>6 DEF Meddle
    <2> QED
      BY <1>2, <2>1
  <1>7. /\ pc'[r] = pc[r] /\ goal'[r] = goal[r] /\ dels'[r] = dels[r]
        /\ puts'[r] = puts[r] /\ temp'[r] = temp[r] /\ result'[r] = result[r]
    <2>1. ASSUME Edit \/ Meddle \/ UNCHANGED vars
          PROVE  UNCHANGED session
      BY <2>1 DEF Edit, Meddle, vars
    <2>2. ASSUME NEW s \in Sessions,
                 Plan(s) \/ Answer(s) \/ Work(s) \/ Fail(s) \/ Crash(s)
          PROVE  s # r
      BY <2>2
    <2> QED
      BY <1>1, <2>1, <2>2, OthersKeep DEF Next, session
  <1> QED
    BY <1>4, <1>5, <1>6, <1>7 DEF Next

\* Every step of a session that is alone brings it closer to its goal.
LEMMA TrackStep ==
  ASSUME IInv, [Next]_vars, NEW r \in Sessions,
         clean'[r], PrefixFree(goal'[r]), pc'[r] # "idle" \/ Done(r)'
  PROVE  OnTrack(r)'
  <1>1. /\ TypeOK /\ TreeOK(disk) /\ disk \in [Paths -> Nodes]
        /\ PhaseOK(r) /\ TempOK(r)
    BY DEF IInv, TypeOK, TreeOK
  <1>2. /\ DOMAIN goal[r] \subseteq Paths /\ DOMAIN goal[r] \cap Temps = {}
        /\ puts[r] \subseteq Paths /\ dels[r] \subseteq Paths
    BY <1>1, GoalFacts, PathFacts DEF TypeOK
  <1>3. ASSUME ~Plan(r), goal'[r] = goal[r], pc[r] # "idle", clean[r]
        PROVE  OnTrack(r)
    BY <1>3 DEF IInv
  <1>p. ASSUME Plan(r)
        PROVE  OnTrack(r)'
    BY <1>1, <1>p DEF Plan, OnTrack, TypeOK, Puts, Dels, ListExisting
  <1>c. ASSUME Confirm(r)
        PROVE  OnTrack(r)'
    BY <1>1, <1>c DEF IInv, Confirm, OnTrack
  <1>r. ASSUME Remove(r)
        PROVE  OnTrack(r)'
    <2>1. /\ pc[r] = "remove" /\ goal' = goal /\ puts' = puts /\ temp' = temp
          /\ clean[r]
      BY <1>1, <1>r DEF Remove, Notice, TypeOK
    <2>2. OnTrack(r) /\ PrefixFree(goal[r])
      BY <2>1 DEF IInv
    <2>3. PICK p \in dels[r] : disk' = RemoveAll(disk, p) /\ dels'[r] = dels[r] \ {p}
      BY <1>1, <1>r DEF Remove, TypeOK
    <2>4. IsFile(disk, p) /\ p \in Paths /\ p \notin DOMAIN goal[r]
      BY <1>1, <1>2, <2>2, <2>3 DEF OnTrack, PhaseOK
    <2>5. \A q \in DOMAIN goal'[r] \ puts'[r] : InSync(disk', goal'[r], q)
      BY <1>1, <1>2, <2>1, <2>2, <2>3, <2>4, RemoveAllInSync DEF OnTrack
    <2>6. \A q \in dels'[r] : IsFile(disk', q)
      <3>1. SUFFICES ASSUME NEW q \in dels[r], q # p
                     PROVE  RemoveAll(disk, p)[q] = disk[q]
        BY <2>2, <2>3 DEF OnTrack, IsFile
      <3>2. q \in Paths /\ disk[q] # Absent /\ disk[p] # Dir
        BY <1>2, <2>2, <2>4 DEF OnTrack, IsFile, Absent, Dir
      <3>3. p \notin Anc(q)
        BY <1>1, <2>4, <3>2, NothingBelow
      <3> QED
        BY <3>1, <3>2, <3>3 DEF RemoveAll
    <2>7. ListExisting(disk') \ DOMAIN goal'[r] \subseteq dels'[r] \cup {temp'[r]}
      BY <2>1, <2>2, <2>3, <2>4, ListShrinks DEF OnTrack
    <2> QED
      BY <2>5, <2>6, <2>7 DEF OnTrack, ListExisting, IsFile
  <1>w. ASSUME Prepare(r)
        PROVE  OnTrack(r)'
    <2>1. /\ pc[r] = "write" /\ goal' = goal /\ puts' = puts /\ temp' = temp
          /\ dels' = dels /\ clean[r]
      BY <1>1, <1>w DEF Prepare, Notice, TypeOK
    <2>2. OnTrack(r) /\ PrefixFree(goal[r]) /\ dels[r] = {}
      BY <1>1, <2>1 DEF IInv, PhaseOK
    <2>3. PICK p \in puts[r] : disk' = MakeRoom(disk, p)
      BY <1>w DEF Prepare
    <2>4. p \in DOMAIN goal[r] /\ p \in Paths
      BY <1>1, <1>2, <2>3 DEF PhaseOK
    <2>5. \A q \in DOMAIN goal'[r] \ puts'[r] : InSync(disk', goal'[r], q)
      BY <1>1, <1>2, <2>1, <2>2, <2>3, <2>4, MakeRoomInSync DEF OnTrack
    <2>6. ListExisting(disk') \ DOMAIN goal'[r] \subseteq dels'[r] \cup {temp'[r]}
      BY <2>1, <2>2, <2>3, <2>4, ListShrinks DEF OnTrack
    <2> QED
      BY <2>1, <2>2, <2>5, <2>6 DEF OnTrack, ListExisting, IsFile
  <1>s. ASSUME Stage(r)
        PROVE  OnTrack(r)'
    <2>1. /\ pc[r] = "stage" /\ goal' = goal /\ puts' = puts /\ dels' = dels /\ clean[r]
      BY <1>1, <1>s DEF Stage, Notice, TypeOK
    <2>2. OnTrack(r) /\ dels[r] = {} /\ temp[r] = NoTemp
      BY <1>1, <2>1 DEF IInv, PhaseOK
    <2>3. PICK t \in Temps :
            disk' = [disk EXCEPT ![t] = File(Partial, DefaultMode)] /\ temp'[r] = t
      BY <1>1, <1>s DEF Stage, FreeTemps, TypeOK
    <2>4. \A q \in Paths : q # t => disk'[q] = disk[q]
      BY <1>1, <2>3
    <2>5. \A q \in DOMAIN goal'[r] \ puts'[r] : InSync(disk', goal'[r], q)
      BY <1>2, <2>1, <2>2, <2>4, InSyncNode DEF OnTrack
    <2>6. ListExisting(disk') \subseteq ListExisting(disk) \cup {t}
      BY <2>4, PathFacts DEF ListExisting, IsFile
    <2>7. ListExisting(disk) \ DOMAIN goal[r] = {}
      BY <2>2, PathFacts DEF OnTrack, ListExisting
    <2> QED
      BY <2>1, <2>2, <2>3, <2>5, <2>6, <2>7 DEF OnTrack, ListExisting, IsFile
  <1>f. ASSUME Fill(r)
        PROVE  OnTrack(r)'
    <2>1. /\ pc[r] = "fill" /\ goal' = goal /\ puts' = puts /\ dels' = dels
          /\ temp' = temp /\ clean[r] /\ temp[r] \in Temps
      BY <1>1, <1>f DEF Fill, Notice, TypeOK, PhaseOK
    <2>2. OnTrack(r) /\ dels[r] = {}
      BY <1>1, <2>1 DEF IInv, PhaseOK
    <2>3. \A q \in Paths : q # temp[r] => disk'[q] = disk[q]
      BY <1>1, <1>f DEF Fill
    <2>4. \A q \in DOMAIN goal'[r] \ puts'[r] : InSync(disk', goal'[r], q)
      BY <1>2, <2>1, <2>2, <2>3, InSyncNode DEF OnTrack
    <2>5. ListExisting(disk') \subseteq ListExisting(disk) \cup {temp[r]}
      BY <2>3, PathFacts DEF ListExisting, IsFile
    <2> QED
      BY <2>1, <2>2, <2>4, <2>5 DEF OnTrack, ListExisting, IsFile
  <1>m. ASSUME Commit(r)
        PROVE  OnTrack(r)'
    <2>1. /\ pc[r] = "commit" /\ goal' = goal /\ dels' = dels /\ clean[r]
          /\ temp[r] \in Temps /\ temp[r] # NoTemp /\ IsFile(disk, temp[r])
      BY <1>1, <1>m DEF Commit, Notice, TypeOK, PhaseOK
    <2>2. OnTrack(r) /\ dels[r] = {}
      BY <1>1, <2>1 DEF IInv, PhaseOK
    <2>3. PICK p \in puts[r] : /\ First(puts[r], p) /\ disk' = Rename(disk, temp[r], p)
                              /\ puts'[r] = puts[r] \ {p}
      BY <1>1, <1>m DEF Commit, TypeOK
    <2>4. p \in DOMAIN goal[r] /\ p \in Paths /\ p # temp[r]
      BY <1>1, <1>2, <2>1, <2>3 DEF PhaseOK
    <2>5. disk[temp[r]] = Rendered(goal[r], p)
      BY <1>1, <2>1, <2>3 DEF TempOK, IsFile, Absent
    <2>6. /\ disk'[p] = Rendered(goal[r], p) /\ disk'[temp[r]] = Absent
          /\ \A q \in Paths : q \notin {p, temp[r]} => disk'[q] = disk[q]
      BY <1>1, <2>1, <2>3, <2>4, <2>5, PathFacts DEF Rename
    <2>7. \A q \in DOMAIN goal'[r] \ puts'[r] : InSync(disk', goal'[r], q)
      BY <1>2, <2>1, <2>2, <2>3, <2>6, RenderedInSync, InSyncNode DEF OnTrack
    <2>8. ListExisting(disk') \subseteq (ListExisting(disk) \ {temp[r]}) \cup {p}
      BY <2>1, <2>6, PathFacts DEF ListExisting, IsFile, Absent
    <2> QED
      BY <2>1, <2>2, <2>4, <2>7, <2>8 DEF OnTrack, ListExisting, IsFile
  <1>e. ASSUME Prune(r)
        PROVE  OnTrack(r)'
    <2>1. /\ pc[r] = "prune" /\ goal' = goal /\ puts' = puts /\ dels' = dels
          /\ temp' = temp /\ clean[r]
      BY <1>1, <1>e DEF Prune, Notice, TypeOK
    <2>2. OnTrack(r) /\ dels[r] = {}
      BY <1>1, <2>1 DEF IInv, PhaseOK
    <2>3. \A q \in DOMAIN goal'[r] \ puts'[r] : InSync(disk', goal'[r], q)
      BY <1>2, <1>e, <2>1, <2>2, PruneInSync DEF Prune, OnTrack
    <2>4. ListExisting(disk') \subseteq ListExisting(disk)
      BY <1>e, ListShrinks, NamesAssumption DEF Prune
    <2> QED
      BY <2>1, <2>2, <2>3, <2>4 DEF OnTrack, ListExisting, IsFile
  <1>o. ASSUME Record(r) \/ Adopt(r)
        PROVE  OnTrack(r)'
    <2>1. /\ pc[r] # "idle" /\ goal' = goal /\ puts' = puts /\ dels' = dels
          /\ temp' = temp /\ disk' = disk /\ clean[r]
      BY <1>1, <1>o DEF Record, Adopt, Notice, TypeOK
    <2> QED
      BY <2>1 DEF IInv, OnTrack
  <1>l. ASSUME Reload(r)
        PROVE  OnTrack(r)'
    <2>1. /\ pc[r] = "reload" /\ goal' = goal /\ disk' = disk /\ clean[r]
          /\ puts'[r] = {} /\ dels'[r] = {} /\ temp'[r] = NoTemp
      BY <1>1, <1>l DEF Reload, Return, TypeOK
    <2>2. OnTrack(r) /\ puts[r] = {} /\ dels[r] = {} /\ temp[r] = NoTemp
      BY <1>1, <2>1 DEF IInv, PhaseOK
    <2> QED
      BY <2>1, <2>2 DEF OnTrack
  <1>i. ASSUME Decline(r) \/ GiveUp(r) \/ GiveUpNotDir(r) \/ Fail(r) \/ Crash(r)
        PROVE  FALSE
    BY <1>1, <1>i
       DEF Decline, GiveUp, GiveUpNotDir, Fail, Crash, Return, Goto, Done, TypeOK
  <1>x. ASSUME ~(Plan(r) \/ Answer(r) \/ Work(r) \/ Fail(r) \/ Crash(r))
        PROVE  OnTrack(r)'
    <2>1. /\ clean[r] /\ disk' = disk
          /\ pc'[r] = pc[r] /\ goal'[r] = goal[r] /\ dels'[r] = dels[r]
          /\ puts'[r] = puts[r] /\ temp'[r] = temp[r] /\ result'[r] = result[r]
      BY <1>x, OthersDisturb
    <2>2. OnTrack(r)
      BY <2>1 DEF IInv, Done
    <2> QED
      BY <2>1, <2>2 DEF OnTrack
  <1> QED
    BY <1>p, <1>c, <1>r, <1>w, <1>s, <1>f, <1>m, <1>e, <1>o, <1>l, <1>i, <1>x
       DEF Work, Answer

-----------------------------------------------------------------------------
(* The theorems.                                                            *)

\* Nobody has planned anything: the invariant holds at first.
LEMMA Initially == Init => IInv
  <1> SUFFICES ASSUME Init PROVE IInv
    OBVIOUS
  <1>1. TreeOK(disk)
    BY ApplyAssumption DEF Init
  <1>2. TypeOK
    <2>1. UnitFiles(disk) \in [Units -> Nodes]
      BY <1>1, NamesAssumption DEF UnitFiles, TreeOK
    <2> QED
      BY <1>1, <2>1, ApplyAssumption DEF Init, TypeOK, Phases, Results
  <1>3. NoTornFile
    BY ApplyAssumption DEF Init, NoTornFile
  <1>4. \A s \in Sessions : PhaseOK(s) /\ TempOK(s)
    BY DEF Init, PhaseOK, TempOK
  <1>5. \A s \in Sessions : pc[s] = "idle" /\ ~Done(s)
    BY DEF Init, Done
  <1> QED
    BY <1>2, <1>3, <1>4, <1>5 DEF IInv

\* Every step keeps the invariant.
LEMMA Inductive == IInv /\ [Next]_vars => IInv'
  <1> SUFFICES ASSUME IInv, [Next]_vars PROVE IInv'
    OBVIOUS
  <1>1. \A r \in Sessions :
          clean'[r] /\ PrefixFree(goal'[r]) /\ (pc'[r] # "idle" \/ Done(r)') => OnTrack(r)'
    BY TrackStep
  <1>2. \A r \in Sessions : PhaseOK(r)' /\ TempOK(r)'
    BY PhaseStep, TempStep
  <1> QED
    BY <1>1, <1>2, TypeStep, TornStep DEF IInv, PrefixFree

\* In every phase of every session, plan, temp file and tree are as the phase needs them
\* (newApplyCmd and WriteFile), whoever else applies, fails, dies or meddles.
THEOREM Invariance == Spec => []IInv
  BY Initially, Inductive, PTL DEF Spec

\* The directory is a tree, and every session's plan, temp file and result are
\* what the code's variables can be, at every moment.
THEOREM TypeCorrect == Spec => []TypeOK
  <1>1. IInv => TypeOK
    BY DEF IInv
  <1> QED
    BY <1>1, Invariance, PTL

\* No unit file or build artifact is ever seen half-written, for any number of
\* concurrent applies, failing and dying at any point.
THEOREM NeverTorn == Spec => []NoTornFile
  <1>1. IInv => NoTornFile
    BY DEF IInv
  <1> QED
    BY <1>1, Invariance, PTL

\* A successful apply that was alone with the directory has left exactly the
\* goal, whatever the directory held before.
THEOREM Convergence == Spec => []Converged
  <1>1. IInv => Converged
    <2> SUFFICES ASSUME IInv, NEW s \in Sessions,
                        Done(s), clean[s], PrefixFree(goal[s])
                 PROVE  Synced(disk, goal[s])
      BY DEF Converged
    <2>1. OnTrack(s) /\ puts[s] = {} /\ dels[s] = {} /\ temp[s] = NoTemp
      BY DEF IInv, Done, PhaseOK
    <2>2. ListExisting(disk) \ DOMAIN goal[s] = {}
      BY <2>1, PathFacts DEF OnTrack, ListExisting
    <2> QED
      BY <2>1, <2>2 DEF OnTrack, Synced, Puts, Dels
  <1> QED
    BY <1>1, Invariance, PTL

-----------------------------------------------------------------------------
(* What a successful apply has recorded, and what systemd has read.         *)

\* A session that was alone and wrote files has recorded its goal before it
\* reloads.
Recording ==
  \A s \in Sessions :
    clean[s] /\ result[s] = "applied" => pc[s] \in {"reload", "idle"} /\ recorded = goal[s]

\* Every step keeps it that a clean session past its record has its goal on record.
LEMMA RecordingStep == IInv /\ Recording /\ [Next]_vars => Recording'
  <1> SUFFICES ASSUME IInv, Recording, [Next]_vars, NEW r \in Sessions,
                      clean'[r], result'[r] = "applied"
               PROVE  pc'[r] \in {"reload", "idle"} /\ recorded' = goal'[r]
    BY DEF Recording
  <1>1. TypeOK
    BY DEF IInv
  <1>2. ASSUME NEW who, r \notin who, Notice(who)
        PROVE  clean[r] /\ recorded' = recorded
    BY <1>1, <1>2 DEF Notice, TypeOK
  <1>3. ASSUME NEW s \in Sessions, s # r,
               Plan(s) \/ Answer(s) \/ Work(s) \/ Fail(s) \/ Crash(s)
        PROVE  pc'[r] \in {"reload", "idle"} /\ recorded' = goal'[r]
    <2>1. CASE \/ Remove(s) \/ Prepare(s) \/ Stage(s) \/ Fill(s) \/ Commit(s) \/ Prune(s)
               \/ Record(s) \/ Adopt(s) \/ GiveUp(s) \/ Fail(s)
      <3>1. Notice({s}) /\ r \notin {s}
        BY <1>3, <2>1
           DEF Remove, Prepare, Stage, Fill, Commit, Prune, Record, Adopt, GiveUp, Fail
      <3> QED
        BY <1>1, <1>2, <1>3, <3>1, OthersKeep DEF Recording
    <2>2. CASE Plan(s)
      BY <1>1, <1>3, <2>2, OthersKeep DEF Plan, TypeOK, Recording
    <2>3. CASE Answer(s) \/ Crash(s) \/ Reload(s) \/ GiveUpNotDir(s)
      <3>1. UNCHANGED <<clean, recorded>>
        BY <2>3 DEF Answer, Confirm, Decline, Crash, Reload, GiveUpNotDir
      <3> QED
        BY <1>1, <1>3, <3>1, OthersKeep DEF Recording
    <2> QED
      BY <1>3, <2>1, <2>2, <2>3 DEF Work
  <1>4. CASE Plan(r)
    BY <1>1, <1>4 DEF Plan, TypeOK
  <1>5. CASE Confirm(r)
    BY <1>1, <1>5 DEF Confirm, Recording
  <1>6. CASE Record(r)
    BY <1>1, <1>6 DEF Record, Goto, TypeOK
  <1>7. CASE Adopt(r)
    BY <1>1, <1>7 DEF Adopt, TypeOK
  <1>8. CASE Reload(r)
    BY <1>1, <1>8 DEF Reload, Return, Goto, TypeOK, Recording
  <1>9. CASE \/ Remove(r) \/ Prepare(r) \/ Stage(r) \/ Fill(r) \/ Commit(r) \/ Prune(r)
    <2>1. clean[r] /\ result[r] = "applied" /\ pc[r] \notin {"reload", "idle"}
      BY <1>1, <1>9
         DEF Remove, Prepare, Stage, Fill, Commit, Prune, Notice, TypeOK
    <2> QED
      BY <2>1 DEF Recording
  <1>10. CASE Decline(r) \/ GiveUp(r) \/ GiveUpNotDir(r) \/ Fail(r) \/ Crash(r)
    BY <1>1, <1>10 DEF Decline, GiveUp, GiveUpNotDir, Fail, Crash, Return, TypeOK
  <1>11. CASE Edit \/ UNCHANGED vars
    BY <1>11 DEF Edit, vars, session, Recording
  <1>12. CASE Meddle
    <2>1. Notice({}) /\ r \notin {}
      BY <1>12 DEF Meddle
    <2> QED
      BY <1>2, <1>12, <2>1 DEF Meddle, session, Recording
  <1> QED
    BY <1>3, <1>4, <1>5, <1>6, <1>7, <1>8, <1>9, <1>10, <1>11, <1>12
       DEF Next, Answer, Work

\* An apply that was alone, wrote files and succeeded has recorded the goal it
\* rendered before the prompt, whatever became of the project since.
THEOREM RecordsWhatItWrote == Spec => []AppliedRecorded
  <1>1. Init => Recording
    BY DEF Init, Recording
  <1>2. Recording => AppliedRecorded
    BY DEF Recording, AppliedRecorded
  <1> QED
    BY <1>1, <1>2, RecordingStep, Invariance, PTL DEF Spec

\* Every step keeps it that a clean session past its reload has its unit files read.
LEMMA LoadedStep == IInv /\ ReloadTakesEffect /\ [Next]_vars => ReloadTakesEffect'
  <1> SUFFICES ASSUME IInv, ReloadTakesEffect, [Next]_vars, NEW r \in Reloading,
                      Done(r)', clean'[r]
               PROVE  loaded' = (UnitFiles(disk))'
    BY DEF ReloadTakesEffect
  <1>1. TypeOK /\ r \in Sessions /\ pc'[r] = "idle" /\ result'[r] \in {"applied", "nothing"}
    BY ApplyAssumption DEF IInv, Done
  <1>2. CASE \/ Plan(r) \/ Answer(r) \/ Work(r) \/ Fail(r) \/ Crash(r)
    <2>1. CASE Reload(r)
      BY <2>1 DEF Reload, UnitFiles
    <2>2. CASE Plan(r) \/ Confirm(r) \/ Remove(r) \/ Prepare(r) \/ Stage(r) \/ Fill(r)
               \/ Commit(r) \/ Prune(r) \/ Record(r) \/ Adopt(r)
      BY <1>1, <2>2
         DEF Plan, Confirm, Remove, Prepare, Stage, Fill, Commit, Prune, Record, Adopt,
             Goto, NextPhase, TypeOK
    <2>3. CASE Decline(r) \/ GiveUp(r) \/ GiveUpNotDir(r) \/ Fail(r) \/ Crash(r)
      BY <1>1, <2>3 DEF Decline, GiveUp, GiveUpNotDir, Fail, Crash, Return, TypeOK
    <2> QED
      BY <1>2, <2>1, <2>2, <2>3 DEF Answer, Work
  <1>3. CASE ~(Plan(r) \/ Answer(r) \/ Work(r) \/ Fail(r) \/ Crash(r))
    <2>1. clean[r] /\ disk' = disk /\ Done(r)
      BY <1>1, <1>3, OthersDisturb DEF Done
    <2>2. loaded = UnitFiles(disk)
      BY <2>1 DEF ReloadTakesEffect
    <2>3. loaded' \in {loaded, UnitFiles(disk)}
      BY DEF Next, Answer, Work, Plan, Confirm, Decline, Remove, Prepare, Stage, Fill,
             Commit, Prune, Record, Adopt, Reload, GiveUp, GiveUpNotDir, Fail, Crash,
             Edit, Meddle, vars
    <2> QED
      BY <2>1, <2>2, <2>3 DEF UnitFiles
  <1> QED
    BY <1>2, <1>3

\* After a successful apply that was alone, systemd has read the unit files
\* that are in the directory.
THEOREM SystemdHasRead == Spec => []ReloadTakesEffect
  <1>1. Init => ReloadTakesEffect
    BY DEF Init, ReloadTakesEffect, Done
  <1> QED
    BY <1>1, LoadedStep, Invariance, PTL DEF Spec


-----------------------------------------------------------------------------
(* No temp file is left behind.                                             *)

\* Whatever has a temp name is a regular file, and a session's unless one died.
Owned ==
  \A t \in Temps : disk[t] # Absent =>
    IsFile(disk, t) /\ (crashes = 0 => \E s \in Sessions : temp[s] = t)

\* The operations on the tree neither make nor change a node with a temp name.
LEMMA TempsPassive ==
  ASSUME TypeOK, NEW p \in Paths, NEW t \in Temps
  PROVE  /\ RemoveAll(disk, p)[t] \in {disk[t], Absent}
         /\ MakeRoom(disk, p)[t] \in {disk[t], Absent}
         /\ PruneEmptyDirs(disk)[t] \in {disk[t], Absent}
  <1>1. t \in Paths /\ t \notin Anc(p)
    BY NamesAssumption
  <1> QED
    BY <1>1 DEF RemoveAll, MakeRoom, EnsureDir, PruneEmptyDirs

\* Every step keeps it that temp files belong to sessions that write them.
LEMMA OwnedStep == IInv /\ Owned /\ [Next]_vars => Owned'
  <1> SUFFICES ASSUME IInv, Owned, [Next]_vars, NEW t \in Temps, disk'[t] # Absent
               PROVE  (IsFile(disk, t))' /\ (crashes' = 0 => \E s \in Sessions : temp'[s] = t)
    BY DEF Owned
  <1>1. TypeOK /\ TreeOK(disk) /\ t \in Paths /\ disk \in [Paths -> Nodes]
    BY PathFacts DEF IInv, TypeOK, TreeOK
  <1>2. ASSUME disk'[t] \in {disk[t], Absent}, UNCHANGED <<temp, crashes>>
        PROVE  (IsFile(disk, t))' /\ (crashes' = 0 => \E s \in Sessions : temp'[s] = t)
    BY <1>2 DEF Owned, IsFile
  <1>3. ASSUME NEW s \in Sessions,
               \/ Plan(s) \/ Confirm(s) \/ Remove(s) \/ Prepare(s) \/ Prune(s)
               \/ Record(s) \/ Adopt(s)
        PROVE  disk'[t] \in {disk[t], Absent} /\ UNCHANGED <<temp, crashes>>
    <2>1. CASE Remove(s)
      <3>1. PICK p \in dels[s] : disk' = RemoveAll(disk, p)
        BY <2>1 DEF Remove
      <3> QED
        BY <1>1, <2>1, <3>1, PathFacts, TempsPassive DEF Remove, TypeOK, bounds
    <2>2. CASE Prepare(s)
      <3>1. PICK p \in puts[s] : disk' = MakeRoom(disk, p)
        BY <2>2 DEF Prepare
      <3> QED
        BY <1>1, <2>2, <3>1, PathFacts, TempsPassive DEF Prepare, TypeOK, bounds
    <2>3. CASE Prune(s)
      BY <1>1, <2>3, NamesAssumption, TempsPassive DEF Prune, bounds
    <2>4. CASE Plan(s) \/ Confirm(s) \/ Record(s) \/ Adopt(s)
      BY <2>4 DEF Plan, Confirm, Record, Adopt, bounds
    <2> QED
      BY <1>3, <2>1, <2>2, <2>3, <2>4
  <1>4. ASSUME NEW s \in Sessions, Stage(s)
        PROVE  (IsFile(disk, t))' /\ (crashes' = 0 => \E r \in Sessions : temp'[r] = t)
    <2>1. PICK u \in Temps \ Held : /\ disk' = [disk EXCEPT ![u] = File(Partial, DefaultMode)]
                                   /\ temp' = [temp EXCEPT ![s] = u]
      BY <1>4 DEF Stage, FreeTemps
    <2>2. temp[s] = NoTemp
      BY <1>4 DEF Stage, IInv, PhaseOK
    <2>3. CASE t = u
      BY <1>1, <2>1, <2>3 DEF TypeOK, IsFile, File
    <2>4. CASE t # u
      <3>1. disk'[t] = disk[t] /\ IsFile(disk, t)
        BY <1>1, <2>1, <2>4 DEF Owned
      <3>2. \A r \in Sessions : temp[r] = t => temp'[r] = t
        BY <1>1, <2>1, <2>2, PathFacts DEF TypeOK
      <3> QED
        BY <1>4, <3>1, <3>2 DEF Owned, Stage, IsFile, bounds
    <2> QED
      BY <2>3, <2>4
  <1>5. ASSUME NEW s \in Sessions, Fill(s)
        PROVE  (IsFile(disk, t))' /\ (crashes' = 0 => \E r \in Sessions : temp'[r] = t)
    <2>1. PICK p \in puts[s] : disk' = [disk EXCEPT ![temp[s]] = Rendered(goal[s], p)]
      BY <1>5 DEF Fill
    <2>2. disk[t] # Absent
      BY <1>1, <1>5, <2>1 DEF Fill, IsFile, Absent
    <2>3. (IsFile(disk, t))'
      BY <1>1, <2>1, <2>2 DEF Owned, Rendered, File, IsFile
    <2> QED
      BY <1>5, <2>2, <2>3 DEF Fill, Owned, bounds
  <1>6. ASSUME NEW s \in Sessions, Commit(s)
        PROVE  (IsFile(disk, t))' /\ (crashes' = 0 => \E r \in Sessions : temp'[r] = t)
    <2>1. PICK p \in puts[s] : disk' = Rename(disk, temp[s], p)
      BY <1>6 DEF Commit
    <2>2. temp[s] \in Temps /\ p \notin Temps
      BY <1>1, <1>6, <2>1, GoalFacts DEF Commit, IInv, PhaseOK, TypeOK
    <2>3. t # temp[s] /\ disk'[t] = disk[t]
      BY <1>1, <2>1, <2>2, PathFacts DEF Rename
    <2>4. \A r \in Sessions : temp[r] = t => temp'[r] = t
      BY <1>1, <1>6, <2>3 DEF Commit, TypeOK
    <2> QED
      BY <1>6, <2>3, <2>4 DEF Commit, Owned, IsFile, bounds
  <1>7. ASSUME NEW s \in Sessions, GiveUp(s) \/ Fail(s)
        PROVE  (IsFile(disk, t))' /\ (crashes' = 0 => \E r \in Sessions : temp'[r] = t)
    <2>1. DropTemp(s) /\ crashes' = crashes /\ temp' = [temp EXCEPT ![s] = NoTemp]
      BY <1>7 DEF GiveUp, Fail, Return, bounds
    <2>2. disk'[t] = disk[t]
      BY <1>1, <2>1 DEF DropTemp
    <2>3. t # temp[s]
      BY <1>1, <2>1, <2>2, PathFacts DEF DropTemp, Owned
    <2>4. \A r \in Sessions : temp[r] = t => temp'[r] = t
      BY <1>1, <2>1, <2>3 DEF TypeOK
    <2> QED
      BY <2>1, <2>2, <2>4 DEF Owned, IsFile
  <1>8. ASSUME NEW s \in Sessions, Decline(s) \/ Reload(s) \/ GiveUpNotDir(s)
        PROVE  disk'[t] \in {disk[t], Absent} /\ UNCHANGED <<temp, crashes>>
    <2>1. temp[s] = NoTemp
      BY <1>8 DEF Decline, Reload, GiveUpNotDir, IInv, PhaseOK
    <2> QED
      BY <1>1, <1>8, <2>1 DEF Decline, Reload, GiveUpNotDir, Return, TypeOK, bounds
  <1>9. ASSUME NEW s \in Sessions, Crash(s)
        PROVE  (IsFile(disk, t))' /\ crashes' # 0
    BY <1>1, <1>9 DEF Crash, TypeOK, Owned, IsFile
  <1>10. CASE Edit \/ UNCHANGED vars
    BY <1>2, <1>10 DEF Edit, vars, session, bounds
  <1>11. CASE Meddle
    <2>1. PICK p \in Paths \ Temps, n \in Meddlings :
            disk' = [RemoveAll(disk, p) EXCEPT ![p] = n]
      BY <1>11 DEF Meddle
    <2>2. disk'[t] = RemoveAll(disk, p)[t]
      BY <1>1, <2>1 DEF RemoveAll
    <2> QED
      BY <1>1, <1>2, <1>11, <2>2, TempsPassive DEF Meddle, session
  <1> QED
    BY <1>2, <1>3, <1>4, <1>5, <1>6, <1>7, <1>8, <1>9, <1>10, <1>11
       DEF Next, Answer, Work

\* However applies interleave and fail, a temp file in the directory is held by
\* exactly one session that is writing it, as long as no process has died.
THEOREM NoLitter == Spec => []TempsOwned
  <1>1. Init => Owned
    BY ApplyAssumption DEF Init, Owned
  <1>2. IInv /\ Owned => TempsOwned
    <2> SUFFICES ASSUME IInv, Owned, crashes = 0, NEW t \in Temps, disk[t] # Absent
                 PROVE  \E s \in Sessions : /\ temp[s] = t /\ pc[s] \in {"fill", "commit"}
                                            /\ \A r \in Sessions : temp[r] = t => r = s
      BY DEF TempsOwned
    <2>1. PICK s \in Sessions : temp[s] = t
      BY DEF Owned
    <2>2. temp[s] # NoTemp
      BY <2>1, PathFacts
    <2> QED
      BY <2>1, <2>2 DEF IInv, PhaseOK, TempOK
  <1> QED
    BY <1>1, <1>2, OwnedStep, Invariance, PTL DEF Spec


-----------------------------------------------------------------------------
(* What is in place stays in place.                                         *)

\* A step of a session that is alone leaves in place what it desires.
LEMMA KeepsInPlace ==
  ASSUME IInv, [Next]_vars, NEW s \in Sessions, Alone(s), PrefixFree(goal[s]),
         NEW q \in DOMAIN goal[s], InSync(disk, goal[s], q)
  PROVE  InSync(disk', goal[s], q)
  <1>1. /\ TypeOK /\ TreeOK(disk) /\ disk \in [Paths -> Nodes]
        /\ PhaseOK(s) /\ TempOK(s) /\ OnTrack(s)
    BY DEF IInv, TypeOK, TreeOK, Alone
  <1>2. /\ goal[s] \in Projects /\ q \in Paths /\ q \notin Temps
        /\ puts[s] \subseteq Paths /\ dels[s] \subseteq Paths
        /\ IsFile(disk, q) /\ disk[q] # Absent /\ disk[q].kind = "file"
    BY <1>1, GoalFacts, PathFacts DEF TypeOK, InSync, IsFile, Absent
  <1>3. disk'[q] = disk[q] => InSync(disk', goal[s], q)
    BY DEF InSync, IsFile
  <1>r. CASE Remove(s)
    <2>1. PICK p \in dels[s] : disk' = RemoveAll(disk, p)
      BY <1>r DEF Remove
    <2>2. q # p /\ p \notin Anc(q)
      <3>1. IsFile(disk, p) /\ p \in Paths
        BY <1>1, <1>2, <2>1 DEF OnTrack
      <3>2. p \in Anc(q) => disk[p] = Dir
        BY <1>1, <1>2, <3>1, NothingBelow
      <3> QED
        BY <1>1, <2>1, <3>1, <3>2 DEF PhaseOK, IsFile, Dir
    <2> QED
      BY <1>2, <1>3, <2>1, <2>2 DEF RemoveAll
  <1>w. CASE Prepare(s)
    <2>1. PICK p \in puts[s] : disk' = MakeRoom(disk, p)
      BY <1>w DEF Prepare
    <2>2. p \in DOMAIN goal[s] /\ p \in Paths
      BY <1>1, <1>2, <2>1 DEF PhaseOK
    <2>3. q \notin Anc(p) /\ p \notin Anc(q)
      BY <2>2 DEF PrefixFree
    <2>4. EnsureDir(disk, p)[q] = disk[q]
      BY <1>2, <2>3 DEF EnsureDir
    <2>5. CASE q = p
      <3>1. EnsureDir(disk, p)[p].kind = "file"
        BY <1>2, <2>4, <2>5
      <3>2. disk' = EnsureDir(disk, p)
        BY <2>1, <3>1 DEF MakeRoom
      <3> QED
        BY <1>3, <2>4, <3>2
    <2>6. CASE q # p
      BY <1>2, <1>3, <2>1, <2>3, <2>4, <2>6 DEF MakeRoom, RemoveAll
    <2> QED
      BY <2>5, <2>6
  <1>s. CASE Stage(s)
    <2>1. PICK t \in Temps : disk' = [disk EXCEPT ![t] = File(Partial, DefaultMode)]
      BY <1>s DEF Stage, FreeTemps
    <2> QED
      BY <1>2, <1>3, <2>1
  <1>f. CASE Fill(s)
    <2>1. PICK n : disk' = [disk EXCEPT ![temp[s]] = n]
      BY <1>f DEF Fill
    <2>2. temp[s] # q
      BY <1>1, <1>2, <1>f DEF Fill, TypeOK, PhaseOK
    <2> QED
      BY <1>3, <2>1, <2>2
  <1>m. CASE Commit(s)
    <2>1. PICK p \in puts[s] : First(puts[s], p) /\ disk' = Rename(disk, temp[s], p)
      BY <1>m DEF Commit
    <2>2. temp[s] \in Temps /\ IsFile(disk, temp[s]) /\ p \in DOMAIN goal[s]
      BY <1>1, <1>m, <2>1 DEF Commit, TypeOK, PhaseOK
    <2>3. CASE q # p
      <3>1. temp[s] # q
        BY <1>2, <2>2
      <3>2. disk'[q] = disk[q]
        BY <1>1, <1>2, <2>1, <2>3, <3>1 DEF Rename
      <3> QED
        BY <1>3, <3>2
    <2>4. CASE q = p
      <3>1. disk[temp[s]] = Rendered(goal[s], p)
        BY <1>1, <1>m, <2>1, <2>2, PathFacts DEF TempOK, Commit, IsFile, Absent
      <3>2. disk'[q] = Rendered(goal[s], q)
        BY <1>1, <1>2, <2>1, <2>2, <2>4, <3>1 DEF Rename
      <3> QED
        BY <3>2 DEF InSync, IsFile, Rendered, File, Perm
    <2> QED
      BY <2>3, <2>4
  <1>e. CASE Prune(s)
    BY <1>2, <1>3, <1>e DEF Prune, PruneEmptyDirs, Dir
  <1>g. CASE GiveUp(s) \/ Fail(s)
    <2>1. DropTemp(s)
      BY <1>g DEF GiveUp, Fail
    <2> QED
      BY <1>1, <1>2, <1>3, <2>1 DEF DropTemp, TypeOK
  <1>u. CASE \/ Plan(s) \/ Answer(s) \/ Record(s) \/ Adopt(s) \/ Reload(s)
            \/ GiveUpNotDir(s) \/ Crash(s)
    BY <1>3, <1>u
       DEF Plan, Answer, Confirm, Decline, Record, Adopt, Reload, GiveUpNotDir, Crash
  <1>o. CASE ~(Plan(s) \/ Answer(s) \/ Work(s) \/ Fail(s) \/ Crash(s))
    BY <1>3, <1>o, OthersDisturb DEF Alone
  <1> QED
    BY <1>r, <1>w, <1>s, <1>f, <1>m, <1>e, <1>g, <1>u, <1>o DEF Work

\* An apply that is alone never disturbs a desired file that is as desired.
THEOREM LeavesInPlace == Spec => Undisturbed
  <1>1. IInv /\ [Next]_vars =>
          [\A s \in Sessions :
             Alone(s) /\ PrefixFree(goal[s]) =>
               \A p \in DOMAIN goal[s] :
                 InSync(disk, goal[s], p) => InSync(disk', goal[s], p)]_vars
    BY KeepsInPlace
  <1> QED
    BY <1>1, Invariance, PTL DEF Spec, Undisturbed


-----------------------------------------------------------------------------
(* What an apply changes.                                                   *)

\* What a session that is alone is about to remove is still a regular file.
Sought == \A s \in Sessions : clean[s] /\ pc[s] # "idle" => \A p \in dels[s] : IsFile(disk, p)

\* Removing a regular file removes nothing else.
LEMMA RemoveFile ==
  ASSUME TypeOK, NEW p \in Paths, IsFile(disk, p), NEW q \in Paths, q # p
  PROVE  RemoveAll(disk, p)[q] = disk[q]
  <1>1. p \in Anc(q) => disk[q] = Absent
    BY NothingBelow DEF TypeOK, IsFile, Dir
  <1> QED
    BY <1>1 DEF RemoveAll

\* Every step keeps it that what a session alone is about to remove is a regular file.
LEMMA SoughtStep == IInv /\ Sought /\ [Next]_vars => Sought'
  <1> SUFFICES ASSUME IInv, Sought, [Next]_vars, NEW r \in Sessions, clean'[r], pc'[r] # "idle",
                      NEW q \in dels'[r]
               PROVE  (IsFile(disk, q))'
    BY DEF Sought
  <1>1. TypeOK /\ dels[r] \subseteq Paths
    BY PathFacts DEF IInv, TypeOK
  <1>2. CASE Plan(r)
    BY <1>1, <1>2 DEF Plan, TypeOK, Dels, ListExisting, IsFile
  <1>3. CASE Remove(r)
    <2>1. PICK p \in dels[r] : /\ disk' = RemoveAll(disk, p)
                               /\ dels' = [dels EXCEPT ![r] = @ \ {p}]
      BY <1>3 DEF Remove
    <2>2. clean[r] /\ pc[r] # "idle" /\ q \in dels[r] /\ q # p
      BY <1>1, <1>3, <2>1 DEF Remove, Notice, TypeOK
    <2>3. disk'[q] = disk[q]
      BY <1>1, <2>1, <2>2, RemoveFile DEF Sought
    <2> QED
      BY <2>2, <2>3 DEF Sought, IsFile
  <1>4. CASE Confirm(r)
    BY <1>1, <1>4 DEF Confirm, Sought, IsFile
  <1>5. CASE \/ Prepare(r) \/ Stage(r) \/ Fill(r) \/ Commit(r) \/ Prune(r)
             \/ Record(r) \/ Adopt(r)
    <2>1. dels'[r] = {}
      BY <1>5 DEF Prepare, Stage, Fill, Commit, Prune, Record, Adopt, IInv, PhaseOK
    <2> QED
      BY <2>1
  <1>6. CASE Decline(r) \/ Reload(r) \/ GiveUp(r) \/ GiveUpNotDir(r) \/ Fail(r) \/ Crash(r)
    BY <1>1, <1>6 DEF Decline, Reload, GiveUp, GiveUpNotDir, Fail, Crash, Return, Goto, TypeOK
  <1>7. CASE ~(Plan(r) \/ Answer(r) \/ Work(r) \/ Fail(r) \/ Crash(r))
    BY <1>7, OthersDisturb DEF Sought, IsFile
  <1> QED
    BY <1>2, <1>3, <1>4, <1>5, <1>6, <1>7 DEF Answer, Work

\* A step of a session that is alone changes only what the footprint has.
LEMMA ChangesOnly ==
  ASSUME IInv, Sought, [Next]_vars, NEW s \in Sessions, Alone(s),
         NEW q \in Paths, disk'[q] # disk[q]
  PROVE  \/ q \in Temps \cup DOMAIN goal[s] \cup ListExisting(disk)
         \/ InTheWay(goal[s], q)
         \/ /\ q \in Artifacts /\ disk[q] = Dir
            /\ \A p \in Paths : q \in Anc(p) => disk[p] \in {Absent, Dir}
  <1>1. /\ TypeOK /\ PhaseOK(s) /\ disk \in [Paths -> Nodes]
        /\ dels[s] \subseteq Units \cup Artifacts /\ dels[s] \subseteq Paths
    BY PathFacts DEF IInv, TypeOK, TreeOK
  <1>r. CASE Remove(s)
    <2>1. PICK p \in dels[s] : disk' = RemoveAll(disk, p)
      BY <1>r DEF Remove
    <2>2. IsFile(disk, p) /\ p \in ListExisting(disk)
      BY <1>1, <2>1 DEF Sought, Alone, ListExisting
    <2> QED
      BY <1>1, <2>1, <2>2, RemoveFile
  <1>w. CASE Prepare(s)
    <2>1. PICK p \in puts[s] : disk' = MakeRoom(disk, p)
      BY <1>w DEF Prepare
    <2>2. q = p \/ q \in Anc(p) \/ p \in Anc(q)
      BY <2>1 DEF MakeRoom, EnsureDir, RemoveAll
    <2> QED
      BY <1>1, <2>1, <2>2 DEF PhaseOK, InTheWay
  <1>s. CASE Stage(s)
    <2>1. PICK t \in Temps : disk' = [disk EXCEPT ![t] = File(Partial, DefaultMode)]
      BY <1>s DEF Stage, FreeTemps
    <2> QED
      BY <1>1, <2>1
  <1>f. CASE Fill(s)
    <2>1. PICK n : disk' = [disk EXCEPT ![temp[s]] = n]
      BY <1>f DEF Fill
    <2>2. temp[s] \in Temps
      BY <1>1, <1>f DEF Fill, TypeOK, PhaseOK
    <2> QED
      BY <1>1, <2>1, <2>2
  <1>m. CASE Commit(s)
    <2>1. PICK p \in puts[s] : disk' = Rename(disk, temp[s], p)
      BY <1>m DEF Commit
    <2>2. temp[s] \in Temps /\ p \in DOMAIN goal[s]
      BY <1>1, <1>m, <2>1 DEF Commit, TypeOK, PhaseOK
    <2>3. q = p \/ q = temp[s]
      BY <1>1, <2>1 DEF Rename
    <2> QED
      BY <2>2, <2>3
  <1>e. CASE Prune(s)
    BY <1>e DEF Prune, PruneEmptyDirs
  <1>g. CASE GiveUp(s) \/ Fail(s)
    <2>1. DropTemp(s)
      BY <1>g DEF GiveUp, Fail
    <2> QED
      BY <1>1, <2>1 DEF DropTemp, TypeOK
  <1>u. CASE \/ Plan(s) \/ Answer(s) \/ Record(s) \/ Adopt(s) \/ Reload(s)
            \/ GiveUpNotDir(s) \/ Crash(s)
    BY <1>u
       DEF Plan, Answer, Confirm, Decline, Record, Adopt, Reload, GiveUpNotDir, Crash
  <1>o. CASE ~(Plan(s) \/ Answer(s) \/ Work(s) \/ Fail(s) \/ Crash(s))
    BY <1>o, OthersDisturb DEF Alone
  <1> QED
    BY <1>r, <1>w, <1>s, <1>f, <1>m, <1>e, <1>g, <1>u, <1>o DEF Work

\* An apply that is alone changes temp files, desired files, what is in their
\* way, undesired managed files and empty image directories, and nothing else.
THEOREM TouchesOnly == Spec => Footprint
  <1>1. Init => Sought
    BY DEF Init, Sought
  <1>2. IInv /\ Sought /\ [Next]_vars =>
          [\A s \in Sessions : Alone(s) =>
             \A p \in Paths : disk'[p] # disk[p] =>
               \/ p \in Temps \cup DOMAIN goal[s] \cup ListExisting(disk)
               \/ InTheWay(goal[s], p)
               \/ /\ p \in Artifacts /\ disk[p] = Dir
                  /\ \A q \in Paths : p \in Anc(q) => disk[q] \in {Absent, Dir}]_vars
    BY ChangesOnly
  <1> QED
    BY <1>1, <1>2, SoughtStep, Invariance, PTL DEF Spec, Footprint


-----------------------------------------------------------------------------
(* Apply implements Reconcile: every step of a session, of a user or of     *)
(* somebody else is, seen without temp files and phases, a step that the    *)
(* promise allows, or none at all.                                          *)

SessionStep(s) == Plan(s) \/ Answer(s) \/ Work(s) \/ Fail(s) \/ Crash(s)

\* The nodes accepted for a desired path, and that what is rendered is one.
LEMMA WillDo ==
  ASSUME NEW g \in Projects, NEW p \in DOMAIN g
  PROVE  /\ Rendered(g, p) \in Accepted[g][p]
         /\ \A d : TreeOK(d) => (InSync(d, g, p) <=> d[p] \in Accepted[g][p])
  <1>1. Rendered(g, p) \in Files
    BY GoalFacts, NodeKinds DEF IsFile
  <1>2. Rendered(g, p).content = g[p].content /\ g[p].mode \in {AnyMode, Rendered(g, p).mode}
    BY DEF Rendered, File, Perm
  <1>3. p \in Paths
    BY GoalFacts
  <1>4. ASSUME NEW d, TreeOK(d)
        PROVE  InSync(d, g, p) <=> d[p] \in Accepted[g][p]
    <2>1. d[p] \in Nodes
      BY <1>3, <1>4 DEF TreeOK
    <2>2. IsFile(d, p) <=> d[p] \in Files
      BY <2>1, NodeKinds DEF IsFile
    <2> QED
      BY <2>2 DEF InSync, Accepted
  <1> QED
    BY <1>1, <1>2, <1>4 DEF Accepted

\* The goal and directory give the same plan with and without temp names.
LEMMA SamePlan ==
  ASSUME TypeOK
  PROVE  /\ Promise!Unmet(project) = Puts(disk, project)
         /\ Promise!Unwanted(project) = Dels(disk, project) \ Temps
  <1>1. /\ TreeOK(disk) /\ project \in Projects
        /\ DOMAIN project \subseteq Visible /\ DOMAIN Accepted[project] = DOMAIN project
    BY GoalFacts DEF TypeOK, Visible, Accepted
  <1>2. Promise!Unmet(project) = Puts(disk, project)
    BY <1>1, WillDo DEF Promise!Unmet, Puts, VisibleDisk
  <1>3. ASSUME NEW p \in (Units \cup Artifacts) \ Temps
        PROVE  VisibleDisk[p] \in Files <=> IsFile(disk, p)
    <2>1. p \in Visible /\ disk[p] \in Nodes
      BY <1>1, PathFacts DEF Visible, TreeOK
    <2> QED
      BY <2>1, NodeKinds DEF VisibleDisk, IsFile
  <1>4. Promise!Unwanted(project) = Dels(disk, project) \ Temps
    BY <1>1, <1>3 DEF Promise!Unwanted, Dels, ListExisting
  <1> QED
    BY <1>2, <1>4

\* What the step of one session leaves of the others as seen from outside.
LEMMA Frame ==
  ASSUME TypeOK, NEW s \in Sessions, SessionStep(s)
  PROVE  /\ Status' = [Status EXCEPT ![s] = (Status[s])']
         /\ Condemned' = [Condemned EXCEPT ![s] = dels'[s] \ Temps]
  <1>1. ASSUME NEW r \in Sessions, r # s
        PROVE  (Status[r])' = Status[r] /\ (Condemned[r])' = Condemned[r]
    <2>1. pc'[r] = pc[r] /\ dels'[r] = dels[r] /\ result'[r] = result[r]
      BY <1>1, OthersKeep DEF SessionStep
    <2> QED
      BY <2>1 DEF Status, Condemned, Done
  <1> QED
    BY <1>1 DEF Status, Condemned

\* A session that goes on working is busy before and after.
LEMMA Working ==
  ASSUME TypeOK, NEW s \in Sessions, SessionStep(s), pc[s] # "idle", pc'[s] # "idle"
  PROVE  Status' = Status /\ Status[s] = "busy"
  <1>1. (Status[s])' = "busy" /\ Status[s] = "busy"
    BY DEF Status
  <1>2. Status' = [Status EXCEPT ![s] = "busy"]
    BY <1>1, Frame
  <1>3. [Status EXCEPT ![s] = "busy"] = Status
    <2>1. Status = [r \in Sessions |-> Status[r]]
      BY DEF Status
    <2> QED
      BY <1>1, <2>1
  <1> QED
    BY <1>1, <1>2, <1>3

\* A session whose removals stay the same condemns what it did.
LEMMA SameCondemned ==
  ASSUME TypeOK, UNCHANGED dels
  PROVE  Condemned' = Condemned
  BY DEF Condemned

\* A step that changes no path but temp names is not seen.
LEMMA Unseen ==
  ASSUME \A p \in Visible : disk'[p] = disk[p]
  PROVE  VisibleDisk' = VisibleDisk
  BY DEF VisibleDisk

\* Nothing is left to a session past its writes.
LEMMA NoneLeft ==
  ASSUME IInv, NEW s \in Sessions, pc[s] \in {"prune", "record", "adopt", "reload"}
  PROVE  /\ puts[s] = {} /\ Condemned[s] = {} /\ Promise!NothingLeft(s)
  <1>1. puts[s] = {} /\ dels[s] = {}
    BY DEF IInv, PhaseOK
  <1>2. Status[s] = "busy" /\ Condemned[s] = {}
    BY <1>1 DEF Status, Condemned
  <1> QED
    BY <1>1, <1>2 DEF Promise!NothingLeft, Promise!Busy

-----------------------------------------------------------------------------
(* The steps.                                                               *)

\* Plan is Begin.
LEMMA BeginStep ==
  ASSUME IInv, NEW s \in Sessions, Plan(s)
  PROVE  Promise!Begin(s)
  <1>1. TypeOK
    BY DEF IInv
  <1>2. SessionStep(s) /\ (Status[s])' = "busy" /\ Status[s] # "busy"
    BY <1>1 DEF SessionStep, Status, Plan, Goto, TypeOK
  <1>3. Status' = [Status EXCEPT ![s] = "busy"]
    BY <1>1, <1>2, Frame
  <1>4. dels'[s] = Dels(disk, project)
    BY <1>1 DEF Plan, TypeOK
  <1>5. Condemned' = [Condemned EXCEPT ![s] = Promise!Unwanted(project)]
    BY <1>1, <1>2, <1>4, Frame, SamePlan
  <1>6. puts' = [puts EXCEPT ![s] = Promise!Unmet(project)]
    BY <1>1, SamePlan DEF Plan
  <1>7. UNCHANGED VisibleDisk
    BY Unseen DEF Plan
  <1> QED
    BY <1>2, <1>3, <1>5, <1>6, <1>7 DEF Promise!Begin, Promise!Busy, Plan, bounds

\* A removal is Discard.
LEMMA DiscardStep ==
  ASSUME IInv, NEW s \in Sessions, Remove(s)
  PROVE  Promise!Discard(s) \/ UNCHANGED Promise!vars
  <1>1. TypeOK /\ TreeOK(disk)
    BY DEF IInv, TypeOK
  <1>2. PICK p \in dels[s] : /\ disk' = RemoveAll(disk, p)
                             /\ dels' = [dels EXCEPT ![s] = @ \ {p}]
                             /\ Goto(s, NextPhase(dels[s] \ {p}, puts[s]))
    BY DEF Remove
  <1>3. SessionStep(s) /\ pc[s] # "idle" /\ pc'[s] # "idle" /\ p \in Paths
    BY <1>1, <1>2, PathFacts DEF SessionStep, Work, Remove, Goto, NextPhase, TypeOK
  <1>4. Status' = Status /\ Status[s] = "busy"
    BY <1>1, <1>3, Working
  <1>5. dels'[s] = dels[s] \ {p} /\ Condemned[s] = dels[s] \ Temps
    BY <1>1, <1>2 DEF TypeOK, Condemned
  <1>6. CASE p \in Temps
    <2>1. UNCHANGED VisibleDisk
      <3>1. \A q \in Visible : q # p /\ p \notin Anc(q)
        BY <1>6, NamesAssumption DEF Visible
      <3> QED
        BY <1>2, <3>1, Unseen DEF RemoveAll, Visible
    <2>2. UNCHANGED Condemned
      <3>1. dels'[s] \ Temps = Condemned[s]
        BY <1>5, <1>6
      <3>2. Condemned = [Condemned EXCEPT ![s] = Condemned[s]]
        BY DEF Condemned
      <3> QED
        BY <1>1, <1>3, <3>1, <3>2, Frame
    <2> QED
      BY <1>4, <2>1, <2>2 DEF Remove, Promise!vars, Promise!work, bounds
  <1>7. CASE p \notin Temps
    <2>1. p \in Condemned[s]
      BY <1>5, <1>7
    <2>2. Condemned' = [Condemned EXCEPT ![s] = Condemned[s] \ {p}]
      <3>1. dels'[s] \ Temps = Condemned[s] \ {p}
        BY <1>5
      <3> QED
        BY <1>1, <1>3, <3>1, Frame
    <2>3. VisibleDisk' = [q \in Visible |->
                            IF q \in Promise!Within(p) THEN Absent ELSE VisibleDisk[q]]
      <3>1. \A q \in Visible : q \in Promise!Within(p) <=> q = p \/ p \in Anc(q)
        BY <1>3 DEF Promise!Within, Anc, Visible
      <3> QED
        BY <1>2, <3>1 DEF VisibleDisk, RemoveAll, Visible
    <2> QED
      BY <1>4, <2>1, <2>2, <2>3 DEF Promise!Discard, Promise!Busy, Remove, bounds
  <1> QED
    BY <1>6, <1>7


\* Making room for an owed path.
LEMMA MakeWayStep ==
  ASSUME IInv, NEW s \in Sessions, Prepare(s)
  PROVE  Promise!MakeWay(s)
  <1>1. TypeOK /\ TreeOK(disk) /\ PhaseOK(s)
    BY DEF IInv, TypeOK
  <1>2. PICK p \in puts[s] : disk' = MakeRoom(disk, p)
    BY DEF Prepare
  <1>3. /\ p \in Visible /\ SessionStep(s) /\ pc[s] # "idle" /\ pc'[s] # "idle"
        /\ dels[s] = {}
    BY <1>1, <1>2, GoalFacts
       DEF SessionStep, Work, Prepare, Goto, TypeOK, PhaseOK, Visible
  <1>4. /\ Status' = Status /\ Status[s] = "busy"
        /\ Condemned' = Condemned /\ Condemned[s] = {}
    BY <1>1, <1>3, Working, SameCondemned DEF Prepare, Condemned
  <1> DEFINE made == EnsureDir(disk, p)
  <1>5. ASSUME NEW q \in Visible
        PROVE  disk'[q] = IF q \in Promise!Above(p) THEN Dir
                          ELSE IF q \in Promise!Within(p) /\ disk[p] \notin Files THEN Absent
                          ELSE disk[q]
    <2>1. /\ q \in Promise!Above(p) <=> q \in Anc(p)
          /\ q \in Promise!Within(p) <=> q = p \/ p \in Anc(q)
          /\ p \in Paths /\ q \in Paths /\ disk[p] \in Nodes /\ disk[q] \in Nodes
      BY <1>1, <1>3 DEF Promise!Above, Promise!Within, Anc, Visible, TreeOK
    <2>2. p \notin Anc(p) /\ ~(q \in Anc(p) /\ (q = p \/ p \in Anc(q)))
      BY <2>1, AncTransitive, PathsAssumption DEF Anc
    <2>3. made[p] = disk[p]
      BY <2>1, <2>2 DEF EnsureDir
    <2>4. CASE disk[p].kind \in {"dir", "link"}
      <3>1. disk' = RemoveAll(made, p) /\ disk[p] \notin Files
        BY <1>2, <2>3, <2>4 DEF MakeRoom, Files, File
      <3> QED
        BY <2>1, <2>2, <3>1 DEF RemoveAll, EnsureDir
    <2>5. CASE disk[p].kind \notin {"dir", "link"}
      <3>1. disk' = made
        BY <1>2, <2>3, <2>5 DEF MakeRoom
      <3>2. disk[p] = Absent \/ disk[p] \in Files
        BY <2>1, <2>5, NodeKinds DEF Nodes, Dir, Link
      <3>3. p \in Anc(q) => disk[q] = Absent
        BY <1>1, <2>1, <2>5, NothingBelow DEF Dir
      <3> QED
        BY <2>1, <2>2, <3>1, <3>2, <3>3 DEF EnsureDir
    <2> QED
      BY <2>4, <2>5
  <1>6. VisibleDisk' = [q \in Visible |->
                          IF q \in Promise!Above(p) THEN Dir
                          ELSE IF q \in Promise!Within(p) /\ VisibleDisk[p] \notin Files
                          THEN Absent ELSE VisibleDisk[q]]
    BY <1>3, <1>5 DEF VisibleDisk
  <1> QED
    BY <1>4, <1>6 DEF Promise!MakeWay, Promise!Busy, Promise!work, Prepare, bounds

\* Confirming, and what is done to a temp file before it takes its place.
LEMMA HiddenStep ==
  ASSUME IInv, NEW s \in Sessions, Confirm(s) \/ Stage(s) \/ Fill(s)
  PROVE  UNCHANGED Promise!vars
  <1>1. TypeOK /\ PhaseOK(s)
    BY DEF IInv
  <1>2. SessionStep(s) /\ pc[s] # "idle" /\ pc'[s] # "idle"
    BY <1>1 DEF SessionStep, Answer, Work, Confirm, Stage, Fill, Goto, NextPhase, TypeOK
  <1>3. \A q \in Visible : disk'[q] = disk[q]
    <2>1. CASE Confirm(s)
      BY <2>1 DEF Confirm
    <2>2. CASE Stage(s)
      <3>1. PICK t \in Temps : disk' = [disk EXCEPT ![t] = File(Partial, DefaultMode)]
        BY <2>2 DEF Stage, FreeTemps
      <3> QED
        BY <3>1 DEF Visible
    <2>3. CASE Fill(s)
      <3>1. temp[s] \in Temps
        BY <1>1, <2>3 DEF Fill, TypeOK, PhaseOK
      <3>2. PICK n : disk' = [disk EXCEPT ![temp[s]] = n]
        BY <2>3 DEF Fill
      <3> QED
        BY <3>1, <3>2 DEF Visible
    <2> QED
      BY <2>1, <2>2, <2>3
  <1> QED
    BY <1>1, <1>2, <1>3, Unseen, Working, SameCondemned
       DEF Promise!vars, Promise!work, Confirm, Stage, Fill, bounds

\* The rename is where a file appears, whole.
LEMMA InstallStep ==
  ASSUME IInv, NEW s \in Sessions, Commit(s)
  PROVE  Promise!Install(s)
  <1>1. TypeOK /\ TreeOK(disk) /\ PhaseOK(s) /\ TempOK(s)
    BY DEF IInv, TypeOK
  <1>2. PICK p \in puts[s] : /\ First(puts[s], p) /\ disk[p] # Dir
                             /\ disk' = Rename(disk, temp[s], p)
                             /\ puts' = [puts EXCEPT ![s] = @ \ {p}]
                             /\ Goto(s, NextPhase({}, puts[s] \ {p}))
    BY DEF Commit
  <1>3. /\ p \in DOMAIN goal[s] /\ p \in Visible /\ temp[s] \in Temps /\ goal[s] \in Projects
        /\ dels[s] = {} /\ SessionStep(s) /\ pc[s] # "idle" /\ pc'[s] # "idle"
    BY <1>1, <1>2, GoalFacts
       DEF SessionStep, Work, Commit, Goto, NextPhase, TypeOK, PhaseOK, Visible
  <1>4. /\ Status' = Status /\ Status[s] = "busy"
        /\ Condemned' = Condemned /\ Condemned[s] = {}
    BY <1>1, <1>3, Working, SameCondemned DEF Commit, Condemned
  <1>5. disk[temp[s]] = Rendered(goal[s], p)
    <2>1. disk[temp[s]] \in {Absent, Rendered(goal[s], p)}
      BY <1>1, <1>2, <1>3, PathFacts DEF TempOK, Commit
    <2> QED
      BY <2>1 DEF Commit, IsFile, Absent
  <1>6. Rendered(goal[s], p) \in Accepted[goal[s]][p]
    BY <1>3, WillDo
  <1>7. VisibleDisk' = [VisibleDisk EXCEPT ![p] = Rendered(goal[s], p)]
    <2>1. disk' = [disk EXCEPT ![p] = Rendered(goal[s], p), ![temp[s]] = Absent]
      BY <1>2, <1>5 DEF Rename
    <2>2. disk \in [Paths -> Nodes] /\ temp[s] \notin Visible
      BY <1>1, <1>3 DEF TreeOK, Visible
    <2> QED
      BY <1>3, <2>1, <2>2 DEF VisibleDisk, Visible
  <1>8. VisibleDisk[p] # Dir
    BY <1>2, <1>3 DEF VisibleDisk
  <1> QED
    BY <1>2, <1>4, <1>6, <1>7, <1>8 DEF Promise!Install, Promise!Busy, Commit, bounds

\* Pruning is Sweep.
LEMMA SweepStep ==
  ASSUME IInv, NEW s \in Sessions, Prune(s)
  PROVE  Promise!Sweep(s)
  <1>1. TypeOK /\ TreeOK(disk)
    BY DEF IInv, TypeOK
  <1>2. SessionStep(s) /\ pc[s] = "prune" /\ pc'[s] # "idle"
    BY <1>1 DEF SessionStep, Work, Prune, Goto, TypeOK
  <1>3. Promise!NothingLeft(s) /\ Status' = Status /\ Condemned' = Condemned
    BY <1>1, <1>2, NoneLeft, Working, SameCondemned DEF Prune
  <1> DEFINE hollow(p) == /\ p \in Artifacts /\ disk[p] = Dir
                          /\ \A q \in Paths : p \in Anc(q) => disk[q] \in {Absent, Dir}
             S == {p \in Visible : hollow(p)}
  <1>4. S \in SUBSET (Artifacts \ Temps)
    BY DEF Visible
  <1>5. ASSUME NEW p \in S, NEW q \in Promise!Within(p)
        PROVE  q \in S \/ VisibleDisk[q] = Absent
    <2>1. q \in Visible /\ p \in Visible /\ hollow(p) /\ (q = p \/ p \in Anc(q))
      BY <1>5 DEF Promise!Within, Anc, Visible
    <2>2. CASE q # p /\ disk[q] # Absent
      <3>1. disk[q] = Dir
        BY <2>1, <2>2 DEF Visible
      <3>2. ImagesDir \in Anc(p) /\ q \in Paths /\ p \in Paths
        BY <2>1, NamesAssumption DEF Artifacts, Anc, Visible
      <3>3. q \in Artifacts
        <4>1. ImagesDir \in Anc(q)
          BY <2>1, <2>2, <3>2, NamesAssumption, AncTransitive
        <4> QED
          BY <3>2, <4>1 DEF Artifacts, Anc
      <3>4. ASSUME NEW r \in Paths, q \in Anc(r)
            PROVE  disk[r] \in {Absent, Dir}
        BY <2>1, <2>2, <3>2, <3>4, AncTransitive
      <3> QED
        BY <2>1, <3>1, <3>3, <3>4
    <2>3. CASE disk[q] = Absent
      BY <2>1, <2>3 DEF VisibleDisk
    <2> QED
      BY <2>1, <2>2, <2>3
  <1>6. \A p \in S : VisibleDisk[p] = Dir
    BY DEF VisibleDisk
  <1>7. VisibleDisk' = [q \in Visible |-> IF q \in S THEN Absent ELSE VisibleDisk[q]]
    <2>1. disk' = [p \in Paths |-> IF hollow(p) THEN Absent ELSE disk[p]]
      BY DEF Prune, PruneEmptyDirs
    <2> QED
      BY <2>1 DEF VisibleDisk, Visible
  <1> HIDE DEF S
  <1> QED
    BY <1>3, <1>4, <1>5, <1>6, <1>7 DEF Promise!Sweep, Promise!work, Prune, bounds


\* Recording is Register.
LEMMA RegisterStep ==
  ASSUME IInv, NEW s \in Sessions, Record(s) \/ Adopt(s)
  PROVE  Promise!Register(s) \/ UNCHANGED Promise!vars
  <1>1. TypeOK
    BY DEF IInv
  <1>2. /\ SessionStep(s) /\ pc[s] \in {"record", "adopt"} /\ pc'[s] # "idle"
        /\ pc[s] # "idle"
    BY <1>1 DEF SessionStep, Work, Record, Adopt, Goto, TypeOK
  <1>3. Promise!NothingLeft(s) /\ Status' = Status /\ Condemned' = Condemned
    BY <1>1, <1>2, NoneLeft, Working, SameCondemned DEF Record, Adopt
  <1>4. UNCHANGED VisibleDisk
    BY Unseen DEF Record, Adopt
  <1> QED
    BY <1>3, <1>4
       DEF Promise!Register, Promise!vars, Promise!work, Record, Adopt, bounds

\* A command that returns has nothing left to do, or no longer means to.
LEMMA ReturnStep ==
  ASSUME TypeOK, NEW s \in Sessions, SessionStep(s), NEW how, Return(s, how),
         how \in Results
  PROVE  /\ Status' = [Status EXCEPT ![s] =
                         IF how \in {"applied", "nothing"} THEN "done" ELSE "stopped"]
         /\ Condemned' = [Condemned EXCEPT ![s] = {}]
  <1>1. pc'[s] = "idle" /\ result'[s] = how /\ dels'[s] = {}
    BY DEF Return, Goto, TypeOK
  <1>2. (Status[s])' = IF how \in {"applied", "nothing"} THEN "done" ELSE "stopped"
    BY <1>1 DEF Status, Done
  <1>3. dels'[s] \ Temps = {}
    BY <1>1
  <1> QED
    BY <1>2, <1>3, Frame

\* A reload that ends a successful apply.
LEMMA FinishStep ==
  ASSUME IInv, NEW s \in Sessions, Reload(s), result[s] \in {"applied", "nothing"}
  PROVE  Promise!Finish(s)
  <1>1. TypeOK /\ SessionStep(s) /\ pc[s] = "reload" /\ PhaseOK(s)
    BY DEF IInv, SessionStep, Work, Reload
  <1>2. Return(s, result[s]) /\ result[s] \in Results
    BY DEF Reload, Results
  <1>3. Promise!NothingLeft(s) /\ puts[s] = {} /\ Condemned[s] = {}
    BY <1>1, NoneLeft
  <1>4. Status' = [Status EXCEPT ![s] = "done"] /\ Condemned' = [Condemned EXCEPT ![s] = {}]
    BY <1>1, <1>2, ReturnStep
  <1>5. Condemned' = Condemned
    BY <1>3, <1>4 DEF Condemned
  <1>6. puts' = puts
    BY <1>1, <1>2, <1>3 DEF Return, TypeOK
  <1>7. UNCHANGED VisibleDisk
    BY Unseen DEF Reload
  <1> QED
    BY <1>2, <1>3, <1>4, <1>5, <1>6, <1>7 DEF Promise!Finish, Return, Reload, bounds

\* Declining, failing and dying, and a successful return that is none.
LEMMA StopStep ==
  ASSUME IInv, NEW s \in Sessions,
         \/ Decline(s) \/ GiveUp(s) \/ GiveUpNotDir(s) \/ Fail(s) \/ Crash(s)
         \/ Reload(s) /\ result[s] \notin {"applied", "nothing"}
  PROVE  Promise!Stop(s)
  <1>1. TypeOK /\ SessionStep(s)
    BY DEF IInv, SessionStep, Answer, Work
  <1>2. PICK how \in Results \ {"applied", "nothing"} : Return(s, how)
    BY <1>1 DEF Decline, GiveUp, GiveUpNotDir, Fail, Crash, Reload, Results, TypeOK
  <1>3. Status[s] = "busy"
    BY DEF Decline, GiveUp, Stuck, GiveUpNotDir, Fail, Crash, Reload, Status
  <1>4. Status' = [Status EXCEPT ![s] = "stopped"] /\ Condemned' = [Condemned EXCEPT ![s] = {}]
    BY <1>1, <1>2, ReturnStep
  <1>5. UNCHANGED VisibleDisk
    <2>1. ASSUME DropTemp(s)
          PROVE  \A q \in Visible : disk'[q] = disk[q]
      BY <1>1, <2>1 DEF DropTemp, TypeOK, Visible
    <2> QED
      BY <2>1, Unseen DEF Decline, GiveUp, GiveUpNotDir, Fail, Crash, Reload
  <1>6. UNCHANGED <<project, recorded, edits, meddles>>
    BY DEF Decline, GiveUp, GiveUpNotDir, Fail, Crash, Reload, bounds
  <1> QED
    BY <1>2, <1>3, <1>4, <1>5, <1>6 DEF Promise!Stop, Promise!Busy, Return

\* What users and others do.
LEMMA WorldStep ==
  ASSUME IInv, [Next]_vars, Edit \/ Meddle \/ UNCHANGED vars
  PROVE  Promise!Edit \/ Promise!Meddle \/ UNCHANGED Promise!vars
  <1>1. CASE Edit
    <2>1. UNCHANGED <<VisibleDisk, Status, Condemned>>
      BY <1>1, Unseen, SameCondemned DEF Edit, session, Status, Done, IInv
    <2> QED
      BY <1>1, <2>1 DEF Edit, session, Promise!Edit, Promise!work
  <1>2. CASE Meddle
    <2>1. UNCHANGED <<Status, Condemned>>
      BY <1>2, SameCondemned DEF Meddle, session, Status, Done, IInv
    <2>2. VisibleDisk' \in [Visible -> Nodes]
      BY TreeStep DEF TreeOK, VisibleDisk, Visible
    <2> QED
      BY <1>2, <2>1, <2>2 DEF Meddle, session, Promise!Meddle, Promise!work
  <1>3. CASE UNCHANGED vars
    <2>1. UNCHANGED <<VisibleDisk, Status, Condemned>>
      BY <1>3 DEF vars, session, Status, Done, Condemned, VisibleDisk
    <2> QED
      BY <1>3, <2>1 DEF vars, session, bounds, Promise!vars, Promise!work
  <1> QED
    BY <1>1, <1>2, <1>3

-----------------------------------------------------------------------------
(* The theorem.                                                             *)

\* The initial states map to initial states.
LEMMA PromiseInit == Init => Promise!Init
  <1> SUFFICES ASSUME Init PROVE Promise!Init
    OBVIOUS
  <1>1. disk \in [Paths -> Nodes]
    BY ApplyAssumption DEF Init, TreeOK
  <1>2. VisibleDisk \in [Visible -> Nodes]
    BY <1>1 DEF VisibleDisk, Visible
  <1>3. Status = [s \in Sessions |-> "stopped"]
    BY DEF Init, Status, Done
  <1>4. Condemned = [s \in Sessions |-> {}]
    BY DEF Init, Condemned
  <1> QED
    BY <1>2, <1>3, <1>4, ApplyAssumption DEF Init, Promise!Init

\* Every step maps to a step of the promise or to a stutter.
LEMMA PromiseStep == IInv /\ [Next]_vars => [Promise!Next]_(Promise!vars)
  <1> SUFFICES ASSUME IInv, [Next]_vars
               PROVE  Promise!Next \/ UNCHANGED Promise!vars
    OBVIOUS
  <1>1. ASSUME NEW s \in Sessions, SessionStep(s)
        PROVE  Promise!Step(s) \/ UNCHANGED Promise!vars
    <2>1. CASE Plan(s)
      BY <2>1, BeginStep DEF Promise!Step
    <2>2. CASE Remove(s)
      BY <2>2, DiscardStep DEF Promise!Step
    <2>3. CASE Prepare(s)
      BY <2>3, MakeWayStep DEF Promise!Step
    <2>4. CASE Confirm(s) \/ Stage(s) \/ Fill(s)
      BY <2>4, HiddenStep
    <2>5. CASE Commit(s)
      BY <2>5, InstallStep DEF Promise!Step
    <2>6. CASE Prune(s)
      BY <2>6, SweepStep DEF Promise!Step
    <2>7. CASE Record(s) \/ Adopt(s)
      BY <2>7, RegisterStep DEF Promise!Step
    <2>8. CASE Reload(s) /\ result[s] \in {"applied", "nothing"}
      BY <2>8, FinishStep DEF Promise!Step
    <2>9. CASE \/ Decline(s) \/ GiveUp(s) \/ GiveUpNotDir(s) \/ Fail(s) \/ Crash(s)
               \/ Reload(s) /\ result[s] \notin {"applied", "nothing"}
      BY <2>9, StopStep DEF Promise!Step
    <2> QED
      BY <1>1, <2>1, <2>2, <2>3, <2>4, <2>5, <2>6, <2>7, <2>8, <2>9
         DEF SessionStep, Answer, Work
  <1>2. ASSUME Edit \/ Meddle \/ UNCHANGED vars
        PROVE  Promise!Next \/ UNCHANGED Promise!vars
    BY <1>2, WorldStep DEF Promise!Next
  <1> QED
    BY <1>1, <1>2 DEF Next, SessionStep, Promise!Next

\* Apply implements its promise, for every layout of the directory, every set of
\* goals and any number of sessions, failures and crashes.
THEOREM Refinement == Spec => KeepsPromise
  BY Invariance, PromiseInit, PromiseStep, PTL DEF Spec, KeepsPromise, Promise!Spec

=============================================================================
