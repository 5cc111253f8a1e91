------------------------------ MODULE VendorProofs ------------------------------
(***************************************************************************)
(* Vendoring, for any modules, snapshots and refs and any number of        *)
(* commands, pushes and failures.                                          *)
(***************************************************************************)
EXTENDS Vendor, SequenceTheorems, TLAPS

-----------------------------------------------------------------------------
(* Paths.                                                                   *)

\* A prefix agrees with the beginning.
LEMMA PrefixAgrees ==
  ASSUME NEW s \in Seq(STRING), NEW t \in Seq(STRING)
  PROVE  IsPrefix(s, t) <=> Len(s) <= Len(t) /\ \A i \in 1 .. Len(s) : s[i] = t[i]
  <1>1. Len(s) \in Nat /\ Len(t) \in Nat
    OBVIOUS
  <1>2. ASSUME Len(s) <= Len(t)
        PROVE  SubSeq(s, 1, Len(s)) = SubSeq(t, 1, Len(s))
                 <=> \A i \in 1 .. Len(s) : s[i] = t[i]
    <2>1. SubSeq(s, 1, Len(s)) = [i \in 1 .. Len(s) |-> s[i]]
      BY <1>1
    <2>2. SubSeq(t, 1, Len(s)) = [i \in 1 .. Len(s) |-> t[i]]
      BY <1>1, <1>2
    <2> QED
      BY <2>1, <2>2
  <1> QED
    BY <1>1, <1>2 DEF IsPrefix

\* What a path is made of: that of the module, and one below it.
LEMMA PathBelow ==
  ASSUME NEW m \in Seq(STRING), NEW r \in Seq(STRING)
  PROVE  /\ m \o r \in Seq(STRING) /\ IsPrefix(m, m \o r)
         /\ SubSeq(m \o r, Len(m) + 1, Len(m \o r)) = r
  <1>1. /\ m \o r \in Seq(STRING) /\ Len(m \o r) = Len(m) + Len(r)
        /\ Len(m) \in Nat /\ Len(r) \in Nat
        /\ \A i \in 1 .. Len(m) : (m \o r)[i] = m[i]
        /\ \A i \in 1 .. Len(r) : (m \o r)[Len(m) + i] = r[i]
    OBVIOUS
  <1>2. IsPrefix(m, m \o r)
    <2> DEFINE t == m \o r
    <2>1. t \in Seq(STRING) /\ Len(m) <= Len(t) /\ \A i \in 1 .. Len(m) : m[i] = t[i]
      BY <1>1
    <2> HIDE DEF t
    <2>2. IsPrefix(m, t)
      BY <2>1, PrefixAgrees
    <2> QED
      BY <2>2 DEF t
  <1>3. SubSeq(m \o r, Len(m) + 1, Len(m \o r)) = r
    <2>1. SubSeq(m \o r, Len(m) + 1, Len(m \o r)) = [i \in 1 .. Len(r) |-> r[i]]
      BY <1>1
    <2> QED
      BY <2>1
  <1> QED
    BY <1>1, <1>2, <1>3

\* A path below a module is given by what it is below it.
LEMMA BelowDetermines ==
  ASSUME NEW m \in Seq(STRING), NEW p \in Seq(STRING), IsPrefix(m, p)
  PROVE  /\ SubSeq(p, Len(m) + 1, Len(p)) \in Seq(STRING)
         /\ p = m \o SubSeq(p, Len(m) + 1, Len(p))
  <1>1. Len(m) <= Len(p) /\ \A i \in 1 .. Len(m) : m[i] = p[i]
    BY PrefixAgrees
  <1>2. Len(m) \in Nat /\ Len(p) \in Nat
    OBVIOUS
  <1> DEFINE r == SubSeq(p, Len(m) + 1, Len(p))
  <1>3. /\ r \in Seq(STRING) /\ Len(r) = Len(p) - Len(m)
        /\ \A i \in 1 .. Len(r) : r[i] = p[Len(m) + i]
    BY <1>1, <1>2
  <1>4. Len(m \o r) = Len(p) /\ \A i \in 1 .. Len(p) : (m \o r)[i] = p[i]
    BY <1>1, <1>2, <1>3
  <1>5. m \o r \in Seq(STRING)
    BY <1>3
  <1>6. p = m \o r
    BY <1>4, <1>5, SeqEqual
  <1> QED
    BY <1>3, <1>6

\* The modules whose tree no other module's tree is in: of `a' and `a/b', neither.
Alone(m) == \A n \in Modules \ {m} : ~IsPrefix(m, n) /\ ~IsPrefix(n, m)

\* No file of another module is below a module that stands alone.
LEMMA Apart ==
  ASSUME NEW m \in Modules, Alone(m), NEW n \in Modules \ {m},
         NEW p \in Seq(STRING), IsPrefix(n, p)
  PROVE  ~IsPrefix(m, p)
  <1> SUFFICES ASSUME IsPrefix(m, p) PROVE FALSE
    OBVIOUS
  <1>1. m \in Seq(STRING) /\ n \in Seq(STRING)
    BY VendorAssumption DEF VendorAssumption
  <1>2. /\ Len(m) <= Len(p) /\ \A i \in 1 .. Len(m) : m[i] = p[i]
        /\ Len(n) <= Len(p) /\ \A i \in 1 .. Len(n) : n[i] = p[i]
    BY <1>1, PrefixAgrees
  <1>3. CASE Len(m) <= Len(n)
    <2>1. \A i \in 1 .. Len(m) : m[i] = n[i]
      BY <1>1, <1>2, <1>3
    <2> QED
      BY <1>1, <1>3, <2>1, PrefixAgrees DEF Alone
  <1>4. CASE Len(n) <= Len(m)
    <2>1. \A i \in 1 .. Len(n) : n[i] = m[i]
      BY <1>1, <1>2, <1>4
    <2> QED
      BY <1>1, <1>4, <2>1, PrefixAgrees DEF Alone
  <1> QED
    BY <1>1, <1>3, <1>4
-----------------------------------------------------------------------------
(* The inductive invariant.                                                 *)

\* The pins the code writes: a commit of the module, and the hash of its tree.
PinsOf(m) == {[ref |-> r, commit |-> c, hash |-> HashTree(m, c)] :
                r \in Refs, c \in 1 .. Len(Snapshots[m])}

Fit(pins) == DOMAIN pins \subseteq Modules /\ \A m \in DOMAIN pins : pins[m] \in PinsOf(m)

Typed ==
  /\ head \in [Modules -> Nat] /\ \A m \in Modules : head[m] \in 1 .. Len(Snapshots[m])
  /\ DOMAIN usr \subseteq Seq(STRING)
  /\ Fit(lock) /\ Fit(mine)
  /\ DOMAIN todo \subseteq Modules /\ \A m \in DOMAIN todo : todo[m] \in Refs
  /\ torn \in BOOLEAN /\ result \in Results
  /\ pc \in {"idle", "fetch", "clear", "install", "lock", "locking"}
  /\ touched \subseteq Modules /\ given \in 0 .. MaxCommands /\ faults \in 0 .. MaxFaults

\* What a command under way has done: a vendor has one module, what is installed is
\* the hash without what is left, and the lock comes last.
UnderWay ==
  /\ pc # "idle" => verb \in {"vendor", "restore"}
  /\ pc # "install" => left = {}
  /\ pc = "fetch" /\ verb = "vendor" => \E m \in Modules : DOMAIN todo = {m}
  /\ pc \in {"clear", "install"} =>
       now \in DOMAIN mine /\ now \in DOMAIN todo
       /\ (verb = "vendor" => DOMAIN todo = {now})
  /\ pc = "install" =>
       now \in touched /\ left \subseteq mine[now].hash
       /\ HashVendoredDir(now) = mine[now].hash \ left
  /\ pc \in {"lock", "locking"} => DOMAIN todo = {} /\ now \in DOMAIN mine

\* What this command has installed already.
Fresh(m) == verb = "restore" \/ (pc \in {"lock", "locking"} /\ m = now)

\* The pins a command is done with describe the tree; the others are the lock's.
Settled ==
  pc # "idle" => \A m \in DOMAIN mine \ DOMAIN todo :
    /\ Fresh(m) /\ Alone(m) => HashVendoredDir(m) = mine[m].hash
    /\ ~Fresh(m) => m \in DOMAIN lock /\ mine[m] = lock[m]

\* Drift is explained, while the lock is truncated too.
Explained ==
  \A m \in DOMAIN lock \ touched : Alone(m) => HashVendoredDir(m) = lock[m].hash

\* What the pins list imports nothing but what they list.
Closed(pins) ==
  \A m \in DOMAIN pins : \A i \in Snapshots[m][pins[m].commit].imports :
    \E base \in DOMAIN pins : IsPrefix(base, i)

IInv == Typed /\ UnderWay /\ Settled /\ Explained /\ Closed(lock) /\ Closed(mine)

-----------------------------------------------------------------------------
(* Trees.                                                                   *)

\* A tree is not changed by a step that changes no file below it.
LEMMA SameTree ==
  ASSUME NEW m,
         \A p : IsPrefix(m, p) =>
           /\ p \in DOMAIN usr <=> p \in (DOMAIN usr)'
           /\ p \in DOMAIN usr => usr[p] = usr'[p]
  PROVE  HashVendoredDir(m)' = HashVendoredDir(m)
  <1>1. Below(m)' = Below(m)
    BY DEF Below
  <1>2. \A p \in Below(m) : usr'[p] = usr[p]
    BY DEF Below
  <1> QED
    BY <1>1, <1>2 DEF HashVendoredDir

\* What is removed is the whole tree.
LEMMA Removed ==
  ASSUME NEW m, usr' = RemoveAll(m)
  PROVE  HashVendoredDir(m)' = {} /\ (DOMAIN usr)' \subseteq DOMAIN usr
  <1>1. (DOMAIN usr)' = DOMAIN usr \ Below(m)
    BY DEF RemoveAll, Without
  <1>2. Below(m)' = {}
    BY <1>1 DEF Below
  <1> QED
    BY <1>1, <1>2 DEF HashVendoredDir

\* A file that is written is in the tree, and the others are still there.
LEMMA Written ==
  ASSUME NEW m \in Seq(STRING), NEW r \in Seq(STRING), NEW v, DOMAIN usr \subseteq Seq(STRING),
         usr' = With(usr, m \o r, v)
  PROVE  HashVendoredDir(m)' = {t \in HashVendoredDir(m) : t[1] # r} \cup {<<r, v>>}
  <1> DEFINE q == m \o r  Rest(p) == SubSeq(p, Len(m) + 1, Len(p))
  <1>1. q \in Seq(STRING) /\ IsPrefix(m, q) /\ Rest(q) = r
    BY PathBelow
  <1>2. (DOMAIN usr)' = DOMAIN usr \cup {q} /\ usr'[q] = v
        /\ \A p \in DOMAIN usr \ {q} : usr'[p] = usr[p]
    BY DEF With
  <1>3. Below(m)' = Below(m) \cup {q}
    BY <1>1, <1>2 DEF Below
  <1>4. \A p \in Below(m) : p # q <=> Rest(p) # r
    BY <1>1, BelowDetermines DEF Below
  <1> HIDE DEF q, Rest
  <1>5. HashVendoredDir(m) = {<<Rest(p), usr[p]>> : p \in Below(m)}
    BY DEF HashVendoredDir, Rest
  <1>6. HashVendoredDir(m)' = {<<Rest(p), usr'[p]>> : p \in Below(m) \cup {q}}
    BY <1>3 DEF HashVendoredDir, Rest
  <1>7. \A p \in Below(m) : p # q => usr'[p] = usr[p]
    BY <1>2 DEF Below
  <1>8. {t \in HashVendoredDir(m) : t[1] # r}
          = {<<Rest(p), usr[p]>> : p \in {p \in Below(m) : Rest(p) # r}}
    BY <1>5
  <1>9. HashVendoredDir(m)'
          = {<<Rest(p), usr'[p]>> : p \in {p \in Below(m) : p # q}} \cup {<<Rest(q), usr'[q]>>}
    BY <1>6
  <1> QED
    BY <1>1, <1>2, <1>4, <1>7, <1>8, <1>9

\* A hash has one content for each path.
LEMMA HashIsMap ==
  ASSUME NEW m \in Modules, NEW pin \in PinsOf(m), NEW f \in pin.hash
  PROVE  /\ f = <<f[1], f[2]>> /\ f[1] \in Seq(STRING)
         /\ \A t \in pin.hash : t[1] = f[1] => t = f
  <1>1. PICK c \in 1 .. Len(Snapshots[m]) : pin.hash = HashTree(m, c)
    BY DEF PinsOf
  <1>2. DOMAIN Snapshots[m][c].files \subseteq Seq(STRING)
    BY VendorAssumption DEF VendorAssumption
  <1> QED
    BY <1>1, <1>2 DEF HashTree

\* What is done to one module's tree leaves alone those that stand alone.
LEMMA Elsewhere ==
  ASSUME NEW m \in Modules, Alone(m), NEW n \in Modules \ {m},
         DOMAIN usr \subseteq Seq(STRING),
         \/ usr' = RemoveAll(n)
         \/ \E r \in Seq(STRING) : \E v : usr' = With(usr, n \o r, v)
  PROVE  HashVendoredDir(m)' = HashVendoredDir(m)
  <1>1. m \in Seq(STRING) /\ n \in Seq(STRING)
    BY VendorAssumption DEF VendorAssumption
  <1>2. CASE usr' = RemoveAll(n)
    <2>1. (DOMAIN usr)' = DOMAIN usr \ Below(n) /\ \A p \in DOMAIN usr \ Below(n) : usr'[p] = usr[p]
      BY <1>2 DEF RemoveAll, Without
    <2>2. \A p \in Below(n) : ~IsPrefix(m, p)
      BY Apart DEF Below
    <2> QED
      BY <2>1, <2>2, SameTree
  <1>3. ASSUME NEW r \in Seq(STRING), NEW v, usr' = With(usr, n \o r, v)
        PROVE  HashVendoredDir(m)' = HashVendoredDir(m)
    <2>1. n \o r \in Seq(STRING) /\ IsPrefix(n, n \o r)
      BY <1>1, PathBelow
    <2>2. ~IsPrefix(m, n \o r)
      BY <2>1, Apart
    <2>3. (DOMAIN usr)' = DOMAIN usr \cup {n \o r} /\ \A p \in DOMAIN usr \ {n \o r} : usr'[p] = usr[p]
      BY <1>3 DEF With
    <2> QED
      BY <2>2, <2>3, SameTree
  <1> QED
    BY <1>2, <1>3

-----------------------------------------------------------------------------
(* The steps.                                                               *)

\* The invariant holds at first.
LEMMA Initially == Init => IInv
  <1> SUFFICES ASSUME Init PROVE IInv
    OBVIOUS
  <1>1. /\ DOMAIN usr = {} /\ DOMAIN lock = {} /\ mine = lock /\ DOMAIN todo = {}
        /\ torn = FALSE /\ pc = "idle" /\ left = {} /\ result = "none" /\ touched = {}
        /\ given = 0 /\ faults = 0 /\ head = [m \in Modules |-> 1]
    BY DEF Init
  <1>2. \A m \in Modules : head[m] \in 1 .. Len(Snapshots[m])
    <2>1. \A m \in Modules : Len(Snapshots[m]) \in Nat \ {0}
      BY VendorAssumption DEF VendorAssumption
    <2> QED
      BY <1>1, <2>1
  <1>3. Typed
    <2>1. given \in 0 .. MaxCommands /\ faults \in 0 .. MaxFaults
      BY <1>1, VendorAssumption DEF VendorAssumption
    <2>2. head \in [Modules -> Nat]
      BY <1>1
    <2> QED
      BY <1>1, <1>2, <2>1, <2>2 DEF Typed, Fit, Results
  <1> QED
    BY <1>1, <1>3 DEF IInv, UnderWay, Settled, Explained, Closed

\* Somebody else's push changes nothing but what a vendor will fetch.
LEMMA PushStep == IInv /\ Push => IInv'
  <1> SUFFICES ASSUME IInv, Push PROVE IInv'
    OBVIOUS
  <1>1. UNCHANGED <<usr, lock, torn, pc, verb, mine, todo, now, left, result, touched, given,
                    faults>>
    BY DEF Push, command
  <1>2. PICK m \in Modules : head[m] < Len(Snapshots[m]) /\ head' = [head EXCEPT ![m] = @ + 1]
    BY DEF Push
  <1>3. /\ head' \in [Modules -> Nat]
        /\ \A n \in Modules : head'[n] \in 1 .. Len(Snapshots[n])
    <2>1. \A n \in Modules : Len(Snapshots[n]) \in Nat
      BY VendorAssumption DEF VendorAssumption
    <2> QED
      BY <1>2, <2>1 DEF IInv, Typed
  <1>4. Typed'
    <2>1. Fit(lock)' /\ Fit(mine)'
      BY <1>1 DEF IInv, Typed
    <2> QED
      BY <1>1, <1>3, <2>1 DEF IInv, Typed
  <1>5. \A n : HashVendoredDir(n)' = HashVendoredDir(n)
    BY <1>1 DEF HashVendoredDir, Below
  <1>6. UnderWay'
    BY <1>1, <1>5 DEF IInv, UnderWay
  <1>7. Settled' /\ Explained'
    BY <1>1, <1>5 DEF IInv, Settled, Explained, Fresh, Alone
  <1>8. Closed(lock)' /\ Closed(mine)'
    BY <1>1 DEF IInv, Closed
  <1> QED
    BY <1>4, <1>6, <1>7, <1>8 DEF IInv

\* A command reads the lock: nothing is done yet.
LEMMA StartStep == IInv /\ Start => IInv'
  <1> SUFFICES ASSUME IInv, Start PROVE IInv'
    OBVIOUS
  <1>1. UNCHANGED <<head, usr, lock, torn, touched, faults, now, left>>
        /\ given' = given + 1 /\ given < MaxCommands /\ pc = "idle"
    BY DEF Start, Check, Begin, Returns
  <1>2. given' \in 0 .. MaxCommands
    BY <1>1, VendorAssumption DEF VendorAssumption, IInv, Typed
  <1>3. Explained' /\ Closed(lock)'
    BY <1>1 DEF IInv, Explained, Closed, Alone, HashVendoredDir, Below
  <1>4. CASE /\ pc' = "idle" /\ result' \in Results /\ UNCHANGED <<mine, todo>>
    <2>1. Typed'
      BY <1>1, <1>2, <1>4 DEF IInv, Typed, Fit, PinsOf, HashTree
    <2>2. UnderWay' /\ Settled' /\ Closed(mine)'
      BY <1>1, <1>4 DEF IInv, UnderWay, Settled, Closed
    <2> QED
      BY <1>3, <2>1, <2>2 DEF IInv
  <1>5. ASSUME NEW v \in {"vendor", "restore"}, NEW modules, Begin(v, modules),
               DOMAIN modules \subseteq Modules, \A m \in DOMAIN modules : modules[m] \in Refs,
               \/ v = "vendor" /\ \E m \in Modules : DOMAIN modules = {m}
               \/ v = "restore" /\ DOMAIN modules = DOMAIN lock
        PROVE  IInv'
    <2>1. mine' = lock /\ todo' = modules /\ verb' = v /\ pc' = "fetch" /\ result' = result
      BY <1>5 DEF Begin
    <2>2. Typed'
      BY <1>1, <1>2, <1>5, <2>1 DEF IInv, Typed, Fit, PinsOf, HashTree
    <2>3. UnderWay'
      BY <1>1, <1>5, <2>1 DEF IInv, UnderWay
    <2>4. Settled'
      BY <1>1, <1>5, <2>1 DEF Settled, Fresh
    <2>5. Closed(mine)'
      BY <1>1, <2>1 DEF IInv, Closed
    <2> QED
      BY <1>3, <2>2, <2>3, <2>4, <2>5 DEF IInv
  <1>6. CASE torn
    BY <1>4, <1>6 DEF Start, Returns, Results
  <1>7. CASE ~torn
    <2>1. CASE Check
      BY <1>4, <2>1 DEF Check, Returns, Results
    <2>2. CASE \E m \in Modules, ref \in Refs : Begin("vendor", [n \in {m} |-> ref])
      <3>1. PICK m \in Modules, ref \in Refs : Begin("vendor", [n \in {m} |-> ref])
        BY <2>2
      <3>2. DOMAIN [n \in {m} |-> ref] = {m} /\ [n \in {m} |-> ref][m] = ref
        OBVIOUS
      <3> QED
        BY <1>5, <3>1, <3>2
    <2>3. CASE Begin("restore", [m \in DOMAIN lock |-> lock[m].ref])
      <3>1. \A m \in DOMAIN lock : m \in Modules /\ lock[m].ref \in Refs
        BY DEF IInv, Typed, Fit, PinsOf
      <3> QED
        BY <1>5, <2>3, <3>1
    <2> QED
      BY <1>7, <2>1, <2>2, <2>3 DEF Start
  <1> QED
    BY <1>6, <1>7

\* The pin of the next module fits it, and what it imports is there.
LEMMA FetchStep == IInv /\ Fetch => IInv'
  <1> SUFFICES ASSUME IInv, Fetch PROVE IInv'
    OBVIOUS
  <1>1. UNCHANGED <<head, usr, lock, torn, verb, todo, left, touched, given, faults>>
        /\ pc = "fetch"
    BY DEF Fetch
  <1>2. Explained' /\ Closed(lock)'
    BY <1>1 DEF IInv, Explained, Closed, Alone, HashVendoredDir, Below
  <1>3. CASE Returns("error") /\ UNCHANGED <<now, mine>>
    <2>1. Typed'
      BY <1>1, <1>3 DEF IInv, Typed, Fit, PinsOf, HashTree, Returns, Results
    <2>2. UnderWay' /\ Settled' /\ Closed(mine)'
      BY <1>1, <1>3 DEF IInv, UnderWay, Settled, Closed, Returns
    <2> QED
      BY <1>2, <2>1, <2>2 DEF IInv
  <1>4. ASSUME NEW m \in DOMAIN todo, NEW commit, commit = Commit(m, todo[m]),
               Resolves(m, todo[m]), CheckImports(m, Snapshots[m][commit].imports, mine),
               now' = m, pc' = "clear", result' = result,
               mine' = With(mine, m, [ref |-> todo[m], commit |-> commit,
                                      hash |-> HashTree(m, commit)])
        PROVE  IInv'
    <2>1. m \in Modules /\ todo[m] \in Refs /\ head[m] \in 1 .. Len(Snapshots[m])
      BY DEF IInv, Typed
    <2>2. commit \in 1 .. Len(Snapshots[m])
      <3>1. Len(Snapshots[m]) \in Nat /\ NoRef \notin Nat /\ Refs \subseteq (Nat \ {0}) \cup {NoRef}
        BY <2>1, VendorAssumption DEF VendorAssumption
      <3>2. CASE todo[m] = NoRef
        BY <1>4, <2>1, <3>2 DEF Commit
      <3>3. CASE todo[m] # NoRef
        <4>1. commit = todo[m] /\ todo[m] \in Nat \ {0} /\ todo[m] <= head[m]
          BY <1>4, <2>1, <3>1, <3>3 DEF Commit, Resolves
        <4> QED
          BY <2>1, <3>1, <4>1
      <3> QED
        BY <3>2, <3>3
    <2>3. /\ DOMAIN mine' = DOMAIN mine \cup {m}
          /\ mine'[m] = [ref |-> todo[m], commit |-> commit, hash |-> HashTree(m, commit)]
          /\ \A n \in DOMAIN mine \ {m} : mine'[n] = mine[n]
      BY <1>4 DEF With
    <2>4. mine'[m] \in PinsOf(m)
      BY <2>1, <2>2, <2>3 DEF PinsOf
    <2>5. Fit(mine) /\ Closed(mine)
      BY DEF IInv, Typed
    <2>6. Fit(mine')
      BY <2>1, <2>3, <2>4, <2>5 DEF Fit
    <2>7. Typed'
      <3>1. Fit(lock)' /\ Fit(mine)'
        BY <1>1, <2>5, <2>6 DEF IInv, Typed
      <3> QED
        BY <1>1, <1>4, <3>1 DEF IInv, Typed
    <2>8. UnderWay'
      BY <1>1, <1>4, <2>3 DEF IInv, UnderWay
    <2>9. Settled'
      <3> SUFFICES ASSUME NEW n \in DOMAIN mine' \ DOMAIN todo
                   PROVE  /\ (Fresh(n) /\ Alone(n))' => HashVendoredDir(n)' = mine'[n].hash
                          /\ ~Fresh(n)' => n \in DOMAIN lock /\ mine'[n] = lock[n]
        BY <1>1 DEF Settled
      <3>1. n \in DOMAIN mine \ DOMAIN todo /\ n # m /\ mine'[n] = mine[n]
        BY <1>4, <2>3
      <3>2. Fresh(n)' <=> Fresh(n)
        BY <1>1, <1>4 DEF Fresh
      <3>3. HashVendoredDir(n)' = HashVendoredDir(n) /\ Alone(n)' = Alone(n)
        BY <1>1 DEF HashVendoredDir, Below, Alone
      <3> QED
        BY <1>1, <3>1, <3>2, <3>3 DEF IInv, Settled
    <2>10. Closed(mine')
      <3> SUFFICES ASSUME NEW n \in DOMAIN mine',
                          NEW i \in Snapshots[n][mine'[n].commit].imports
                   PROVE  \E base \in DOMAIN mine' : IsPrefix(base, i)
        BY DEF Closed
      <3>1. CASE n = m
        <4>1. \E base \in {m} \cup DOMAIN mine : IsPrefix(base, i)
          BY <1>4, <2>3, <3>1 DEF CheckImports
        <4> QED
          BY <2>3, <4>1
      <3>2. CASE n # m
        <4>1. \E base \in DOMAIN mine : IsPrefix(base, i)
          BY <2>3, <2>5, <3>2 DEF Closed
        <4> QED
          BY <2>3, <4>1
      <3> QED
        BY <3>1, <3>2
    <2>11. Closed(mine)'
      BY <2>10 DEF Closed
    <2> QED
      BY <1>2, <2>7, <2>8, <2>9, <2>11 DEF IInv
  <1> QED
    BY <1>3, <1>4 DEF Fetch

\* The trees that a command has done, and those it did not touch, stay when it works
\* on another module's.
LEMMA OthersStay ==
  ASSUME IInv, pc \in {"clear", "install"}, pc' \in {"clear", "install"},
         UNCHANGED <<lock, verb, mine, todo, now>>,
         touched' = touched \cup {now},
         \/ usr' = RemoveAll(now)
         \/ \E r \in Seq(STRING) : \E v : usr' = With(usr, now \o r, v)
  PROVE  Settled' /\ Explained'
  <1>1. now \in Modules /\ now \in DOMAIN todo /\ DOMAIN usr \subseteq Seq(STRING)
    BY DEF IInv, UnderWay, Typed, Fit
  <1>2. \A m \in Modules \ {now} : Alone(m) => HashVendoredDir(m)' = HashVendoredDir(m)
    BY <1>1, Elsewhere
  <1>3. DOMAIN lock \subseteq Modules /\ DOMAIN mine \subseteq Modules
    BY DEF IInv, Typed, Fit
  <1>4. Settled'
    <2> SUFFICES ASSUME NEW m \in DOMAIN mine \ DOMAIN todo
                 PROVE  /\ Fresh(m)' /\ Alone(m) => HashVendoredDir(m)' = mine[m].hash
                        /\ ~Fresh(m)' => m \in DOMAIN lock /\ mine[m] = lock[m]
      BY DEF Settled, Alone
    <2>1. m \in Modules \ {now} /\ (Fresh(m)' <=> Fresh(m))
      BY <1>1, <1>3 DEF Fresh
    <2>2. /\ Fresh(m) /\ Alone(m) => HashVendoredDir(m) = mine[m].hash
          /\ ~Fresh(m) => m \in DOMAIN lock /\ mine[m] = lock[m]
      BY DEF IInv, Settled
    <2> QED
      BY <1>2, <2>1, <2>2
  <1>5. Explained'
    <2> SUFFICES ASSUME NEW m \in DOMAIN lock \ touched', Alone(m)
                 PROVE  HashVendoredDir(m)' = lock[m].hash
      BY DEF Explained, Alone
    <2> QED
      BY <1>2, <1>3 DEF IInv, Explained
  <1> QED
    BY <1>4, <1>5

\* The tree is removed: all of it is left to be installed.
LEMMA ClearStep == IInv /\ Clear => IInv'
  <1> SUFFICES ASSUME IInv, Clear PROVE IInv'
    OBVIOUS
  <1>1. /\ UNCHANGED <<head, lock, torn, verb, mine, todo, now, result, given, faults>>
        /\ pc = "clear" /\ pc' = "install" /\ usr' = RemoveAll(now)
        /\ touched' = touched \cup {now} /\ left' = mine[now].hash
    BY DEF Clear
  <1>2. Settled' /\ Explained'
    BY <1>1, OthersStay
  <1>3. HashVendoredDir(now)' = {} /\ (DOMAIN usr)' \subseteq DOMAIN usr
    <2>1. \A m : usr' = RemoveAll(m) => HashVendoredDir(m)' = {}
      BY Removed
    <2> QED
      BY <1>1, <2>1, Removed DEF HashVendoredDir, Below
  <1>4. Typed'
    <2>1. Fit(lock)' /\ Fit(mine)' /\ now \in Modules
      BY <1>1 DEF IInv, Typed, UnderWay, Fit
    <2> QED
      BY <1>1, <1>3, <2>1 DEF IInv, Typed
  <1>5. UnderWay'
    BY <1>1, <1>3 DEF IInv, UnderWay
  <1>6. Closed(lock)' /\ Closed(mine)'
    BY <1>1 DEF IInv, Closed
  <1> QED
    BY <1>2, <1>4, <1>5, <1>6 DEF IInv

\* A file is written: what is left is one less.
LEMMA InstallStep == IInv /\ Install => IInv'
  <1> SUFFICES ASSUME IInv, Install PROVE IInv'
    OBVIOUS
  <1>1. /\ UNCHANGED <<head, lock, torn, pc, verb, mine, todo, now, result, touched, given,
                       faults>>
        /\ pc = "install"
    BY DEF Install
  <1>2. PICK f \in left : usr' = With(usr, now \o f[1], f[2]) /\ left' = left \ {f}
    BY DEF Install
  <1>3. /\ now \in Modules /\ now \in Seq(STRING) /\ mine[now] \in PinsOf(now)
        /\ left \subseteq mine[now].hash /\ HashVendoredDir(now) = mine[now].hash \ left
        /\ DOMAIN usr \subseteq Seq(STRING) /\ touched = touched \cup {now}
    BY <1>1, VendorAssumption DEF VendorAssumption, IInv, Typed, UnderWay, Fit
  <1>4. /\ f = <<f[1], f[2]>> /\ f[1] \in Seq(STRING)
        /\ \A t \in mine[now].hash : t[1] = f[1] => t = f
    BY <1>3, HashIsMap
  <1>5. Settled' /\ Explained'
    BY <1>1, <1>2, <1>3, <1>4, OthersStay
  <1>6. HashVendoredDir(now)' = mine[now].hash \ left'
    <2>1. ASSUME NEW m, m = now
          PROVE  HashVendoredDir(m)' = {t \in HashVendoredDir(m) : t[1] # f[1]} \cup {f}
      BY <1>2, <1>3, <1>4, <2>1, Written
    <2>2. HashVendoredDir(now)' = {t \in HashVendoredDir(now) : t[1] # f[1]} \cup {f}
      BY <1>1, <2>1 DEF HashVendoredDir, Below
    <2>3. f \in mine[now].hash /\ left' = left \ {f}
      BY <1>2, <1>3
    <2> QED
      BY <1>2, <1>3, <1>4, <2>2, <2>3
  <1>7. Typed'
    <2>1. Fit(lock)' /\ Fit(mine)'
      BY <1>1 DEF IInv, Typed
    <2>2. now \o f[1] \in Seq(STRING)
      BY <1>3, <1>4
    <2>3. (DOMAIN usr)' \subseteq Seq(STRING)
      BY <1>2, <1>3, <2>2 DEF With
    <2> QED
      BY <1>1, <2>1, <2>3 DEF IInv, Typed
  <1>8. UnderWay'
    BY <1>1, <1>2, <1>6 DEF IInv, UnderWay
  <1>9. Closed(lock)' /\ Closed(mine)'
    BY <1>1 DEF IInv, Closed
  <1> QED
    BY <1>5, <1>7, <1>8, <1>9 DEF IInv

\* The module is done: nothing of it is left.
LEMMA InstalledStep == IInv /\ Installed => IInv'
  <1> SUFFICES ASSUME IInv, Installed PROVE IInv'
    OBVIOUS
  <1>1. /\ UNCHANGED <<head, usr, lock, torn, verb, mine, now, left, result, touched, given,
                       faults>>
        /\ pc = "install" /\ left = {} /\ todo' = Without(todo, {now})
        /\ pc' = IF DOMAIN todo' = {} THEN "lock" ELSE "fetch"
    BY DEF Installed
  <1>2. DOMAIN todo' = DOMAIN todo \ {now} /\ \A m \in DOMAIN todo' : todo'[m] = todo[m]
    BY <1>1 DEF Without
  <1>3. \A m : HashVendoredDir(m)' = HashVendoredDir(m) /\ Alone(m)' = Alone(m)
    BY <1>1 DEF HashVendoredDir, Below, Alone
  <1>4. HashVendoredDir(now) = mine[now].hash
    BY <1>1 DEF IInv, UnderWay
  <1>5. Typed'
    <2>1. Fit(lock)' /\ Fit(mine)'
      BY <1>1 DEF IInv, Typed
    <2> QED
      BY <1>1, <1>2, <2>1 DEF IInv, Typed
  <1>6. verb = "vendor" => pc' = "lock"
    BY <1>1, <1>2 DEF IInv, UnderWay
  <1>7. UnderWay'
    BY <1>1, <1>2, <1>6 DEF IInv, UnderWay
  <1>8. Settled'
    <2> SUFFICES ASSUME NEW m \in DOMAIN mine \ DOMAIN todo'
                 PROVE  /\ Fresh(m)' /\ Alone(m) => HashVendoredDir(m) = mine[m].hash
                        /\ ~Fresh(m)' => m \in DOMAIN lock /\ mine[m] = lock[m]
      BY <1>1, <1>3 DEF Settled
    <2>1. CASE m = now
      BY <1>1, <1>4, <1>6, <2>1 DEF Fresh, IInv, UnderWay
    <2>2. CASE m # now
      <3>1. m \in DOMAIN mine \ DOMAIN todo
        BY <1>2, <2>2
      <3>2. Fresh(m)' <=> Fresh(m)
        BY <1>1, <2>2 DEF Fresh
      <3> QED
        BY <1>1, <3>1, <3>2 DEF IInv, Settled
    <2> QED
      BY <2>1, <2>2
  <1>9. Explained'
    BY <1>1, <1>3 DEF IInv, Explained
  <1>10. Closed(lock)' /\ Closed(mine)'
    BY <1>1 DEF IInv, Closed
  <1> QED
    BY <1>5, <1>7, <1>8, <1>9, <1>10 DEF IInv

\* The lock is opened for writing.
LEMMA TruncateStep == IInv /\ TruncateLock => IInv'
  <1> SUFFICES ASSUME IInv, TruncateLock PROVE IInv'
    OBVIOUS
  <1>1. /\ UNCHANGED <<head, usr, lock, verb, mine, todo, now, left, result, touched, given,
                       faults>>
        /\ pc = "lock" /\ pc' = "locking" /\ torn' = TRUE
    BY DEF TruncateLock
  <1>2. \A m : HashVendoredDir(m)' = HashVendoredDir(m) /\ Alone(m)' = Alone(m)
    BY <1>1 DEF HashVendoredDir, Below, Alone
  <1>3. Typed'
    <2>1. Fit(lock)' /\ Fit(mine)'
      BY <1>1 DEF IInv, Typed
    <2> QED
      BY <1>1, <2>1 DEF IInv, Typed
  <1>4. UnderWay'
    BY <1>1 DEF IInv, UnderWay
  <1>5. Settled'
    BY <1>1, <1>2 DEF IInv, Settled, Fresh
  <1>6. Explained' /\ Closed(lock)' /\ Closed(mine)'
    BY <1>1, <1>2 DEF IInv, Explained, Closed
  <1> QED
    BY <1>3, <1>4, <1>5, <1>6 DEF IInv

\* When the lock is written, the tree of every module that stands alone is what the
\* lock says, except for those that an earlier command left unfinished.
LEMMA WriteStep == IInv /\ WriteLock => IInv'
  <1> SUFFICES ASSUME IInv, WriteLock PROVE IInv'
    OBVIOUS
  <1>1. /\ UNCHANGED <<head, usr, verb, mine, todo, now, left, given, faults>>
        /\ pc = "locking" /\ pc' = "idle" /\ torn' = FALSE /\ lock' = mine /\ result' = "ok"
        /\ touched' = touched \ (IF verb = "restore" THEN DOMAIN mine ELSE {now})
    BY DEF WriteLock, Returns
  <1>2. \A m : HashVendoredDir(m)' = HashVendoredDir(m) /\ Alone(m)' = Alone(m)
    BY <1>1 DEF HashVendoredDir, Below, Alone
  <1>3. Typed'
    <2>1. Fit(lock)' /\ Fit(mine)'
      BY <1>1 DEF IInv, Typed
    <2> QED
      BY <1>1, <2>1 DEF IInv, Typed, Results
  <1>4. UnderWay' /\ Settled'
    BY <1>1 DEF IInv, UnderWay, Settled
  <1>5. Explained'
    <2> SUFFICES ASSUME NEW m \in DOMAIN mine \ touched', Alone(m)
                 PROVE  HashVendoredDir(m) = mine[m].hash
      BY <1>1, <1>2 DEF Explained
    <2>1. /\ Fresh(m) => HashVendoredDir(m) = mine[m].hash
          /\ ~Fresh(m) => m \in DOMAIN lock /\ mine[m] = lock[m]
      BY <1>1 DEF IInv, Settled, UnderWay
    <2>2. CASE ~Fresh(m)
      <3>1. m \notin touched
        BY <1>1, <2>2 DEF Fresh
      <3> QED
        BY <2>1, <2>2, <3>1 DEF IInv, Explained
    <2> QED
      BY <2>1, <2>2
  <1>6. Closed(lock)' /\ Closed(mine)'
    BY <1>1 DEF IInv, Closed
  <1> QED
    BY <1>3, <1>4, <1>5, <1>6 DEF IInv

\* A command that fails leaves its module touched.
LEMMA FailStep == IInv /\ Fail => IInv'
  <1> SUFFICES ASSUME IInv, Fail PROVE IInv'
    OBVIOUS
  <1>1. /\ UNCHANGED <<head, lock, torn, verb, mine, touched, given>>
        /\ pc' = "idle" /\ result' = "error" /\ DOMAIN todo' = {} /\ left' = {}
        /\ faults' = faults + 1 /\ faults < MaxFaults
    BY DEF Fail, Returns
  <1>2. faults' \in 0 .. MaxFaults
    BY <1>1, VendorAssumption DEF VendorAssumption, IInv, Typed
  <1>3. (DOMAIN usr)' \subseteq Seq(STRING) /\ Explained'
    <2>1. CASE UNCHANGED usr
      BY <1>1, <2>1 DEF IInv, Typed, Explained, HashVendoredDir, Below, Alone
    <2>2. ASSUME pc = "install", NEW f \in left, usr' = With(usr, now \o f[1], Torn)
          PROVE  (DOMAIN usr)' \subseteq Seq(STRING) /\ Explained'
      <3>1. /\ now \in Modules /\ now \in Seq(STRING) /\ mine[now] \in PinsOf(now)
            /\ left \subseteq mine[now].hash /\ DOMAIN usr \subseteq Seq(STRING)
            /\ now \in touched /\ DOMAIN lock \subseteq Modules
        BY <2>2, VendorAssumption DEF VendorAssumption, IInv, Typed, UnderWay, Fit
      <3>2. f[1] \in Seq(STRING)
        BY <3>1, HashIsMap
      <3>3. now \o f[1] \in Seq(STRING)
        BY <3>1, <3>2
      <3>4. (DOMAIN usr)' \subseteq Seq(STRING)
        BY <2>2, <3>1, <3>3 DEF With
      <3>5. \A m \in Modules \ {now} : Alone(m) => HashVendoredDir(m)' = HashVendoredDir(m)
        BY <2>2, <3>1, <3>2, Elsewhere
      <3>6. Explained'
        <4> SUFFICES ASSUME NEW m \in DOMAIN lock \ touched, Alone(m)
                     PROVE  HashVendoredDir(m)' = lock[m].hash
          BY <1>1 DEF Explained, Alone
        <4> QED
          BY <3>1, <3>5 DEF IInv, Explained
      <3> QED
        BY <3>4, <3>6
    <2> QED
      BY <2>1, <2>2 DEF Fail
  <1>4. Typed'
    <2>1. Fit(lock)' /\ Fit(mine)'
      BY <1>1 DEF IInv, Typed
    <2> QED
      BY <1>1, <1>2, <1>3, <2>1 DEF IInv, Typed, Results
  <1>5. UnderWay' /\ Settled' /\ Closed(lock)' /\ Closed(mine)'
    BY <1>1 DEF IInv, UnderWay, Settled, Closed
  <1> QED
    BY <1>3, <1>4, <1>5 DEF IInv

\* A step that changes nothing.
LEMMA StutterStep == IInv /\ UNCHANGED vars => IInv'
  <1> SUFFICES ASSUME IInv, UNCHANGED vars PROVE IInv'
    OBVIOUS
  <1>1. UNCHANGED <<head, usr, lock, torn, pc, verb, mine, todo, now, left, result, touched, given,
                    faults>>
    BY DEF vars, command
  <1>2. \A m : HashVendoredDir(m)' = HashVendoredDir(m) /\ Alone(m)' = Alone(m)
    BY <1>1 DEF HashVendoredDir, Below, Alone
  <1>3. Typed'
    <2>1. Fit(lock)' /\ Fit(mine)'
      BY <1>1 DEF IInv, Typed
    <2> QED
      BY <1>1, <2>1 DEF IInv, Typed
  <1>4. UnderWay'
    BY <1>1, <1>2 DEF IInv, UnderWay
  <1>5. Settled'
    BY <1>1, <1>2 DEF IInv, Settled, Fresh
  <1>6. Explained' /\ Closed(lock)' /\ Closed(mine)'
    BY <1>1, <1>2 DEF IInv, Explained, Closed
  <1> QED
    BY <1>3, <1>4, <1>5, <1>6 DEF IInv

-----------------------------------------------------------------------------
(* The theorems.                                                            *)

\* Between any two steps, trees, pins and lock are as far as vendorModule and the writing
\* of the lock have come, and what an unfinished command left is in `touched'.
THEOREM VendorInvariant == Spec => []IInv
  <1>1. IInv /\ [Next]_vars => IInv'
    BY PushStep, StartStep, FetchStep, ClearStep, InstallStep, InstalledStep, TruncateStep,
       WriteStep, FailStep, StutterStep
    DEF Next
  <1> QED
    BY Initially, <1>1, PTL DEF Spec

\* The state has its types: what is being installed is pinned, and what is left of it
\* is of its pin.
THEOREM VendorTypes == Spec => []TypeOK
  <1>1. IInv => TypeOK
    BY DEF IInv, Typed, UnderWay, Fit, TypeOK
  <1> QED
    BY VendorInvariant, <1>1, PTL

\* The project builds offline, whatever the modules are called: what the lock lists
\* imports nothing but what it lists (checkImports of vendorModule).
THEOREM BuildsOffline == Spec => []Offline
  <1>1. Closed(lock) => Offline
    BY DEF Closed, Offline
  <1> QED
    BY VendorInvariant, <1>1, PTL DEF IInv

\* A module whose path no other module's path extends or is extended by: its tree is
\* what the lock says unless a command on it did not finish.
THEOREM DriftOfOne ==
  ASSUME NEW m \in Modules, Alone(m)
  PROVE  Spec => [](m \in DOMAIN lock \ touched => HashVendoredDir(m) = lock[m].hash)
  <1>1. IInv => (m \in DOMAIN lock \ touched => HashVendoredDir(m) = lock[m].hash)
    BY DEF IInv, Explained
  <1> QED
    BY VendorInvariant, <1>1, PTL

\* Drift is always the trace of a command that did not finish, when no vendored
\* module is in the tree of another (removeAll of vendorModule takes the nested
\* tree with it).
THEOREM DriftIsExplained ==
  ASSUME \A m \in Modules : Alone(m)
  PROVE  Spec => []DriftExplained
  <1>1. IInv => DriftExplained
    BY DEF IInv, Explained, DriftExplained, Typed, Fit
  <1> QED
    BY VendorInvariant, <1>1, PTL

\* A vendor without arguments that succeeds has brought the tree of every such module
\* to what the lock says then.
THEOREM RestoreOfOne ==
  ASSUME NEW m \in Modules, Alone(m)
  PROVE  Spec => [][WriteLock /\ verb = "restore" =>
                      (m \in DOMAIN lock' => HashVendoredDir(m) = lock'[m].hash)]_vars
  <1>1. IInv /\ WriteLock /\ verb = "restore"
          => (m \in DOMAIN lock' => HashVendoredDir(m) = lock'[m].hash)
    BY DEF IInv, Settled, UnderWay, Fresh, WriteLock
  <1> QED
    BY VendorInvariant, <1>1, PTL

\* It leaves nothing for --check to find, when no vendored module is in the tree of
\* another.
THEOREM RestoreHealsAll ==
  ASSUME \A m \in Modules : Alone(m)
  PROVE  Spec => RestoreHeals
  <1>1. IInv /\ WriteLock /\ verb = "restore"
          => \A m \in DOMAIN lock' : HashVendoredDir(m) = lock'[m].hash
    BY DEF IInv, Settled, UnderWay, Fresh, WriteLock, Typed, Fit
  <1>2. IInv /\ [Next]_vars =>
          [WriteLock /\ verb = "restore"
             => \A m \in DOMAIN lock' : HashVendoredDir(m) = lock'[m].hash]_vars
    BY <1>1
  <1> QED
    BY VendorInvariant, <1>2, PTL DEF Spec, RestoreHeals
=============================================================================
