----------------------------- MODULE SecretsProofs -----------------------------
(***************************************************************************)
(* The secret commands, for any names, sessions, commands, hand-authored   *)
(* secrets and secrets of others, and any number of values and failures.   *)
(***************************************************************************)
EXTENDS Secrets, WellFoundedInduction, TLAPS

-----------------------------------------------------------------------------
(* The inductive invariant.                                                 *)

\* What podman may have.
Stores == UNION {[S -> Stored] : S \in SUBSET Names}

Results == {"none", "ok", "error", "aborted"}

Session ==
  [pc : Phases, cmd : Commands \cup {None}, mine : SUBSET Entries, saw : Stores,
   todo : SUBSET Names, eff : Entries \cup Stored \cup {None}, alone : BOOLEAN,
   failed : BOOLEAN, result : Results]

Typed ==
  /\ registry \subseteq Entries /\ torn \in BOOLEAN /\ podman \in Stores
  /\ made \in 0 .. MaxValues /\ given \in 0 .. MaxCommands /\ faults \in 0 .. MaxFaults
  /\ ses \in [Sessions -> Session]

\* The phases a command goes through.
Course(verb, phase) ==
  \/ verb = "create" /\ phase \in {"list", "load", "value", "register", "create"}
  \/ verb = "createAll" /\ phase \in {"list", "load", "value", "create"}
  \/ verb = "rotate" /\ phase \in {"load", "confirm", "create"}
  \/ verb = "remove" /\ phase \in {"load", "confirm", "remove", "write", "writing"}
  \/ verb = "prune" /\ phase \in {"load", "infos", "confirm", "remove"}
  \/ verb = "adopt" /\ phase \in {"load", "infos", "read", "adopt"}

\* A create works on one entry, of the name it is known under.
OneEntry(r) ==
  r.cmd.verb = "create" /\ r.pc \in {"value", "register", "create"} =>
    /\ r.eff \in Entries /\ r.todo \in {{}, {r.eff.name}}
    /\ IsHandAuthored(r.cmd) /\ r.cmd.name = NoName => \E h \in HandAuthored : r.eff.name = h.name

\* What a session has at each of its phases.
Flow(r) ==
  r.pc # "idle" =>
    /\ r.cmd \in Commands /\ Course(r.cmd.verb, r.pc) /\ OneEntry(r)
    /\ r.pc \in {"value", "confirm", "create", "read", "adopt", "remove"} => r.todo # {}
    /\ r.pc \in {"read", "adopt"} => r.todo \subseteq DOMAIN r.saw
    /\ r.pc = "adopt" => r.eff \in Stored

\* The registry that was read is the registry there is, or was truncated.
SameRegistry(r, reg, cut) == r.mine = reg \/ (cut /\ r.mine = {})

\* What a session has to do is what is missing, and what it will do is declared.
Fills(r, reg, cut, pod) ==
  /\ r.cmd.verb = "createAll" /\ r.pc = "load" => r.saw = pod
  /\ r.cmd.verb = "createAll" /\ r.pc \in {"value", "create"} =>
       r.todo \subseteq Declared(reg) /\ (cut \/ Declared(reg) \subseteq r.todo \cup DOMAIN pod)
  /\ r.cmd.verb = "rotate" /\ r.pc \in {"confirm", "create"} => r.todo \subseteq Declared(reg)

\* A create writes what it read with its entry, and makes the secret of that.
Records(r, reg, cut) ==
  /\ r.cmd.verb = "create" /\ r.pc \in {"value", "register"} => SameRegistry(r, reg, cut)
  /\ r.cmd.verb = "create" /\ r.pc = "create" /\ ~Renames(r.cmd) =>
       /\ r.eff.name \in Declared(reg)
       /\ ~IsHandAuthored(r.cmd) => OnRecord(reg, r.eff)

\* An adopt makes again what is there.
Copies(r, pod) ==
  /\ r.pc \in {"read", "adopt"} => \A n \in r.todo : n \in DOMAIN pod /\ r.saw[n] = pod[n]
  /\ r.pc = "adopt" => r.eff = pod[Min(r.todo)]

\* What is known while nobody else changes anything.
Current(r, reg, cut, pod) ==
  r.alone /\ r.pc # "idle" => Fills(r, reg, cut, pod) /\ Records(r, reg, cut) /\ Copies(r, pod)

\* What an undisturbed prune has in hand is there, is crei's and is referred to
\* nowhere, and as long as no removal failed, there is no other such secret.
Spares(r, reg, cut, pod) ==
  r.alone /\ r.cmd.verb = "prune" =>
    /\ r.pc \in {"infos", "confirm", "remove"} => SameRegistry(r, reg, cut)
    /\ r.pc \in {"confirm", "remove"} =>
         /\ r.todo \subseteq Doomed(r.mine, pod)
         /\ ~r.failed => Doomed(r.mine, pod) \subseteq r.todo

Sound(r, reg, cut, pod) == Flow(r) /\ Current(r, reg, cut, pod) /\ Spares(r, reg, cut, pod)

IInv == Typed /\ \A s \in Sessions : Sound(ses[s], registry, torn, podman)

-----------------------------------------------------------------------------
(* Numbers and stores.                                                      *)

\* A set of numbers has a least one.
LEMMA Least ==
  ASSUME NEW S \in SUBSET Nat, S # {}
  PROVE  Min(S) \in S
  <1>1. PICK x \in S : \A y \in S : <<y, x>> \notin OpToRel(<, Nat)
    BY WFMin, NatLessThanWellFounded
  <1>2. \A y \in S : ~(y < x)
    BY <1>1 DEF OpToRel
  <1>3. \A y \in S : x <= y
    BY <1>2
  <1> QED
    BY <1>3 DEF Min

\* Of some entries one is the last.
LEMMA LastOfSome ==
  ASSUME NEW es \in SUBSET Entries, es # {}
  PROVE  Last(es) \in es
  <1>1. PICK top \in Names : \A n \in Names : n <= top
    <2>1. \A e \in Entries : e.key \in Names
      BY DEF Entries
    <2> QED
      BY <2>1, SecretsAssumption DEF SecretsAssumption
  <1>2. \A e \in es : e.key \in Nat /\ e.key <= top
    BY <1>1, SecretsAssumption DEF SecretsAssumption, Entries
  <1>3. top \in Nat
    BY <1>1, SecretsAssumption DEF SecretsAssumption
  <1> DEFINE Gaps == {top - e.key : e \in es}
  <1>4. Gaps \in SUBSET Nat /\ Gaps # {}
    BY <1>2, <1>3
  <1> HIDE DEF Gaps
  <1>5. PICK g \in Gaps : \A h \in Gaps : <<h, g>> \notin OpToRel(<, Nat)
    BY <1>4, WFMin, NatLessThanWellFounded
  <1>6. \A h \in Gaps : ~(h < g)
    BY <1>4, <1>5 DEF OpToRel
  <1>7. PICK e \in es : g = top - e.key
    BY <1>5 DEF Gaps
  <1>8. ASSUME NEW f \in es
        PROVE  f.key <= e.key
    <2>1. top - f.key \in Gaps
      BY DEF Gaps
    <2> QED
      BY <1>2, <1>3, <1>6, <1>7, <2>1
  <1> QED
    BY <1>8 DEF Last

\* What a store has.
LEMMA StoreHas ==
  ASSUME NEW pod \in Stores
  PROVE  DOMAIN pod \in SUBSET Names /\ \A n \in DOMAIN pod : pod[n] \in Stored
  BY DEF Stores

\* A store with another secret, and one without some.
LEMMA StoreWith ==
  ASSUME NEW pod \in Stores, NEW n \in Names, NEW v \in Stored
  PROVE  /\ With(pod, n, v) \in Stores /\ DOMAIN With(pod, n, v) = DOMAIN pod \cup {n}
         /\ With(pod, n, v)[n] = v
         /\ \A x \in DOMAIN pod \ {n} : With(pod, n, v)[x] = pod[x]
  <1>1. With(pod, n, v) \in [DOMAIN pod \cup {n} -> Stored]
    BY StoreHas DEF With
  <1> QED
    BY <1>1, StoreHas DEF Stores, With

\* A store without some secrets is a store.
LEMMA StoreWithout ==
  ASSUME NEW pod \in Stores, NEW S
  PROVE  /\ Without(pod, S) \in Stores /\ DOMAIN Without(pod, S) = DOMAIN pod \ S
         /\ \A x \in DOMAIN pod \ S : Without(pod, S)[x] = pod[x]
  <1>1. Without(pod, S) \in [DOMAIN pod \ S -> Stored]
    BY StoreHas DEF Without
  <1> QED
    BY <1>1, StoreHas DEF Stores, Without

-----------------------------------------------------------------------------
(* What a step does to the sessions.                                        *)

\* A session that is in no command promises nothing.
LEMMA IdleIsSound ==
  ASSUME NEW result \in Results
  PROVE  /\ Idle(result) \in Session
         /\ \A reg, cut, pod : Sound(Idle(result), reg, cut, pod)
  <1>1. Nothing \in Stores
    <2>1. Nothing \in [{} -> Stored]
      BY DEF Nothing
    <2> QED
      BY <2>1 DEF Stores
  <1>2. Idle(result) \in Session
    BY <1>1 DEF Idle, Session, Phases
  <1>3. Idle(result).pc = "idle"
    BY DEF Idle
  <1> QED
    BY <1>2, <1>3 DEF Sound, Flow, Current, Spares

\* A step that leaves the stores alone matters to its session only.
LEMMA Quiet ==
  ASSUME IInv, NEW s \in Sessions, NEW r \in Session, Becomes(s, r),
         UNCHANGED stores, given' \in 0 .. MaxCommands, faults' \in 0 .. MaxFaults,
         Sound(r, registry, torn, podman)
  PROVE  IInv'
  <1>1. registry' = registry /\ torn' = torn /\ podman' = podman /\ made' = made
    BY DEF stores
  <1>2. ses' = [ses EXCEPT ![s] = r] /\ ses \in [Sessions -> Session]
    BY DEF Becomes, IInv, Typed
  <1>3. Typed'
    BY <1>1, <1>2 DEF IInv, Typed
  <1>4. ASSUME NEW t \in Sessions
        PROVE  Sound(ses'[t], registry', torn', podman')
    <2>1. CASE t = s
      BY <1>1, <1>2, <2>1
    <2>2. CASE t # s
      BY <1>1, <1>2, <2>2 DEF IInv
    <2> QED
      BY <2>1, <2>2
  <1> QED
    BY <1>3, <1>4 DEF IInv

\* A session whose stores somebody else has changed knows nothing more of them.
LEMMA Disturbed ==
  ASSUME NEW r \in Session, Flow(r), NEW t, t = [r EXCEPT !.alone = FALSE]
  PROVE  t \in Session /\ \A reg, cut, pod : Sound(t, reg, cut, pod)
  <1>1. /\ t \in Session /\ t.alone = FALSE /\ t.pc = r.pc /\ t.cmd = r.cmd
        /\ t.eff = r.eff /\ t.todo = r.todo /\ t.saw = r.saw
    BY DEF Session
  <1>2. Flow(t)
    BY <1>1 DEF Flow, OneEntry
  <1> QED
    BY <1>1, <1>2 DEF Sound, Current, Spares

\* A step that changes a store: the others know no more what there is.
LEMMA Loud ==
  ASSUME IInv, NEW s \in Sessions, NEW r \in Session, Changes(s, r),
         registry' \in SUBSET Entries, torn' \in BOOLEAN, podman' \in Stores,
         made' \in 0 .. MaxValues, given' \in 0 .. MaxCommands, faults' \in 0 .. MaxFaults,
         Sound(r, registry', torn', podman')
  PROVE  IInv'
  <1>1. ses \in [Sessions -> Session]
    BY DEF IInv, Typed
  <1> DEFINE Other(t) == [ses[t] EXCEPT !.alone = @ /\ t = s]
  <1>2. ASSUME NEW t \in Sessions \ {s}
        PROVE  /\ Other(t) \in Session
               /\ Sound(Other(t), registry', torn', podman')
    <2>1. ses[t] \in Session /\ Flow(ses[t])
      BY <1>1 DEF IInv, Sound
    <2>2. Other(t) = [ses[t] EXCEPT !.alone = FALSE]
      BY <1>2
    <2> HIDE DEF Other
    <2> QED
      BY <2>1, <2>2, Disturbed
  <1>3. ses' = [[t \in Sessions |-> Other(t)] EXCEPT ![s] = r]
    BY DEF Changes, Others
  <1> HIDE DEF Other
  <1>4. \A t \in Sessions : ses'[t] = IF t = s THEN r ELSE Other(t)
    BY <1>3
  <1>5. ses' \in [Sessions -> Session]
    BY <1>2, <1>3
  <1>6. Typed'
    BY <1>5 DEF Typed
  <1> QED
    BY <1>2, <1>4, <1>6 DEF IInv

\* A command that returns without having changed a store, and one that returns with
\* its last change.
LEMMA QuietEnd ==
  ASSUME IInv, NEW s \in Sessions, NEW how \in Results, Returns(s, how),
         UNCHANGED stores, given' \in 0 .. MaxCommands, faults' \in 0 .. MaxFaults
  PROVE  IInv'
  <1>1. Becomes(s, Idle(how))
    BY DEF Returns
  <1> QED
    BY <1>1, Quiet, IdleIsSound

\* A step that changes a store and ends the command.
LEMMA LoudEnd ==
  ASSUME IInv, NEW s \in Sessions, NEW how \in Results, Ends(s, how),
         registry' \in SUBSET Entries, torn' \in BOOLEAN, podman' \in Stores,
         made' \in 0 .. MaxValues, given' \in 0 .. MaxCommands, faults' \in 0 .. MaxFaults
  PROVE  IInv'
  <1>1. Changes(s, Idle(how))
    BY DEF Ends
  <1> QED
    BY <1>1, Loud, IdleIsSound

\* What a session in a command has.
LEMMA SessionHas ==
  ASSUME IInv, NEW s \in Sessions
  PROVE  /\ ses[s] \in Session /\ Sound(ses[s], registry, torn, podman)
         /\ ses[s].mine \in SUBSET Entries /\ ses[s].todo \in SUBSET Names
         /\ ses[s].saw \in Stores /\ ses[s].alone \in BOOLEAN /\ ses[s].failed \in BOOLEAN
         /\ registry \in SUBSET Entries /\ torn \in BOOLEAN /\ podman \in Stores
         /\ made \in 0 .. MaxValues /\ given \in 0 .. MaxCommands /\ faults \in 0 .. MaxFaults
  BY DEF IInv, Typed, Session

-----------------------------------------------------------------------------
(* The steps that read.                                                     *)

\* The invariant holds at first.
LEMMA Initially == Init => IInv
  <1> SUFFICES ASSUME Init PROVE IInv
    OBVIOUS
  <1>1. "none" \in Results
    BY DEF Results
  <1>2. podman \in Stores
    <2>1. podman \in [Foreign -> Stored]
      BY SecretsAssumption DEF SecretsAssumption, Init, Stored
    <2> QED
      BY <2>1, SecretsAssumption DEF SecretsAssumption, Stores
  <1>3. made \in 0 .. MaxValues /\ given \in 0 .. MaxCommands /\ faults \in 0 .. MaxFaults
    BY SecretsAssumption DEF SecretsAssumption, Init
  <1>4. ses = [s \in Sessions |-> Idle("none")]
    BY DEF Init
  <1>5. Typed
    BY <1>1, <1>2, <1>3, <1>4, IdleIsSound DEF Init, Typed
  <1> QED
    BY <1>1, <1>4, <1>5, IdleIsSound DEF IInv

\* What is declared has a name.
LEMMA DeclaredNames ==
  ASSUME NEW reg \in SUBSET Entries
  PROVE  Declared(reg) \in SUBSET Names
  BY SecretsAssumption DEF SecretsAssumption, Declared, Entries

\* A command is given.
LEMMA StartStep ==
  ASSUME IInv, NEW s \in Sessions, Start(s)
  PROVE  IInv'
  <1>1. PICK c \in Commands :
          Becomes(s, [Idle("none") EXCEPT
                        !.pc = IF c.verb \in {"create", "createAll"} THEN "list" ELSE "load",
                        !.cmd = c])
    BY DEF Start
  <1> DEFINE r == [Idle("none") EXCEPT
                     !.pc = IF c.verb \in {"create", "createAll"} THEN "list" ELSE "load",
                     !.cmd = c]
  <1>2. c.verb \in Verbs
    BY SecretsAssumption DEF SecretsAssumption
  <1>3. Idle("none") \in Session
    BY IdleIsSound DEF Results
  <1>4. /\ r \in Session /\ r.cmd = c
        /\ r.pc = IF c.verb \in {"create", "createAll"} THEN "list" ELSE "load"
    BY <1>3 DEF Session, Phases
  <1>5. given' \in 0 .. MaxCommands /\ UNCHANGED <<stores, faults>>
    BY SessionHas, SecretsAssumption DEF SecretsAssumption, Start
  <1> HIDE DEF r
  <1>6. Flow(r)
    BY <1>2, <1>4 DEF Flow, Course, OneEntry, Verbs
  <1>7. Current(r, registry, torn, podman) /\ Spares(r, registry, torn, podman)
    BY <1>4 DEF Current, Fills, Records, Copies, Spares
  <1> QED
    BY <1>1, <1>4, <1>5, <1>6, <1>7, Quiet, SessionHas DEF Sound, r

\* podman secret ls.
LEMMA ListStep ==
  ASSUME IInv, NEW s \in Sessions, ListSecrets(s)
  PROVE  IInv'
  <1> DEFINE r == [ses[s] EXCEPT !.pc = "load", !.saw = podman]
  <1>1. ses[s] \in Session /\ Sound(ses[s], registry, torn, podman) /\ podman \in Stores
    BY SessionHas
  <1>2. ses[s].pc = "list" /\ Becomes(s, r) /\ UNCHANGED <<stores, given, faults>>
    BY DEF ListSecrets
  <1>3. r \in Session /\ r.pc = "load" /\ r.saw = podman /\ r.cmd = ses[s].cmd
    BY <1>1 DEF Session, Phases
  <1> HIDE DEF r
  <1>4. Flow(r)
    BY <1>1, <1>2, <1>3 DEF Sound, Flow, Course, OneEntry
  <1>5. Current(r, registry, torn, podman) /\ Spares(r, registry, torn, podman)
    BY <1>3 DEF Current, Fills, Records, Copies, Spares
  <1> QED
    BY <1>2, <1>3, <1>4, <1>5, Quiet, SessionHas DEF Sound

\* What create means to record.
LEMMA EffectiveIs ==
  ASSUME NEW c \in Commands, c.verb = "create", NEW reg \in SUBSET Entries
  PROVE  /\ Effective(c, reg) \in Entries
         /\ IsHandAuthored(c) /\ c.name = NoName =>
              \E h \in HandAuthored : Effective(c, reg).name = h.name
  <1> DEFINE desired == [key |-> c.key, name |-> IF c.name = NoName THEN c.key ELSE c.name,
                         policy |-> IF c.policy = "none" THEN "manual" ELSE c.policy]
             eff == IF Meant(reg, c.key) # {} /\ ~Flagged(c) THEN Last(Meant(reg, c.key))
                    ELSE desired
             hand == {h \in HandAuthored : h.key = c.key \/ h.name = c.key}
  <1>1. desired \in Entries
    BY SecretsAssumption DEF SecretsAssumption, Entries, Policies
  <1>2. Meant(reg, c.key) # {} => Last(Meant(reg, c.key)) \in Entries
    <2>1. Meant(reg, c.key) \in SUBSET Entries
      BY DEF Meant
    <2> QED
      BY <2>1, LastOfSome
  <1>3. eff \in Entries
    BY <1>1, <1>2
  <1>4. Effective(c, reg) = IF hand # {} /\ c.name = NoName
                            THEN [eff EXCEPT !.name = (CHOOSE h \in hand : TRUE).name] ELSE eff
    BY DEF Effective
  <1> HIDE DEF eff
  <1>5. CASE hand # {} /\ c.name = NoName
    <2>1. PICK h : h \in hand /\ h = (CHOOSE g \in hand : TRUE)
      BY <1>5
    <2>2. h \in HandAuthored /\ h.name \in Names
      BY <2>1, SecretsAssumption DEF SecretsAssumption
    <2>3. Effective(c, reg) = [eff EXCEPT !.name = h.name]
      BY <1>4, <1>5, <2>1
    <2> QED
      BY <1>3, <2>2, <2>3 DEF Entries
  <1>6. CASE ~(hand # {} /\ c.name = NoName)
    <2>1. ~(IsHandAuthored(c) /\ c.name = NoName)
      BY <1>6 DEF IsHandAuthored
    <2> QED
      BY <1>3, <1>4, <1>6, <2>1
  <1> QED
    BY <1>5, <1>6

\* What a command knows when it has loaded the registry.
Loaded(s, reg) ==
  /\ ses[s].pc = "load" /\ ses[s].cmd \in Commands /\ reg \in SUBSET Entries
  /\ reg = registry \/ (torn /\ reg = {})
  /\ UNCHANGED stores /\ UNCHANGED <<given, faults>>

\* A command goes on from there with what it has to do.
LEMMA GoesOn ==
  ASSUME IInv, NEW s \in Sessions, NEW reg, Loaded(s, reg),
         NEW r \in Session, Becomes(s, r), r.cmd = ses[s].cmd, r.pc # "load",
         Flow(r), Spares(r, registry, torn, podman), r.alone => Fills(r, registry, torn, podman),
         r.cmd.verb = "create" => r.pc # "create" /\ r.mine = reg,
         r.pc \notin {"read", "adopt"}
  PROVE  IInv'
  <1>1. Current(r, registry, torn, podman)
    BY DEF Current, Records, Copies, SameRegistry, Loaded
  <1> QED
    BY <1>1, Quiet, SessionHas DEF Sound, Loaded

\* create, when the registry is read.
LEMMA CreateStep ==
  ASSUME IInv, NEW s \in Sessions, NEW reg, Loaded(s, reg), NEW c, c = ses[s].cmd,
         c.verb = "create", Create(s, c, reg)
  PROVE  IInv'
  <1> DEFINE eff == Effective(c, reg)
             go == [ses[s] EXCEPT !.mine = reg, !.eff = eff, !.todo = {eff.name}]
  <1>1. /\ ses[s] \in Session /\ c \in Commands /\ reg \in SUBSET Entries
        /\ UNCHANGED <<stores, given, faults>>
        /\ given \in 0 .. MaxCommands /\ faults \in 0 .. MaxFaults
    BY SessionHas DEF Loaded
  <1>2. /\ eff \in Entries /\ eff.name \in Names
        /\ IsHandAuthored(c) /\ c.name = NoName => \E h \in HandAuthored : eff.name = h.name
    BY <1>1, EffectiveIs DEF Entries
  <1> HIDE DEF eff
  <1>3. ASSUME NEW phase \in {"value", "register"}, NEW todo \in {{}, {eff.name}},
               phase = "value" => todo # {},
               NEW r, r = [go EXCEPT !.pc = phase, !.todo = todo], Becomes(s, r)
        PROVE  IInv'
    <2>1. /\ r \in Session /\ r.pc = phase /\ r.cmd = c /\ r.mine = reg
          /\ r.eff = eff /\ r.todo = todo
      BY <1>1, <1>2, <1>3 DEF Session, Phases
    <2>2. Flow(r)
      BY <1>1, <1>2, <1>3, <2>1 DEF Flow, Course, OneEntry
    <2>3. Spares(r, registry, torn, podman) /\ Fills(r, registry, torn, podman)
      BY <2>1 DEF Spares, Fills
    <2> QED
      BY <1>3, <2>1, <2>2, <2>3, GoesOn
  <1>4. ASSUME NEW how \in Results, Returns(s, how)
        PROVE  IInv'
    BY <1>1, <1>4, QuietEnd
  <1>5. CASE Returns(s, "error") \/ Returns(s, "ok")
    BY <1>4, <1>5 DEF Results
  <1>6. CASE Becomes(s, [go EXCEPT !.pc = "register", !.todo = {}])
    BY <1>3, <1>6
  <1>7. CASE Becomes(s, [go EXCEPT !.pc = IF eff.policy = "generate" THEN "register"
                                          ELSE "value"])
    <2>1. PICK phase \in {"value", "register"} :
            phase = IF eff.policy = "generate" THEN "register" ELSE "value"
      OBVIOUS
    <2>2. [go EXCEPT !.pc = phase] = [go EXCEPT !.pc = phase, !.todo = {eff.name}]
      BY <1>1, <1>2 DEF Session
    <2> QED
      BY <1>3, <1>7, <2>1, <2>2
  <1> QED
    BY <1>5, <1>6, <1>7 DEF Create, eff

\* create -a, when the registry is read.
LEMMA CreateAllStep ==
  ASSUME IInv, NEW s \in Sessions, NEW reg, Loaded(s, reg), ses[s].cmd.verb = "createAll",
         CreateAll(s, reg)
  PROVE  IInv'
  <1> DEFINE missing == Missing(reg, ses[s].saw)
             r == [ses[s] EXCEPT !.pc = "value", !.mine = reg, !.todo = missing]
  <1>1. /\ ses[s] \in Session /\ ses[s].cmd \in Commands /\ reg \in SUBSET Entries
        /\ UNCHANGED <<stores, given, faults>>
        /\ given \in 0 .. MaxCommands /\ faults \in 0 .. MaxFaults
    BY SessionHas DEF Loaded
  <1>2. CASE Returns(s, "ok")
    BY <1>1, <1>2, QuietEnd DEF Results
  <1>3. ASSUME missing # {}, Becomes(s, r)
        PROVE  IInv'
    <2>1. missing = Declared(reg) \ DOMAIN ses[s].saw /\ missing \in SUBSET Names
      BY <1>1, DeclaredNames DEF Missing
    <2> HIDE DEF missing
    <2>2. /\ r \in Session /\ r.pc = "value" /\ r.cmd = ses[s].cmd /\ r.todo = missing
          /\ r.alone = ses[s].alone
      BY <1>1, <2>1 DEF Session, Phases
    <2> HIDE DEF r
    <2>3. Flow(r)
      BY <1>1, <1>3, <2>2 DEF Flow, Course, OneEntry
    <2>4. Spares(r, registry, torn, podman)
      BY <2>2 DEF Spares
    <2>5. r.alone => Fills(r, registry, torn, podman)
      <3>1. r.alone => ses[s].saw = podman
        BY <2>2, SessionHas DEF Sound, Current, Fills, Loaded
      <3>2. Declared(reg) \subseteq Declared(registry)
        BY DEF Loaded, Declared
      <3> QED
        BY <2>1, <2>2, <3>1, <3>2 DEF Fills, Loaded
    <2> QED
      BY <1>3, <2>2, <2>3, <2>4, <2>5, GoesOn
  <1> QED
    BY <1>2, <1>3 DEF CreateAll

\* rotate, when the registry is read.
LEMMA RotateStep ==
  ASSUME IInv, NEW s \in Sessions, NEW reg, Loaded(s, reg), NEW c, c = ses[s].cmd,
         c.verb = "rotate", Rotate(s, c, reg)
  PROVE  IInv'
  <1> DEFINE targets == IF c.keys = {} THEN reg ELSE ByKey(reg, c.keys)
             rotatable == {e.name : e \in {t \in targets : t.policy = "generate"}}
             r == [ses[s] EXCEPT !.pc = "confirm", !.mine = reg, !.todo = rotatable]
  <1>1. /\ ses[s] \in Session /\ ses[s].cmd \in Commands /\ reg \in SUBSET Entries
        /\ UNCHANGED <<stores, given, faults>>
        /\ given \in 0 .. MaxCommands /\ faults \in 0 .. MaxFaults
    BY SessionHas DEF Loaded
  <1>2. CASE Returns(s, "ok") \/ Returns(s, "error")
    BY <1>1, <1>2, QuietEnd DEF Results
  <1>3. ASSUME rotatable # {}, Becomes(s, r)
        PROVE  IInv'
    <2>1. rotatable \subseteq {e.name : e \in reg}
      BY DEF ByKey
    <2>2. rotatable \subseteq Declared(registry)
      BY <2>1 DEF Loaded, Declared
    <2>3. rotatable \in SUBSET Names
      BY <1>1, <2>1 DEF Entries
    <2> HIDE DEF rotatable
    <2>4. r \in Session /\ r.pc = "confirm" /\ r.cmd = ses[s].cmd /\ r.todo = rotatable
      BY <1>1, <2>3 DEF Session, Phases
    <2> HIDE DEF r
    <2>5. Flow(r)
      BY <1>1, <1>3, <2>4 DEF Flow, Course, OneEntry
    <2>6. Spares(r, registry, torn, podman) /\ Fills(r, registry, torn, podman)
      BY <2>2, <2>4 DEF Spares, Fills
    <2> QED
      BY <1>3, <2>4, <2>5, <2>6, GoesOn
  <1> QED
    BY <1>2, <1>3 DEF Rotate

\* remove, when the registry is read.
LEMMA RemoveStep ==
  ASSUME IInv, NEW s \in Sessions, NEW reg, Loaded(s, reg), NEW c, c = ses[s].cmd,
         c.verb = "remove", Remove(s, c, reg)
  PROVE  IInv'
  <1> DEFINE todo == IF c.delete THEN {e.name : e \in ByKey(reg, c.keys)} ELSE {}
             r == [ses[s] EXCEPT !.pc = IF c.delete THEN "confirm" ELSE "write", !.mine = reg,
                                 !.todo = todo]
  <1>1. /\ ses[s] \in Session /\ ses[s].cmd \in Commands /\ reg \in SUBSET Entries
        /\ UNCHANGED <<stores, given, faults>>
        /\ given \in 0 .. MaxCommands /\ faults \in 0 .. MaxFaults
    BY SessionHas DEF Loaded
  <1>2. CASE Returns(s, "ok") \/ Returns(s, "error")
    BY <1>1, <1>2, QuietEnd DEF Results
  <1>3. ASSUME c.keys \subseteq {e.key : e \in reg},
               Becomes(s, [ses[s] EXCEPT
                     !.pc = IF c.delete THEN "confirm" ELSE "write", !.mine = reg,
                     !.todo = IF c.delete THEN {e.name : e \in ByKey(reg, c.keys)} ELSE {}])
        PROVE  IInv'
    <2>1. c.keys # {}
      BY <1>1, SecretsAssumption DEF SecretsAssumption
    <2>2. ByKey(reg, c.keys) # {}
      BY <1>3, <2>1 DEF ByKey
    <2>3. todo \in SUBSET Names
      BY <1>1 DEF Entries, ByKey
    <2>4. c.delete => todo # {}
      BY <2>2
    <2>5. Becomes(s, r)
      BY <1>3
    <2> HIDE DEF todo
    <2>6. /\ r \in Session /\ r.cmd = c /\ r.todo = todo
          /\ r.pc = IF c.delete THEN "confirm" ELSE "write"
      BY <1>1, <2>3 DEF Session, Phases
    <2> HIDE DEF r
    <2>7. Flow(r)
      BY <1>1, <2>4, <2>6 DEF Flow, Course, OneEntry
    <2>8. Spares(r, registry, torn, podman) /\ Fills(r, registry, torn, podman)
      BY <2>6 DEF Spares, Fills
    <2> QED
      BY <2>5, <2>6, <2>7, <2>8, GoesOn
  <1> QED
    BY <1>2, <1>3 DEF Remove

\* The registry is read, for each of the commands.
LEMMA LoadStep ==
  ASSUME IInv, NEW s \in Sessions, Load(s)
  PROVE  IInv'
  <1>1. ses[s].pc = "load" /\ UNCHANGED <<stores, given, faults>>
    BY DEF Load
  <1>2. /\ ses[s] \in Session /\ Sound(ses[s], registry, torn, podman)
        /\ registry \in SUBSET Entries
        /\ given \in 0 .. MaxCommands /\ faults \in 0 .. MaxFaults
    BY SessionHas
  <1>3. CASE Returns(s, "error")
    BY <1>1, <1>2, <1>3, QuietEnd DEF Results
  <1> DEFINE c == ses[s].cmd  reg == IF torn THEN {} ELSE registry
  <1>4. Loaded(s, reg)
    BY <1>1, <1>2 DEF Sound, Flow, Loaded
  <1>5. ASSUME c.verb \in {"adopt", "prune"},
               Becomes(s, [ses[s] EXCEPT !.pc = "infos", !.mine = reg])
        PROVE  IInv'
    <2> DEFINE r == [ses[s] EXCEPT !.pc = "infos", !.mine = reg]
    <2>1. r \in Session /\ r.pc = "infos" /\ r.cmd = c /\ r.mine = reg
      BY <1>2 DEF Session, Phases
    <2>2. Becomes(s, r)
      BY <1>5
    <2> HIDE DEF r
    <2>3. Flow(r)
      BY <1>4, <1>5, <2>1 DEF Flow, Course, OneEntry, Loaded
    <2>4. Spares(r, registry, torn, podman) /\ Fills(r, registry, torn, podman)
      BY <1>4, <1>5, <2>1 DEF Spares, Fills, SameRegistry, Loaded
    <2> QED
      BY <1>4, <1>5, <2>1, <2>2, <2>3, <2>4, GoesOn
  <1> HIDE DEF reg
  <1>6. CASE \/ c.verb = "create" /\ Create(s, c, reg)
             \/ c.verb = "createAll" /\ CreateAll(s, reg)
             \/ c.verb = "rotate" /\ Rotate(s, c, reg)
             \/ c.verb = "remove" /\ Remove(s, c, reg)
    BY <1>4, <1>6, CreateStep, CreateAllStep, RotateStep, RemoveStep
  <1> QED
    BY <1>3, <1>5, <1>6 DEF Load, reg

\* Podman's secrets are listed: what a prune takes in hand is crei's.
LEMMA InfosStep ==
  ASSUME IInv, NEW s \in Sessions, SecretInfos(s)
  PROVE  IInv'
  <1> DEFINE prune == ses[s].cmd.verb = "prune"
             todo == IF prune THEN Doomed(ses[s].mine, podman)
                     ELSE Adoptable(ses[s].mine, podman)
             r == [ses[s] EXCEPT !.pc = IF prune THEN "confirm" ELSE "read",
                                 !.saw = podman, !.todo = todo]
  <1>1. /\ ses[s] \in Session /\ Sound(ses[s], registry, torn, podman) /\ podman \in Stores
        /\ given \in 0 .. MaxCommands /\ faults \in 0 .. MaxFaults
    BY SessionHas
  <1>2. /\ ses[s].pc = "infos" /\ UNCHANGED <<stores, given, faults>>
        /\ IF todo = {} THEN Returns(s, "ok") ELSE Becomes(s, r)
    BY DEF SecretInfos
  <1>3. CASE Returns(s, "ok")
    BY <1>1, <1>2, <1>3, QuietEnd DEF Results
  <1>4. CASE todo # {} /\ Becomes(s, r)
    <2>1. /\ todo \in SUBSET Names /\ todo \subseteq DOMAIN podman
          /\ prune => todo = Doomed(ses[s].mine, podman)
      BY <1>1, StoreHas DEF Doomed, Adoptable
    <2> HIDE DEF todo
    <2>2. /\ r \in Session /\ r.cmd = ses[s].cmd /\ r.todo = todo /\ r.saw = podman
          /\ r.mine = ses[s].mine /\ r.alone = ses[s].alone
          /\ r.pc = IF prune THEN "confirm" ELSE "read"
      BY <1>1, <2>1 DEF Session, Phases
    <2> HIDE DEF r
    <2>3. Flow(r)
      BY <1>1, <1>2, <1>4, <2>1, <2>2 DEF Sound, Flow, Course, OneEntry
    <2>4. Spares(r, registry, torn, podman)
      BY <1>1, <1>2, <2>1, <2>2 DEF Sound, Spares, SameRegistry
    <2>5. Current(r, registry, torn, podman)
      <3>1. ses[s].cmd.verb \in {"prune", "adopt"}
        BY <1>1, <1>2 DEF Sound, Flow, Course
      <3> QED
        BY <2>1, <2>2, <3>1 DEF Current, Fills, Records, Copies
    <2> QED
      BY <1>1, <1>2, <1>4, <2>2, <2>3, <2>4, <2>5, Quiet DEF Sound
  <1> QED
    BY <1>2, <1>3, <1>4

-----------------------------------------------------------------------------
(* The user's steps.                                                        *)

\* What a prompt is followed by: the same work, in another phase.
LEMMA NextPhase ==
  ASSUME IInv, NEW s \in Sessions, NEW phase \in Phases,
         UNCHANGED <<stores, given, faults>>,
         Becomes(s, [ses[s] EXCEPT !.pc = phase]),
         \/ ses[s].pc = "value" /\ ses[s].cmd.verb = "createAll" /\ phase = "create"
         \/ ses[s].pc = "value" /\ ses[s].cmd.verb = "create" /\ phase = "register"
         \/ ses[s].pc = "confirm" /\ ses[s].cmd.verb = "rotate" /\ phase = "create"
         \/ ses[s].pc = "confirm" /\ ses[s].cmd.verb # "rotate" /\ phase = "remove"
  PROVE  IInv'
  <1> DEFINE r == [ses[s] EXCEPT !.pc = phase]
  <1>1. /\ ses[s] \in Session /\ Sound(ses[s], registry, torn, podman)
        /\ given \in 0 .. MaxCommands /\ faults \in 0 .. MaxFaults
    BY SessionHas
  <1>2. /\ r \in Session /\ r.pc = phase /\ r.cmd = ses[s].cmd /\ r.mine = ses[s].mine
        /\ r.saw = ses[s].saw /\ r.todo = ses[s].todo /\ r.eff = ses[s].eff
        /\ r.alone = ses[s].alone /\ r.failed = ses[s].failed
    BY <1>1 DEF Session
  <1>3. Becomes(s, r)
    OBVIOUS
  <1> HIDE DEF r
  <1>4. Flow(r)
    BY <1>1, <1>2 DEF Sound, Flow, Course, OneEntry
  <1>5. Spares(r, registry, torn, podman)
    BY <1>1, <1>2 DEF Sound, Spares, SameRegistry
  <1>6. Current(r, registry, torn, podman)
    BY <1>1, <1>2 DEF Sound, Current, Fills, Records, Copies, SameRegistry
  <1> QED
    BY <1>1, <1>2, <1>3, <1>4, <1>5, <1>6, Quiet DEF Sound

\* A value is made or typed in.
LEMMA ValueStep ==
  ASSUME IInv, NEW s \in Sessions, Value(s)
  PROVE  IInv'
  <1>1. /\ ses[s] \in Session /\ Sound(ses[s], registry, torn, podman)
        /\ given \in 0 .. MaxCommands /\ faults \in 0 .. MaxFaults
    BY SessionHas
  <1>2. ses[s].pc = "value" /\ UNCHANGED <<stores, given, faults>>
    BY DEF Value
  <1>3. ses[s].cmd.verb \in {"create", "createAll"}
    BY <1>1, <1>2 DEF Sound, Flow, Course
  <1>4. CASE Returns(s, "error")
    BY <1>1, <1>2, <1>4, QuietEnd DEF Results
  <1>5. CASE ses[s].cmd.verb = "createAll" /\ Becomes(s, [ses[s] EXCEPT !.pc = "create"])
    BY <1>2, <1>5, NextPhase DEF Phases
  <1>6. CASE ses[s].cmd.verb = "create" /\ Becomes(s, [ses[s] EXCEPT !.pc = "register"])
    BY <1>2, <1>6, NextPhase DEF Phases
  <1>7. CASE /\ ses[s].cmd.verb = "create"
             /\ Becomes(s, [ses[s] EXCEPT !.pc = "register", !.eff.policy = "generate"])
    <2> DEFINE eff == [ses[s].eff EXCEPT !.policy = "generate"]
               r == [ses[s] EXCEPT !.pc = "register", !.eff = eff]
    <2>1. Becomes(s, r)
      BY <1>1, <1>7 DEF Session
    <2>2. eff \in Entries /\ eff.name = ses[s].eff.name
      BY <1>1, <1>2, <1>7 DEF Sound, Flow, OneEntry, Entries, Policies
    <2> HIDE DEF eff
    <2>3. /\ r \in Session /\ r.pc = "register" /\ r.cmd = ses[s].cmd /\ r.mine = ses[s].mine
          /\ r.todo = ses[s].todo /\ r.eff = eff /\ r.alone = ses[s].alone
      BY <1>1, <2>2 DEF Session, Phases
    <2> HIDE DEF r
    <2>4. Flow(r)
      BY <1>1, <1>2, <1>7, <2>2, <2>3 DEF Sound, Flow, Course, OneEntry
    <2>5. Spares(r, registry, torn, podman)
      BY <2>3 DEF Spares
    <2>6. Current(r, registry, torn, podman)
      BY <1>1, <1>2, <1>7, <2>3 DEF Sound, Current, Fills, Records, Copies, SameRegistry
    <2> QED
      BY <1>1, <1>2, <2>1, <2>3, <2>4, <2>5, <2>6, Quiet DEF Sound
  <1> QED
    BY <1>3, <1>4, <1>5, <1>6, <1>7 DEF Value

\* The user confirms.
LEMMA ConfirmStep ==
  ASSUME IInv, NEW s \in Sessions, Confirm(s)
  PROVE  IInv'
  <1>1. ses[s].pc = "confirm" /\ UNCHANGED <<stores, given, faults>>
    BY DEF Confirm
  <1>2. given \in 0 .. MaxCommands /\ faults \in 0 .. MaxFaults
    BY SessionHas
  <1>3. CASE Returns(s, "aborted")
    BY <1>1, <1>2, <1>3, QuietEnd DEF Results
  <1>4. CASE Becomes(s, [ses[s] EXCEPT !.pc = IF ses[s].cmd.verb = "rotate" THEN "create"
                                              ELSE "remove"])
    <2>1. CASE ses[s].cmd.verb = "rotate"
      BY <1>1, <1>4, <2>1, NextPhase DEF Phases
    <2>2. CASE ses[s].cmd.verb # "rotate"
      BY <1>1, <1>4, <2>2, NextPhase DEF Phases
    <2> QED
      BY <2>1, <2>2
  <1> QED
    BY <1>3, <1>4 DEF Confirm

\* A failure, which changes no store.
LEMMA FailStep ==
  ASSUME IInv, NEW s \in Sessions, Fail(s)
  PROVE  IInv'
  <1>1. /\ Returns(s, "error") /\ UNCHANGED stores /\ given' = given
        /\ faults' = faults + 1 /\ faults < MaxFaults
    BY DEF Fail, stores
  <1>2. given' \in 0 .. MaxCommands /\ faults' \in 0 .. MaxFaults
    BY <1>1, SessionHas, SecretsAssumption DEF SecretsAssumption
  <1> QED
    BY <1>1, <1>2, QuietEnd DEF Results

-----------------------------------------------------------------------------
(* The steps that change a store.                                           *)

\* What is registered when the secret comes to be made.
LEMMA Registered ==
  ASSUME IInv, NEW s \in Sessions, Register(s)
  PROVE  /\ registry' \in SUBSET Entries /\ torn' \in BOOLEAN
         /\ ses[s].cmd.verb = "create" /\ OneEntry(ses[s])
         /\ ses[s].alone /\ ~IsHandAuthored(ses[s].cmd) => OnRecord(registry', ses[s].eff)
  <1> DEFINE write == ~IsHandAuthored(ses[s].cmd) /\ ~Recorded(s)
  <1>1. /\ ses[s] \in Session /\ Sound(ses[s], registry, torn, podman)
        /\ ses[s].mine \in SUBSET Entries /\ registry \in SUBSET Entries /\ torn \in BOOLEAN
    BY SessionHas
  <1>2. /\ ses[s].pc = "register" /\ torn' = (torn /\ ~write)
        /\ registry' = IF write THEN Updated(s) ELSE registry
    BY DEF Register
  <1>3. ses[s].cmd.verb = "create" /\ OneEntry(ses[s]) /\ ses[s].eff \in Entries
    BY <1>1, <1>2 DEF Sound, Flow, Course, OneEntry
  <1>4. Updated(s) \in SUBSET Entries /\ ses[s].eff \in Updated(s)
    BY <1>1, <1>3 DEF Updated
  <1>5. ASSUME ses[s].alone, ~IsHandAuthored(ses[s].cmd)
        PROVE  OnRecord(registry', ses[s].eff)
    <2>1. CASE write
      BY <1>2, <1>4, <2>1 DEF OnRecord
    <2>2. CASE ~write
      <3> DEFINE meant == Meant(ses[s].mine, ses[s].cmd.key)
      <3>1. /\ meant # {} /\ meant \in SUBSET Entries /\ meant \subseteq ses[s].mine
            /\ Last(meant).name = ses[s].eff.name /\ Last(meant).policy = ses[s].eff.policy
        BY <1>1, <1>5, <2>2 DEF Recorded, Meant
      <3> HIDE DEF meant
      <3>2. Last(meant) \in ses[s].mine
        BY <3>1, LastOfSome
      <3>3. SameRegistry(ses[s], registry, torn)
        BY <1>1, <1>2, <1>3, <1>5 DEF Sound, Current, Records
      <3> QED
        BY <1>2, <2>2, <3>1, <3>2, <3>3 DEF SameRegistry, OnRecord
    <2> QED
      BY <2>1, <2>2
  <1> QED
    BY <1>1, <1>2, <1>3, <1>4, <1>5

\* The registry is written: others are no longer alone, the entry is on record.
LEMMA RegisterStep ==
  ASSUME IInv, NEW s \in Sessions, Register(s)
  PROVE  IInv'
  <1> DEFINE write == ~IsHandAuthored(ses[s].cmd) /\ ~Recorded(s)
             go == [ses[s] EXCEPT !.pc = "create"]
             next == IF ses[s].todo = {} THEN Idle("ok") ELSE go
  <1>1. /\ ses[s] \in Session /\ Sound(ses[s], registry, torn, podman) /\ podman \in Stores
        /\ registry \in SUBSET Entries /\ torn \in BOOLEAN /\ made \in 0 .. MaxValues
        /\ given \in 0 .. MaxCommands /\ faults \in 0 .. MaxFaults
    BY SessionHas
  <1>2. /\ ses[s].pc = "register" /\ UNCHANGED <<podman, made, given, faults>>
        /\ torn' = (torn /\ ~write) /\ registry' = IF write THEN Updated(s) ELSE registry
        /\ IF write THEN Changes(s, next) ELSE Becomes(s, next)
    BY DEF Register
  <1>3. ~write => UNCHANGED stores
    BY <1>1, <1>2 DEF stores
  <1>4. /\ registry' \in SUBSET Entries /\ torn' \in BOOLEAN
        /\ ses[s].cmd.verb = "create" /\ OneEntry(ses[s])
        /\ ses[s].alone /\ ~IsHandAuthored(ses[s].cmd) => OnRecord(registry', ses[s].eff)
    BY Registered
  <1> HIDE DEF write
  <1>6. ASSUME NEW r \in Session, r = next, Sound(r, registry', torn', podman')
        PROVE  IInv'
    <2>1. CASE write
      BY <1>1, <1>2, <1>4, <1>6, <2>1, Loud
    <2>2. CASE ~write
      <3>1. Becomes(s, r) /\ registry' = registry /\ torn' = torn /\ podman' = podman
        BY <1>2, <1>3, <1>6, <2>2 DEF stores
      <3>2. Sound(r, registry, torn, podman)
        BY <1>6, <3>1
      <3> QED
        BY <1>1, <1>2, <1>3, <1>6, <2>2, <3>1, <3>2, Quiet
    <2> QED
      BY <2>1, <2>2
  <1>7. CASE ses[s].todo = {}
    BY <1>6, <1>7, IdleIsSound DEF Results
  <1>8. CASE ses[s].todo # {}
    <2>1. /\ go \in Session /\ go.pc = "create" /\ go.cmd = ses[s].cmd
          /\ go.todo = ses[s].todo /\ go.eff = ses[s].eff /\ go.alone = ses[s].alone
      BY <1>1 DEF Session, Phases
    <2> HIDE DEF go
    <2>2. Flow(go)
      BY <1>1, <1>2, <1>4, <1>8, <2>1 DEF Sound, Flow, Course, OneEntry
    <2>3. Spares(go, registry', torn', podman')
      BY <2>1 DEF Spares
    <2>4. Fills(go, registry', torn', podman') /\ Copies(go, podman')
      BY <1>4, <2>1 DEF Fills, Copies
    <2>5. go.alone => Records(go, registry', torn')
      <3> SUFFICES ASSUME ses[s].alone, ~Renames(ses[s].cmd)
                   PROVE  /\ ses[s].eff.name \in Declared(registry')
                          /\ ~IsHandAuthored(ses[s].cmd) => OnRecord(registry', ses[s].eff)
        BY <1>4, <2>1 DEF Records
      <3>1. CASE IsHandAuthored(ses[s].cmd)
        <4>1. \E h \in HandAuthored : ses[s].eff.name = h.name
          BY <1>2, <1>4, <3>1 DEF OneEntry, Renames
        <4> QED
          BY <3>1, <4>1 DEF Declared
      <3>2. CASE ~IsHandAuthored(ses[s].cmd)
        BY <1>4, <3>2 DEF Declared, OnRecord
      <3> QED
        BY <3>1, <3>2
    <2> QED
      BY <1>6, <1>8, <2>1, <2>2, <2>3, <2>4, <2>5 DEF Sound, Current
  <1> QED
    BY <1>7, <1>8

\* The work that is left when one name is done.
LEMMA Rest ==
  ASSUME NEW todo \in SUBSET Names, todo # {}
  PROVE  /\ Min(todo) \in todo /\ Min(todo) \in Names
         /\ todo \ {Min(todo)} \in SUBSET Names
  BY Least, SecretsAssumption DEF SecretsAssumption

\* podman secret create.
LEMMA CreateSecretStep ==
  ASSUME IInv, NEW s \in Sessions, CreateSecret(s)
  PROVE  IInv'
  <1> DEFINE n == Min(ses[s].todo)  rest == ses[s].todo \ {n}
             next == IF ses[s].cmd.verb = "createAll" THEN "value" ELSE "create"
             r == [ses[s] EXCEPT !.pc = next, !.todo = rest]
  <1>1. /\ ses[s] \in Session /\ Sound(ses[s], registry, torn, podman) /\ podman \in Stores
        /\ ses[s].todo \in SUBSET Names
        /\ registry \in SUBSET Entries /\ torn \in BOOLEAN /\ made \in 0 .. MaxValues
        /\ given \in 0 .. MaxCommands /\ faults \in 0 .. MaxFaults
    BY SessionHas
  <1>2. /\ ses[s].pc = "create" /\ made < MaxValues
        /\ UNCHANGED <<registry, torn, given, faults>>
    BY DEF CreateSecret
  <1>3. ses[s].todo # {} /\ Flow(ses[s])
    BY <1>1, <1>2 DEF Sound, Flow
  <1>4. n \in ses[s].todo /\ n \in Names /\ rest \in SUBSET Names
    BY <1>1, <1>3, Rest
  <1> HIDE DEF n
  <1>5. CASE Returns(s, "error") /\ UNCHANGED <<podman, made>>
    BY <1>1, <1>2, <1>5, QuietEnd DEF Results, stores
  <1>6. ASSUME podman' = With(podman, n, Made), made' = made + 1,
               IF rest = {} THEN Ends(s, "ok") ELSE Changes(s, r)
        PROVE  IInv'
    <2>1. made' \in 0 .. MaxValues /\ Made \in Stored /\ Made.managed
      BY <1>1, <1>2, <1>6, SecretsAssumption DEF SecretsAssumption, Made, Stored
    <2>2. /\ podman' \in Stores /\ DOMAIN podman' = DOMAIN podman \cup {n}
          /\ podman'[n] = Made /\ \A x \in DOMAIN podman \ {n} : podman'[x] = podman[x]
      <3>1. podman \in Stores /\ n \in Names /\ Made \in Stored
        BY <1>1, <1>4, <2>1
      <3> HIDE DEF rest, r
      <3> QED
        BY <1>6, <3>1, StoreWith
    <2>4. CASE rest = {}
      <3>1. Ends(s, "ok")
        BY <1>6, <2>4
      <3> QED
        BY <1>1, <1>2, <2>1, <2>2, <3>1, LoudEnd DEF Results
    <2>5. CASE rest # {}
      <3>1. /\ r \in Session /\ r.pc = next /\ r.cmd = ses[s].cmd /\ r.todo = rest
            /\ r.alone = ses[s].alone
        BY <1>1, <1>4 DEF Session, Phases
      <3>2. Changes(s, r)
        BY <1>6, <2>5
      <3> HIDE DEF r
      <3>3. ses[s].cmd.verb \in {"createAll", "rotate"}
        <4>1. ses[s].cmd.verb = "create" => ses[s].todo = {ses[s].eff.name}
          BY <1>2, <1>3 DEF Flow, OneEntry
        <4> QED
          BY <1>2, <1>3, <1>4, <2>5, <4>1 DEF Flow, Course
      <3>4. Flow(r)
        BY <1>2, <1>3, <2>5, <3>1, <3>3 DEF Flow, Course, OneEntry
      <3>5. Spares(r, registry', torn', podman')
        BY <3>1 DEF Spares
      <3>6. r.alone => Fills(r, registry', torn', podman')
        BY <1>1, <1>2, <2>2, <3>1, <3>3 DEF Sound, Current, Fills
      <3>7. Records(r, registry', torn') /\ Copies(r, podman')
        BY <3>1, <3>3 DEF Records, Copies
      <3> QED
        BY <1>1, <1>2, <2>1, <2>2, <3>1, <3>2, <3>4, <3>5, <3>6, <3>7, Loud
        DEF Sound, Current
    <2> QED
      BY <2>4, <2>5
  <1> QED
    BY <1>5, <1>6 DEF CreateSecret, n

\* adopt reads a value.
LEMMA ReadStep ==
  ASSUME IInv, NEW s \in Sessions, ReadSecret(s)
  PROVE  IInv'
  <1> DEFINE n == Min(ses[s].todo)
             r == [ses[s] EXCEPT !.pc = "adopt", !.eff = podman[n]]
  <1>1. /\ ses[s] \in Session /\ Sound(ses[s], registry, torn, podman) /\ podman \in Stores
        /\ given \in 0 .. MaxCommands /\ faults \in 0 .. MaxFaults
    BY SessionHas
  <1>2. /\ ses[s].pc = "read" /\ UNCHANGED <<stores, given, faults>>
        /\ IF n \notin DOMAIN podman THEN Returns(s, "error") ELSE Becomes(s, r)
    BY DEF ReadSecret
  <1>3. CASE n \notin DOMAIN podman
    BY <1>1, <1>2, <1>3, QuietEnd DEF Results
  <1>4. CASE n \in DOMAIN podman
    <2>1. podman[n] \in Stored
      BY <1>1, <1>4, StoreHas
    <2>2. /\ r \in Session /\ r.pc = "adopt" /\ r.cmd = ses[s].cmd /\ r.saw = ses[s].saw
          /\ r.todo = ses[s].todo /\ r.eff = podman[n] /\ r.alone = ses[s].alone
      BY <1>1, <2>1 DEF Session, Phases
    <2>3. Becomes(s, r)
      BY <1>2, <1>4
    <2> HIDE DEF r
    <2>4. ses[s].cmd.verb = "adopt"
      BY <1>1, <1>2 DEF Sound, Flow, Course
    <2>5. Flow(r)
      BY <1>1, <1>2, <2>1, <2>2, <2>4 DEF Sound, Flow, Course, OneEntry
    <2>6. Spares(r, registry, torn, podman)
      BY <2>2 DEF Spares
    <2>7. Current(r, registry, torn, podman)
      BY <1>1, <1>2, <2>2, <2>4 DEF Sound, Current, Fills, Records, Copies
    <2> QED
      BY <1>1, <1>2, <2>2, <2>3, <2>5, <2>6, <2>7, Quiet DEF Sound
  <1> QED
    BY <1>3, <1>4

\* adopt makes the secret anew.
LEMMA AdoptStep ==
  ASSUME IInv, NEW s \in Sessions, AdoptSecret(s)
  PROVE  IInv'
  <1> DEFINE n == Min(ses[s].todo)  rest == ses[s].todo \ {n}
             new == Adopted(ses[s].eff.value, ses[s].saw[n])
             r == [ses[s] EXCEPT !.pc = "read", !.todo = rest]
  <1>1. /\ ses[s] \in Session /\ Sound(ses[s], registry, torn, podman) /\ podman \in Stores
        /\ ses[s].todo \in SUBSET Names /\ ses[s].saw \in Stores
        /\ registry \in SUBSET Entries /\ torn \in BOOLEAN /\ made \in 0 .. MaxValues
        /\ given \in 0 .. MaxCommands /\ faults \in 0 .. MaxFaults
    BY SessionHas
  <1>2. /\ ses[s].pc = "adopt" /\ podman' = With(podman, n, new)
        /\ IF rest = {} THEN Ends(s, "ok") ELSE Changes(s, r)
        /\ UNCHANGED <<registry, torn, made, given, faults>>
    BY DEF AdoptSecret
  <1>3. /\ ses[s].todo # {} /\ ses[s].todo \subseteq DOMAIN ses[s].saw
        /\ ses[s].eff \in Stored /\ ses[s].cmd.verb = "adopt"
    BY <1>1, <1>2 DEF Sound, Flow, Course
  <1>4. n \in ses[s].todo /\ n \in Names /\ rest \in SUBSET Names
    BY <1>1, <1>3, Rest
  <1> HIDE DEF n
  <1>5. new \in Stored /\ new.managed
    <2>1. ses[s].saw[n] \in Stored
      BY <1>1, <1>3, <1>4, StoreHas
    <2> QED
      BY <1>3, <2>1 DEF Adopted, Stored
  <1> HIDE DEF new
  <1>6. /\ podman' \in Stores /\ DOMAIN podman' = DOMAIN podman \cup {n}
        /\ podman'[n] = new /\ \A x \in DOMAIN podman \ {n} : podman'[x] = podman[x]
    <2>1. podman \in Stores /\ n \in Names /\ new \in Stored /\ podman' = With(podman, n, new)
      BY <1>1, <1>2, <1>4, <1>5
    <2> HIDE DEF rest, r
    <2> QED
      BY <2>1, StoreWith
  <1>8. CASE rest = {}
    <2>1. Ends(s, "ok")
      BY <1>2, <1>8
    <2> QED
      BY <1>1, <1>2, <1>6, <2>1, LoudEnd DEF Results
  <1>9. CASE rest # {}
    <2>1. /\ r \in Session /\ r.pc = "read" /\ r.cmd = ses[s].cmd /\ r.todo = rest
          /\ r.saw = ses[s].saw /\ r.alone = ses[s].alone
      BY <1>1, <1>4 DEF Session, Phases
    <2>2. Changes(s, r)
      BY <1>2, <1>9
    <2> HIDE DEF r
    <2>3. Flow(r)
      BY <1>1, <1>2, <1>3, <1>9, <2>1 DEF Sound, Flow, Course, OneEntry
    <2>4. Spares(r, registry', torn', podman')
      BY <2>1 DEF Spares
    <2>5. Fills(r, registry', torn', podman') /\ Records(r, registry', torn')
      BY <1>3, <2>1 DEF Fills, Records
    <2>6. r.alone => Copies(r, podman')
      BY <1>1, <1>2, <1>6, <2>1 DEF Sound, Current, Copies
    <2> QED
      BY <1>1, <1>2, <1>6, <2>1, <2>2, <2>3, <2>4, <2>5, <2>6, Loud DEF Sound, Current
  <1> QED
    BY <1>8, <1>9

\* A removed secret is no candidate for a prune any more.
LEMMA DoomedWithout ==
  ASSUME NEW reg, NEW pod, NEW S
  PROVE  Doomed(reg, Without(pod, S)) = Doomed(reg, pod) \ S
  <1>1. DOMAIN Without(pod, S) = DOMAIN pod \ S
    BY DEF Without
  <1>2. \A x \in DOMAIN pod \ S : Without(pod, S)[x] = pod[x]
    BY DEF Without
  <1> QED
    BY <1>1, <1>2 DEF Doomed

\* What a removal goes on with.
LEMMA RemoveSecretStep ==
  ASSUME IInv, NEW s \in Sessions, RemoveSecret(s)
  PROVE  IInv'
  <1> DEFINE n == Min(ses[s].todo)  rest == ses[s].todo \ {n}
             prune == ses[s].cmd.verb = "prune"
             more(f) == [ses[s] EXCEPT !.todo = rest, !.failed = f]
             last(f) == [ses[s] EXCEPT !.pc = "write", !.todo = {}, !.failed = f]
             After(f) == IF rest # {} THEN more(f)
                         ELSE IF prune THEN Idle(IF f THEN "error" ELSE "ok") ELSE last(f)
  <1>1. /\ ses[s] \in Session /\ Sound(ses[s], registry, torn, podman) /\ podman \in Stores
        /\ ses[s].todo \in SUBSET Names /\ ses[s].failed \in BOOLEAN
        /\ registry \in SUBSET Entries /\ torn \in BOOLEAN /\ made \in 0 .. MaxValues
        /\ given \in 0 .. MaxCommands /\ faults \in 0 .. MaxFaults
    BY SessionHas
  <1>2. /\ ses[s].pc = "remove" /\ UNCHANGED <<registry, torn, made, given>>
        /\ \/ /\ podman' = Without(podman, {n}) /\ Changes(s, After(ses[s].failed))
              /\ UNCHANGED faults
           \/ /\ UNCHANGED faults \/ (faults < MaxFaults /\ faults' = faults + 1)
              /\ Becomes(s, After(TRUE)) /\ UNCHANGED podman
    BY DEF RemoveSecret
  <1>3. /\ ses[s].todo # {} /\ Flow(ses[s]) /\ ses[s].cmd \in Commands
        /\ ses[s].cmd.verb \in {"remove", "prune"}
    BY <1>1, <1>2 DEF Sound, Flow, Course
  <1>4. rest \in SUBSET Names
    BY <1>1, <1>3, Rest
  <1>5. faults' \in 0 .. MaxFaults
    BY <1>1, <1>2, SecretsAssumption DEF SecretsAssumption
  <1>6. /\ podman' \in Stores /\ DOMAIN podman' \subseteq DOMAIN podman
        /\ \A x \in DOMAIN podman' : podman'[x] = podman[x]
    <2>1. CASE podman' = podman
      BY <1>1, <2>1
    <2>2. CASE podman' = Without(podman, {n})
      <3>1. /\ Without(podman, {n}) \in Stores
            /\ DOMAIN Without(podman, {n}) = DOMAIN podman \ {n}
            /\ \A x \in DOMAIN podman \ {n} : Without(podman, {n})[x] = podman[x]
        BY <1>1, StoreWithout
      <3> QED
        BY <2>2, <3>1
    <2> QED
      BY <1>2, <2>1, <2>2
  <1> HIDE DEF n
  <1>8. ASSUME NEW f \in BOOLEAN,
               \/ podman' = Without(podman, {n}) /\ f = ses[s].failed
               \/ podman' = podman /\ f = TRUE
        PROVE  After(f) \in Session /\ Sound(After(f), registry', torn', podman')
    <2>1. CASE rest # {}
      <3> DEFINE r == more(f)
      <3>1. /\ r \in Session /\ r.pc = "remove" /\ r.cmd = ses[s].cmd /\ r.todo = rest
            /\ r.mine = ses[s].mine /\ r.alone = ses[s].alone /\ r.failed = f
        BY <1>1, <1>2, <1>4, <1>8 DEF Session
      <3>2. After(f) = r
        BY <2>1
      <3> HIDE DEF r, After
      <3>3. Flow(r)
        BY <1>3, <2>1, <3>1 DEF Flow, Course, OneEntry
      <3>4. Spares(r, registry', torn', podman')
        <4> SUFFICES ASSUME ses[s].alone, ses[s].cmd.verb = "prune"
                     PROVE  /\ SameRegistry(r, registry', torn')
                            /\ rest \subseteq Doomed(r.mine, podman')
                            /\ ~f => Doomed(r.mine, podman') \subseteq rest
          BY <3>1 DEF Spares
        <4>1. /\ SameRegistry(ses[s], registry, torn)
              /\ ses[s].todo \subseteq Doomed(ses[s].mine, podman)
              /\ ~ses[s].failed => Doomed(ses[s].mine, podman) \subseteq ses[s].todo
          BY <1>1, <1>2 DEF Sound, Spares
        <4>2. SameRegistry(r, registry', torn')
          BY <1>2, <3>1, <4>1 DEF SameRegistry
        <4>3. CASE podman' = Without(podman, {n}) /\ f = ses[s].failed
          <5>1. Doomed(ses[s].mine, Without(podman, {n})) = Doomed(ses[s].mine, podman) \ {n}
            BY DoomedWithout
          <5>2. Doomed(r.mine, podman') = Doomed(ses[s].mine, podman) \ {n}
            BY <3>1, <4>3, <5>1
          <5> QED
            BY <4>1, <4>2, <4>3, <5>2
        <4>4. CASE podman' = podman /\ f = TRUE
          BY <3>1, <4>1, <4>2, <4>4
        <4> QED
          BY <1>8, <4>3, <4>4
      <3>5. Current(r, registry', torn', podman')
        BY <1>3, <3>1 DEF Current, Fills, Records, Copies
      <3> QED
        BY <3>1, <3>2, <3>3, <3>4, <3>5 DEF Sound
    <2>2. CASE rest = {} /\ prune
      <3>1. PICK how \in Results : how = IF f THEN "error" ELSE "ok"
        BY DEF Results
      <3>2. After(f) = Idle(how)
        BY <2>2, <3>1
      <3> HIDE DEF After
      <3> QED
        BY <3>2, IdleIsSound
    <2>3. CASE rest = {} /\ ~prune
      <3> DEFINE r == last(f)
      <3>1. r \in Session /\ r.pc = "write" /\ r.cmd = ses[s].cmd
        BY <1>1 DEF Session, Phases
      <3>2. After(f) = r /\ r.cmd.verb = "remove"
        BY <1>3, <2>3, <3>1
      <3> HIDE DEF r, After
      <3>3. Flow(r)
        BY <1>3, <3>1, <3>2 DEF Flow, Course, OneEntry
      <3>4. Spares(r, registry', torn', podman') /\ Current(r, registry', torn', podman')
        BY <3>1, <3>2 DEF Spares, Current, Fills, Records, Copies
      <3> QED
        BY <3>1, <3>2, <3>3, <3>4 DEF Sound
    <2> QED
      BY <2>1, <2>2, <2>3
  <1> HIDE DEF After
  <1>9. CASE podman' = Without(podman, {n}) /\ Changes(s, After(ses[s].failed)) /\ UNCHANGED faults
    BY <1>1, <1>2, <1>5, <1>6, <1>8, <1>9, Loud
  <1>10. CASE Becomes(s, After(TRUE)) /\ UNCHANGED podman
    <2>1. UNCHANGED stores /\ registry' = registry /\ torn' = torn /\ podman' = podman
      BY <1>2, <1>10 DEF stores
    <2>2. After(TRUE) \in Session /\ Sound(After(TRUE), registry, torn, podman)
      BY <1>8, <2>1
    <2> QED
      BY <1>1, <1>2, <1>5, <1>10, <2>1, <2>2, Quiet
  <1> QED
    BY <1>2, <1>9, <1>10

\* remove truncates the registry.
LEMMA TruncateStep ==
  ASSUME IInv, NEW s \in Sessions, Truncate(s)
  PROVE  IInv'
  <1> DEFINE r == [ses[s] EXCEPT !.pc = "writing"]
  <1>1. /\ ses[s] \in Session /\ Sound(ses[s], registry, torn, podman) /\ podman \in Stores
        /\ registry \in SUBSET Entries /\ made \in 0 .. MaxValues
        /\ given \in 0 .. MaxCommands /\ faults \in 0 .. MaxFaults
    BY SessionHas
  <1>2. /\ ses[s].pc = "write" /\ torn' = TRUE /\ Changes(s, r)
        /\ UNCHANGED <<registry, podman, made, given, faults>>
    BY DEF Truncate
  <1>3. r \in Session /\ r.pc = "writing" /\ r.cmd = ses[s].cmd
    BY <1>1 DEF Session, Phases
  <1> HIDE DEF r
  <1>4. Flow(r) /\ r.cmd.verb = "remove"
    BY <1>1, <1>2, <1>3 DEF Sound, Flow, Course, OneEntry
  <1>5. Spares(r, registry', torn', podman') /\ Current(r, registry', torn', podman')
    BY <1>3, <1>4 DEF Spares, Current, Fills, Records, Copies
  <1> QED
    BY <1>1, <1>2, <1>3, <1>4, <1>5, Loud DEF Sound

\* remove writes the registry.
LEMMA WriteStep ==
  ASSUME IInv, NEW s \in Sessions, WriteRegistry(s)
  PROVE  IInv'
  <1>1. /\ ses[s].mine \in SUBSET Entries /\ podman \in Stores /\ made \in 0 .. MaxValues
        /\ given \in 0 .. MaxCommands /\ faults \in 0 .. MaxFaults
    BY SessionHas
  <1>2. /\ torn' = FALSE /\ registry' = Kept(s) /\ UNCHANGED <<podman, made, given, faults>>
        /\ Ends(s, IF ses[s].failed THEN "error" ELSE "ok")
    BY DEF WriteRegistry
  <1>3. registry' \in SUBSET Entries
    BY <1>1, <1>2 DEF Kept
  <1>5. PICK how \in Results : Ends(s, how)
    BY <1>2 DEF Results
  <1> QED
    BY <1>1, <1>2, <1>3, <1>5, LoudEnd

\* Somebody uses podman without crei.
LEMMA OutsideStep ==
  ASSUME IInv, Outside
  PROVE  IInv'
  <1>1. /\ ses \in [Sessions -> Session] /\ podman \in Stores /\ made \in 0 .. MaxValues
        /\ \A s \in Sessions : Flow(ses[s])
    BY DEF IInv, Typed, Sound
  <1>2. podman' \in Stores /\ made' \in 0 .. MaxValues
    <2>1. PICK n \in Names :
            \/ /\ made < MaxValues /\ made' = made + 1
               /\ podman' = With(podman, n, [Made EXCEPT !.managed = FALSE])
            \/ podman' = Without(podman, {n}) /\ UNCHANGED made
      BY DEF Outside
    <2>2. CASE /\ made < MaxValues /\ made' = made + 1
               /\ podman' = With(podman, n, [Made EXCEPT !.managed = FALSE])
      <3>1. made + 1 \in 0 .. MaxValues
        BY <1>1, <2>2, SecretsAssumption DEF SecretsAssumption
      <3>2. Made \in Stored
        BY <3>1 DEF Made, Stored
      <3>3. PICK v : v = [Made EXCEPT !.managed = FALSE]
        OBVIOUS
      <3>4. v \in Stored
        BY <3>2, <3>3 DEF Stored
      <3>5. podman' = With(podman, n, v)
        BY <2>2, <3>3
      <3>6. With(podman, n, v) \in Stores
        BY <1>1, <3>4, StoreWith
      <3> QED
        BY <2>2, <3>1, <3>5, <3>6
    <2>3. CASE podman' = Without(podman, {n}) /\ UNCHANGED made
      BY <1>1, <2>3, StoreWithout
    <2> QED
      BY <2>1, <2>2, <2>3
  <1>3. given' \in 0 .. MaxCommands
    BY SecretsAssumption DEF SecretsAssumption, Outside, IInv, Typed
  <1>4. /\ ses' = [s \in Sessions |-> [ses[s] EXCEPT !.alone = FALSE]]
        /\ UNCHANGED <<registry, torn, faults>>
    BY DEF Outside
  <1>5. \A s \in Sessions : ses'[s] \in Session /\ Sound(ses'[s], registry', torn', podman')
    <2>1. ASSUME NEW s \in Sessions
          PROVE  ses'[s] \in Session /\ Sound(ses'[s], registry', torn', podman')
      <3>1. PICK t : t = [ses[s] EXCEPT !.alone = FALSE]
        OBVIOUS
      <3>2. t \in Session /\ \A reg, cut, pod : Sound(t, reg, cut, pod)
        BY <1>1, <3>1, Disturbed
      <3>3. ses'[s] = t
        BY <1>4, <3>1
      <3> QED
        BY <3>2, <3>3
    <2> QED
      BY <2>1
  <1> QED
    BY <1>2, <1>3, <1>4, <1>5 DEF IInv, Typed

-----------------------------------------------------------------------------
(* The theorems.                                                            *)

\* Each command does what is left of what it read, and as long as no other command
\* changed a store, that is what the stores still call for (secretcreate.go, secrets.go).
THEOREM SecretsInvariant == Spec => []IInv
  <1>1. ASSUME IInv, NEW s \in Sessions, Step(s)
        PROVE  IInv'
    BY <1>1, StartStep, ListStep, LoadStep, InfosStep, ValueStep, ConfirmStep, RegisterStep,
       CreateSecretStep, ReadStep, AdoptStep, RemoveSecretStep, TruncateStep, WriteStep, FailStep
    DEF Step
  <1>2. ASSUME IInv, UNCHANGED vars
        PROVE  IInv'
    <2>1. /\ registry' = registry /\ torn' = torn /\ podman' = podman /\ made' = made
          /\ ses' = ses /\ given' = given /\ faults' = faults
      BY <1>2 DEF vars
    <2> QED
      BY <1>2, <2>1 DEF IInv, Typed
  <1>3. IInv /\ [Next]_vars => IInv'
    BY <1>1, <1>2, OutsideStep DEF Next
  <1> QED
    BY Initially, <1>3, PTL DEF Spec

\* The state has its types, and a command that works through names has one left.
THEOREM SecretsTypes == Spec => []TypeOK
  <1>1. ASSUME IInv PROVE TypeOK
    <2>1. /\ registry \subseteq Entries /\ torn \in BOOLEAN
          /\ made \in 0 .. MaxValues /\ given \in 0 .. MaxCommands /\ faults \in 0 .. MaxFaults
      BY <1>1 DEF IInv, Typed
    <2>2. DOMAIN podman \subseteq Names /\ Range(podman) \subseteq Stored
      BY <1>1, StoreHas DEF IInv, Typed, Range
    <2>3. ASSUME NEW s \in Sessions
          PROVE  /\ ses[s].pc \in Phases /\ ses[s].mine \subseteq Entries
                 /\ ses[s].pc \in {"create", "read", "adopt", "remove", "confirm"}
                      => ses[s].todo # {}
      <3>1. ses[s] \in Session /\ Flow(ses[s])
        BY <1>1, SessionHas DEF Sound
      <3> QED
        BY <3>1 DEF Session, Flow
    <2> QED
      BY <2>1, <2>2, <2>3 DEF TypeOK
  <1> QED
    BY SecretsInvariant, <1>1, PTL

\* The secret that create or rotate makes is one the project declares, and create's is
\* in the registry with the entry it was made from, unless another command changed
\* something (stageSecretRegistration before podmanCreateSecret in createOne).
THEOREM RecordsBeforeItMakes == Spec => RecordedFirst
  <1>1. ASSUME IInv, NEW s \in Sessions, CreateSecret(s), ses[s].alone, ~Renames(ses[s].cmd)
        PROVE  /\ Min(ses[s].todo) \in Declared(registry)
               /\ ses[s].cmd.verb = "create" /\ ~IsHandAuthored(ses[s].cmd) =>
                    ses[s].eff.name = Min(ses[s].todo) /\ OnRecord(registry, ses[s].eff)
    <2>1. Sound(ses[s], registry, torn, podman) /\ ses[s].todo \in SUBSET Names
      BY <1>1, SessionHas
    <2>2. ses[s].pc = "create"
      BY <1>1 DEF CreateSecret
    <2>3. /\ Flow(ses[s]) /\ Fills(ses[s], registry, torn, podman)
          /\ Records(ses[s], registry, torn)
      BY <1>1, <2>1, <2>2 DEF Sound, Current
    <2>4. Min(ses[s].todo) \in ses[s].todo
      BY <2>1, <2>2, <2>3, Rest DEF Flow
    <2>5. CASE ses[s].cmd.verb = "create"
      <3>1. ses[s].todo = {ses[s].eff.name}
        BY <2>2, <2>3, <2>5 DEF Flow, OneEntry
      <3>2. Min(ses[s].todo) = ses[s].eff.name
        BY <2>4, <3>1
      <3> QED
        BY <1>1, <2>2, <2>3, <2>5, <3>2 DEF Records
    <2>6. CASE ses[s].cmd.verb \in {"createAll", "rotate"}
      BY <2>2, <2>3, <2>4, <2>6 DEF Fills
    <2> QED
      BY <2>2, <2>3, <2>5, <2>6 DEF Flow, Course
  <1>2. IInv => \A s \in Sessions :
          LET c == ses[s].cmd n == Min(ses[s].todo) IN
          CreateSecret(s) /\ ses[s].alone /\ ~Renames(c) =>
            /\ n \in Declared(registry)
            /\ c.verb = "create" /\ ~IsHandAuthored(c) =>
                 ses[s].eff.name = n /\ OnRecord(registry, ses[s].eff)
    BY <1>1
  <1> QED
    BY SecretsInvariant, <1>2, PTL DEF RecordedFirst

\* adopt takes a secret over with its value and its driver, unless another command
\* changed something in between (podmanReadSecret and podmanAdoptSecret).
THEOREM AdoptionKeeps == Spec => AdoptKeeps
  <1>1. ASSUME IInv, NEW s \in Sessions, AdoptSecret(s), ses[s].alone, NEW n, n = Min(ses[s].todo)
        PROVE  podman'[n] = [podman[n] EXCEPT !.managed = TRUE]
    <2>1. Sound(ses[s], registry, torn, podman) /\ ses[s].todo \in SUBSET Names /\ podman \in Stores
      BY <1>1, SessionHas
    <2>2. ses[s].pc = "adopt" /\ podman' = With(podman, n, Adopted(ses[s].eff.value, ses[s].saw[n]))
      BY <1>1 DEF AdoptSecret
    <2>3. n \in ses[s].todo
      BY <1>1, <2>1, <2>2, Rest DEF Sound, Flow
    <2>4. n \in DOMAIN podman /\ ses[s].saw[n] = podman[n] /\ ses[s].eff = podman[n]
      BY <1>1, <2>1, <2>2, <2>3 DEF Sound, Current, Copies
    <2>5. podman[n] \in Stored
      BY <2>1, <2>4, StoreHas
    <2>6. podman'[n] = Adopted(podman[n].value, podman[n])
      BY <2>2, <2>4 DEF With
    <2>7. PICK info \in Stored : info = podman[n]
      BY <2>5
    <2>8. Adopted(info.value, info) = [info EXCEPT !.managed = TRUE]
      <3> DEFINE a == Adopted(info.value, info)  b == [info EXCEPT !.managed = TRUE]
      <3>1. a \in Stored /\ a.value = info.value /\ a.managed = TRUE /\ a.driver = info.driver
        BY DEF Adopted, Stored
      <3>2. b \in Stored /\ b.value = info.value /\ b.managed = TRUE /\ b.driver = info.driver
        BY DEF Stored
      <3> HIDE DEF a, b
      <3>3. a = [value |-> a.value, managed |-> a.managed, driver |-> a.driver]
            /\ b = [value |-> b.value, managed |-> b.managed, driver |-> b.driver]
        BY <3>1, <3>2 DEF Stored
      <3>4. a = b
        BY <3>1, <3>2, <3>3
      <3> QED
        BY <3>4 DEF a, b
    <2> QED
      BY <2>6, <2>7, <2>8
  <1>2. IInv => \A s \in Sessions : AdoptSecret(s) /\ ses[s].alone =>
                  LET n == Min(ses[s].todo)
                  IN podman'[n] = [podman[n] EXCEPT !.managed = TRUE]
    BY <1>1
  <1> QED
    BY SecretsInvariant, <1>2, PTL DEF AdoptKeeps

\* A step changes one session: another goes on in its phase.
LEMMA OneAtATime ==
  ASSUME IInv, NEW s \in Sessions, NEW t \in Sessions, s # t, Step(t)
  PROVE  ses'[s].pc = ses[s].pc
  <1>1. ses \in [Sessions -> Session] /\ ses[s] \in Session
    BY DEF IInv, Typed
  <1>2. ASSUME NEW r, Becomes(t, r) PROVE ses'[s].pc = ses[s].pc
    BY <1>1, <1>2 DEF Becomes
  <1>3. ASSUME NEW r, Changes(t, r) PROVE ses'[s].pc = ses[s].pc
    <2>1. Others(t)[s] = [ses[s] EXCEPT !.alone = @ /\ s = t]
      BY DEF Others
    <2>2. Others(t)[s].pc = ses[s].pc
      BY <1>1, <2>1 DEF Session
    <2>3. ses'[s] = Others(t)[s]
      BY <1>3 DEF Changes, Others
    <2> QED
      BY <2>2, <2>3
  <1>4. \E r : Becomes(t, r) \/ Changes(t, r)
    <2>1. CASE Start(t)
      BY <2>1 DEF Start
    <2>2. CASE ListSecrets(t)
      BY <2>2 DEF ListSecrets
    <2>3. CASE Load(t)
      BY <2>3 DEF Load, Create, CreateAll, Rotate, Remove, Returns
    <2>4. CASE SecretInfos(t)
      BY <2>4 DEF SecretInfos, Returns
    <2>5. CASE Value(t)
      BY <2>5 DEF Value, Returns
    <2>6. CASE Confirm(t)
      BY <2>6 DEF Confirm, Returns
    <2>7. CASE Register(t)
      BY <2>7 DEF Register
    <2>8. CASE CreateSecret(t)
      BY <2>8 DEF CreateSecret, Returns, Ends
    <2>9. CASE ReadSecret(t)
      BY <2>9 DEF ReadSecret, Returns
    <2>10. CASE AdoptSecret(t)
      BY <2>10 DEF AdoptSecret, Ends
    <2>11. CASE RemoveSecret(t)
      BY <2>11 DEF RemoveSecret
    <2>12. CASE Truncate(t)
      BY <2>12 DEF Truncate
    <2>13. CASE WriteRegistry(t)
      BY <2>13 DEF WriteRegistry, Ends
    <2>14. CASE Fail(t)
      BY <2>14 DEF Fail, Returns
    <2> QED
      BY <2>1, <2>2, <2>3, <2>4, <2>5, <2>6, <2>7, <2>8, <2>9, <2>10, <2>11, <2>12, <2>13,
         <2>14
      DEF Step
  <1> QED
    BY <1>2, <1>3, <1>4

\* So does every session when somebody uses podman without crei.
LEMMA OutsideAtATime ==
  ASSUME IInv, NEW s \in Sessions, Outside
  PROVE  ses'[s].pc = ses[s].pc
  <1>1. ses[s] \in Session /\ ses'[s] = [ses[s] EXCEPT !.alone = FALSE]
    BY SessionHas DEF Outside
  <1> QED
    BY <1>1 DEF Session

\* How a create -a comes to return "ok": nothing was missing, or the last was made.
LEMMA AllEnds ==
  ASSUME IInv, NEW s \in Sessions, Step(s), ses[s].pc # "idle",
         ses[s].cmd.verb = "createAll", ses'[s].pc = "idle", ses'[s].result = "ok"
  PROVE  \/ /\ ses[s].pc = "load" /\ UNCHANGED <<registry, podman>>
            /\ Missing(IF torn THEN {} ELSE registry, ses[s].saw) = {}
         \/ /\ ses[s].pc = "create" /\ UNCHANGED registry
            /\ ses[s].todo \subseteq {Min(ses[s].todo)}
            /\ podman' = With(podman, Min(ses[s].todo), Made)
  <1>1. ses \in [Sessions -> Session] /\ ses[s] \in Session /\ Sound(ses[s], registry, torn, podman)
    BY SessionHas DEF IInv, Typed
  <1>2. Course("createAll", ses[s].pc)
    BY <1>1 DEF Sound, Flow
  <1>3. ses[s].pc \in {"list", "load", "value", "create"}
    BY <1>2 DEF Course
  <1>4. ~Returns(s, "error")
    BY <1>1 DEF Returns, Becomes, Idle
  <1>5. ASSUME NEW r, Becomes(s, r) \/ Changes(s, r)
        PROVE  r.pc = "idle"
    BY <1>1, <1>5 DEF Becomes, Changes, Others
  <1>6. CASE ListSecrets(s)
    <2>1. [ses[s] EXCEPT !.pc = "load", !.saw = podman].pc = "load"
      BY <1>1 DEF Session
    <2> QED
      BY <1>5, <1>6, <2>1 DEF ListSecrets
  <1>7. CASE Load(s)
    <2>1. CreateAll(s, IF torn THEN {} ELSE registry) /\ ses[s].pc = "load"
          /\ UNCHANGED <<registry, podman>>
      BY <1>4, <1>7 DEF Load, stores
    <2>2. [ses[s] EXCEPT !.pc = "value", !.mine = IF torn THEN {} ELSE registry,
                         !.todo = Missing(IF torn THEN {} ELSE registry, ses[s].saw)].pc = "value"
      BY <1>1 DEF Session
    <2> QED
      BY <1>5, <2>1, <2>2 DEF CreateAll
  <1>8. CASE Value(s)
    <2>1. [ses[s] EXCEPT !.pc = "create"].pc = "create"
      BY <1>1 DEF Session
    <2> QED
      BY <1>4, <1>5, <1>8, <2>1 DEF Value
  <1>9. CASE CreateSecret(s)
    <2> DEFINE n == Min(ses[s].todo)  rest == ses[s].todo \ {n}
               r == [ses[s] EXCEPT !.pc = "value", !.todo = rest]
    <2>1. r.pc = "value"
      BY <1>1 DEF Session
    <2>2. ~Changes(s, r)
      BY <1>5, <2>1
    <2>3. /\ ses[s].pc = "create" /\ UNCHANGED registry
          /\ podman' = With(podman, n, Made)
          /\ IF rest = {} THEN Ends(s, "ok") ELSE Changes(s, r)
      BY <1>4, <1>9 DEF CreateSecret
    <2> HIDE DEF r
    <2>4. rest = {}
      BY <2>2, <2>3
    <2> QED
      BY <2>3, <2>4
  <1>10. CASE Fail(s)
    BY <1>4, <1>10 DEF Fail
  <1> QED
    BY <1>3, <1>6, <1>7, <1>8, <1>9, <1>10
    DEF Step, Start, SecretInfos, Confirm, Register, ReadSecret, AdoptSecret, RemoveSecret,
        Truncate, WriteRegistry

\* When create -a succeeds, every secret that either registry declares is in podman,
\* unless another command changed something (createAllMissing).
THEOREM AllAreMade == Spec => AllMeansAll
  <1>1. ASSUME IInv, NEW t \in Sessions, Step(t), NEW s \in Sessions, ses[s].pc # "idle",
               ses[s].cmd.verb = "createAll", ses[s].alone, ses'[s].pc = "idle",
               ses'[s].result = "ok", ~torn
        PROVE  Declared(registry') \subseteq DOMAIN podman'
    <2>1. t = s
      BY <1>1, OneAtATime
    <2>2. Sound(ses[s], registry, torn, podman)
      BY <1>1, SessionHas
    <2>3. Fills(ses[s], registry, torn, podman)
      BY <1>1, <2>2 DEF Sound, Current
    <2>4. CASE /\ ses[s].pc = "load" /\ UNCHANGED <<registry, podman>>
               /\ Missing(IF torn THEN {} ELSE registry, ses[s].saw) = {}
      BY <1>1, <2>3, <2>4 DEF Fills, Missing
    <2>5. CASE /\ ses[s].pc = "create" /\ UNCHANGED registry
               /\ ses[s].todo \subseteq {Min(ses[s].todo)}
               /\ podman' = With(podman, Min(ses[s].todo), Made)
      <3>1. DOMAIN podman' = DOMAIN podman \cup {Min(ses[s].todo)}
        BY <2>5 DEF With
      <3>2. Declared(registry) \subseteq ses[s].todo \cup DOMAIN podman
        BY <1>1, <2>3, <2>5 DEF Fills
      <3>3. registry' = registry
        BY <2>5
      <3> QED
        BY <2>5, <3>1, <3>2, <3>3
    <2> QED
      BY <1>1, <2>1, <2>4, <2>5, AllEnds
  <1>2. IInv /\ [Next]_vars =>
          [\A s \in Sessions :
             ses[s].pc # "idle" /\ ses[s].cmd.verb = "createAll" /\ ses[s].alone
             /\ ses'[s].pc = "idle" /\ ses'[s].result = "ok" /\ ~torn
             => Declared(registry') \subseteq DOMAIN podman']_vars
    BY <1>1, OutsideAtATime DEF Next
  <1> QED
    BY SecretsInvariant, <1>2, PTL DEF Spec, AllMeansAll

\* How a prune comes to return "ok": nothing was to be removed, or the last removal
\* was done and none had failed.
LEMMA PruneEnds ==
  ASSUME IInv, NEW s \in Sessions, Step(s), ses[s].pc # "idle",
         ses[s].cmd.verb = "prune", ses'[s].pc = "idle", ses'[s].result = "ok"
  PROVE  \/ /\ ses[s].pc = "infos" /\ UNCHANGED <<registry, podman>>
            /\ Doomed(ses[s].mine, podman) = {}
         \/ /\ ses[s].pc = "remove" /\ UNCHANGED registry /\ ~ses[s].failed
            /\ ses[s].todo \subseteq {Min(ses[s].todo)}
            /\ podman' = Without(podman, {Min(ses[s].todo)})
  <1>1. ses \in [Sessions -> Session] /\ ses[s] \in Session /\ Sound(ses[s], registry, torn, podman)
    BY SessionHas DEF IInv, Typed
  <1>2. ses[s].pc \in {"load", "infos", "confirm", "remove"}
    BY <1>1 DEF Sound, Flow, Course
  <1>3. ~Returns(s, "error") /\ ~Returns(s, "aborted")
    BY <1>1 DEF Returns, Becomes, Idle
  <1>4. ASSUME NEW r, Becomes(s, r) \/ Changes(s, r)
        PROVE  r.pc = "idle" /\ r.result = "ok"
    BY <1>1, <1>4 DEF Becomes, Changes, Others
  <1>5. CASE Load(s)
    <2>1. Becomes(s, [ses[s] EXCEPT !.pc = "infos", !.mine = IF torn THEN {} ELSE registry])
      BY <1>3, <1>5 DEF Load
    <2>2. [ses[s] EXCEPT !.pc = "infos", !.mine = IF torn THEN {} ELSE registry].pc = "infos"
      BY <1>1 DEF Session
    <2> QED
      BY <1>4, <2>1, <2>2
  <1>6. CASE SecretInfos(s)
    <2> DEFINE todo == Doomed(ses[s].mine, podman)
               r == [ses[s] EXCEPT !.pc = "confirm", !.saw = podman, !.todo = todo]
    <2>1. r.pc = "confirm"
      BY <1>1 DEF Session
    <2>2. ~Becomes(s, r)
      BY <1>4, <2>1
    <2>3. ses[s].pc = "infos" /\ UNCHANGED <<registry, podman>> /\ (todo = {} \/ Becomes(s, r))
      BY <1>6 DEF SecretInfos, stores
    <2> QED
      BY <2>2, <2>3
  <1>7. CASE Confirm(s)
    <2>1. Becomes(s, [ses[s] EXCEPT !.pc = "remove"])
      BY <1>3, <1>7 DEF Confirm
    <2>2. [ses[s] EXCEPT !.pc = "remove"].pc = "remove"
      BY <1>1 DEF Session
    <2> QED
      BY <1>4, <2>1, <2>2
  <1>8. CASE RemoveSecret(s)
    <2> DEFINE n == Min(ses[s].todo)  rest == ses[s].todo \ {n}
               more(f) == [ses[s] EXCEPT !.todo = rest, !.failed = f]
               After(f) == IF rest # {} THEN more(f) ELSE Idle(IF f THEN "error" ELSE "ok")
    <2>1. ses[s].pc = "remove" /\ UNCHANGED registry
      BY <1>8 DEF RemoveSecret
    <2>2. \/ podman' = Without(podman, {n}) /\ Changes(s, After(ses[s].failed))
          \/ Becomes(s, After(TRUE))
      BY <1>8 DEF RemoveSecret
    <2>3. \A f \in BOOLEAN : more(f).pc = "remove"
      BY <1>1, <2>1 DEF Session
    <2>4. Idle("error").result = "error"
      BY DEF Idle
    <2>5. ses[s].failed \in BOOLEAN
      BY <1>1 DEF Session
    <2> HIDE DEF more, n
    <2>6. ASSUME NEW f \in BOOLEAN, Becomes(s, After(f)) \/ Changes(s, After(f))
          PROVE  rest = {} /\ ~f
      <3>1. After(f).pc = "idle" /\ After(f).result = "ok"
        BY <1>4, <2>6
      <3>2. rest = {}
        BY <2>3, <3>1
      <3>3. ~f
        BY <2>4, <3>1, <3>2
      <3> QED
        BY <3>2, <3>3
    <2> HIDE DEF After, rest
    <2>7. podman' = Without(podman, {n}) /\ rest = {} /\ ~ses[s].failed
      BY <2>2, <2>5, <2>6
    <2> QED
      BY <2>1, <2>7 DEF rest, n
  <1>9. CASE Fail(s)
    BY <1>3, <1>9 DEF Fail
  <1> QED
    BY <1>2, <1>5, <1>6, <1>7, <1>8, <1>9
    DEF Step, Start, ListSecrets, Value, Register, CreateSecret, ReadSecret, AdoptSecret,
        Truncate, WriteRegistry

\* A prune during which nobody else changes a store takes exactly the secrets that have
\* the label and are referred to nowhere: never another, whichever removals fail, and
\* all of them when it succeeds (newSecretsPruneCmd).
THEOREM PruneIsExact == Spec => PruneExact
  <1>1. ASSUME IInv, NEW s \in Sessions, ses[s].cmd.verb = "prune", ses[s].alone, ~torn,
               RemoveSecret(s), NEW n \in DOMAIN podman \ DOMAIN podman'
        PROVE  podman[n].managed /\ n \notin Referenced(registry)
    <2>1. /\ ses[s].pc = "remove"
          /\ podman' = Without(podman, {Min(ses[s].todo)}) \/ podman' = podman
      BY <1>1 DEF RemoveSecret
    <2>2. Sound(ses[s], registry, torn, podman) /\ ses[s].todo \in SUBSET Names
      BY <1>1, SessionHas
    <2>3. Min(ses[s].todo) \in ses[s].todo
      BY <2>1, <2>2, Rest DEF Sound, Flow
    <2>4. n = Min(ses[s].todo)
      BY <1>1, <2>1 DEF Without
    <2>5. ses[s].todo \subseteq Doomed(ses[s].mine, podman) /\ ses[s].mine = registry
      BY <1>1, <2>1, <2>2 DEF Sound, Spares, SameRegistry
    <2> QED
      BY <2>3, <2>4, <2>5 DEF Doomed
  <1>2. ASSUME IInv, NEW t \in Sessions, Step(t), NEW s \in Sessions, ses[s].pc # "idle",
               ses[s].cmd.verb = "prune", ses[s].alone, ~torn, ses'[s].pc = "idle",
               ses'[s].result = "ok", NEW n \in DOMAIN podman', podman'[n].managed
        PROVE  n \in Referenced(registry')
    <2>1. t = s
      BY <1>2, OneAtATime
    <2>2. Sound(ses[s], registry, torn, podman) /\ podman \in Stores
      BY <1>2, SessionHas
    <2>3. CASE /\ ses[s].pc = "infos" /\ UNCHANGED <<registry, podman>>
               /\ Doomed(ses[s].mine, podman) = {}
      <3>1. ses[s].mine = registry
        BY <1>2, <2>2, <2>3 DEF Sound, Spares, SameRegistry
      <3> QED
        BY <1>2, <2>3, <3>1 DEF Doomed
    <2>4. CASE /\ ses[s].pc = "remove" /\ UNCHANGED registry /\ ~ses[s].failed
               /\ ses[s].todo \subseteq {Min(ses[s].todo)}
               /\ podman' = Without(podman, {Min(ses[s].todo)})
      <3>1. Doomed(ses[s].mine, podman) \subseteq ses[s].todo /\ ses[s].mine = registry
        BY <1>2, <2>2, <2>4 DEF Sound, Spares, SameRegistry
      <3>2. n \in DOMAIN podman /\ n # Min(ses[s].todo) /\ podman'[n] = podman[n]
        BY <1>2, <2>4 DEF Without
      <3>3. n \notin Doomed(ses[s].mine, podman)
        BY <2>4, <3>1, <3>2
      <3>4. registry' = registry
        BY <2>4
      <3> QED
        BY <1>2, <3>1, <3>2, <3>3, <3>4 DEF Doomed
    <2> QED
      BY <1>2, <2>1, <2>3, <2>4, PruneEnds
  <1>3. IInv /\ [Next]_vars =>
          [\A s \in Sessions :
             ses[s].pc # "idle" /\ ses[s].cmd.verb = "prune" /\ ses[s].alone /\ ~torn =>
               /\ RemoveSecret(s) =>
                    \A n \in DOMAIN podman \ DOMAIN podman' :
                      podman[n].managed /\ n \notin Referenced(registry)
               /\ ses'[s].pc = "idle" /\ ses'[s].result = "ok" =>
                    \A n \in DOMAIN podman' : podman'[n].managed => n \in Referenced(registry')]_vars
    BY <1>1, <1>2, OutsideAtATime DEF Next
  <1> QED
    BY SecretsInvariant, <1>3, PTL DEF Spec, PruneExact
=============================================================================
