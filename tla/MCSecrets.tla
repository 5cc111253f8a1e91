------------------------------ MODULE MCSecrets ------------------------------
(***************************************************************************)
(* Four names: a key and the other name it is declared under by hand, one  *)
(* made in podman by somebody else, one that a unit refers to.             *)
(***************************************************************************)
EXTENDS Secrets

CONSTANTS s1, s2

ByHand == {[key |-> 1, name |-> 2]}

CreateOf(key, name, policy, force, replace) ==
  [verb |-> "create", key |-> key, name |-> name, policy |-> policy,
   force |-> force, replace |-> replace]

SmallCommands ==
  {CreateOf(3, NoName, policy, FALSE, replace) :
     policy \in {"none", "generate"}, replace \in BOOLEAN}
  \cup {CreateOf(1, name, "none", FALSE, FALSE) : name \in {NoName, 4}}
  \cup {CreateOf(3, 4, "generate", TRUE, FALSE)}
  \cup {[verb |-> "createAll", replace |-> FALSE], [verb |-> "rotate", keys |-> {}],
        [verb |-> "adopt"], [verb |-> "prune"],
        [verb |-> "remove", keys |-> {3}, delete |-> TRUE],
        [verb |-> "remove", keys |-> {3}, delete |-> FALSE]}
=============================================================================
