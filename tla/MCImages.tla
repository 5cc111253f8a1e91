------------------------------- MODULE MCImages -------------------------------
(***************************************************************************)
(* Two entries that track versions and a floating tag, a remote in which a *)
(* version, its alias and another suffix appear, one or two sessions.      *)
(***************************************************************************)
EXTENDS Images, TLC

CONSTANTS k1, k2, s1, s2

Tag(parts, suffix) == [parts |-> parts, suffix |-> suffix]
V1 == Tag(<<1>>, "")
V11 == Tag(<<1, 1>>, "")
V2 == Tag(<<2>>, "")
Slim == Tag(<<2>>, "slim")
Latest == Tag(<<>>, "")
SmallTags == {V1, V11, V2, Slim, Latest}
OldTags == {V1, Latest}
Untagged == Tag(<<>>, "none")
Unparsable == Tag(<<>>, "invalid")

Entry(t, d, age, range, lock) ==
  [tag |-> t, digest |-> d, minAge |-> age, range |-> range, lock |-> lock]

Version(lock) == Entry(V1, 1, NoAge, {}, lock)
Frozen == Entry(V1, 1, <<0, 1>>, {<<1, 0, 0>>}, FALSE)
Unpinned(lock) == Entry(Latest, NoDigest, <<1, 1>>, {}, lock)

SmallInitial ==
  {k1 :> Version(lock) @@ k2 :> e : lock \in BOOLEAN,
     e \in {Frozen, Unpinned(FALSE), Entry(Untagged, 1, NoAge, {}, FALSE),
            Entry(Unparsable, NoDigest, NoAge, {}, FALSE)}}

\* Ages that a word of 4 bits holds, and one that it does not.
SmallAges == {<<0, 1>>, <<1, 1>>}
HugeAges == {<<5, 2>>}
HugeInitial == {k1 :> Entry(Latest, 1, <<5, 2>>, {}, FALSE)}

C(verb, names, yes) == [verb |-> verb, names |-> names, yes |-> yes]
AddOf(k, t, d, force) ==
  [verb |-> "add", names |-> {k}, tag |-> t, digest |-> d, force |-> force]

SmallCommands ==
  {C(verb, {}, yes) : verb \in {"pin", "update"}, yes \in BOOLEAN}
  \cup {C("update", {k1}, TRUE)}
  \cup {C("outdated", {}, FALSE), C("lock", {k1}, FALSE), C("unlock", {k1, k2}, FALSE)}
  \cup {AddOf(k1, V2, NoDigest, TRUE), AddOf(k1, V2, 1, FALSE), AddOf(k1, Latest, 1, TRUE)}
UpdateAll == {C("update", {}, TRUE)}
===============================================================================
