------------------------------- MODULE Versions -------------------------------
(***************************************************************************)
(* Version-shaped tags and the choice of an upgrade among them, and the    *)
(* spans of min-age (internal/registry/registry.go).                       *)
(*                                                                         *)
(* A tag is its numeric parts and its suffix; one that is not              *)
(* version-shaped (latest) has no parts.  What a semver constraint admits  *)
(* is decided by a library: a range is the set of triples it admits.       *)
(***************************************************************************)
EXTENDS Integers, Sequences, FiniteSetsExt

ParseVersion(tag) == tag.parts # <<>>

\* Shorter tuples are padded with zeros.
Part(v, i) == IF i <= Len(v.parts) THEN v.parts[i] ELSE 0

Less(v, w) ==
  \E i \in 1 .. Max({Len(v.parts), Len(w.parts)}) :
    /\ Part(v, i) < Part(w, i)
    /\ \A j \in 1 .. i - 1 : Part(v, j) = Part(w, j)

\* Mutant: the candidate is compared at its own precision.
AliasesToo(v, n) == v

Truncated(v, n) ==
  IF Len(v.parts) <= n THEN v ELSE [v EXCEPT !.parts = SubSeq(@, 1, n)]

\* A constraint sees three parts and no more.
InRange(v, range) == <<Part(v, 1), Part(v, 2), Part(v, 3)>> \in range

\* A first part of five digits above a small one is a date, not a major.
DateStamp(v, current) == v.parts[1] >= 10000 /\ current.parts[1] < 1000

\* range is {} where the entry has none.
Upgrades(tags, current, range) ==
  {v \in tags :
     /\ ParseVersion(v) /\ v.suffix = current.suffix
     /\ Len(v.parts) >= Len(current.parts)
     /\ ~DateStamp(v, current)
     /\ Less(current, Truncated(v, Len(current.parts)))
     /\ range # {} => InRange(v, range)}

\* The highest upgrades.  Equal ones (8.25, 8.25.0) are taken in the order in
\* which the registry lists them, which may be any.
PickVersion(tags, current, range) ==
  LET up == Upgrades(tags, current, range)
  IN {v \in up : \A w \in up : ~Less(v, w)}

\* "7d": n units of so many hours, in words that hold numbers below 2^(w-1);
\* a span that would not fit is an error, here -1.
ParseAge(n, unit, w) ==
  IF n < 0 \/ n > (2^(w - 1) - 1) \div unit THEN -1 ELSE n * unit
===============================================================================
