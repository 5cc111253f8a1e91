--------------------------------- MODULE Maps ---------------------------------
(***************************************************************************)
(* Functions whose domain changes: what is written, and what the rest of a *)
(* tree, a lock or a store is afterwards.                                  *)
(***************************************************************************)

\* f with the value v for x, which need not have had one.
With(f, x, v) == [y \in DOMAIN f \cup {x} |-> IF y = x THEN v ELSE f[y]]

\* f with the values of g, where it has some.
Over(f, g) == [y \in DOMAIN f \cup DOMAIN g |-> IF y \in DOMAIN g THEN g[y] ELSE f[y]]

\* f without the values for S.
Without(f, S) == [y \in DOMAIN f \ S |-> f[y]]
=============================================================================
