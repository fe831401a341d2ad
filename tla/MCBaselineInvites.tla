------------------------- MODULE MCBaselineInvites --------------------------
(***************************************************************************)
(* Two tiers over two libraries on servers of their own. Names are a 4K    *)
(* title on the allowlist, with and without the private prefix, and a      *)
(* title that is neither, so that each tier can break without the other.   *)
(***************************************************************************)
EXTENDS BaselineInvites, TLC

CONSTANTS l1, l2, s1, s2

MCServerOf == (l1 :> s1) @@ (l2 :> s2)
Name(prefix, title) == [prefix |-> prefix, title |-> title]
MCNames == {Name("ordering", "4k family"), Name("private", "4k family"), Name("none", "movies")}

\* The libraries are alike, each with its server.
Alike ==
  {p \in Permutations({l1, l2, s1, s2}) :
     \A l \in {l1, l2} : p[l] \in {l1, l2} /\ p[MCServerOf[l]] = MCServerOf[p[l]]}
=============================================================================
