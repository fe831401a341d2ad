------------------------- MODULE MCInviteDelivery -------------------------
(***************************************************************************)
(* One person with two payments, a checkout and a later invoice, and a     *)
(* checkout that names nobody, each delivered any number of times and by   *)
(* two requests at once.                                                   *)
(***************************************************************************)
EXTENDS InviteDelivery, TLC

CONSTANTS e1, e2, e3, c1, c2, c3, checkout, invoice, unnamed, payer

MCEvents == {e1, e2, e3}
MCOperations == {checkout, invoice, unnamed}
MCOperationOf == (e1 :> checkout) @@ (e2 :> invoice) @@ (e3 :> unnamed)
MCOwnerOf == [o \in MCOperations |-> payer]

\* A code is fresh when it is minted, and one is like another: renaming the codes of a
\* behaviour, by the order it mints them in, gives another of the same.
MintedInOrder == (c2 \in minted => c1 \in minted) /\ (c3 \in minted => c2 \in minted)
=============================================================================
