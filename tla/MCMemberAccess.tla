--------------------------- MODULE MCMemberAccess ---------------------------
(***************************************************************************)
(* One person with two Stripe customers.                                   *)
(***************************************************************************)
EXTENDS MemberAccess, TLC

MCSymmetry == Permutations(Customers)

\* Renewals of both customers, or of one beside a fault.
Upsets == faults + Cardinality({c \in Customers : invoices[c] > 0}) <= 2
=============================================================================
