-------------------------- MODULE MCFamilyCredential --------------------------
(***************************************************************************)
(* Instances of FamilyCredential for TLC.                                  *)
(***************************************************************************)
EXTENDS FamilyCredential, TLC

CONSTANTS a1, a2, p1, b1, u1

\* Both accounts offer one product, and each offers one that the schema refuses.
MCOffers == (a1 :> {p1, b1}) @@ (a2 :> {p1, u1})

===============================================================================
