-------------------------- MODULE MCFamilyMembership --------------------------
(***************************************************************************)
(* Instances of FamilyMembership for TLC.                                  *)
(***************************************************************************)
EXTENDS FamilyMembership, TLC

===============================================================================
