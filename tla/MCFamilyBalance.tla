---------------------------- MODULE MCFamilyBalance ----------------------------
(***************************************************************************)
(* Instances of FamilyBalance for TLC.                                     *)
(***************************************************************************)
EXTENDS FamilyBalance, TLC

MCSymmetry == Permutations(Requests)

===============================================================================
