---------------------------- MODULE MCFamilyRecords ----------------------------
(***************************************************************************)
(* Instances of FamilyRecords for TLC: two families and one record or two  *)
(* of every other collection.                                              *)
(***************************************************************************)
EXTENDS FamilyRecords, TLC

CONSTANTS u1, u2, f1, f2, m1, m2, c1, c2, c3, t1, k1, k2, q1, o1, e1, b1, b2

MCIds ==
  [users |-> {u1, u2}, families |-> {f1, f2}, family_members |-> {m1, m2},
   categories |-> {c1, c2, c3}, transactions |-> {t1}, digiflazz_credentials |-> {k1, k2},
   digiflazz_products |-> {q1}, digiflazz_orders |-> {o1}, digiflazz_events |-> {e1},
   family_balances |-> {b1, b2}]

\* One family that is set up, with a default category and one of its own.
MCEstablished ==
  (u1 :> User) @@ (f1 :> Family) @@ (m1 :> Member(f1, u1)) @@ (c1 :> Category(f1, TRUE)) @@
  (c2 :> Category(f1, FALSE)) @@
  (b1 :> Balance(f1)) @@ (k1 :> Credential(f1)) @@ (q1 :> Product(f1, k1))

MCSymmetry == Permutations(Requests)

===============================================================================
