---------------------------- MODULE OrderLifecycle -----------------------------
(***************************************************************************)
(* What the order service promises of every order, without saying who      *)
(* writes it: an order is placed, gets one final outcome, and a successful *)
(* order is booked at most once and then linked, for good, to an expense   *)
(* of the same signature.                                                  *)
(***************************************************************************)
EXTENDS Naturals

CONSTANTS
  Orders,
  Signature,  \* Signature[o]: what the expense of o looks like in the ledger
  NoOrder     \* the payer of an order that is not linked

VARIABLES
  phase,      \* phase[o]: "absent", "active", "success" or "failed"
  bookings,   \* bookings[o]: how many expenses were created for o
  payer       \* payer[o]: the order whose expense o is linked to

absVars == <<phase, bookings, payer>>

AbsInit ==
  /\ phase = [o \in Orders |-> "absent"]
  /\ bookings = [o \in Orders |-> 0]
  /\ payer = [o \in Orders |-> NoOrder]

\* The order is stored; the answer of the purchase may already be final.
Place(o) ==
  /\ phase[o] = "absent"
  /\ \E s \in {"active", "success", "failed"} : phase' = [phase EXCEPT ![o] = s]
  /\ UNCHANGED <<bookings, payer>>

Settle(o) ==
  /\ phase[o] = "active"
  /\ \E s \in {"success", "failed"} : phase' = [phase EXCEPT ![o] = s]
  /\ UNCHANGED <<bookings, payer>>

Book(o) ==
  /\ phase[o] = "success" /\ bookings[o] = 0
  /\ bookings' = [bookings EXCEPT ![o] = 1]
  /\ UNCHANGED <<phase, payer>>

\* The expense of an earlier identical purchase will do.
Link(o) ==
  /\ phase[o] = "success" /\ payer[o] = NoOrder
  /\ \E p \in Orders :
       /\ bookings[p] # 0 /\ Signature[p] = Signature[o]
       /\ payer' = [payer EXCEPT ![o] = p]
  /\ UNCHANGED <<phase, bookings>>

AbsNext == \E o \in Orders : Place(o) \/ Settle(o) \/ Book(o) \/ Link(o)

AbsSpec == AbsInit /\ [][AbsNext]_absVars

===============================================================================
