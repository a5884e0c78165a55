---------------------------- MODULE MCPrepaidOrder -----------------------------
(***************************************************************************)
(* Instances of PrepaidOrder for TLC.                                      *)
(***************************************************************************)
EXTENDS PrepaidOrder, TLC

CONSTANTS o1, o2, h1, h2, p1, p2

MCOneWorkers == {o1} \cup Handlers \cup Pollers
MCTwoWorkers == {o1, o2} \cup Handlers \cup Pollers

\* Two orders of different products, or of the same product for one customer.
MCDistinct == [o \in Orders |-> o]
MCIdentical == [o \in Orders |-> "same"]

MCHandlerSymmetry == Permutations(Handlers)
MCPollerSymmetry == Permutations(Pollers)

===============================================================================
