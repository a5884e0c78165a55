---------------------------- MODULE MCPostpaidOrder ----------------------------
(***************************************************************************)
(* Instances of PostpaidOrder for TLC.                                     *)
(***************************************************************************)
EXTENDS PostpaidOrder, TLC

CONSTANTS o1, h1, h2, p1

MCWorkers == Orders \cup Handlers \cup Pollers
MCSignature == [o \in Orders |-> o]
MCHandlerSymmetry == Permutations(Handlers)

===============================================================================
