---------------------------- MODULE DigiflazzStatus ----------------------------
(***************************************************************************)
(* The order statuses of a Digiflazz order, the transition table that      *)
(* UpdateStatus consults, and how an answer of the biller or the status of *)
(* a webhook becomes an order status.                                      *)
(*                                                                         *)
(* Answers are abstracted to the five classes the code tells apart:        *)
(*   "sukses"    status text Sukses, or rc 00 without a status text        *)
(*   "pending"   rc 03                                                     *)
(*   "gagal"     the purchase exists at the biller and has failed          *)
(*   "rejected"  the request itself was refused with a definitive rc (bad  *)
(*               signature, unknown IP, rate limit, SKU inactive, ...)     *)
(*   "lost"      timeout, connection error, empty body, rc 01, 10, 70, 99  *)
(*               or an unlisted rc: the answer does not tell the outcome   *)
(***************************************************************************)

OrderStatus == {"inquiry", "pending", "processing", "success", "failed", "canceled"}

Replies == {"sukses", "pending", "gagal", "rejected", "lost"}

\* Statuses no webhook moves an order out of.
IsTerminal(s) == s \in {"success", "failed", "canceled"}

\* What the cron poll still asks the biller about.
IsActive(s) == s \in {"pending", "processing"}

-------------------------------------------------------------------------------
(***************************************************************************)
(* Mutations: what a plausible bug would make of a definition below.  They *)
(* are used only to see that the properties can fail.                      *)
(***************************************************************************)

RawAnswer(reply) == reply

TimeoutIsFailure(reply) ==
  CASE reply = "sukses"                       -> "success"
    [] reply = "pending"                      -> "processing"
    [] reply \in {"gagal", "rejected", "lost"} -> "failed"

PendingIsSuccess(reply) ==
  CASE reply \in {"sukses", "pending"}  -> "success"
    [] reply = "lost"                   -> "processing"
    [] reply \in {"gagal", "rejected"}  -> "failed"

-------------------------------------------------------------------------------

\* digiflazzOrderAllowedTransitions: the pairs (from, to) UpdateStatus accepts.
AllowedTransitions ==
  ({"inquiry"} \X (OrderStatus \ {"inquiry"}))
    \cup ({"pending"} \X {"processing", "canceled"})
    \cup ({"processing"} \X {"success", "failed"})

CanTransition(from, to) == <<from, to>> \in AllowedTransitions

\* classifyDigiflazzTopupResponse and classifyDigiflazzRCAndStatus.
StatusOfReply(reply) ==
  CASE reply = "sukses"               -> "success"
    [] reply \in {"pending", "lost"}  -> "processing"
    [] reply \in {"gagal", "rejected"} -> "failed"

\* executePrepaidOrder stores rc 03 as pending; every other answer as classified.
CreationStatus(reply) == IF reply = "pending" THEN "pending" ELSE StatusOfReply(reply)

===============================================================================
