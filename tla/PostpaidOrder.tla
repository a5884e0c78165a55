----------------------------- MODULE PostpaidOrder -----------------------------
(***************************************************************************)
(* The life of postpaid orders: an inquiry stores the order, a request to  *)
(* pay it pays the bill at the biller, and from the inquiry on webhooks    *)
(* and the cron poll work on it as they do in PrepaidOrder.                *)
(*                                                                         *)
(* The client turns every answer with an rc other than 00 or 03 into an    *)
(* error.  For a topup the error is classified; for a bill it is only      *)
(* returned, and the order keeps the status it has.                        *)
(*                                                                         *)
(* A column is_prepaid that is required and false is refused by            *)
(* PocketBase, so that the schema of this commit does not store postpaid   *)
(* orders; the module is the service's code with that column relaxed.      *)
(***************************************************************************)
EXTENDS PrepaidOrder

CONSTANT
  MayChange     \* BOOLEAN: may the amount of a bill change after its inquiry

ASSUME BillAssumption == MayChange \in BOOLEAN

VARIABLES
  paying,       \* the requests of Handlers that serve PayPostpaidOrder
  changed       \* the bills whose amount is no longer the one of the inquiry

billVars == <<paying, changed>>
allVars == <<vars, billVars>>

PayReplies == Replies \cup {"empty"}

BillInit == Init /\ paying = {} /\ changed = {}

-------------------------------------------------------------------------------
(***************************************************************************)
(* Mutations of the steps below.                                           *)
(***************************************************************************)

\* An answer without data is taken for a receipt, or for a refusal.
BlankIsSuccess(reply) == IF reply = "empty" THEN "success" ELSE StatusOfReply(reply)

BlankIsFailure(reply) == IF reply = "empty" THEN "failed" ELSE StatusOfReply(reply)

\* The amount of the answer is not compared with that of the inquiry.
AnyAmount(o, reply) == TRUE

\* The request to pay is answered and goes on.
KeepsPaying(h) ==
  /\ h \in paying /\ job[h].pc \in {"ok", "error"}
  /\ job' = [job EXCEPT ![h] = AtRest("idle", NoOrder)]
  /\ UNCHANGED <<status, txn, ledger, deleted, callerVars, billVars>>

\* The poll leaves postpaid orders to the webhooks.
IgnoresAnswer(p, reply) ==
  /\ At(p, "ask")
  /\ reply \in Answers(biller[job[p].order]) \cup {"lost", "empty"}
  /\ Return(p, "ok")
  /\ seen' = [seen EXCEPT ![p] = "absent"]
  /\ UNCHANGED <<status, txn, ledger, deleted, audit, biller, payload, queue, pollLock,
                 expired, faults, billVars>>

-------------------------------------------------------------------------------
(***************************************************************************)
(* What an answer means.                                                   *)
(***************************************************************************)

\* client.post: which answers reach the service without an error.
Passes(reply) == reply \in {"sukses", "pending", "empty"}

\* classifyDigiflazzRCAndStatus; without data there is neither an rc nor a status.
StatusOfBill(reply) ==
  IF reply = "empty" THEN "processing" ELSE StatusOfReply(reply)

\* The amount of the answer is compared when it has one.
AmountAgrees(o, reply) == o \notin changed \/ reply = "empty"

\* client.PayPasca.  The first request with the ref_id pays the bill, or is refused,
\* or never arrives; a later one with the same ref_id is told what became of it.
PayPasca(o, reply) ==
  \E b \in BillerStates :
    /\ biller[o] # "none" => b = biller[o]
    /\ reply \in Answers(b) \cup {"lost", "empty"}
    /\ biller' = [biller EXCEPT ![o] = b]

-------------------------------------------------------------------------------
(***************************************************************************)
(* The request for an inquiry: executePostpaidInquiry.  It changes nothing *)
(* at the biller; SaveOrder of PrepaidOrder stores the order.              *)
(***************************************************************************)

Inquire(o) ==
  /\ At(o, "new")
  /\ \/ job' = [job EXCEPT ![o].pc = "save", ![o].goal = "inquiry"]
     \/ Return(o, "error")
  /\ UNCHANGED <<status, txn, ledger, deleted, callerVars, billVars>>

RecordInquiry(o) ==
  /\ At(o, "recordTopup")
  /\ audit' = [audit EXCEPT ![o] = @ \cup {"inquiry"}]
  /\ Return(o, "ok")
  /\ UNCHANGED <<status, txn, ledger, deleted, biller, payload, seen, queue, pollLock,
                 expired, faults, billVars>>

\* The provider of the service changes what is due (external).
BillChanges(o) ==
  /\ MayChange /\ status[o] = "inquiry" /\ biller[o] = "none" /\ o \notin changed
  /\ changed' = changed \cup {o}
  /\ UNCHANGED <<vars, paying>>

-------------------------------------------------------------------------------
(***************************************************************************)
(* The request to pay: PayPostpaidOrder.  Its answer is written by         *)
(* updatePostpaidOrderStatus, which does not consult the transition table  *)
(* and enters the procedure of OrderUpdates at "write".                    *)
(***************************************************************************)

\* Only an order in inquiry is paid; two requests may both find it there.
ReadForPay(h, o) ==
  /\ At(h, "idle")
  /\ status[o] = "inquiry"
  /\ job' = [job EXCEPT ![h] = AtRest("ask", o)]
  /\ paying' = paying \cup {h}
  /\ UNCHANGED <<status, txn, ledger, deleted, callerVars, changed>>

Pay(h, reply) ==
  LET o == job[h].order IN
  /\ h \in paying /\ At(h, "ask")
  /\ PayPasca(o, reply)
  /\ \/ /\ ~Passes(reply)
        /\ Return(h, "error")
     \/ /\ Passes(reply) /\ ~AmountAgrees(o, reply)
        /\ Return(h, "record")
     \/ /\ Passes(reply) /\ AmountAgrees(o, reply)
        /\ job' = [job EXCEPT ![h] = [AtRest("write", o) EXCEPT !.goal = StatusOfBill(reply)]]
  /\ UNCHANGED <<status, txn, ledger, deleted, audit, payload, seen, queue, pollLock,
                 expired, faults, paying, changed>>

\* The payment is stored as an event and the order stays in inquiry.
RefuseAmount(h) ==
  /\ h \in paying /\ At(h, "record")
  /\ audit' = [audit EXCEPT ![job[h].order] = @ \cup {"pay"}]
  /\ Return(h, "error")
  /\ UNCHANGED <<status, txn, ledger, deleted, biller, payload, seen, queue, pollLock,
                 expired, faults, billVars>>

AnswerPay(h) ==
  /\ h \in paying
  /\ \/ /\ At(h, "ok")
        /\ audit' = [audit EXCEPT ![job[h].order] = @ \cup {"pay"}]
     \/ /\ At(h, "error")
        /\ UNCHANGED audit
  /\ job' = [job EXCEPT ![h] = AtRest("idle", NoOrder)]
  /\ paying' = paying \ {h}
  /\ UNCHANGED <<status, txn, ledger, deleted, biller, payload, seen, queue, pollLock,
                 expired, faults, changed>>

-------------------------------------------------------------------------------
(***************************************************************************)
(* The poll: checkAndUpdatePostpaidStatus, which asks with status-pasca.   *)
(***************************************************************************)

AskBill(p, reply) ==
  LET o == job[p].order  new == StatusOfBill(reply) IN
  /\ At(p, "ask")
  /\ reply \in Answers(biller[o]) \cup {"lost", "empty"}
  /\ \/ /\ ~Passes(reply)
        /\ Return(p, "error")
     \/ /\ Passes(reply) /\ seen[p] = "processing" /\ new = "processing"
        /\ Return(p, "ok")
     \/ /\ Passes(reply) /\ ~(seen[p] = "processing" /\ new = "processing")
        /\ job' = [job EXCEPT ![p] = [AtRest("write", o) EXCEPT !.goal = new]]
  /\ seen' = [seen EXCEPT ![p] = "absent"]
  /\ UNCHANGED <<status, txn, ledger, deleted, audit, biller, payload, queue, pollLock,
                 expired, faults, paying, changed>>

-------------------------------------------------------------------------------

InquiryStep(o) ==
  \/ Inquire(o) \/ RecordInquiry(o)
  \/ SaveOrder(o) /\ UNCHANGED billVars

PayStep(h) ==
  \/ RefuseAmount(h) \/ AnswerPay(h)
  \/ \E reply \in PayReplies : Pay(h, reply)

WebhookStep(h) == h \notin paying /\ (RecordWebhook(h) \/ AnswerWebhook(h)) /\ UNCHANGED billVars

CheckStep(p) ==
  \/ (StartPoll(p) \/ EndCheck(p) \/ EndPoll(p)) /\ UNCHANGED billVars
  \/ \E o \in Orders : PollOrder(p, o) /\ UNCHANGED billVars
  \/ \E reply \in PayReplies : AskBill(p, reply)

Restart == Crash /\ paying' = {} /\ UNCHANGED changed

BillNext ==
  \/ \E o \in Orders : \/ InquiryStep(o) \/ BillChanges(o)
                       \/ (BillerSettles(o) \/ Expire(o)) /\ UNCHANGED billVars
  \/ \E h \in Handlers :
       \/ PayStep(h) \/ WebhookStep(h)
       \/ \E o \in Orders : ReadForPay(h, o)
       \/ \E o \in Orders, k \in Payloads : ReceiveWebhook(h, o, k) /\ UNCHANGED billVars
  \/ \E p \in Pollers : CheckStep(p)
  \/ \E w \in Workers : (SharedStep(w) \/ Fail(w)) /\ UNCHANGED billVars
  \/ Restart

BillSpec == BillInit /\ [][BillNext]_allVars

\* As in PrepaidOrder: what has begun is run to its end, polls keep coming, the
\* biller settles what it has accepted, and not every status check is lost.
LearnBill(p, o) ==
  /\ job[p].order = o
  /\ \E reply \in {"sukses", "pending", "gagal", "rejected"} : AskBill(p, reply)

BillFairness ==
  /\ \A o \in Orders : WF_allVars(BillerSettles(o) /\ UNCHANGED billVars)
  /\ \A h \in Handlers :
       WF_allVars(PayStep(h) \/ WebhookStep(h) \/ (SharedStep(h) /\ UNCHANGED billVars))
  /\ \A p \in Pollers : WF_allVars(CheckStep(p) \/ (SharedStep(p) /\ UNCHANGED billVars))
  /\ \A p \in Pollers, o \in Orders :
       SF_allVars(PollOrder(p, o) /\ UNCHANGED billVars) /\ SF_allVars(LearnBill(p, o))

FairBillSpec == BillSpec /\ BillFairness

-------------------------------------------------------------------------------
(***************************************************************************)
(* Properties, besides those of PrepaidOrder.                              *)
(***************************************************************************)

\* Every variable keeps its type.
BillTypeOK ==
  /\ TypeOK
  /\ paying \subseteq Handlers /\ changed \subseteq Orders
  /\ \A h \in paying : job[h].order \in Orders

\* A bill whose amount has changed since the inquiry does not make its order successful
\* or failed by the request that pays it: out of inquiry, only a webhook does.
ChangedIsRefused ==
  [][\A o \in changed :
       status[o] = "inquiry" /\ IsTerminal(status'[o]) => status'[o] \in audit[o]]_allVars

\* Once an order has left inquiry, its bill when paid makes it successful in the end,
\* and for good, however many requests to pay, webhooks and polls have crossed; except
\* an order older than 24 hours, counted from its inquiry, which no poll lists any more.
PaidIsSettled ==
  \A o \in Orders :
    biller[o] = "success" /\ status[o] # "inquiry" ~>
      [](status[o] = "success" \/ o \in expired)

\* The service knows of every bill the biller has begun to pay: when nobody is
\* working on the order any more, it is no longer waiting to be paid.
PaymentIsKnown ==
  Quiet => \A o \in Orders : biller[o] # "none" => status[o] # "inquiry"

===============================================================================
