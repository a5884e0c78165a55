----------------------------- MODULE PrepaidOrder ------------------------------
(***************************************************************************)
(* The life of prepaid orders: the request that buys at the biller and     *)
(* then stores the order, the webhook requests, the cron poll, the biller, *)
(* failing calls and the crash of the server.  The biller is external: it  *)
(* is modelled from what the code relies on, that the same ref_id is one   *)
(* purchase and that its outcome, once final, does not change.             *)
(***************************************************************************)
EXTENDS OrderUpdates, FiniteSets

CONSTANTS
  Handlers,       \* webhook requests served concurrently
  Pollers,        \* goroutines the scheduler starts for the order poll
  Nobody,         \* holder of the free poll lock
  Payloads,       \* statuses webhooks carry, a subset of WebhookStatus
  PollRejects,    \* BOOLEAN: may the biller refuse the request of a poll
  MayExpire,      \* BOOLEAN: may orders become older than the poll's 24 hours
  MayDelete,      \* BOOLEAN: may users delete expenses
  MaxFaults       \* bound on failing calls and crashes

WebhookStatus == {"success", "pending", "failed", "unknown"}

ASSUME WorkerAssumption ==
  /\ Workers = Orders \cup Handlers \cup Pollers
  /\ Orders \cap (Handlers \cup Pollers) = {}
  /\ Handlers \cap Pollers = {}
ASSUME ConstantAssumption ==
  /\ Nobody \notin Pollers
  /\ Payloads \subseteq WebhookStatus
  /\ {PollRejects, MayExpire, MayDelete} \subseteq BOOLEAN
  /\ MaxFaults \in Nat

VARIABLES
  audit,      \* audit[o]: the digiflazz_events of o
  biller,     \* biller[o]: the purchase with o's ref_id at the biller
  payload,    \* payload[h]: the webhook status handler h carries
  seen,       \* seen[p]: the status poller p read before it asked the biller
  queue,      \* queue[p]: the orders the poll of p has still to check
  pollLock,   \* orderPollLock
  expired,    \* orders created more than 24 hours ago
  faults      \* failing calls and crashes so far

callerVars == <<audit, biller, payload, seen, queue, pollLock, expired, faults>>
vars == <<updateVars, callerVars>>

Events == WebhookStatus \cup {"topup", "inquiry", "pay", "pollError"}
BillerStates == {"none", "open", "success", "failed"}

Init ==
  /\ status = [o \in Orders |-> "absent"]
  /\ txn = [o \in Orders |-> 0]
  /\ ledger = <<>>
  /\ deleted = {}
  /\ job = [w \in Workers |-> IF w \in Orders THEN AtRest("new", w) ELSE AtRest("idle", NoOrder)]
  /\ audit = [o \in Orders |-> {}]
  /\ biller = [o \in Orders |-> "none"]
  /\ payload = [h \in Handlers |-> "unknown"]
  /\ seen = [p \in Pollers |-> "absent"]
  /\ queue = [p \in Pollers |-> {}]
  /\ pollLock = Nobody
  /\ expired = {}
  /\ faults = 0

-------------------------------------------------------------------------------
(***************************************************************************)
(* The biller (external).                                                  *)
(***************************************************************************)

\* What the biller can answer to a topup that leaves the purchase in state b.
Answers(b) ==
  CASE b = "none"    -> {"rejected"}
    [] b = "open"    -> {"pending"}
    [] b = "success" -> {"sukses"}
    [] b = "failed"  -> {"gagal"}

\* client.Topup.  A new ref_id becomes a purchase, or is refused, or never
\* arrives; a known one is a status check.  The answer can be lost either way,
\* and a status check can be refused without saying anything of the purchase.
Topup(o, reply) ==
  \E b \in BillerStates :
    /\ biller[o] # "none" => b = biller[o]
    /\ reply \in Answers(b) \cup {"lost"}
         \cup (IF PollRejects /\ biller[o] # "none" THEN {"rejected"} ELSE {})
    /\ biller' = [biller EXCEPT ![o] = b]

BillerSettles(o) ==
  /\ biller[o] = "open"
  /\ \E b \in {"success", "failed"} : biller' = [biller EXCEPT ![o] = b]
  /\ UNCHANGED <<updateVars, audit, payload, seen, queue, pollLock, expired, faults>>

\* Webhooks are sent when a purchase enters a state, and may be late or repeated.
CanBeSent(o, k) ==
  CASE k \in {"success", "failed"}  -> biller[o] = k
    [] k \in {"pending", "unknown"} -> biller[o] # "none"

-------------------------------------------------------------------------------
(***************************************************************************)
(* Mutations of the steps below.                                           *)
(***************************************************************************)

\* The order poll without orderPollLock.
UnlockedPoll(p) ==
  /\ At(p, "idle")
  /\ pollLock' = p
  /\ queue' = [queue EXCEPT ![p] = {o \in Orders : IsActive(status[o]) /\ o \notin expired}]
  /\ Goto(p, "next")
  /\ UNCHANGED <<status, txn, ledger, deleted, audit, biller, payload, seen, expired, faults>>

\* A topup without an answer ends the request.
GivesUpWhenLost(o) ==
  /\ At(o, "new")
  /\ \E reply \in Replies :
       /\ Topup(o, reply)
       /\ IF reply = "lost" THEN Return(o, "error")
          ELSE job' = [job EXCEPT ![o].pc = "save", ![o].goal = CreationStatus(reply)]
  /\ UNCHANGED <<status, txn, ledger, deleted, audit, payload, seen, queue, pollLock, expired, faults>>

\* applyPrepaidOrderStatus never used.
NeverViaProcessing(old, new) == FALSE

-------------------------------------------------------------------------------
(***************************************************************************)
(* The request that creates order o: executePrepaidOrder.  The biller is   *)
(* called before the order has a row.                                      *)
(***************************************************************************)

CallTopup(o) ==
  /\ At(o, "new")
  /\ \E reply \in Replies :
       /\ Topup(o, reply)
       /\ job' = [job EXCEPT ![o].pc = "save", ![o].goal = CreationStatus(reply)]
  /\ UNCHANGED <<status, txn, ledger, deleted, audit, payload, seen, queue, pollLock, expired, faults>>

SaveOrder(o) ==
  /\ At(o, "save")
  /\ status' = [status EXCEPT ![o] = job[o].goal]
  /\ Goto(o, "recordTopup")
  /\ UNCHANGED <<txn, ledger, deleted, callerVars>>

\* createPrepaidOrderEvent, then finalizeSuccessOrderIfConfigured.
RecordTopup(o) ==
  /\ At(o, "recordTopup")
  /\ audit' = [audit EXCEPT ![o] = @ \cup {"topup"}]
  /\ IF job[o].goal = "success" THEN Goto(o, "latest") ELSE Return(o, "ok")
  /\ UNCHANGED <<status, txn, ledger, deleted, biller, payload, seen, queue, pollLock, expired, faults>>

-------------------------------------------------------------------------------
(***************************************************************************)
(* A webhook request: DigiflazzWebhookHandler.Receive.                     *)
(***************************************************************************)

\* applyWebhookStatus decides from the status that was read at the beginning.
WebhookApplies(old, k) ==
  /\ k # "unknown" /\ k # old
  /\ ~IsTerminal(old)
  /\ ~(old = "processing" /\ k = "pending")

\* Both applyWebhookStatus and applyPrepaidOrderStatus bring a pending order to
\* its outcome in two updates.
ViaProcessing(old, new) == old = "pending" /\ new \in {"success", "failed"}

\* Finds the order by its ref_id and looks for an event with the same payload.
\* When there is no order yet, or such an event, the request is answered 200 and
\* nothing has changed.
ReceiveWebhook(h, o, k) ==
  /\ At(h, "idle")
  /\ status[o] # "absent"
  /\ CanBeSent(o, k)
  /\ k \notin audit[o]
  /\ payload' = [payload EXCEPT ![h] = k]
  /\ job' = [job EXCEPT ![h] =
       [AtRest("record", o) EXCEPT
          !.goal = IF WebhookApplies(status[o], k) THEN k ELSE "absent",
          !.via = ViaProcessing(status[o], k)]]
  /\ UNCHANGED <<status, txn, ledger, deleted, audit, biller, seen, queue, pollLock, expired, faults>>

\* The event is stored before the status is applied.  When another delivery of
\* the payload has stored it first, Create returns that event without an error.
RecordWebhook(h) ==
  /\ At(h, "record")
  /\ audit' = [audit EXCEPT ![job[h].order] = @ \cup {payload[h]}]
  /\ IF job[h].goal = "absent" THEN Return(h, "ok") ELSE Goto(h, "check")
  /\ UNCHANGED <<status, txn, ledger, deleted, biller, payload, seen, queue, pollLock, expired, faults>>

AnswerWebhook(h) ==
  /\ job[h].pc \in {"ok", "error"}
  /\ job' = [job EXCEPT ![h] = AtRest("idle", NoOrder)]
  /\ payload' = [payload EXCEPT ![h] = "unknown"]
  /\ UNCHANGED <<status, txn, ledger, deleted, audit, biller, seen, queue, pollLock, expired, faults>>

-------------------------------------------------------------------------------
(***************************************************************************)
(* The cron poll: RunOrderPoll and CheckAndUpdateStatus.                   *)
(***************************************************************************)

\* A tick that finds the lock taken does nothing.  Listing at most 100 orders,
\* oldest first, is not modelled here.
StartPoll(p) ==
  /\ At(p, "idle")
  /\ pollLock = Nobody
  /\ pollLock' = p
  /\ queue' = [queue EXCEPT ![p] = {o \in Orders : IsActive(status[o]) /\ o \notin expired}]
  /\ Goto(p, "next")
  /\ UNCHANGED <<status, txn, ledger, deleted, audit, biller, payload, seen, expired, faults>>

\* Reads the next order, which may have changed since it was listed.
PollOrder(p, o) ==
  /\ At(p, "next")
  /\ o \in queue[p]
  /\ queue' = [queue EXCEPT ![p] = @ \ {o}]
  /\ IF IsActive(status[o])
     THEN /\ seen' = [seen EXCEPT ![p] = status[o]]
          /\ job' = [job EXCEPT ![p] = AtRest("ask", o)]
     ELSE UNCHANGED <<seen, job>>
  /\ UNCHANGED <<status, txn, ledger, deleted, audit, biller, payload, pollLock, expired, faults>>

\* checkAndUpdatePrepaidStatus: sends the topup again with the same ref_id.
AskBiller(p, reply) ==
  LET o == job[p].order  new == StatusOfReply(reply) IN
  /\ At(p, "ask")
  /\ Topup(o, reply)
  /\ IF seen[p] = "processing" /\ new = "processing"
     THEN Return(p, "ok")
     ELSE CallUpdate(p, o, new, ViaProcessing(seen[p], new))
  /\ seen' = [seen EXCEPT ![p] = "absent"]
  /\ UNCHANGED <<status, txn, ledger, deleted, audit, payload, queue, pollLock, expired, faults>>

\* recordCronEvent stores an event for the order whose check failed.
EndCheck(p) ==
  /\ \/ /\ At(p, "ok")
        /\ UNCHANGED audit
     \/ /\ At(p, "error")
        /\ audit' = [audit EXCEPT ![job[p].order] = @ \cup {"pollError"}]
  /\ job' = [job EXCEPT ![p] = AtRest("next", NoOrder)]
  /\ UNCHANGED <<status, txn, ledger, deleted, biller, payload, seen, queue, pollLock, expired, faults>>

EndPoll(p) ==
  /\ At(p, "next")
  /\ queue[p] = {}
  /\ pollLock' = Nobody
  /\ Goto(p, "idle")
  /\ UNCHANGED <<status, txn, ledger, deleted, audit, biller, payload, seen, queue, expired, faults>>

-------------------------------------------------------------------------------
(***************************************************************************)
(* Time, users and faults.                                                 *)
(***************************************************************************)

Expire(o) ==
  /\ MayExpire
  /\ status[o] # "absent" /\ o \notin expired
  /\ expired' = expired \cup {o}
  /\ UNCHANGED <<updateVars, audit, biller, payload, seen, queue, pollLock, faults>>

UserDeletes(t) ==
  /\ MayDelete
  /\ DeleteExpense(t)
  /\ UNCHANGED callerVars

InACall == (UpdatePCs \ {"ok", "error"}) \cup {"save", "recordTopup", "record", "ask"}

\* A database or HTTP call of worker w fails and the error is returned.
Fail(w) ==
  /\ faults < MaxFaults
  /\ job[w].pc \in InACall
  /\ \/ CallFails(w)
     \/ CreateFailsAfterCommit(w)
  /\ faults' = faults + 1
  /\ seen' = [p \in Pollers |-> IF p = w THEN "absent" ELSE seen[p]]
  /\ UNCHANGED <<audit, biller, payload, queue, pollLock, expired>>

\* The server stops and starts again: the rows stay, every goroutine is gone.
Crash ==
  /\ faults < MaxFaults
  /\ faults' = faults + 1
  /\ job' = [w \in Workers |->
       IF w \in Orders
       THEN IF job[w].pc = "new" THEN job[w] ELSE AtRest("error", w)
       ELSE AtRest("idle", NoOrder)]
  /\ payload' = [h \in Handlers |-> "unknown"]
  /\ seen' = [p \in Pollers |-> "absent"]
  /\ queue' = [p \in Pollers |-> {}]
  /\ pollLock' = Nobody
  /\ UNCHANGED <<status, txn, ledger, deleted, audit, biller, expired>>

-------------------------------------------------------------------------------

OrderStep(o) == CallTopup(o) \/ SaveOrder(o) \/ RecordTopup(o)

PollStep(p) ==
  \/ StartPoll(p) \/ EndCheck(p) \/ EndPoll(p)
  \/ \E o \in Orders : PollOrder(p, o)
  \/ \E reply \in Replies : AskBiller(p, reply)

SharedStep(w) == UpdateStep(w) /\ UNCHANGED callerVars

Next ==
  \/ \E o \in Orders : OrderStep(o) \/ BillerSettles(o) \/ Expire(o)
  \/ \E h \in Handlers : \/ RecordWebhook(h) \/ AnswerWebhook(h)
                         \/ \E o \in Orders, k \in Payloads : ReceiveWebhook(h, o, k)
  \/ \E p \in Pollers : PollStep(p)
  \/ \E w \in Workers : SharedStep(w) \/ Fail(w)
  \/ \E t \in 1 .. Len(ledger) : UserDeletes(t)
  \/ Crash

Spec == Init /\ [][Next]_vars

(***************************************************************************)
(* Fairness: requests and polls that have begun are run to their end, the  *)
(* scheduler keeps starting polls (StartPoll), the biller settles every    *)
(* open purchase, and a status check that is repeated for ever is not lost *)
(* for ever.  Nothing makes users buy or webhooks arrive.                  *)
(***************************************************************************)
Learn(p, o) ==
  /\ job[p].order = o
  /\ \E reply \in Replies \ {"lost"} : AskBiller(p, reply)

Fairness ==
  /\ \A o \in Orders : WF_vars(SaveOrder(o) \/ RecordTopup(o)) /\ WF_vars(BillerSettles(o))
  /\ \A h \in Handlers : WF_vars(RecordWebhook(h) \/ AnswerWebhook(h))
  /\ \A p \in Pollers : WF_vars(PollStep(p))
  /\ \A p \in Pollers, o \in Orders : SF_vars(PollOrder(p, o)) /\ SF_vars(Learn(p, o))
  /\ \A w \in Workers : WF_vars(SharedStep(w))

FairSpec == Spec /\ Fairness

-------------------------------------------------------------------------------
(***************************************************************************)
(* Properties.                                                             *)
(***************************************************************************)

\* Every variable keeps its type.
TypeOK ==
  /\ status \in [Orders -> RowStatus]
  /\ txn \in [Orders -> Nat]
  /\ ledger \in Seq(Orders)
  /\ deleted \subseteq Nat
  /\ job \in [Workers -> Job]
  /\ \A o \in Orders : job[o].order = o
  /\ audit \in [Orders -> SUBSET Events]
  /\ biller \in [Orders -> BillerStates]
  /\ payload \in [Handlers -> WebhookStatus]
  /\ seen \in [Pollers -> RowStatus]
  /\ queue \in [Pollers -> SUBSET Orders]
  /\ pollLock \in Pollers \cup {Nobody}
  /\ expired \subseteq Orders
  /\ faults \in Nat

\* An order is shown as successful only when the biller has delivered it, however
\* the answers of the topup, of polls and of webhooks are interleaved or lost.
SuccessIsReal == \A o \in Orders : status[o] = "success" => biller[o] = "success"

\* The family is charged only for purchases the biller has delivered.
ExpenseIsReal == \A t \in 1 .. Len(ledger) : biller[ledger[t]] = "success"

\* The transaction an order is linked to was created, and is the expense of a
\* purchase with the same creator, category, amount and note.
LinkIsSound ==
  \A o \in Orders :
    txn[o] # 0 => txn[o] \in 1 .. Len(ledger) /\ Signature[ledger[txn[o]]] = Signature[o]

\* A worker that is about to write success, or to book and link the expense, does so
\* for a purchase the biller has delivered, however old what it has read is, and the
\* expense it will link exists and pays for the same thing.
Finalizing == {"latest", "find", "create", "readLink", "saveLink", "reread", "findAgain"}
Working == {"save", "recordTopup", "record", "ask", "check", "write"} \cup Finalizing
Justified(j, purchase, expenses) ==
  /\ j.pc \in Working => j.order \in Orders
  /\ j.pc \in Working \ {"ask"} /\ (j.goal = "success" \/ j.pc \in Finalizing)
       => purchase[j.order] = "success"
  /\ j.pc \in {"readLink", "saveLink"}
       => j.txn \in 1 .. Len(expenses) /\ Signature[expenses[j.txn]] = Signature[j.order]
Evidence == \A w \in Workers : Justified(job[w], biller, ledger)

\* An order is shown as failed only when the biller has no purchase of it that is
\* or may become successful.  (Holds while no status check is refused.)
FailedIsReal == \A o \in Orders : status[o] = "failed" => biller[o] \in {"none", "failed"}

\* The finalization books at most one expense for an order.
BookedOnce ==
  \A t, u \in 1 .. Len(ledger) : ledger[t] = ledger[u] => t = u

\* No goroutine is at work.
Quiet == \A w \in Workers : job[w].pc \in {"new", "idle", "next", "ok", "error"}

\* While no call has failed, a successful order nobody is working on any more has its
\* expense: whoever wrote success last has not been led astray by what others wrote.
\* (After a failure nothing books the order again.)
SuccessIsBooked ==
  Quiet /\ faults = 0 => \A o \in Orders : status[o] = "success" => txn[o] # 0

\* While no call to the database has failed and the server has not stopped, whatever
\* the biller has accepted has an order once the request is answered, also when the
\* answer of the biller was lost: somebody will ask what became of it.
PurchaseHasOrder ==
  faults = 0 =>
    \A o \in Orders : biller[o] # "none" /\ job[o].pc # "save" => status[o] # "absent"

\* OrderLifecycle seen from here: its phase does not tell pending from processing.
Lifecycle == INSTANCE OrderLifecycle WITH
  phase <- [o \in Orders |-> IF IsActive(status[o]) THEN "active" ELSE status[o]],
  bookings <- [o \in Orders |-> Cardinality({t \in 1 .. Len(ledger) : ledger[t] = o})],
  payer <- [o \in Orders |-> IF txn[o] = 0 THEN NoOrder ELSE ledger[txn[o]]]

\* As long as one goroutine at a time writes an order, the service keeps the promise
\* of OrderLifecycle: no outcome is revised, nothing is booked twice or before the
\* outcome, no link is replaced.
ImplementsLifecycle == Lifecycle!AbsSpec

\* Every stored order reaches a final status and keeps it, unless it becomes older
\* than the 24 hours the poll looks back: also when a webhook is lost because a call
\* failed after its event was stored, or the server stopped in the middle of an update.
EventuallySettled ==
  \A o \in Orders :
    status[o] # "absent" ~> [](IsTerminal(status[o]) \/ o \in expired)

\* While no call fails, every successful order is linked to an expense in the end,
\* with the same exception: an order that a stale write has moved back from success
\* to processing is only finalized when a later poll finds it.
EventuallyBooked ==
  \A o \in Orders : status[o] = "success" ~> (txn[o] # 0 \/ o \in expired \/ faults # 0)

===============================================================================
