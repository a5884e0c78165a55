-------------------------- MODULE PostpaidOrderProofs ---------------------------
(***************************************************************************)
(* Proofs about PostpaidOrder.  The inductive invariant is that of         *)
(* PrepaidOrder: what it says of workers, rows, expenses and the biller    *)
(* does not depend on who asks the biller and how.  The steps taken from   *)
(* PrepaidOrder are covered by the lemmas about it.  What a refusal and a  *)
(* changed amount do to an order rests on Tended: who works on an order    *)
(* when, and on what grounds each writes an outcome.                       *)
(***************************************************************************)
EXTENDS PostpaidOrder, PrepaidOrderProofs

-------------------------------------------------------------------------------
(***************************************************************************)
(* What an answer proves.                                                  *)
(***************************************************************************)

LEMMA BillStatusTyped ==
  ASSUME NEW reply \in PayReplies
  PROVE  StatusOfBill(reply) \in RowStatus
  BY DEF StatusOfBill, StatusOfReply, PayReplies, Replies, RowStatus, OrderStatus

\* Only the receipt of a paid bill is taken for success.
LEMMA BillIsHonest ==
  ASSUME NEW b \in BillerStates, NEW reply \in Answers(b) \cup {"lost", "empty"},
         StatusOfBill(reply) = "success"
  PROVE  b = "success"
  BY DEF Answers, BillerStates, StatusOfBill, StatusOfReply

\* A paid bill stays paid, and an answer of success is true.
LEMMA PaymentIsHonest ==
  ASSUME TypeOK, NEW o \in Orders, NEW reply, PayPasca(o, reply)
  PROVE  /\ biller' \in [Orders -> BillerStates]
         /\ \A p \in Orders : biller[p] = "success" => biller'[p] = "success"
         /\ StatusOfBill(reply) = "success" => biller'[o] = "success"
<1>1. PICK b \in BillerStates :
        /\ biller[o] # "none" => b = biller[o]
        /\ reply \in Answers(b) \cup {"lost", "empty"}
        /\ biller' = [biller EXCEPT ![o] = b]
  BY DEF PayPasca
<1>2. StatusOfBill(reply) = "success" => b = "success"
  BY <1>1, BillIsHonest
<1> QED BY <1>1, <1>2 DEF TypeOK

\* A request or a poll that enters the update at "write" with an answer that is true.
LEMMA WriteJustified ==
  ASSUME NEW o \in Orders, NEW reply \in PayReplies,
         StatusOfBill(reply) = "success" => biller'[o] = "success"
  PROVE  LET j == [AtRest("write", o) EXCEPT !.goal = StatusOfBill(reply)]
         IN  j \in Job /\ Justified(j, biller', ledger')
<1> DEFINE goal == StatusOfBill(reply)
           j == [AtRest("write", o) EXCEPT !.goal = goal]
<1>1. goal \in RowStatus
  BY BillStatusTyped
<1> HIDE DEF goal
<1>2. j \in Job /\ j.order = o /\ j.pc = "write" /\ j.goal = goal
  BY <1>1 DEF AtRest, Job, UpdatePCs, RowStatus
<1>3. goal = "success" => biller'[o] = "success"
  BY DEF goal
<1> HIDE DEF j
<1>4. Justified(j, biller', ledger')
  BY <1>2, <1>3 DEF Justified, Working, Finalizing
<1> QED BY <1>2, <1>4 DEF j, goal

-------------------------------------------------------------------------------
(***************************************************************************)
(* The inquiry.                                                            *)
(***************************************************************************)

LEMMA InquireKeeps ==
  ASSUME IInv, NEW o \in Orders, Inquire(o)
  PROVE  IInv'
<1>1. o \in Workers /\ job[o] \in Job /\ job[o].order = o
  BY WorkerAssumption DEF IInv, TypeOK
<1>2. CASE job' = [job EXCEPT ![o].pc = "save", ![o].goal = "inquiry"]
  <2> DEFINE j == [job[o] EXCEPT !.pc = "save", !.goal = "inquiry"]
  <2>1. j \in Job /\ j.order = o /\ j.pc = "save" /\ j.goal = "inquiry"
    BY <1>1 DEF Job, CallerPCs, RowStatus, OrderStatus
  <2>2. job' = [job EXCEPT ![o] = j]
    BY <1>1, <1>2 DEF IInv, TypeOK
  <2> HIDE DEF j
  <2>3. TypeOK'
    <3>1. job' \in [Workers -> Job] /\ \A p \in Orders : job'[p].order = p
      BY <1>1, <2>1, <2>2, JobTyped DEF IInv
    <3> QED BY <3>1 DEF IInv, TypeOK, Inquire, callerVars
  <2>4. WorldGrows
    BY DEF WorldGrows, Inquire, callerVars
  <2>5. Justified(j, biller', ledger')
    BY <2>1 DEF Justified, Working, Finalizing
  <2> QED BY <1>1, <2>1, <2>2, <2>3, <2>4, <2>5, WorkerMoves DEF Inquire
<1>3. CASE Return(o, "error")
  BY <1>1, <1>3, ReturnKeeps DEF Inquire
<1> QED BY <1>2, <1>3 DEF Inquire

LEMMA RecordInquiryKeeps ==
  ASSUME IInv, NEW o \in Orders, RecordInquiry(o)
  PROVE  IInv'
<1>1. o \in Workers
  BY WorkerAssumption
<1>2. audit' \in [Orders -> SUBSET Events]
  BY DEF IInv, TypeOK, RecordInquiry, Events
<1>3. TypeOK'
  BY <1>1, <1>2, ReturnTyped DEF RecordInquiry, IInv, TypeOK, UpdatePCs
<1>4. Justified(AtRest("ok", job[o].order), biller', ledger')
  BY DEF Justified, AtRest, Working, Finalizing
<1> QED BY <1>1, <1>3, <1>4, ReturnTyped, WorkerMoves
        DEF RecordInquiry, IInv, WorldGrows, UpdatePCs

-------------------------------------------------------------------------------
(***************************************************************************)
(* The request to pay.                                                     *)
(***************************************************************************)

LEMMA ReadForPayKeeps ==
  ASSUME IInv, NEW h \in Handlers, NEW o \in Orders, ReadForPay(h, o)
  PROVE  IInv'
<1>1. AtRest("ask", o) \in Job
  BY AtRestTyped DEF CallerPCs
<1>2. Justified(AtRest("ask", o), biller', ledger')
  BY DEF Justified, AtRest, Working, Finalizing
<1> QED BY <1>1, <1>2, CallerMoves DEF ReadForPay, IInv, TypeOK, callerVars

LEMMA PayKeeps ==
  ASSUME IInv, NEW h \in Handlers, NEW reply \in PayReplies, Pay(h, reply)
  PROVE  IInv'
<1> DEFINE o == job[h].order
<1>1. h \in Workers /\ o \in Orders
  BY WorkerAssumption DEF IInv, Evidence, Justified, Working, Pay, At
<1>2. /\ biller' \in [Orders -> BillerStates]
      /\ \A p \in Orders : biller[p] = "success" => biller'[p] = "success"
      /\ StatusOfBill(reply) = "success" => biller'[o] = "success"
  BY <1>1, PaymentIsHonest DEF Pay, IInv
<1>3. \E j \in Job : job' = [job EXCEPT ![h] = j] /\ Justified(j, biller', ledger')
  <2>1. CASE Return(h, "error")
    <3>1. Justified(AtRest("error", o), biller', ledger')
      BY DEF Justified, AtRest, Working, Finalizing
    <3> QED BY <1>1, <2>1, <3>1, ReturnTyped DEF IInv, UpdatePCs
  <2>2. CASE Return(h, "record")
    <3>1. Justified(AtRest("record", o), biller', ledger')
      BY <1>1 DEF Justified, AtRest, Working, Finalizing
    <3> QED BY <1>1, <2>2, <3>1, ReturnTyped DEF IInv, CallerPCs
  <2>3. CASE job' = [job EXCEPT ![h] = [AtRest("write", o) EXCEPT !.goal = StatusOfBill(reply)]]
    BY <1>1, <1>2, <2>3, WriteJustified
  <2> QED BY <2>1, <2>2, <2>3 DEF Pay
<1> QED BY <1>2, <1>3, CallerMoves DEF Pay, IInv, TypeOK

LEMMA RefuseAmountKeeps ==
  ASSUME IInv, NEW h \in Handlers, RefuseAmount(h)
  PROVE  IInv'
<1>1. h \in Workers
  BY WorkerAssumption
<1>2. Justified(AtRest("error", job[h].order), biller', ledger')
  BY DEF Justified, AtRest, Working, Finalizing
<1>3. audit' \in [Orders -> SUBSET Events]
  BY DEF IInv, TypeOK, RefuseAmount, Events
<1> QED BY <1>1, <1>2, <1>3, ReturnTyped, CallerMoves DEF RefuseAmount, IInv, TypeOK, UpdatePCs

LEMMA AnswerPayKeeps ==
  ASSUME IInv, NEW h \in Handlers, AnswerPay(h)
  PROVE  IInv'
<1>1. AtRest("idle", NoOrder) \in Job
  BY AtRestTyped DEF CallerPCs
<1>2. Justified(AtRest("idle", NoOrder), biller', ledger')
  BY DEF Justified, AtRest, Working, Finalizing
<1>3. audit' \in [Orders -> SUBSET Events]
  BY DEF IInv, TypeOK, AnswerPay, Events
<1> QED BY <1>1, <1>2, <1>3, CallerMoves DEF AnswerPay, IInv, TypeOK

-------------------------------------------------------------------------------
(***************************************************************************)
(* The poll, and the theorems.                                             *)
(***************************************************************************)

LEMMA AskBillKeeps ==
  ASSUME IInv, NEW p \in Pollers, NEW reply \in PayReplies, AskBill(p, reply)
  PROVE  IInv'
<1> DEFINE o == job[p].order
<1>1. p \in Workers /\ o \in Orders
  BY WorkerAssumption DEF IInv, Evidence, Justified, Working, AskBill, At
<1>2. biller' = biller /\ reply \in Answers(biller[o]) \cup {"lost", "empty"}
  BY DEF AskBill
<1>3. StatusOfBill(reply) = "success" => biller'[o] = "success"
  BY <1>1, <1>2, BillIsHonest DEF IInv, TypeOK
<1>4. \E j \in Job : job' = [job EXCEPT ![p] = j] /\ Justified(j, biller', ledger')
  <2>1. ASSUME NEW pc \in {"ok", "error"}, Return(p, pc)
        PROVE  \E j \in Job : job' = [job EXCEPT ![p] = j] /\ Justified(j, biller', ledger')
    <3>1. Justified(AtRest(pc, o), biller', ledger')
      BY DEF Justified, AtRest, Working, Finalizing
    <3> QED BY <1>1, <2>1, <3>1, ReturnTyped DEF IInv, UpdatePCs
  <2>2. CASE job' = [job EXCEPT ![p] = [AtRest("write", o) EXCEPT !.goal = StatusOfBill(reply)]]
    BY <1>1, <1>3, <2>2, WriteJustified
  <2> QED BY <2>1, <2>2 DEF AskBill
<1>5. seen' \in [Pollers -> RowStatus]
  BY DEF AskBill, IInv, TypeOK, RowStatus
<1> QED BY <1>2, <1>4, <1>5, CallerMoves DEF AskBill, IInv, TypeOK

LEMMA BillNextKeeps ==
  ASSUME IInv, [BillNext]_allVars
  PROVE  IInv'
<1>1. ASSUME NEW o \in Orders, InquiryStep(o)
      PROVE  IInv'
  BY <1>1, InquireKeeps, RecordInquiryKeeps, SaveOrderKeeps DEF InquiryStep
<1>2. ASSUME NEW o \in Orders, BillerSettles(o) \/ Expire(o)
      PROVE  IInv'
  BY <1>2, BillerSettlesKeeps, ExpireKeeps
<1>3. ASSUME NEW h \in Handlers, \/ PayStep(h) \/ WebhookStep(h)
                                 \/ \E o \in Orders : ReadForPay(h, o)
                                 \/ \E o \in Orders, k \in Payloads : ReceiveWebhook(h, o, k)
      PROVE  IInv'
  BY <1>3, PayKeeps, RefuseAmountKeeps, AnswerPayKeeps, ReadForPayKeeps, ReceiveWebhookKeeps,
     RecordWebhookKeeps, AnswerWebhookKeeps DEF PayStep, WebhookStep
<1>4. ASSUME NEW p \in Pollers, CheckStep(p)
      PROVE  IInv'
  BY <1>4, StartPollKeeps, PollOrderKeeps, AskBillKeeps, EndCheckKeeps, EndPollKeeps
     DEF CheckStep
<1>5. ASSUME NEW w \in Workers, SharedStep(w) \/ Fail(w)
      PROVE  IInv'
  BY <1>5, UpdateStepKeeps, FailKeeps
<1>6. CASE Restart
  BY <1>6, CrashKeeps DEF Restart
<1>7. CASE UNCHANGED vars
  BY <1>7, NextKeeps
<1>8. ASSUME NEW o \in Orders, BillChanges(o)
      PROVE  UNCHANGED vars
  BY <1>8 DEF BillChanges
<1> QED
  BY <1>1, <1>2, <1>3, <1>4, <1>5, <1>6, <1>7, <1>8 DEF BillNext, allVars

\* The inductive invariant of prepaid orders is one of postpaid orders too.
THEOREM BillInvariance == BillSpec => []IInv
<1>1. BillInit => IInv
  BY InitEstablishes DEF BillInit
<1> QED BY <1>1, BillNextKeeps, PTL DEF BillSpec

\* A postpaid order is shown as successful only when its bill is paid, however many
\* requests pay it at once and whatever they, webhooks and polls are told or miss.
THEOREM BillSuccessIsReal == BillSpec => []SuccessIsReal
  BY BillInvariance, PTL DEF IInv

\* The family is charged only for bills the biller has been paid, and an order is
\* linked only to an expense of its own signature.
THEOREM BillExpenseIsReal == BillSpec => [](ExpenseIsReal /\ LinkIsSound)
  BY BillInvariance, PTL DEF IInv

-------------------------------------------------------------------------------
(***************************************************************************)
(* Who tends to an order, and with what.                                   *)
(***************************************************************************)

\* What the job j of worker w says of its order.  The request of an inquiry stores the
\* order in inquiry and is the only one to work on it before it has a row; a poll works
\* only on orders that have left inquiry; a webhook has stored its event before it
\* writes; a payment writes an outcome only of a bill it has paid at the price of the
\* inquiry; whoever is about to write failed does so for a bill the biller has failed.
Tends(w, j, rows, purchase, events, cargo, payers, stale) ==
  /\ w \in Orders =>
       /\ j.pc \in {"new", "save", "recordTopup", "ok", "error"}
       /\ j.pc \in {"new", "save"} => rows[w] = "absent"
       /\ j.pc \in {"save", "recordTopup"} => j.goal = "inquiry"
  /\ w \notin Orders /\ j.order \in Orders => rows[j.order] # "absent"
  /\ w \in Pollers /\ j.order \in Orders => rows[j.order] # "inquiry"
  /\ w \in payers => j.order \in Orders
  /\ w \in Handlers \ payers /\ j.pc = "record" => j.goal \in {"absent", cargo[w]}
  /\ j.pc \in {"record", "check", "write"} /\ j.goal = "failed" =>
       purchase[j.order] = "failed"
  /\ j.pc \in {"check", "write"} =>
       /\ j.goal \notin {"absent", "inquiry"}
       /\ w \in Handlers \ payers => j.goal \in events[j.order]
       /\ w \in payers /\ IsTerminal(j.goal) =>
            j.order \notin stale /\ purchase[j.order] # "none"

Tended ==
  /\ \A w \in Workers : Tends(w, job[w], status, biller, audit, payload, paying, changed)
  /\ paying \subseteq Handlers /\ changed \subseteq Orders
  /\ \A o \in Orders : status[o] = "failed" => biller[o] = "failed"

BInv == IInv /\ Tended

\* What a step of worker w may do to what the others rely on.
Considerate(w) ==
  /\ \A o \in Orders : status'[o] # status[o] =>
       /\ status'[o] # "absent"
       /\ status[o] = "absent" => w = o
       /\ status[o] # "absent" => status'[o] # "inquiry"
       /\ status'[o] = "failed" => biller'[o] = "failed"
  /\ \A o \in Orders : biller'[o] # biller[o] => biller[o] # "failed" /\ biller'[o] # "none"
  /\ \A o \in Orders : audit[o] \subseteq audit'[o]
  /\ \A h \in Handlers \ {w} : payload'[h] = payload[h]
  /\ paying' \subseteq Handlers /\ paying' \ {w} = paying \ {w}
  /\ changed' \subseteq Orders
  /\ \A o \in changed' \ changed : biller[o] = "none" /\ biller'[o] = "none"

LEMMA TenderMoves ==
  ASSUME BInv, NEW w \in Workers, NEW j \in Job, job' = [job EXCEPT ![w] = j],
         Considerate(w),
         Tends(w, j, status', biller', audit', payload', paying', changed')
  PROVE  Tended'
<1>1. \A v \in Workers : job'[v] = IF v = w THEN j ELSE job[v]
  BY DEF BInv, IInv, TypeOK
<1>2. ASSUME NEW v \in Workers, v # w
      PROVE  Tends(v, job[v], status', biller', audit', payload', paying', changed')
  <2>1. Tends(v, job[v], status, biller, audit, payload, paying, changed) /\ job[v] \in Job
    BY DEF BInv, Tended, IInv, TypeOK
  <2>2. /\ job[v].pc \in {"record", "check", "write"} => job[v].order \in Orders
        /\ v \in paying' <=> v \in paying
    BY <1>2 DEF BInv, IInv, Evidence, Justified, Working, Considerate
  <2>3. v \in Orders =>
          /\ job[v].pc \in {"new", "save", "recordTopup", "ok", "error"}
          /\ job[v].pc \in {"new", "save"} => status'[v] = "absent"
          /\ job[v].pc \in {"save", "recordTopup"} => job[v].goal = "inquiry"
    BY <1>2, <2>1 DEF Tends, Considerate
  <2>4. v \notin Orders /\ job[v].order \in Orders => status'[job[v].order] # "absent"
    BY <2>1 DEF Tends, Considerate
  <2>5. v \in Pollers /\ job[v].order \in Orders => status'[job[v].order] # "inquiry"
    BY <2>1, WorkerAssumption DEF Tends, Considerate
  <2>6. job[v].pc \in {"record", "check", "write"} /\ job[v].goal = "failed" =>
          biller'[job[v].order] = "failed"
    BY <2>1, <2>2 DEF Tends, Considerate
  <2>7. job[v].pc \in {"check", "write"} =>
          /\ job[v].goal \notin {"absent", "inquiry"}
          /\ v \in Handlers \ paying' => job[v].goal \in audit'[job[v].order]
          /\ v \in paying' /\ IsTerminal(job[v].goal) =>
               job[v].order \notin changed' /\ biller'[job[v].order] # "none"
    BY <2>1, <2>2 DEF Tends, Considerate
  <2>8. /\ v \in paying' => job[v].order \in Orders
        /\ v \in Handlers \ paying' /\ job[v].pc = "record" =>
             job[v].goal \in {"absent", payload'[v]}
    BY <1>2, <2>1, <2>2 DEF Tends, Considerate
  <2> QED BY <2>3, <2>4, <2>5, <2>6, <2>7, <2>8 DEF Tends
<1>3. \A o \in Orders : status'[o] = "failed" => biller'[o] = "failed"
  BY DEF BInv, Tended, Considerate
<1> QED BY <1>1, <1>2, <1>3 DEF Tended, Considerate

\* A step that leaves everything the others rely on as it is.
LEMMA QuietlyMoves ==
  ASSUME BInv, NEW w \in Workers, NEW j \in Job, job' = [job EXCEPT ![w] = j],
         UNCHANGED <<status, biller, payload, billVars>>,
         \A o \in Orders : audit[o] \subseteq audit'[o],
         Tends(w, j, status, biller, audit', payload, paying, changed)
  PROVE  Tended'
<1>1. Considerate(w)
  BY DEF Considerate, billVars, BInv, Tended
<1> QED BY <1>1, TenderMoves DEF billVars

\* A worker that returns to its caller.
LEMMA AtRestTends ==
  ASSUME BInv, NEW w \in Workers, NEW pc \in {"ok", "error"}, NEW events
  PROVE  Tends(w, AtRest(pc, job[w].order), status, biller, events, payload, paying, changed)
BY DEF BInv, Tended, Tends, AtRest

-------------------------------------------------------------------------------
(***************************************************************************)
(* The steps taken from PrepaidOrder.                                      *)
(***************************************************************************)

LEMMA SaveOrderTends ==
  ASSUME BInv, NEW o \in Orders, SaveOrder(o), UNCHANGED billVars
  PROVE  Tended'
<1> DEFINE j == [job[o] EXCEPT !.pc = "recordTopup"]
<1>1. /\ o \in Workers /\ o \notin Pollers /\ o \notin Handlers /\ job[o] \in Job
      /\ job[o].pc = "save" /\ UNCHANGED <<biller, audit, payload, paying, changed>>
      /\ Tends(o, job[o], status, biller, audit, payload, paying, changed)
      /\ paying \subseteq Handlers /\ changed \subseteq Orders
  BY WorkerAssumption DEF BInv, Tended, IInv, TypeOK, SaveOrder, At, callerVars, billVars
<1>2. j \in Job /\ j.pc = "recordTopup" /\ j.goal = "inquiry"
  BY <1>1 DEF Job, CallerPCs, Tends
<1>3. job' = [job EXCEPT ![o] = j]
  BY DEF SaveOrder, Goto
<1>4. /\ \A q \in Orders : status'[q] = IF q = o THEN "inquiry" ELSE status[q]
      /\ status[o] = "absent"
  BY <1>1 DEF SaveOrder, Tends, BInv, IInv, TypeOK
<1> HIDE DEF j
<1>5. Considerate(o)
  BY <1>1, <1>4 DEF Considerate
<1>6. Tends(o, j, status', biller', audit', payload', paying', changed')
  BY <1>1, <1>2, <1>4 DEF Tends
<1> QED BY <1>1, <1>2, <1>3, <1>5, <1>6, TenderMoves

LEMMA BillerSettlesTends ==
  ASSUME BInv, NEW o \in Orders, BillerSettles(o), UNCHANGED billVars
  PROVE  Tended'
<1>1. PICK b \in {"success", "failed"} : biller' = [biller EXCEPT ![o] = b]
  BY DEF BillerSettles
<1>2. /\ o \in Workers /\ job[o] \in Job /\ biller[o] = "open"
      /\ UNCHANGED <<status, job, audit, payload, paying, changed>>
      /\ \A q \in Orders : biller'[q] = IF q = o THEN b ELSE biller[q]
      /\ Tends(o, job[o], status, biller, audit, payload, paying, changed)
      /\ paying \subseteq Handlers /\ changed \subseteq Orders /\ o \notin Handlers
  BY <1>1, WorkerAssumption
     DEF BInv, Tended, IInv, TypeOK, BillerSettles, updateVars, billVars
<1>3. job' = [job EXCEPT ![o] = job[o]]
  BY <1>2 DEF BInv, IInv, TypeOK
<1>4. Considerate(o)
  BY <1>2 DEF Considerate
<1>5. Tends(o, job[o], status', biller', audit', payload', paying', changed')
  BY <1>2 DEF Tends
<1> QED BY <1>2, <1>3, <1>4, <1>5, TenderMoves

\* The shared procedure: it writes what its caller has asked for.
LEMMA UpdateTends ==
  ASSUME BInv, NEW w \in Workers, SharedStep(w), UNCHANGED billVars
  PROVE  Tended'
<1> DEFINE o == job[w].order
           new == NextStatus(w)
<1>1. PICK j \in Job : UpdateMove(w, j)
  BY UpdateMoves DEF SharedStep, BInv, IInv
<1>2. UNCHANGED <<biller, audit, payload, paying, changed>>
  BY DEF SharedStep, callerVars, billVars
<1>3. /\ Tends(w, job[w], status, biller, audit, payload, paying, changed) /\ job[w] \in Job
      /\ paying \subseteq Handlers /\ changed \subseteq Orders
  BY DEF BInv, Tended, IInv, TypeOK
<1>4. w \notin Orders
  BY <1>1, <1>3 DEF Tends, UpdateMove, UpdatePCs
<1>5. ASSUME NEW rows,
             o \in Orders => rows[o] # "absent",
             w \in Pollers /\ o \in Orders => rows[o] # "inquiry"
      PROVE  Tends(w, j, rows, biller, audit, payload, paying, changed)
  <2>1. j.order = o /\ j.pc # "record"
    BY <1>1 DEF UpdateMove, UpdatePCs
  <2>2. j.pc \in {"check", "write"} => job[w].pc \in {"check", "write"} /\ j.goal = job[w].goal
    BY <1>1 DEF UpdateMove
  <2> QED BY <1>3, <1>4, <1>5, <2>1, <2>2 DEF Tends
<1>6. CASE status' = status
  <2>1. Tends(w, j, status, biller, audit, payload, paying, changed)
    BY <1>3, <1>4, <1>5 DEF Tends
  <2> QED BY <1>1, <1>2, <1>6, <2>1, QuietlyMoves DEF UpdateMove, billVars
<1>7. CASE job[w].pc = "write" /\ status' = [status EXCEPT ![o] = new]
  <2>1. o \in Orders
    BY <1>7 DEF BInv, IInv, Evidence, Justified, Working
  <2>2. /\ new \notin {"absent", "inquiry"}
        /\ new = "failed" => biller[o] = "failed"
    BY <1>3, <1>7 DEF NextStatus, Tends
  <2>3. status[o] # "absent"
    BY <1>3, <1>4, <2>1 DEF Tends
  <2>4. \A q \in Orders : status'[q] = IF q = o THEN new ELSE status[q]
    BY <1>7 DEF BInv, IInv, TypeOK
  <2>5. Considerate(w)
    BY <1>2, <1>3, <2>2, <2>3, <2>4 DEF Considerate
  <2>6. Tends(w, j, status', biller, audit, payload, paying, changed)
    <3>1. status'[o] \notin {"absent", "inquiry"}
      BY <2>1, <2>2, <2>4
    <3> QED BY <1>5, <3>1
  <2>7. Tends(w, j, status', biller', audit', payload', paying', changed')
    BY <1>2, <2>6
  <2>8. job' = [job EXCEPT ![w] = j]
    BY <1>1 DEF UpdateMove
  <2> HIDE DEF o, new
  <2> QED BY <2>5, <2>7, <2>8, TenderMoves
<1> QED BY <1>1, <1>6, <1>7 DEF UpdateMove

LEMMA FailTends ==
  ASSUME BInv, NEW w \in Workers, Fail(w), UNCHANGED billVars
  PROVE  Tended'
<1>1. PICK j \in Job : /\ job' = [job EXCEPT ![w] = j]
                       /\ j.order = job[w].order
                       /\ \/ j.pc = "error"
                          \/ j.pc = "reread" /\ job[w].pc \in {"readLink", "saveLink"}
  BY FailMoves DEF BInv, IInv
<1>2. UNCHANGED <<status, biller, audit, payload, billVars>>
  BY FailMoves DEF Fail, BInv, IInv
<1>3. Tends(w, job[w], status, biller, audit, payload, paying, changed)
  BY DEF BInv, Tended
<1>4. Tends(w, j, status, biller, audit, payload, paying, changed)
  BY <1>1, <1>3 DEF Tends
<1> QED BY <1>1, <1>2, <1>4, QuietlyMoves

LEMMA ReceiveWebhookTends ==
  ASSUME BInv, NEW h \in Handlers, NEW o \in Orders, NEW k \in Payloads,
         ReceiveWebhook(h, o, k), UNCHANGED billVars
  PROVE  Tended'
<1> DEFINE goal == IF WebhookApplies(status[o], k) THEN k ELSE "absent"
           via == ViaProcessing(status[o], k)
           j == [AtRest("record", o) EXCEPT !.goal = goal, !.via = via]
<1>1. /\ h \in Workers /\ h \notin Orders /\ h \notin Pollers /\ job[h] \in Job
      /\ job[h].pc = "idle" /\ UNCHANGED <<status, biller, audit, paying, changed>>
      /\ Tends(h, job[h], status, biller, audit, payload, paying, changed)
      /\ paying \subseteq Handlers /\ changed \subseteq Orders
      /\ status[o] # "absent" /\ (k = "failed" => biller[o] = "failed")
      /\ k \in WebhookStatus
  BY WorkerAssumption, ConstantAssumption
     DEF BInv, Tended, IInv, TypeOK, ReceiveWebhook, At, billVars, CanBeSent
<1>2. \A g \in Handlers : payload'[g] = IF g = h THEN k ELSE payload[g]
  BY DEF ReceiveWebhook, BInv, IInv, TypeOK
<1>3. via \in BOOLEAN /\ goal \in {"absent", k} /\ goal # "unknown"
  BY DEF ViaProcessing, WebhookApplies
<1>4. job' = [job EXCEPT ![h] = j]
  BY DEF ReceiveWebhook
<1> HIDE DEF goal, via
<1>5. j \in Job /\ j.pc = "record" /\ j.order = o /\ j.goal = goal
  BY <1>1, <1>3 DEF AtRest, Job, CallerPCs, RowStatus, OrderStatus, WebhookStatus
<1> HIDE DEF j
<1>6. Considerate(h)
  BY <1>1, <1>2 DEF Considerate
<1>7. Tends(h, j, status, biller, audit, payload', paying, changed)
  BY <1>1, <1>2, <1>3, <1>5 DEF Tends
<1>8. Tends(h, j, status', biller', audit', payload', paying', changed')
  BY <1>1, <1>7
<1> QED BY <1>1, <1>4, <1>5, <1>6, <1>8, TenderMoves

\* The event is stored before the status is applied.
LEMMA RecordWebhookTends ==
  ASSUME BInv, NEW h \in Handlers, h \notin paying, RecordWebhook(h), UNCHANGED billVars
  PROVE  Tended'
<1> DEFINE o == job[h].order
<1>1. /\ h \in Workers /\ h \notin Orders /\ h \notin Pollers /\ job[h] \in Job
      /\ job[h].pc = "record" /\ o \in Orders
      /\ UNCHANGED <<status, biller, payload, billVars>>
      /\ Tends(h, job[h], status, biller, audit, payload, paying, changed)
      /\ payload[h] \in WebhookStatus /\ TypeOK
  BY WorkerAssumption
     DEF BInv, Tended, IInv, TypeOK, RecordWebhook, At, Evidence, Justified, Working
<1>2. \A q \in Orders : audit'[q] = IF q = o THEN audit[o] \cup {payload[h]} ELSE audit[q]
  BY <1>1 DEF RecordWebhook, TypeOK
<1>3. CASE job[h].goal = "absent" /\ Return(h, "ok")
  <2>1. AtRest("ok", o) \in Job /\ job' = [job EXCEPT ![h] = AtRest("ok", o)]
    BY <1>1, <1>3, ReturnTyped DEF UpdatePCs
  <2>2. Tends(h, AtRest("ok", o), status, biller, audit', payload, paying, changed)
    BY <1>1, AtRestTends
  <2> QED BY <1>1, <1>2, <2>1, <2>2, QuietlyMoves
<1>4. CASE job[h].goal # "absent" /\ Goto(h, "check")
  <2>1. PICK j \in Job : /\ job' = [job EXCEPT ![h] = j]
                         /\ j.order = o /\ j.pc = "check" /\ j.goal = job[h].goal
    BY <1>1, <1>4, GotoShape DEF UpdatePCs
  <2>2. j.goal \in audit'[o] /\ j.goal \notin {"absent", "inquiry"}
    BY <1>1, <1>2, <1>4, <2>1 DEF Tends, WebhookStatus
  <2>3. Tends(h, j, status, biller, audit', payload, paying, changed)
    BY <1>1, <2>1, <2>2 DEF Tends
  <2> QED BY <1>1, <1>2, <2>1, <2>3, QuietlyMoves
<1> QED BY <1>3, <1>4 DEF RecordWebhook

LEMMA AnswerWebhookTends ==
  ASSUME BInv, NEW h \in Handlers, h \notin paying, AnswerWebhook(h), UNCHANGED billVars
  PROVE  Tended'
<1> DEFINE j == AtRest("idle", NoOrder)
<1>1. h \in Workers /\ h \notin Orders /\ h \notin Pollers
  BY WorkerAssumption
<1>2. j \in Job /\ job' = [job EXCEPT ![h] = j]
  BY AtRestTyped DEF AnswerWebhook, CallerPCs
<1>3. \A g \in Handlers \ {h} : payload'[g] = payload[g]
  BY DEF AnswerWebhook, BInv, IInv, TypeOK
<1>4. Considerate(h)
  BY <1>3 DEF Considerate, AnswerWebhook, billVars, BInv, Tended
<1>5. Tends(h, j, status', biller', audit', payload', paying', changed')
  BY <1>1, OrderAssumption DEF Tends, AtRest, AnswerWebhook, billVars
<1> QED BY <1>1, <1>2, <1>4, <1>5, TenderMoves

LEMMA PollTends ==
  ASSUME BInv, NEW p \in Pollers, UNCHANGED billVars,
         \/ StartPoll(p) \/ EndCheck(p) \/ EndPoll(p)
         \/ \E o \in Orders : PollOrder(p, o)
  PROVE  Tended'
<1>1. /\ p \in Workers /\ p \notin Orders /\ p \notin Handlers /\ p \notin paying
      /\ UNCHANGED <<status, biller, payload, billVars>> /\ job[p] \in Job
      /\ Tends(p, job[p], status, biller, audit, payload, paying, changed)
  BY WorkerAssumption
     DEF BInv, Tended, IInv, TypeOK, StartPoll, EndCheck, EndPoll, PollOrder
<1>2. \A o \in Orders : audit[o] \subseteq audit'[o]
  BY DEF StartPoll, EndCheck, EndPoll, PollOrder, BInv, IInv, TypeOK
<1>3. ASSUME NEW pc \in {"next", "idle"}, Goto(p, pc)
      PROVE  Tended'
  <2>1. PICK j \in Job : /\ job' = [job EXCEPT ![p] = j]
                         /\ j.order = job[p].order /\ j.pc = pc
    <3> DEFINE j == [job[p] EXCEPT !.pc = pc]
    <3>1. j \in Job /\ j.order = job[p].order /\ j.pc = pc
      BY <1>1 DEF Job, CallerPCs
    <3>2. job' = [job EXCEPT ![p] = j]
      BY <1>3 DEF Goto
    <3> HIDE DEF j
    <3> QED BY <3>1, <3>2
  <2>2. Tends(p, j, status, biller, audit', payload, paying, changed)
    BY <1>1, <2>1 DEF Tends
  <2> QED BY <1>1, <1>2, <2>1, <2>2, QuietlyMoves
<1>4. CASE job' = [job EXCEPT ![p] = AtRest("next", NoOrder)]
  <2>1. AtRest("next", NoOrder) \in Job
    BY AtRestTyped DEF CallerPCs
  <2>2. Tends(p, AtRest("next", NoOrder), status, biller, audit', payload, paying, changed)
    BY <1>1, OrderAssumption DEF Tends, AtRest
  <2> QED BY <1>1, <1>2, <1>4, <2>1, <2>2, QuietlyMoves
<1>5. ASSUME NEW o \in Orders, IsActive(status[o]),
             job' = [job EXCEPT ![p] = AtRest("ask", o)]
      PROVE  Tended'
  <2>1. AtRest("ask", o) \in Job
    BY AtRestTyped DEF CallerPCs
  <2>2. Tends(p, AtRest("ask", o), status, biller, audit', payload, paying, changed)
    BY <1>1, <1>5 DEF Tends, AtRest, IsActive
  <2> QED BY <1>1, <1>2, <1>5, <2>1, <2>2, QuietlyMoves
<1>6. CASE UNCHANGED job
  <2>1. job' = [job EXCEPT ![p] = job[p]]
    BY <1>6 DEF BInv, IInv, TypeOK
  <2>2. Tends(p, job[p], status, biller, audit', payload, paying, changed)
    BY <1>1 DEF Tends
  <2> QED BY <1>1, <1>2, <2>1, <2>2, QuietlyMoves
<1> QED BY <1>3, <1>4, <1>5, <1>6 DEF StartPoll, EndCheck, EndPoll, PollOrder

LEMMA RestartTends ==
  ASSUME BInv, Restart
  PROVE  Tended'
<1>1. /\ UNCHANGED <<status, biller, audit, changed>> /\ paying' = {}
      /\ job' = [w \in Workers |->
                   IF w \in Orders
                   THEN IF job[w].pc = "new" THEN job[w] ELSE AtRest("error", w)
                   ELSE AtRest("idle", NoOrder)]
  BY DEF Restart, Crash
<1>2. ASSUME NEW w \in Workers
      PROVE  Tends(w, job'[w], status', biller', audit', payload', paying', changed')
  <2>1. Tends(w, job[w], status, biller, audit, payload, paying, changed)
    BY DEF BInv, Tended
  <2>2. CASE w \in Orders /\ job[w].pc = "new"
    BY <1>1, <2>1, <2>2, WorkerAssumption DEF Tends
  <2>3. CASE w \in Orders /\ job[w].pc # "new"
    BY <1>1, <2>3, WorkerAssumption DEF Tends, AtRest
  <2>4. CASE w \notin Orders
    BY <1>1, <2>4, OrderAssumption DEF Tends, AtRest
  <2> QED BY <2>2, <2>3, <2>4
<1>3. /\ paying' \subseteq Handlers /\ changed' \subseteq Orders
      /\ \A o \in Orders : status'[o] = "failed" => biller'[o] = "failed"
  BY <1>1 DEF BInv, Tended
<1> QED BY <1>2, <1>3 DEF Tended

-------------------------------------------------------------------------------
(***************************************************************************)
(* The steps of postpaid orders.                                           *)
(***************************************************************************)

LEMMA InquiryTends ==
  ASSUME BInv, NEW o \in Orders, Inquire(o) \/ RecordInquiry(o)
  PROVE  Tended'
<1>1. /\ o \in Workers /\ o \notin Handlers /\ o \notin Pollers
      /\ job[o] \in Job /\ job[o].order = o /\ TypeOK
      /\ Tends(o, job[o], status, biller, audit, payload, paying, changed)
      /\ paying \subseteq Handlers
  BY WorkerAssumption DEF BInv, Tended, IInv, TypeOK
<1>2. UNCHANGED <<status, biller, payload, billVars>>
  BY DEF Inquire, RecordInquiry, callerVars, billVars
<1>3. \A q \in Orders : audit[q] \subseteq audit'[q]
  BY <1>1 DEF Inquire, RecordInquiry, callerVars, TypeOK
<1>4. ASSUME NEW pc \in {"ok", "error"}, Return(o, pc)
      PROVE  Tended'
  <2>1. AtRest(pc, o) \in Job /\ job' = [job EXCEPT ![o] = AtRest(pc, o)]
    BY <1>1, <1>4, ReturnTyped DEF UpdatePCs
  <2>2. Tends(o, AtRest(pc, o), status, biller, audit', payload, paying, changed)
    BY <1>1, AtRestTends
  <2> QED BY <1>1, <1>2, <1>3, <2>1, <2>2, QuietlyMoves
<1>5. CASE At(o, "new") /\ job' = [job EXCEPT ![o].pc = "save", ![o].goal = "inquiry"]
  <2> DEFINE j == [job[o] EXCEPT !.pc = "save", !.goal = "inquiry"]
  <2>1. j \in Job /\ j.pc = "save" /\ j.goal = "inquiry"
    BY <1>1 DEF Job, CallerPCs, RowStatus, OrderStatus
  <2>2. job' = [job EXCEPT ![o] = j]
    BY <1>1, <1>5 DEF TypeOK
  <2> HIDE DEF j
  <2>3. Tends(o, j, status, biller, audit', payload, paying, changed)
    BY <1>1, <1>5, <2>1 DEF Tends, At
  <2> QED BY <1>1, <1>2, <1>3, <2>1, <2>2, <2>3, QuietlyMoves
<1> QED BY <1>4, <1>5 DEF Inquire, RecordInquiry


LEMMA ExpireTends ==
  ASSUME BInv, NEW o \in Orders, Expire(o), UNCHANGED billVars
  PROVE  Tended'
BY DEF Expire, updateVars, billVars, BInv, Tended

LEMMA BillChangesTends ==
  ASSUME BInv, NEW o \in Orders, BillChanges(o)
  PROVE  Tended'
<1>1. /\ o \in Workers /\ o \notin Handlers /\ job[o] \in Job /\ biller[o] = "none"
      /\ UNCHANGED <<status, job, biller, audit, payload, paying>>
      /\ Tends(o, job[o], status, biller, audit, payload, paying, changed)
      /\ paying \subseteq Handlers /\ changed \subseteq Orders
      /\ changed' = changed \cup {o}
  BY WorkerAssumption
     DEF BInv, Tended, IInv, TypeOK, BillChanges, vars, updateVars, callerVars
<1>2. job' = [job EXCEPT ![o] = job[o]]
  BY <1>1 DEF BInv, IInv, TypeOK
<1>3. Considerate(o)
  BY <1>1 DEF Considerate
<1>4. Tends(o, job[o], status', biller', audit', payload', paying', changed')
  BY <1>1 DEF Tends
<1> QED BY <1>1, <1>2, <1>3, <1>4, TenderMoves

LEMMA ReadForPayTends ==
  ASSUME BInv, NEW h \in Handlers, NEW o \in Orders, ReadForPay(h, o)
  PROVE  Tended'
<1> DEFINE j == AtRest("ask", o)
<1>1. /\ h \in Workers /\ h \notin Orders /\ h \notin Pollers
      /\ status[o] = "inquiry" /\ paying' = paying \cup {h}
      /\ UNCHANGED <<status, biller, audit, payload, changed>>
  BY WorkerAssumption DEF ReadForPay, callerVars
<1>2. j \in Job /\ job' = [job EXCEPT ![h] = j] /\ j.pc = "ask" /\ j.order = o
  BY AtRestTyped DEF ReadForPay, CallerPCs, AtRest
<1> HIDE DEF j
<1>3. Considerate(h)
  BY <1>1 DEF Considerate, BInv, Tended
<1>4. Tends(h, j, status', biller', audit', payload', paying', changed')
  BY <1>1, <1>2 DEF Tends
<1> QED BY <1>1, <1>2, <1>3, <1>4, TenderMoves

\* Only an answer that passes the client is written; it is a success only when it is a receipt.
LEMMA BillMeans ==
  ASSUME NEW reply \in PayReplies, Passes(reply)
  PROVE  /\ StatusOfBill(reply) \in {"success", "processing"}
         /\ StatusOfBill(reply) = "success" => reply = "sukses"
BY DEF Passes, PayReplies, Replies, StatusOfBill, StatusOfReply

LEMMA PayTends ==
  ASSUME BInv, NEW h \in Handlers, NEW reply \in PayReplies, Pay(h, reply)
  PROVE  Tended'
<1> DEFINE o == job[h].order
           goal == StatusOfBill(reply)
<1>1. /\ h \in Workers /\ h \notin Orders /\ h \notin Pollers /\ h \in paying
      /\ job[h] \in Job /\ o \in Orders /\ TypeOK
      /\ UNCHANGED <<status, audit, payload, paying, changed>>
      /\ Tends(h, job[h], status, biller, audit, payload, paying, changed)
      /\ paying \subseteq Handlers /\ changed \subseteq Orders
  BY WorkerAssumption
     DEF BInv, Tended, IInv, TypeOK, Pay, At, Evidence, Justified, Working
<1>2. PICK b \in BillerStates :
        /\ biller[o] # "none" => b = biller[o]
        /\ reply \in Answers(b) \cup {"lost", "empty"}
        /\ biller' = [biller EXCEPT ![o] = b]
  BY DEF Pay, PayPasca
<1>3. \A q \in Orders : biller'[q] = IF q = o THEN b ELSE biller[q]
  BY <1>1, <1>2 DEF TypeOK
<1>4. Considerate(h)
  BY <1>1, <1>2, <1>3 DEF Considerate
<1>5. \E j \in Job : /\ job' = [job EXCEPT ![h] = j] /\ j.order = o
                     /\ \/ j.pc \in {"error", "record"} /\ j.goal = "absent"
                        \/ /\ j.pc = "write" /\ j.goal = goal
                           /\ Passes(reply) /\ AmountAgrees(o, reply)
  <2>1. CASE Return(h, "error") \/ Return(h, "record")
    <3>1. PICK pc \in {"error", "record"} : Return(h, pc)
      BY <2>1
    <3>2. AtRest(pc, o) \in Job /\ job' = [job EXCEPT ![h] = AtRest(pc, o)]
      BY <1>1, <3>1, ReturnTyped DEF UpdatePCs, CallerPCs
    <3> QED BY <3>2 DEF AtRest
  <2>2. CASE /\ Passes(reply) /\ AmountAgrees(o, reply)
             /\ job' = [job EXCEPT ![h] = [AtRest("write", o) EXCEPT !.goal = goal]]
    <3> DEFINE j == [AtRest("write", o) EXCEPT !.goal = goal]
    <3>1. goal \in RowStatus
      BY BillStatusTyped
    <3>2. j \in Job /\ j.order = o /\ j.pc = "write" /\ j.goal = goal
      <4> HIDE DEF goal
      <4> QED BY <1>1, <3>1 DEF AtRest, Job, UpdatePCs
    <3>3. job' = [job EXCEPT ![h] = j]
      BY <2>2
    <3> HIDE DEF j
    <3> QED BY <2>2, <3>2, <3>3
  <2> QED BY <2>1, <2>2 DEF Pay
<1>6. PICK j \in Job : /\ job' = [job EXCEPT ![h] = j] /\ j.order = o
                       /\ \/ j.pc \in {"error", "record"} /\ j.goal = "absent"
                          \/ /\ j.pc = "write" /\ j.goal = goal
                             /\ Passes(reply) /\ AmountAgrees(o, reply)
  BY <1>5
<1>7. Passes(reply) => goal \in {"success", "processing"} /\ (goal = "success" => reply = "sukses")
  BY BillMeans
<1>8. reply = "sukses" => b = "success"
  BY <1>2 DEF Answers, BillerStates
<1>9. j.pc = "write" /\ IsTerminal(j.goal) => o \notin changed /\ biller'[o] # "none"
  BY <1>1, <1>3, <1>6, <1>7, <1>8 DEF IsTerminal, AmountAgrees
<1> HIDE DEF goal
<1>10. Tends(h, j, status', biller', audit', payload', paying', changed')
  BY <1>1, <1>6, <1>7, <1>9 DEF Tends
<1> QED BY <1>1, <1>4, <1>6, <1>10, TenderMoves

LEMMA RefuseAmountTends ==
  ASSUME BInv, NEW h \in Handlers, RefuseAmount(h)
  PROVE  Tended'
<1>1. /\ h \in Workers /\ job[h] \in Job
      /\ UNCHANGED <<status, biller, payload, billVars>>
      /\ \A q \in Orders : audit[q] \subseteq audit'[q]
  BY WorkerAssumption DEF BInv, IInv, TypeOK, RefuseAmount
<1>2. AtRest("error", job[h].order) \in Job
      /\ job' = [job EXCEPT ![h] = AtRest("error", job[h].order)]
  BY <1>1, ReturnTyped DEF UpdatePCs, RefuseAmount, BInv, IInv
<1>3. Tends(h, AtRest("error", job[h].order), status, biller, audit', payload, paying, changed)
  BY <1>1, AtRestTends
<1> QED BY <1>1, <1>2, <1>3, QuietlyMoves

LEMMA AnswerPayTends ==
  ASSUME BInv, NEW h \in Handlers, AnswerPay(h)
  PROVE  Tended'
<1> DEFINE j == AtRest("idle", NoOrder)
<1>1. /\ h \in Workers /\ h \notin Orders /\ h \notin Pollers /\ paying' = paying \ {h}
      /\ UNCHANGED <<status, biller, payload, changed>>
  BY WorkerAssumption DEF AnswerPay
<1>2. \A q \in Orders : audit[q] \subseteq audit'[q]
  BY DEF AnswerPay, BInv, IInv, TypeOK
<1>3. j \in Job /\ job' = [job EXCEPT ![h] = j]
  BY AtRestTyped DEF AnswerPay, CallerPCs
<1>4. Considerate(h)
  BY <1>1, <1>2 DEF Considerate, BInv, Tended
<1>5. Tends(h, j, status', biller', audit', payload', paying', changed')
  BY <1>1, OrderAssumption DEF Tends, AtRest
<1> QED BY <1>1, <1>3, <1>4, <1>5, TenderMoves

LEMMA AskBillTends ==
  ASSUME BInv, NEW p \in Pollers, NEW reply \in PayReplies, AskBill(p, reply)
  PROVE  Tended'
<1> DEFINE o == job[p].order
           goal == StatusOfBill(reply)
<1>1. /\ p \in Workers /\ p \notin Orders /\ p \notin Handlers /\ p \notin paying
      /\ job[p] \in Job /\ o \in Orders /\ TypeOK
      /\ UNCHANGED <<status, biller, audit, payload, billVars>>
      /\ Tends(p, job[p], status, biller, audit, payload, paying, changed)
  BY WorkerAssumption
     DEF BInv, Tended, IInv, TypeOK, AskBill, At, Evidence, Justified, Working, billVars
<1>2. ASSUME NEW pc \in {"ok", "error"}, Return(p, pc)
      PROVE  Tended'
  <2>1. AtRest(pc, o) \in Job /\ job' = [job EXCEPT ![p] = AtRest(pc, o)]
    BY <1>1, <1>2, ReturnTyped DEF UpdatePCs
  <2>2. Tends(p, AtRest(pc, o), status, biller, audit', payload, paying, changed)
    BY <1>1, AtRestTends
  <2>3. \A q \in Orders : audit[q] \subseteq audit'[q]
    BY <1>1
  <2> QED BY <1>1, <2>1, <2>2, <2>3, QuietlyMoves
<1>3. CASE /\ Passes(reply)
           /\ job' = [job EXCEPT ![p] = [AtRest("write", o) EXCEPT !.goal = goal]]
  <2> DEFINE j == [AtRest("write", o) EXCEPT !.goal = goal]
  <2>1. goal \in RowStatus
    BY BillStatusTyped
  <2>2. goal \in {"success", "processing"}
    BY <1>3, BillMeans
  <2>3. j \in Job /\ j.order = o /\ j.pc = "write" /\ j.goal = goal
    <3> HIDE DEF goal
    <3> QED BY <1>1, <2>1 DEF AtRest, Job, UpdatePCs
  <2>4. job' = [job EXCEPT ![p] = j]
    BY <1>3
  <2> HIDE DEF goal, j
  <2>5. Tends(p, j, status, biller, audit', payload, paying, changed)
    BY <1>1, <2>2, <2>3 DEF Tends
  <2>6. \A q \in Orders : audit[q] \subseteq audit'[q]
    BY <1>1
  <2> QED BY <1>1, <2>3, <2>4, <2>5, <2>6, QuietlyMoves
<1> QED BY <1>2, <1>3 DEF AskBill

LEMMA BillNextTends ==
  ASSUME BInv, [BillNext]_allVars
  PROVE  Tended'
<1>1. ASSUME NEW o \in Orders, \/ InquiryStep(o) \/ BillChanges(o)
                               \/ (BillerSettles(o) \/ Expire(o)) /\ UNCHANGED billVars
      PROVE  Tended'
  BY <1>1, InquiryTends, SaveOrderTends, BillChangesTends, BillerSettlesTends, ExpireTends
     DEF InquiryStep
<1>2. ASSUME NEW h \in Handlers,
             \/ PayStep(h) \/ WebhookStep(h)
             \/ \E o \in Orders : ReadForPay(h, o)
             \/ \E o \in Orders, k \in Payloads : ReceiveWebhook(h, o, k) /\ UNCHANGED billVars
      PROVE  Tended'
  BY <1>2, PayTends, RefuseAmountTends, AnswerPayTends, ReadForPayTends, ReceiveWebhookTends,
     RecordWebhookTends, AnswerWebhookTends DEF PayStep, WebhookStep
<1>3. ASSUME NEW p \in Pollers, CheckStep(p)
      PROVE  Tended'
  BY <1>3, PollTends, AskBillTends DEF CheckStep
<1>4. ASSUME NEW w \in Workers, (SharedStep(w) \/ Fail(w)) /\ UNCHANGED billVars
      PROVE  Tended'
  BY <1>4, UpdateTends, FailTends
<1>5. CASE Restart
  BY <1>5, RestartTends
<1>6. CASE UNCHANGED allVars
  BY <1>6 DEF allVars, vars, updateVars, callerVars, billVars, BInv, Tended
<1> QED BY <1>1, <1>2, <1>3, <1>4, <1>5, <1>6 DEF BillNext

LEMMA BillInitTended ==
  ASSUME BillInit
  PROVE  Tended
<1> SUFFICES ASSUME NEW w \in Workers
             PROVE  Tends(w, job[w], status, biller, audit, payload, paying, changed)
  BY DEF Tended, BillInit, Init
<1>1. CASE w \in Orders
  BY <1>1, WorkerAssumption DEF BillInit, Init, AtRest, Tends
<1>2. CASE w \notin Orders
  BY <1>2, OrderAssumption DEF BillInit, Init, AtRest, Tends
<1> QED BY <1>1, <1>2

LEMMA TendedAlways == BillSpec => []BInv
<1>1. BillInit => BInv
  BY InitEstablishes, BillInitTended DEF BillInit, BInv
<1>2. BInv /\ [BillNext]_allVars => BInv'
  BY BillNextKeeps, BillNextTends DEF BInv
<1> QED BY <1>1, <1>2, PTL DEF BillSpec

\* Every variable keeps its type.
THEOREM BillTypeCorrect == BillSpec => []BillTypeOK
<1>1. BInv => BillTypeOK
  BY WorkerAssumption DEF BInv, IInv, Tended, Tends, BillTypeOK
<1> QED BY <1>1, TendedAlways, PTL

\* A postpaid order is shown as failed only when the biller has no payment of its bill that
\* is or may become successful.  The client turns every refusal into an error, so that, other
\* than for prepaid orders, nothing is assumed of how status checks are answered.
THEOREM BillFailedIsReal == BillSpec => []FailedIsReal
<1>1. BInv => FailedIsReal
  BY DEF BInv, Tended, FailedIsReal
<1> QED BY <1>1, TendedAlways, PTL

\* A bill whose amount has changed since the inquiry does not make its order successful
\* or failed by the request that pays it: out of inquiry, only a webhook does.
THEOREM ChangedIsRefusedAlways == BillSpec => ChangedIsRefused
<1>1. ASSUME BInv, [BillNext]_allVars, NEW o \in changed,
             status[o] = "inquiry", IsTerminal(status'[o])
      PROVE  status'[o] \in audit[o]
  <2>1. o \in Orders /\ status' # status
    BY <1>1 DEF BInv, Tended, IsTerminal
  <2>2. CASE \E q \in Orders : SaveOrder(q)
    <3>1. PICK q \in Orders : SaveOrder(q)
      BY <2>2
    <3>2. job[q].goal = "inquiry"
      <4>1. q \in Workers /\ job[q].pc = "save"
        BY <3>1, WorkerAssumption DEF SaveOrder, At
      <4>2. Tends(q, job[q], status, biller, audit, payload, paying, changed)
        BY <1>1, <4>1 DEF BInv, Tended
      <4> QED BY <4>1, <4>2 DEF Tends
    <3>3. status'[o] = status[o] \/ status'[o] = "inquiry"
      BY <2>1, <3>1, <3>2 DEF SaveOrder, BInv, IInv, TypeOK
    <3> QED BY <1>1, <3>3 DEF IsTerminal
  <2>3. CASE \E w \in Workers : UpdateStep(w)
    <3>1. PICK w \in Workers : UpdateStep(w)
      BY <2>3
    <3>2. PICK j \in Job : UpdateMove(w, j)
      BY <1>1, <3>1, UpdateMoves DEF BInv, IInv
    <3>3. /\ job[w].pc = "write"
          /\ status' = [status EXCEPT ![job[w].order] = NextStatus(w)]
      BY <2>1, <3>2 DEF UpdateMove
    <3>4. job[w].order = o /\ status'[o] = job[w].goal
      BY <1>1, <2>1, <3>3 DEF NextStatus, IsTerminal, BInv, IInv, TypeOK
    <3>5. Tends(w, job[w], status, biller, audit, payload, paying, changed)
      BY <1>1 DEF BInv, Tended
    <3>6. w \in Handlers \ paying
      BY <1>1, <2>1, <3>3, <3>4, <3>5, WorkerAssumption DEF Tends
    <3> QED BY <3>3, <3>4, <3>5, <3>6 DEF Tends
  <2>4. \/ \E q \in Orders : SaveOrder(q)
        \/ \E w \in Workers : UpdateStep(w)
        \/ UNCHANGED status
    BY <1>1 DEF BillNext, InquiryStep, Inquire, RecordInquiry, BillChanges, BillerSettles, Expire,
         PayStep, RefuseAmount, AnswerPay, Pay, WebhookStep, RecordWebhook, AnswerWebhook,
         ReadForPay, ReceiveWebhook, CheckStep, StartPoll, EndCheck, EndPoll, PollOrder,
         AskBill, SharedStep, Fail, CallFails, CreateFailsAfterCommit, Restart, Crash,
         allVars, vars, updateVars
  <2> QED BY <2>1, <2>2, <2>3, <2>4
<1>2. BInv /\ [BillNext]_allVars =>
        (\A o \in changed :
           status[o] = "inquiry" /\ IsTerminal(status'[o]) => status'[o] \in audit[o])
  BY <1>1
<1> QED BY <1>2, TendedAlways, PTL DEF BillSpec, ChangedIsRefused

-------------------------------------------------------------------------------
(***************************************************************************)
(* Paid bills are booked.                                                  *)
(***************************************************************************)

LEMMA BillNextBooked ==
  ASSUME BInv, Booked, [BillNext]_allVars
  PROVE  Booked'
<1>0. IInv /\ TypeOK
  BY DEF BInv, IInv
<1>1. ASSUME NEW o \in Orders, SaveOrder(o)
      PROVE  Booked'
  BY <1>0, <1>1, OrderBooked DEF OrderStep
\* The request of the inquiry ends without a link: it has not written success.
<1>2. ASSUME NEW o \in Orders, Inquire(o) \/ RecordInquiry(o)
      PROVE  Booked'
  <2>1. o \in Workers /\ UNCHANGED <<status, txn, faults>>
    BY <1>2, WorkerAssumption DEF Inquire, RecordInquiry, callerVars
  <2>2. ~Finisher(job[o])
    BY <1>2, <2>1 DEF Inquire, RecordInquiry, At, Finisher, BInv, Tended, Tends
  <2>3. \E j : job' = [job EXCEPT ![o] = j]
    <3>1. CASE job' = [job EXCEPT ![o].pc = "save", ![o].goal = "inquiry"]
      <4>1. job' = [job EXCEPT ![o] = [job[o] EXCEPT !.pc = "save", !.goal = "inquiry"]]
        BY <1>0, <2>1, <3>1 DEF TypeOK
      <4> QED BY <4>1
    <3> QED BY <1>2, <3>1 DEF Inquire, RecordInquiry, Return
  <2> QED BY <1>0, <2>1, <2>2, <2>3, IdleMoves
<1>3. ASSUME NEW h \in Handlers, PayStep(h) \/ \E o \in Orders : ReadForPay(h, o)
      PROVE  Booked'
  <2>1. \E j : job' = [job EXCEPT ![h] = j]
    BY <1>3 DEF PayStep, RefuseAmount, AnswerPay, Pay, ReadForPay, Return
  <2>2. UNCHANGED <<status, txn, faults>> /\ ~Finisher(job[h])
    BY <1>3 DEF PayStep, RefuseAmount, AnswerPay, Pay, ReadForPay, At, Finisher, callerVars
  <2> QED BY <1>0, <2>1, <2>2, IdleMoves, WorkerAssumption
<1>4. ASSUME NEW p \in Pollers, NEW reply \in PayReplies, AskBill(p, reply)
      PROVE  Booked'
  <2>1. \E j : job' = [job EXCEPT ![p] = j]
    BY <1>4 DEF AskBill, Return
  <2>2. UNCHANGED <<status, txn, faults>> /\ ~Finisher(job[p])
    BY <1>4 DEF AskBill, At, Finisher
  <2> QED BY <1>0, <2>1, <2>2, IdleMoves, WorkerAssumption
<1>5. CASE \/ \E h \in Handlers :
                \/ RecordWebhook(h) \/ AnswerWebhook(h)
                \/ \E o \in Orders, k \in Payloads : ReceiveWebhook(h, o, k)
           \/ \E p \in Pollers :
                \/ StartPoll(p) \/ EndCheck(p) \/ EndPoll(p)
                \/ \E o \in Orders : PollOrder(p, o)
           \/ \E w \in Workers : SharedStep(w) \/ Fail(w)
           \/ \E o \in Orders : BillerSettles(o) \/ Expire(o)
           \/ Crash
           \/ UNCHANGED vars
  <2>1. [Next]_vars
    BY <1>5 DEF Next, PollStep
  <2> QED BY <1>0, <2>1, NextBooked
<1>6. CASE \E o \in Orders : BillChanges(o)
  <2>1. [Next]_vars
    BY <1>6 DEF BillChanges
  <2> QED BY <1>0, <2>1, NextBooked
<1> QED BY <1>1, <1>2, <1>3, <1>4, <1>5, <1>6
        DEF BillNext, InquiryStep, WebhookStep, CheckStep, Restart, allVars

\* While no call has failed, a successful postpaid order nobody is working on any more is
\* linked to an expense: whoever of the payment, webhooks and polls wrote success last.
THEOREM BillSuccessIsBooked == BillSpec => []SuccessIsBooked
<1>1. BillInit => Booked
  BY DEF BillInit, Init, Booked
<1>2. BInv /\ Booked /\ [BillNext]_allVars => Booked'
  BY BillNextBooked
<1>3. Booked => SuccessIsBooked
  BY DEF Booked, Finisher, SuccessIsBooked, Quiet
<1> QED BY <1>1, <1>2, <1>3, TendedAlways, PTL DEF BillSpec

===============================================================================
