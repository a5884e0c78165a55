-------------------------- MODULE PrepaidOrderProofs ---------------------------
(***************************************************************************)
(* Proofs about PrepaidOrder, for any number of orders, webhook requests,  *)
(* pollers, failing calls and crashes.  Each part strengthens what it      *)
(* proves by what the workers remember, without which nothing is           *)
(* inductive:                                                              *)
(*   IInv     success is true wherever it is about to be written (Evidence)*)
(*   Orderly  failure is true wherever it is about to be written, and who  *)
(*            may work on an order that has no row or no purchase (Care)   *)
(*   Placed   where the request that buys leaves a row behind              *)
(*   Booked   a successful order that is not linked has a worker that will *)
(*   Sole     without webhooks one worker at a time writes or ends an      *)
(*            order; the refinement of OrderLifecycle rests on it          *)
(***************************************************************************)
EXTENDS PrepaidOrder, FiniteSetTheorems, TLAPS

IInv == TypeOK /\ SuccessIsReal /\ ExpenseIsReal /\ LinkIsSound /\ Evidence

\* What no step may undo: a delivered purchase and the expenses already created.
WorldGrows ==
  /\ \A o \in Orders : biller[o] = "success" => biller'[o] = "success"
  /\ Len(ledger) <= Len(ledger')
  /\ \A t \in 1 .. Len(ledger) : ledger'[t] = ledger[t]

-------------------------------------------------------------------------------

\* What justifies a worker keeps justifying it while it does not move.
LEMMA JustifiedStays ==
  ASSUME NEW j \in Job, WorldGrows, Justified(j, biller, ledger),
         ledger \in Seq(Orders), ledger' \in Seq(Orders)
  PROVE  Justified(j, biller', ledger')
<1>1. j.pc \in Working => j.order \in Orders
  BY DEF Justified
<1>2. j.pc \in Working \ {"ask"} /\ (j.goal = "success" \/ j.pc \in Finalizing)
        => biller'[j.order] = "success"
  BY DEF Justified, WorldGrows, Working
<1>3. j.pc \in {"readLink", "saveLink"}
        => /\ j.txn \in 1 .. Len(ledger')
           /\ Signature[ledger'[j.txn]] = Signature[j.order]
  <2> SUFFICES ASSUME j.pc \in {"readLink", "saveLink"}
               PROVE  /\ j.txn \in 1 .. Len(ledger')
                      /\ Signature[ledger'[j.txn]] = Signature[j.order]
    OBVIOUS
  <2>1. /\ j.txn \in 1 .. Len(ledger)
        /\ Signature[ledger[j.txn]] = Signature[j.order]
    BY DEF Justified
  <2>2. Len(ledger) \in Nat /\ Len(ledger') \in Nat
    OBVIOUS
  <2> QED BY <2>1, <2>2 DEF WorldGrows
<1> QED BY <1>1, <1>2, <1>3 DEF Justified

\* When one worker moves, Evidence is a matter of that worker.
LEMMA OneMoves ==
  ASSUME TypeOK, TypeOK', WorldGrows, Evidence,
         NEW w \in Workers, NEW j \in Job,
         job' = [job EXCEPT ![w] = j], Justified(j, biller', ledger')
  PROVE  Evidence'
<1> SUFFICES ASSUME NEW v \in Workers PROVE Justified(job'[v], biller', ledger')
  BY DEF Evidence
<1>1. CASE v = w
  BY <1>1 DEF TypeOK
<1>2. CASE v # w
  BY <1>2, JustifiedStays DEF Evidence, TypeOK
<1> QED BY <1>1, <1>2

\* A worker that keeps its order keeps the types.
LEMMA JobTyped ==
  ASSUME TypeOK, NEW w \in Workers, NEW j \in Job, j.order = job[w].order,
         job' = [job EXCEPT ![w] = j]
  PROVE  /\ job' \in [Workers -> Job]
         /\ \A o \in Orders : job'[o].order = o
<1>1. \A v \in Workers : job'[v] = IF v = w THEN j ELSE job[v]
  BY DEF TypeOK
<1> QED BY <1>1, WorkerAssumption DEF TypeOK

\* The two ways in which the shared procedure moves a worker.
LEMMA GotoTyped ==
  ASSUME TypeOK, NEW w \in Workers, NEW pc \in UpdatePCs \cup CallerPCs, Goto(w, pc)
  PROVE  /\ job' = [job EXCEPT ![w] = [job[w] EXCEPT !.pc = pc]]
         /\ [job[w] EXCEPT !.pc = pc] \in Job
         /\ job' \in [Workers -> Job]
         /\ \A o \in Orders : job'[o].order = o
<1>1. job[w] \in Job
  BY DEF TypeOK
<1>2. [job[w] EXCEPT !.pc = pc] \in Job
  BY <1>1 DEF Job
<1>3. job' = [job EXCEPT ![w] = [job[w] EXCEPT !.pc = pc]]
  BY DEF Goto
<1>4. [job[w] EXCEPT !.pc = pc].order = job[w].order
  BY <1>1 DEF Job
<1> QED BY <1>2, <1>3, <1>4, WorkerAssumption DEF TypeOK

LEMMA AtRestTyped ==
  ASSUME NEW pc \in UpdatePCs \cup CallerPCs, NEW o \in Orders \cup {NoOrder}
  PROVE  AtRest(pc, o) \in Job
  BY DEF AtRest, Job, RowStatus

LEMMA ReturnTyped ==
  ASSUME TypeOK, NEW w \in Workers, NEW pc \in UpdatePCs \cup CallerPCs, Return(w, pc)
  PROVE  /\ job' = [job EXCEPT ![w] = AtRest(pc, job[w].order)]
         /\ AtRest(pc, job[w].order) \in Job
         /\ job' \in [Workers -> Job]
         /\ \A o \in Orders : job'[o].order = o
<1>1. job[w].order \in Orders \cup {NoOrder}
  BY DEF TypeOK, Job
<1>2. AtRest(pc, job[w].order) \in Job
  BY <1>1, AtRestTyped
<1>3. AtRest(pc, job[w].order).order = job[w].order
  BY DEF AtRest
<1> QED BY <1>2, <1>3, WorkerAssumption DEF TypeOK, Return

\* The other invariants depend on the rows, the ledger and the biller only.
LEMMA RowsUntouched ==
  ASSUME IInv, WorldGrows, UNCHANGED <<status, txn, ledger>>
  PROVE  SuccessIsReal' /\ ExpenseIsReal' /\ LinkIsSound'
<1>1. \A t \in 1 .. Len(ledger) : ledger[t] \in Orders
  BY DEF IInv, TypeOK
<1> QED BY <1>1 DEF IInv, SuccessIsReal, ExpenseIsReal, LinkIsSound, WorldGrows

LEMMA WorkerMoves ==
  ASSUME IInv, TypeOK', WorldGrows, UNCHANGED <<status, txn, ledger>>,
         NEW w \in Workers, NEW j \in Job,
         job' = [job EXCEPT ![w] = j], Justified(j, biller', ledger')
  PROVE  IInv'
  BY OneMoves, RowsUntouched DEF IInv

\* A step that only moves one worker keeps the invariant if the worker is justified
\* where it goes; on its way back to its caller it needs nothing.
LEMMA GotoKeeps ==
  ASSUME IInv, NEW w \in Workers, NEW pc \in UpdatePCs \cup CallerPCs, Goto(w, pc),
         UNCHANGED <<status, txn, ledger, deleted, callerVars>>,
         Justified([job[w] EXCEPT !.pc = pc], biller, ledger)
  PROVE  IInv'
<1>1. TypeOK'
  BY GotoTyped DEF IInv, TypeOK, callerVars
<1>2. WorldGrows
  BY DEF WorldGrows, callerVars
<1> QED BY <1>1, <1>2, GotoTyped, WorkerMoves DEF IInv, callerVars

LEMMA ReturnKeeps ==
  ASSUME IInv, NEW w \in Workers, NEW pc \in {"ok", "error"}, Return(w, pc),
         UNCHANGED <<status, txn, ledger, deleted, callerVars>>
  PROVE  IInv'
<1>1. TypeOK'
  BY ReturnTyped DEF IInv, TypeOK, callerVars, UpdatePCs
<1>2. WorldGrows
  BY DEF WorldGrows, callerVars
<1>3. Justified(AtRest(pc, job[w].order), biller', ledger')
  BY DEF Justified, AtRest, Working, Finalizing
<1> QED BY <1>1, <1>2, <1>3, ReturnTyped, WorkerMoves DEF IInv, UpdatePCs

-------------------------------------------------------------------------------
(***************************************************************************)
(* The shared procedure.                                                   *)
(***************************************************************************)

LEMMA CheckTransitionKeeps ==
  ASSUME IInv, NEW w \in Workers, CheckTransition(w), UNCHANGED callerVars
  PROVE  IInv'
<1>1. CASE Goto(w, "write")
  <2>1. Justified([job[w] EXCEPT !.pc = "write"], biller, ledger)
    BY DEF IInv, Evidence, TypeOK, Job, CheckTransition, At, Justified, Working, Finalizing
  <2> QED BY <1>1, <2>1, GotoKeeps DEF CheckTransition, UpdatePCs
<1>2. CASE Return(w, "error")
  BY <1>2, ReturnKeeps DEF CheckTransition
<1> QED BY <1>1, <1>2 DEF CheckTransition

LEMMA ReadLatestKeeps ==
  ASSUME IInv, NEW w \in Workers, ReadLatest(w), UNCHANGED callerVars
  PROVE  IInv'
<1>1. CASE Goto(w, "find")
  <2>1. Justified([job[w] EXCEPT !.pc = "find"], biller, ledger)
    BY DEF IInv, Evidence, TypeOK, Job, ReadLatest, At, Justified, Working, Finalizing
  <2> QED BY <1>1, <2>1, GotoKeeps DEF ReadLatest, UpdatePCs
<1>2. CASE Return(w, "ok")
  BY <1>2, ReturnKeeps DEF ReadLatest
<1> QED BY <1>1, <1>2 DEF ReadLatest

LEMMA ReadLinkKeeps ==
  ASSUME IInv, NEW w \in Workers, ReadLink(w), UNCHANGED callerVars
  PROVE  IInv'
<1>1. CASE Goto(w, "saveLink")
  <2>1. Justified([job[w] EXCEPT !.pc = "saveLink"], biller, ledger)
    BY DEF IInv, Evidence, TypeOK, Job, ReadLink, At, Justified, Working, Finalizing
  <2> QED BY <1>1, <2>1, GotoKeeps DEF ReadLink, UpdatePCs
<1>2. CASE Return(w, "ok")
  BY <1>2, ReturnKeeps DEF ReadLink
<1> QED BY <1>1, <1>2 DEF ReadLink

LEMMA RereadKeeps ==
  ASSUME IInv, NEW w \in Workers, Reread(w), UNCHANGED callerVars
  PROVE  IInv'
<1>1. CASE Goto(w, "findAgain")
  <2>1. Justified([job[w] EXCEPT !.pc = "findAgain"], biller, ledger)
    BY DEF IInv, Evidence, TypeOK, Job, Reread, At, Justified, Working, Finalizing
  <2> QED BY <1>1, <2>1, GotoKeeps DEF Reread, UpdatePCs
<1>2. CASE Return(w, "ok")
  BY <1>2, ReturnKeeps DEF Reread
<1> QED BY <1>1, <1>2 DEF Reread

\* Both searches: whatever expense is found pays for the same thing.
LEMMA FoundKeeps ==
  ASSUME IInv, NEW w \in Workers, job[w].pc \in {"find", "findAgain"},
         NEW t \in Matching(job[w].order),
         job' = [job EXCEPT ![w].pc = "readLink", ![w].txn = t],
         UNCHANGED <<status, txn, ledger, deleted, callerVars>>
  PROVE  IInv'
<1> DEFINE j == [job[w] EXCEPT !.pc = "readLink", !.txn = t]
<1>1. job[w] \in Job /\ ledger \in Seq(Orders) /\ Len(ledger) \in Nat
  BY DEF IInv, TypeOK
<1>2. t \in Nat /\ t \in 1 .. Len(ledger) /\ Signature[ledger[t]] = Signature[job[w].order]
  BY <1>1 DEF Matching
<1>3. j \in Job /\ j.order = job[w].order /\ j.pc = "readLink" /\ j.txn = t
  BY <1>1, <1>2 DEF Job, UpdatePCs
<1>4. job' = [job EXCEPT ![w] = j]
  BY <1>1 DEF IInv, TypeOK
<1>5. TypeOK'
  <2> HIDE DEF j
  <2>1. job' \in [Workers -> Job] /\ \A o \in Orders : job'[o].order = o
    BY <1>3, <1>4, JobTyped DEF IInv
  <2> QED BY <2>1 DEF IInv, TypeOK, callerVars
<1>6. WorldGrows
  BY DEF WorldGrows, callerVars
<1>7. Justified(job[w], biller, ledger)
  BY DEF IInv, Evidence
<1>8. Justified(j, biller', ledger')
  BY <1>2, <1>3, <1>7 DEF Justified, Working, Finalizing, callerVars
<1> QED BY <1>3, <1>4, <1>5, <1>6, <1>8, WorkerMoves

LEMMA FindExpenseKeeps ==
  ASSUME IInv, NEW w \in Workers, FindExpense(w), UNCHANGED callerVars
  PROVE  IInv'
<1>1. CASE Goto(w, "create")
  <2>1. Justified([job[w] EXCEPT !.pc = "create"], biller, ledger)
    BY DEF IInv, Evidence, TypeOK, Job, FindExpense, At, Justified, Working, Finalizing
  <2> QED BY <1>1, <2>1, GotoKeeps DEF FindExpense, UpdatePCs
<1>2. CASE \E t \in Matching(job[w].order) :
             job' = [job EXCEPT ![w].pc = "readLink", ![w].txn = t]
  BY <1>2, FoundKeeps DEF FindExpense, At
<1> QED BY <1>1, <1>2 DEF FindExpense

LEMMA FindAgainKeeps ==
  ASSUME IInv, NEW w \in Workers, FindAgain(w), UNCHANGED callerVars
  PROVE  IInv'
<1>1. CASE Return(w, "error")
  BY <1>1, ReturnKeeps DEF FindAgain
<1>2. CASE \E t \in Matching(job[w].order) :
             job' = [job EXCEPT ![w].pc = "readLink", ![w].txn = t]
  BY <1>2, FoundKeeps DEF FindAgain, At
<1> QED BY <1>1, <1>2 DEF FindAgain

LEMMA WriteStatusKeeps ==
  ASSUME IInv, NEW w \in Workers, WriteStatus(w), UNCHANGED callerVars
  PROVE  IInv'
<1> DEFINE o == job[w].order
           new == NextStatus(w)
<1>1. /\ job[w] \in Job /\ job[w].pc = "write" /\ o \in Orders
      /\ job[w].goal = "success" => biller[o] = "success"
  BY DEF IInv, TypeOK, Evidence, Justified, Working, Finalizing, WriteStatus, At
<1>2. new \in RowStatus /\ (new = "success" => biller[o] = "success")
  BY <1>1 DEF NextStatus, Job, RowStatus, OrderStatus
<1>3. status' = [status EXCEPT ![o] = new]
  BY DEF WriteStatus
<1> HIDE DEF new
<1>4. \E j \in Job : /\ job' = [job EXCEPT ![w] = j]
                     /\ j.order = o
                     /\ Justified(j, biller, ledger)
  <2>1. CASE job[w].via /\ job' = [job EXCEPT ![w].pc = "check", ![w].via = FALSE]
    <3> DEFINE j == [job[w] EXCEPT !.pc = "check", !.via = FALSE]
    <3>1. j \in Job /\ j.order = o /\ j.pc = "check" /\ j.goal = job[w].goal
      BY <1>1 DEF Job, UpdatePCs
    <3>2. Justified(j, biller, ledger)
      BY <1>1, <3>1 DEF Justified, Working, Finalizing
    <3>3. job' = [job EXCEPT ![w] = j]
      BY <2>1 DEF IInv, TypeOK
    <3> QED BY <3>1, <3>2, <3>3
  <2>2. CASE job[w].goal = "success" /\ Goto(w, "latest")
    <3> DEFINE j == [job[w] EXCEPT !.pc = "latest"]
    <3>1. j \in Job /\ j.order = o /\ j.pc = "latest"
      BY <1>1 DEF Job, UpdatePCs
    <3>2. Justified(j, biller, ledger)
      BY <1>1, <2>2, <3>1 DEF Justified, Working, Finalizing
    <3>3. job' = [job EXCEPT ![w] = j]
      BY <2>2 DEF Goto
    <3> QED BY <3>1, <3>2, <3>3
  <2>3. CASE Return(w, "ok")
    <3>1. AtRest("ok", o) \in Job
      BY <1>1, AtRestTyped DEF UpdatePCs
    <3>2. AtRest("ok", o).order = o /\ Justified(AtRest("ok", o), biller, ledger)
      BY DEF AtRest, Justified, Working, Finalizing
    <3> QED BY <2>3, <3>1, <3>2 DEF Return
  <2> QED BY <2>1, <2>2, <2>3 DEF WriteStatus
<1>5. PICK j \in Job : /\ job' = [job EXCEPT ![w] = j]
                       /\ j.order = o
                       /\ Justified(j, biller, ledger)
  BY <1>4
<1>6. TypeOK'
  <2>1. job' \in [Workers -> Job] /\ \A p \in Orders : job'[p].order = p
    BY <1>5, JobTyped DEF IInv
  <2>2. status' \in [Orders -> RowStatus]
    BY <1>1, <1>2, <1>3 DEF IInv, TypeOK
  <2> QED BY <2>1, <2>2 DEF IInv, TypeOK, WriteStatus, callerVars
<1>7. WorldGrows
  BY DEF WorldGrows, WriteStatus, callerVars
<1>8. Evidence'
  BY <1>5, <1>6, <1>7, OneMoves DEF IInv, WriteStatus, callerVars
<1>9. SuccessIsReal'
  BY <1>1, <1>2, <1>3 DEF IInv, TypeOK, SuccessIsReal, callerVars
<1>10. ExpenseIsReal' /\ LinkIsSound'
  BY DEF IInv, ExpenseIsReal, LinkIsSound, WriteStatus, callerVars
<1> QED BY <1>6, <1>8, <1>9, <1>10 DEF IInv

\* Creating the expense, whether or not the worker learns of it.
LEMMA AppendKeeps ==
  ASSUME IInv, NEW w \in Workers, At(w, "create"),
         NEW j \in Job, j.order = job[w].order, job' = [job EXCEPT ![w] = j],
         \/ j.pc = "error"
         \/ j.pc = "readLink" /\ j.txn = Len(ledger) + 1,
         ledger' = Append(ledger, job[w].order),
         UNCHANGED <<status, txn, deleted, audit, biller, payload, queue, pollLock, expired>>,
         faults' \in Nat, seen' \in [Pollers -> RowStatus]
  PROVE  IInv'
<1> DEFINE o == job[w].order
           n == Len(ledger)
<1>1. o \in Orders /\ biller[o] = "success"
  BY DEF IInv, Evidence, Justified, Working, Finalizing, At
<1>2. ledger \in Seq(Orders) /\ n \in Nat
  BY DEF IInv, TypeOK
<1>3. /\ ledger' \in Seq(Orders)
      /\ Len(ledger') = n + 1
      /\ ledger'[n + 1] = o
      /\ \A t \in 1 .. n : ledger'[t] = ledger[t]
  BY <1>1, <1>2
<1>4. TypeOK'
  <2>1. job' \in [Workers -> Job] /\ \A p \in Orders : job'[p].order = p
    BY JobTyped DEF IInv
  <2> QED BY <1>3, <2>1 DEF IInv, TypeOK
<1>5. WorldGrows
  BY <1>2, <1>3 DEF WorldGrows
<1>6. Justified(j, biller', ledger')
  BY <1>1, <1>2, <1>3 DEF Justified, Working, Finalizing
<1>7. Evidence'
  BY <1>4, <1>5, <1>6, OneMoves DEF IInv
<1>8. SuccessIsReal'
  BY DEF IInv, SuccessIsReal
<1>9. ExpenseIsReal'
  BY <1>1, <1>2, <1>3 DEF IInv, ExpenseIsReal
<1>10. LinkIsSound'
  BY <1>2, <1>3 DEF IInv, LinkIsSound
<1> QED BY <1>4, <1>7, <1>8, <1>9, <1>10 DEF IInv

LEMMA CreateExpenseKeeps ==
  ASSUME IInv, NEW w \in Workers, CreateExpense(w), UNCHANGED callerVars
  PROVE  IInv'
<1> DEFINE n == Len(ledger) + 1
           j == [job[w] EXCEPT !.pc = "readLink", !.txn = n, !.fresh = TRUE]
<1>1. job[w] \in Job /\ n \in Nat
  BY DEF IInv, TypeOK
<1>2. j \in Job /\ j.order = job[w].order /\ j.pc = "readLink" /\ j.txn = n
  <2> HIDE DEF n
  <2> QED BY <1>1 DEF Job, UpdatePCs
<1>3. job' = [job EXCEPT ![w] = j]
  BY DEF CreateExpense
<1>4. faults' \in Nat /\ seen' \in [Pollers -> RowStatus]
  BY DEF IInv, TypeOK, callerVars
<1> HIDE DEF j
<1> QED BY <1>2, <1>3, <1>4, AppendKeeps DEF CreateExpense, callerVars

LEMMA SaveLinkKeeps ==
  ASSUME IInv, NEW w \in Workers, SaveLink(w), UNCHANGED callerVars
  PROVE  IInv'
<1> DEFINE o == job[w].order
           t == job[w].txn
<1>1. /\ o \in Orders
      /\ t \in 1 .. Len(ledger)
      /\ Signature[ledger[t]] = Signature[o]
  BY DEF IInv, Evidence, Justified, Working, Finalizing, SaveLink, At
<1>2. txn' = [txn EXCEPT ![o] = t] /\ t \in Nat
  BY DEF SaveLink, IInv, TypeOK, Job
<1>3. /\ job' = [job EXCEPT ![w] = AtRest("ok", o)]
      /\ AtRest("ok", o) \in Job
      /\ job' \in [Workers -> Job]
      /\ \A p \in Orders : job'[p].order = p
  BY ReturnTyped DEF SaveLink, IInv, UpdatePCs
<1>4. TypeOK'
  BY <1>2, <1>3 DEF IInv, TypeOK, SaveLink, callerVars
<1>5. WorldGrows
  BY DEF WorldGrows, SaveLink, callerVars
<1>6. Justified(AtRest("ok", o), biller', ledger')
  BY DEF Justified, AtRest, Working, Finalizing
<1>7. Evidence'
  BY <1>3, <1>4, <1>5, <1>6, OneMoves DEF IInv
<1>8. SuccessIsReal' /\ ExpenseIsReal'
  BY DEF IInv, SuccessIsReal, ExpenseIsReal, SaveLink, callerVars
<1>9. LinkIsSound'
  BY <1>1, <1>2 DEF IInv, TypeOK, LinkIsSound, SaveLink
<1> QED BY <1>4, <1>7, <1>8, <1>9 DEF IInv

LEMMA UpdateStepKeeps ==
  ASSUME IInv, NEW w \in Workers, SharedStep(w)
  PROVE  IInv'
  BY CheckTransitionKeeps, WriteStatusKeeps, ReadLatestKeeps, FindExpenseKeeps,
     CreateExpenseKeeps, ReadLinkKeeps, SaveLinkKeeps, RereadKeeps, FindAgainKeeps
  DEF SharedStep, UpdateStep

-------------------------------------------------------------------------------
(***************************************************************************)
(* The request that creates an order, and the biller.                      *)
(***************************************************************************)

\* A delivered purchase stays delivered, and an answer of success is true.
LEMMA TopupIsHonest ==
  ASSUME TypeOK, NEW o \in Orders, NEW reply \in Replies, Topup(o, reply)
  PROVE  /\ biller' \in [Orders -> BillerStates]
         /\ \A p \in Orders : biller[p] = "success" => biller'[p] = "success"
         /\ reply = "sukses" => biller'[o] = "success"
<1>1. PICK b \in BillerStates :
        /\ biller[o] # "none" => b = biller[o]
        /\ reply \in Answers(b) \cup {"lost"}
             \cup (IF PollRejects /\ biller[o] # "none" THEN {"rejected"} ELSE {})
        /\ biller' = [biller EXCEPT ![o] = b]
  BY DEF Topup
<1>2. reply = "sukses" => b = "success"
  BY <1>1 DEF Answers, BillerStates
<1> QED BY <1>1, <1>2 DEF TypeOK

LEMMA CallTopupKeeps ==
  ASSUME IInv, NEW o \in Orders, CallTopup(o)
  PROVE  IInv'
<1>1. PICK reply \in Replies :
        /\ Topup(o, reply)
        /\ job' = [job EXCEPT ![o].pc = "save", ![o].goal = CreationStatus(reply)]
  BY DEF CallTopup
<1> DEFINE new == CreationStatus(reply)
           j == [job[o] EXCEPT !.pc = "save", !.goal = new]
<1>2. o \in Workers /\ job[o] \in Job /\ job[o].order = o
  BY WorkerAssumption DEF IInv, TypeOK
<1>3. new \in RowStatus /\ (new = "success" => reply = "sukses")
  BY DEF CreationStatus, StatusOfReply, RowStatus, OrderStatus, Replies
<1>4. j \in Job /\ j.order = o /\ j.pc = "save" /\ j.goal = new
  <2> HIDE DEF new
  <2> QED BY <1>2, <1>3 DEF Job, CallerPCs
<1>5. job' = [job EXCEPT ![o] = j]
  BY <1>1, <1>2 DEF IInv, TypeOK
<1> HIDE DEF j, new
<1>6. TypeOK'
  <2>1. job' \in [Workers -> Job] /\ \A p \in Orders : job'[p].order = p
    BY <1>2, <1>4, <1>5, JobTyped DEF IInv
  <2> QED BY <1>1, <2>1, TopupIsHonest DEF IInv, TypeOK, CallTopup
<1>7. WorldGrows
  BY <1>1, TopupIsHonest DEF WorldGrows, IInv, CallTopup
<1>8. Justified(j, biller', ledger')
  BY <1>1, <1>3, <1>4, TopupIsHonest DEF Justified, Working, Finalizing, IInv
<1> QED BY <1>2, <1>4, <1>5, <1>6, <1>7, <1>8, WorkerMoves DEF CallTopup

LEMMA SaveOrderKeeps ==
  ASSUME IInv, NEW o \in Orders, SaveOrder(o)
  PROVE  IInv'
<1> DEFINE j == [job[o] EXCEPT !.pc = "recordTopup"]
<1>1. /\ o \in Workers /\ job[o] \in Job /\ job[o].order = o
      /\ job[o].pc = "save" /\ Justified(job[o], biller, ledger)
  BY WorkerAssumption DEF IInv, TypeOK, Evidence, SaveOrder, At
<1>2. /\ job[o].goal = "success" => biller[o] = "success"
      /\ job[o].goal \in RowStatus
  BY <1>1 DEF Justified, Working, Finalizing, Job
<1>3. /\ job' = [job EXCEPT ![o] = j]
      /\ j \in Job
      /\ job' \in [Workers -> Job]
      /\ \A p \in Orders : job'[p].order = p
  BY <1>1, GotoTyped DEF SaveOrder, IInv, CallerPCs
<1>4. TypeOK'
  BY <1>2, <1>3 DEF IInv, TypeOK, SaveOrder, callerVars
<1>5. WorldGrows
  BY DEF WorldGrows, SaveOrder, callerVars
<1>6. Justified(j, biller', ledger')
  BY <1>1 DEF Justified, Working, Finalizing, SaveOrder, callerVars, Job
<1> HIDE DEF j
<1>7. Evidence'
  BY <1>1, <1>3, <1>4, <1>5, <1>6, OneMoves DEF IInv
<1>8. SuccessIsReal'
  BY <1>2 DEF IInv, TypeOK, SuccessIsReal, SaveOrder, callerVars
<1>9. ExpenseIsReal' /\ LinkIsSound'
  BY DEF IInv, ExpenseIsReal, LinkIsSound, SaveOrder, callerVars
<1> QED BY <1>4, <1>7, <1>8, <1>9 DEF IInv

LEMMA RecordTopupKeeps ==
  ASSUME IInv, NEW o \in Orders, RecordTopup(o)
  PROVE  IInv'
<1>1. /\ o \in Workers /\ job[o] \in Job /\ job[o].order = o
      /\ job[o].pc = "recordTopup" /\ Justified(job[o], biller, ledger)
  BY WorkerAssumption DEF IInv, TypeOK, Evidence, RecordTopup, At
<1>2. audit' \in [Orders -> SUBSET Events]
  BY DEF IInv, TypeOK, RecordTopup, Events
<1>3. WorldGrows
  BY DEF WorldGrows, RecordTopup
<1>4. CASE job[o].goal = "success" /\ Goto(o, "latest")
  <2>1. TypeOK'
    BY <1>1, <1>2, <1>4, GotoTyped DEF IInv, TypeOK, RecordTopup, UpdatePCs
  <2>2. Justified([job[o] EXCEPT !.pc = "latest"], biller', ledger')
    BY <1>1, <1>4 DEF Justified, Working, Finalizing, RecordTopup, Job
  <2> QED BY <1>1, <1>3, <1>4, <2>1, <2>2, GotoTyped, WorkerMoves
          DEF IInv, RecordTopup, UpdatePCs
<1>5. CASE Return(o, "ok")
  <2>1. TypeOK'
    BY <1>1, <1>2, <1>5, ReturnTyped DEF IInv, TypeOK, RecordTopup, UpdatePCs
  <2>2. Justified(AtRest("ok", job[o].order), biller', ledger')
    BY DEF Justified, AtRest, Working, Finalizing
  <2> QED BY <1>1, <1>3, <1>5, <2>1, <2>2, ReturnTyped, WorkerMoves
          DEF IInv, RecordTopup, UpdatePCs
<1> QED BY <1>4, <1>5 DEF RecordTopup

LEMMA BillerSettlesKeeps ==
  ASSUME IInv, NEW o \in Orders, BillerSettles(o)
  PROVE  IInv'
<1>1. biller' \in [Orders -> BillerStates]
      /\ \A p \in Orders : biller[p] = "success" => biller'[p] = "success"
  BY DEF IInv, TypeOK, BillerSettles, BillerStates
<1>2. TypeOK'
  BY <1>1 DEF IInv, TypeOK, BillerSettles, updateVars
<1>3. WorldGrows
  BY <1>1 DEF WorldGrows, BillerSettles, updateVars
<1>4. Evidence'
  BY <1>2, <1>3, JustifiedStays DEF IInv, TypeOK, Evidence, BillerSettles, updateVars
<1> QED BY <1>2, <1>3, <1>4, RowsUntouched DEF IInv, BillerSettles, updateVars

-------------------------------------------------------------------------------
(***************************************************************************)
(* Webhook requests.                                                       *)
(***************************************************************************)

\* What a handler or a poller does when it takes another order or returns to rest.
LEMMA CallerMoves ==
  ASSUME IInv, NEW w \in Handlers \cup Pollers, NEW j \in Job,
         job' = [job EXCEPT ![w] = j], Justified(j, biller', ledger'),
         UNCHANGED <<status, txn, ledger, deleted, expired, faults>>,
         audit' \in [Orders -> SUBSET Events],
         biller' \in [Orders -> BillerStates],
         payload' \in [Handlers -> WebhookStatus],
         seen' \in [Pollers -> RowStatus],
         queue' \in [Pollers -> SUBSET Orders],
         pollLock' \in Pollers \cup {Nobody},
         \A o \in Orders : biller[o] = "success" => biller'[o] = "success"
  PROVE  IInv'
<1>1. w \in Workers /\ w \notin Orders
  BY WorkerAssumption
<1>2. job' \in [Workers -> Job] /\ \A o \in Orders : job'[o].order = o
  BY <1>1, WorkerAssumption DEF IInv, TypeOK
<1>3. TypeOK'
  BY <1>2 DEF IInv, TypeOK
<1>4. WorldGrows
  BY DEF WorldGrows, IInv, TypeOK
<1> QED BY <1>1, <1>3, <1>4, WorkerMoves

LEMMA ReceiveWebhookKeeps ==
  ASSUME IInv, NEW h \in Handlers, NEW o \in Orders, NEW k \in Payloads,
         ReceiveWebhook(h, o, k)
  PROVE  IInv'
<1> DEFINE new == IF WebhookApplies(status[o], k) THEN k ELSE "absent"
           via == ViaProcessing(status[o], k)
           j == [AtRest("record", o) EXCEPT !.goal = new, !.via = via]
<1>1. k \in WebhookStatus /\ new \in RowStatus /\ via \in BOOLEAN
  BY ConstantAssumption
     DEF WebhookStatus, RowStatus, OrderStatus, WebhookApplies, ViaProcessing
<1>2. new = "success" => biller[o] = "success"
  BY <1>1 DEF ReceiveWebhook, CanBeSent, WebhookStatus
<1> HIDE DEF new, via
<1>3. /\ j \in Job /\ j.order = o /\ j.pc = "record" /\ j.goal = new
  BY <1>1 DEF AtRest, Job, CallerPCs, RowStatus
<1>4. job' = [job EXCEPT ![h] = j]
  BY DEF ReceiveWebhook, new, via
<1>5. Justified(j, biller', ledger')
  BY <1>2, <1>3 DEF Justified, Working, Finalizing, ReceiveWebhook
<1>6. payload' \in [Handlers -> WebhookStatus]
  BY <1>1 DEF ReceiveWebhook, IInv, TypeOK
<1> HIDE DEF j
<1> QED BY <1>3, <1>4, <1>5, <1>6, CallerMoves DEF ReceiveWebhook, IInv, TypeOK

LEMMA RecordWebhookKeeps ==
  ASSUME IInv, NEW h \in Handlers, RecordWebhook(h)
  PROVE  IInv'
<1>1. /\ h \in Workers /\ job[h] \in Job /\ job[h].pc = "record"
      /\ Justified(job[h], biller, ledger)
  BY WorkerAssumption DEF IInv, TypeOK, Evidence, RecordWebhook, At
<1>2. audit' \in [Orders -> SUBSET Events]
  BY <1>1 DEF IInv, TypeOK, RecordWebhook, Events, Justified, Working
<1>3. CASE Return(h, "ok")
  <2>1. Justified(AtRest("ok", job[h].order), biller', ledger')
    BY DEF Justified, AtRest, Working, Finalizing
  <2>2. TypeOK'
    BY <1>1, <1>2, <1>3, ReturnTyped DEF RecordWebhook, IInv, TypeOK, UpdatePCs
  <2> QED BY <1>1, <1>3, <2>1, <2>2, ReturnTyped, WorkerMoves
          DEF RecordWebhook, IInv, WorldGrows, UpdatePCs
<1>4. CASE Goto(h, "check")
  <2>1. Justified([job[h] EXCEPT !.pc = "check"], biller', ledger')
    BY <1>1 DEF Justified, Working, Finalizing, RecordWebhook, Job
  <2>2. TypeOK'
    BY <1>1, <1>2, <1>4, GotoTyped DEF RecordWebhook, IInv, TypeOK, UpdatePCs
  <2> QED BY <1>1, <1>4, <2>1, <2>2, GotoTyped, WorkerMoves
          DEF RecordWebhook, IInv, WorldGrows, UpdatePCs
<1> QED BY <1>3, <1>4 DEF RecordWebhook

LEMMA AnswerWebhookKeeps ==
  ASSUME IInv, NEW h \in Handlers, AnswerWebhook(h)
  PROVE  IInv'
<1>1. AtRest("idle", NoOrder) \in Job
  BY AtRestTyped DEF CallerPCs
<1>2. Justified(AtRest("idle", NoOrder), biller', ledger')
  BY DEF Justified, AtRest, Working, Finalizing
<1>3. payload' \in [Handlers -> WebhookStatus]
  BY DEF AnswerWebhook, IInv, TypeOK, WebhookStatus
<1> QED BY <1>1, <1>2, <1>3, CallerMoves DEF AnswerWebhook, IInv, TypeOK

-------------------------------------------------------------------------------
(***************************************************************************)
(* The cron poll.                                                          *)
(***************************************************************************)

LEMMA StartPollKeeps ==
  ASSUME IInv, NEW p \in Pollers, StartPoll(p)
  PROVE  IInv'
<1>1. p \in Workers /\ job[p] \in Job
  BY WorkerAssumption DEF IInv, TypeOK
<1>2. Justified([job[p] EXCEPT !.pc = "next"], biller', ledger')
  BY <1>1 DEF Justified, Working, Finalizing, Job
<1>3. queue' \in [Pollers -> SUBSET Orders] /\ pollLock' \in Pollers \cup {Nobody}
  BY DEF StartPoll, IInv, TypeOK
<1> QED BY <1>1, <1>2, <1>3, GotoTyped, CallerMoves
        DEF StartPoll, IInv, TypeOK, CallerPCs

LEMMA PollOrderKeeps ==
  ASSUME IInv, NEW p \in Pollers, NEW o \in Orders, PollOrder(p, o)
  PROVE  IInv'
<1>1. queue' \in [Pollers -> SUBSET Orders]
  BY DEF PollOrder, IInv, TypeOK
<1>2. CASE /\ seen' = [seen EXCEPT ![p] = status[o]]
           /\ job' = [job EXCEPT ![p] = AtRest("ask", o)]
  <2>1. AtRest("ask", o) \in Job
    BY AtRestTyped DEF CallerPCs
  <2>2. Justified(AtRest("ask", o), biller', ledger')
    BY DEF Justified, AtRest, Working, Finalizing
  <2>3. seen' \in [Pollers -> RowStatus]
    BY <1>2 DEF IInv, TypeOK
  <2> QED BY <1>1, <1>2, <2>1, <2>2, <2>3, CallerMoves DEF PollOrder, IInv, TypeOK
<1>3. CASE UNCHANGED <<seen, job>>
  <2>1. TypeOK'
    BY <1>1, <1>3 DEF PollOrder, IInv, TypeOK
  <2> QED BY <1>3, <2>1
          DEF PollOrder, IInv, SuccessIsReal, ExpenseIsReal, LinkIsSound, Evidence
<1> QED BY <1>2, <1>3 DEF PollOrder

LEMMA AskBillerKeeps ==
  ASSUME IInv, NEW p \in Pollers, NEW reply \in Replies, AskBiller(p, reply)
  PROVE  IInv'
<1> DEFINE o == job[p].order
           new == StatusOfReply(reply)
<1>1. p \in Workers /\ o \in Orders
  BY WorkerAssumption DEF IInv, Evidence, Justified, Working, AskBiller, At
<1>2. /\ biller' \in [Orders -> BillerStates]
      /\ \A q \in Orders : biller[q] = "success" => biller'[q] = "success"
      /\ reply = "sukses" => biller'[o] = "success"
  BY <1>1, TopupIsHonest DEF AskBiller, IInv
<1>3. seen' \in [Pollers -> RowStatus]
  BY DEF AskBiller, IInv, TypeOK, RowStatus
<1>4. new \in RowStatus /\ (new = "success" => reply = "sukses")
  BY DEF StatusOfReply, RowStatus, OrderStatus, Replies
<1>5. CASE Return(p, "ok")
  <2>1. Justified(AtRest("ok", o), biller', ledger')
    BY DEF Justified, AtRest, Working, Finalizing
  <2> QED BY <1>1, <1>2, <1>3, <1>5, <2>1, ReturnTyped, CallerMoves
          DEF AskBiller, IInv, TypeOK, UpdatePCs
<1>6. CASE CallUpdate(p, o, new, ViaProcessing(seen[p], new))
  <2> DEFINE via == ViaProcessing(seen[p], new)
             j == [AtRest("check", o) EXCEPT !.goal = new, !.via = via]
  <2>1. via \in BOOLEAN
    BY DEF ViaProcessing
  <2> HIDE DEF new, via
  <2>2. j \in Job /\ j.order = o /\ j.pc = "check" /\ j.goal = new
    BY <1>1, <1>4, <2>1 DEF AtRest, Job, UpdatePCs
  <2>3. Justified(j, biller', ledger')
    BY <1>1, <1>2, <1>4, <2>2 DEF Justified, Working, Finalizing
  <2>4. job' = [job EXCEPT ![p] = j]
    BY <1>6 DEF CallUpdate, new, via
  <2> HIDE DEF j
  <2> QED BY <1>2, <1>3, <2>2, <2>3, <2>4, CallerMoves DEF AskBiller, IInv, TypeOK
<1> QED BY <1>5, <1>6 DEF AskBiller

LEMMA EndCheckKeeps ==
  ASSUME IInv, NEW p \in Pollers, EndCheck(p)
  PROVE  IInv'
<1>1. AtRest("next", NoOrder) \in Job
  BY AtRestTyped DEF CallerPCs
<1>2. Justified(AtRest("next", NoOrder), biller', ledger')
  BY DEF Justified, AtRest, Working, Finalizing
<1>3. audit' \in [Orders -> SUBSET Events]
  <2>1. CASE At(p, "ok") /\ UNCHANGED audit
    BY <2>1 DEF IInv, TypeOK
  <2>2. CASE audit' = [audit EXCEPT ![job[p].order] = @ \cup {"pollError"}]
    <3> DEFINE x == job[p].order
    <3>1. \A o \in Orders : audit'[o] = IF o = x THEN audit[o] \cup {"pollError"} ELSE audit[o]
      BY <2>2 DEF IInv, TypeOK
    <3>2. \A o \in Orders : audit'[o] \in SUBSET Events
      <4>1. "pollError" \in Events
        BY DEF Events
      <4>2. \A o \in Orders : audit[o] \in SUBSET Events
        BY DEF IInv, TypeOK
      <4> HIDE DEF x
      <4> QED BY <3>1, <4>1, <4>2
    <3> QED BY <2>2, <3>2 DEF IInv, TypeOK
  <2> QED BY <2>1, <2>2 DEF EndCheck
<1> QED BY <1>1, <1>2, <1>3, CallerMoves DEF EndCheck, IInv, TypeOK

LEMMA EndPollKeeps ==
  ASSUME IInv, NEW p \in Pollers, EndPoll(p)
  PROVE  IInv'
<1>1. p \in Workers /\ job[p] \in Job
  BY WorkerAssumption DEF IInv, TypeOK
<1>2. Justified([job[p] EXCEPT !.pc = "idle"], biller', ledger')
  BY <1>1 DEF Justified, Working, Finalizing, Job
<1> QED BY <1>1, <1>2, GotoTyped, CallerMoves DEF EndPoll, IInv, TypeOK, CallerPCs

-------------------------------------------------------------------------------
(***************************************************************************)
(* Time, users and faults.                                                 *)
(***************************************************************************)

LEMMA ExpireKeeps ==
  ASSUME IInv, NEW o \in Orders, Expire(o)
  PROVE  IInv'
  BY DEF Expire, updateVars, IInv, TypeOK, SuccessIsReal, ExpenseIsReal, LinkIsSound, Evidence

LEMMA UserDeletesKeeps ==
  ASSUME IInv, NEW t \in 1 .. Len(ledger), UserDeletes(t)
  PROVE  IInv'
<1>1. deleted' \subseteq Nat
  BY DEF UserDeletes, DeleteExpense, IInv, TypeOK
<1> QED BY <1>1 DEF UserDeletes, DeleteExpense, callerVars,
                    IInv, TypeOK, SuccessIsReal, ExpenseIsReal, LinkIsSound, Evidence

LEMMA FailKeeps ==
  ASSUME IInv, NEW w \in Workers, Fail(w)
  PROVE  IInv'
<1>1. faults' \in Nat /\ seen' \in [Pollers -> RowStatus]
  BY DEF Fail, IInv, TypeOK, RowStatus
<1>2. job[w] \in Job /\ Justified(job[w], biller, ledger)
  BY DEF IInv, TypeOK, Evidence
<1>3. /\ AtRest("error", job[w].order) \in Job
      /\ AtRest("error", job[w].order).order = job[w].order
      /\ AtRest("error", job[w].order).pc = "error"
      /\ Justified(AtRest("error", job[w].order), biller, ledger)
  BY <1>2, AtRestTyped DEF AtRest, Job, UpdatePCs, Justified, Working, Finalizing
<1>4. CASE CallFails(w)
  <2>1. PICK j \in Job : /\ job' = [job EXCEPT ![w] = j]
                         /\ j.order = job[w].order
                         /\ Justified(j, biller, ledger)
    <3>1. CASE /\ job[w].pc \in {"readLink", "saveLink"}
               /\ job' = [job EXCEPT ![w].pc = "reread", ![w].fresh = FALSE]
      <4> DEFINE j == [job[w] EXCEPT !.pc = "reread", !.fresh = FALSE]
      <4>1. j \in Job /\ j.order = job[w].order /\ j.pc = "reread"
        BY <1>2 DEF Job, UpdatePCs
      <4>2. Justified(j, biller, ledger)
        BY <1>2, <3>1, <4>1 DEF Justified, Working, Finalizing
      <4>3. job' = [job EXCEPT ![w] = j]
        BY <3>1 DEF IInv, TypeOK
      <4> QED BY <4>1, <4>2, <4>3
    <3>2. CASE Return(w, "error")
      BY <1>3, <3>2 DEF Return
    <3> QED BY <1>4, <3>1, <3>2 DEF CallFails
  <2>2. TypeOK'
    <3>1. job' \in [Workers -> Job] /\ \A o \in Orders : job'[o].order = o
      BY <2>1, JobTyped DEF IInv
    <3> QED BY <1>1, <1>4, <3>1 DEF CallFails, Fail, IInv, TypeOK
  <2>3. WorldGrows
    BY <1>4 DEF WorldGrows, CallFails, Fail
  <2> QED BY <1>4, <2>1, <2>2, <2>3, WorkerMoves DEF CallFails, Fail
<1>5. CASE CreateFailsAfterCommit(w)
  BY <1>1, <1>3, <1>5, AppendKeeps DEF CreateFailsAfterCommit, Return, Fail
<1> QED BY <1>4, <1>5 DEF Fail

LEMMA CrashKeeps ==
  ASSUME IInv, Crash
  PROVE  IInv'
<1>1. \A w \in Workers : /\ job'[w] \in Job
                         /\ w \in Orders => job'[w].order = w
                         /\ Justified(job'[w], biller', ledger')
  <2> SUFFICES ASSUME NEW w \in Workers
               PROVE  /\ job'[w] \in Job
                      /\ w \in Orders => job'[w].order = w
                      /\ Justified(job'[w], biller', ledger')
    OBVIOUS
  <2>1. CASE w \in Orders /\ job[w].pc = "new"
    BY <2>1 DEF Crash, IInv, TypeOK, Evidence
  <2>2. CASE w \in Orders /\ job[w].pc # "new"
    BY <2>2, AtRestTyped
       DEF Crash, AtRest, UpdatePCs, Justified, Working, Finalizing
  <2>3. CASE w \notin Orders
    BY <2>3, AtRestTyped
       DEF Crash, AtRest, CallerPCs, Justified, Working, Finalizing
  <2> QED BY <2>1, <2>2, <2>3
<1>2. job' \in [Workers -> Job] /\ \A o \in Orders : job'[o].order = o
  BY <1>1, WorkerAssumption DEF Crash
<1>3. TypeOK'
  BY <1>2 DEF Crash, IInv, TypeOK, WebhookStatus, RowStatus
<1>4. WorldGrows
  BY DEF WorldGrows, Crash
<1>5. Evidence'
  BY <1>1 DEF Evidence
<1> QED BY <1>3, <1>4, <1>5, RowsUntouched DEF Crash, IInv

-------------------------------------------------------------------------------
(***************************************************************************)
(* The theorems.                                                           *)
(***************************************************************************)

LEMMA InitEstablishes ==
  ASSUME Init
  PROVE  IInv
<1>1. \A w \in Workers : /\ job[w] \in Job
                         /\ w \in Orders => job[w].order = w
                         /\ Justified(job[w], biller, ledger)
  BY AtRestTyped DEF Init, AtRest, CallerPCs, Justified, Working, Finalizing
<1>2. TypeOK
  <2>1. job \in [Workers -> Job] /\ \A o \in Orders : job[o].order = o
    BY <1>1, WorkerAssumption DEF Init
  <2>2. /\ status \in [Orders -> RowStatus]
        /\ txn \in [Orders -> Nat]
        /\ ledger \in Seq(Orders)
        /\ deleted \subseteq Nat
    BY DEF Init, RowStatus
  <2>3. /\ audit \in [Orders -> SUBSET Events]
        /\ biller \in [Orders -> BillerStates]
        /\ payload \in [Handlers -> WebhookStatus]
        /\ seen \in [Pollers -> RowStatus]
        /\ queue \in [Pollers -> SUBSET Orders]
        /\ pollLock \in Pollers \cup {Nobody}
        /\ expired \subseteq Orders
        /\ faults \in Nat
    BY DEF Init, RowStatus, BillerStates, WebhookStatus
  <2> QED BY <2>1, <2>2, <2>3 DEF TypeOK
<1>3. SuccessIsReal /\ ExpenseIsReal /\ LinkIsSound
  BY DEF Init, SuccessIsReal, ExpenseIsReal, LinkIsSound
<1> QED BY <1>1, <1>2, <1>3 DEF IInv, Evidence

LEMMA NextKeeps ==
  ASSUME IInv, [Next]_vars
  PROVE  IInv'
<1>1. ASSUME NEW o \in Orders, OrderStep(o) \/ BillerSettles(o) \/ Expire(o)
      PROVE  IInv'
  BY <1>1, CallTopupKeeps, SaveOrderKeeps, RecordTopupKeeps, BillerSettlesKeeps, ExpireKeeps
     DEF OrderStep
<1>2. ASSUME NEW h \in Handlers,
             \/ RecordWebhook(h) \/ AnswerWebhook(h)
             \/ \E o \in Orders, k \in Payloads : ReceiveWebhook(h, o, k)
      PROVE  IInv'
  BY <1>2, ReceiveWebhookKeeps, RecordWebhookKeeps, AnswerWebhookKeeps
<1>3. ASSUME NEW p \in Pollers, PollStep(p)
      PROVE  IInv'
  BY <1>3, StartPollKeeps, PollOrderKeeps, AskBillerKeeps, EndCheckKeeps, EndPollKeeps
     DEF PollStep
<1>4. ASSUME NEW w \in Workers, SharedStep(w) \/ Fail(w)
      PROVE  IInv'
  BY <1>4, UpdateStepKeeps, FailKeeps
<1>5. ASSUME NEW t \in 1 .. Len(ledger), UserDeletes(t)
      PROVE  IInv'
  BY <1>5, UserDeletesKeeps
<1>6. CASE Crash
  BY <1>6, CrashKeeps
<1>7. CASE UNCHANGED vars
  BY <1>7 DEF vars, updateVars, callerVars,
              IInv, TypeOK, SuccessIsReal, ExpenseIsReal, LinkIsSound, Evidence
<1> QED BY <1>1, <1>2, <1>3, <1>4, <1>5, <1>6, <1>7 DEF Next

\* IInv is an invariant of every instance, however many orders, requests, pollers
\* and faults there are.
THEOREM Invariance == Spec => []IInv
<1>1. Init => IInv
  BY InitEstablishes
<1>2. IInv /\ [Next]_vars => IInv'
  BY NextKeeps
<1> QED BY <1>1, <1>2, PTL DEF Spec

\* Every variable keeps its type.
THEOREM TypeCorrect == Spec => []TypeOK
  BY Invariance, PTL DEF IInv

\* An order is shown as successful only when the biller has delivered it.
THEOREM SuccessIsRealAlways == Spec => []SuccessIsReal
  BY Invariance, PTL DEF IInv

\* The family is charged only for purchases the biller has delivered.
THEOREM ExpenseIsRealAlways == Spec => []ExpenseIsReal
  BY Invariance, PTL DEF IInv

\* A linked order is linked to an existing expense that pays for the same thing.
THEOREM LinkIsSoundAlways == Spec => []LinkIsSound
  BY Invariance, PTL DEF IInv

\* Workers act on true information, however old.
THEOREM EvidenceAlways == Spec => []Evidence
  BY Invariance, PTL DEF IInv

-------------------------------------------------------------------------------
(***************************************************************************)
(* Failed orders.                                                          *)
(***************************************************************************)

\* Where the request that creates an order can stand.
OwnPCs == {"new", "save", "recordTopup", "latest", "find", "create", "readLink", "saveLink",
           "reread", "findAgain", "ok", "error"}

\* What the job j of worker w says of its order.  The order has a row once its own
\* request has saved it, and nobody else works on it before; nobody removes the row; a
\* webhook comes only for a purchase the biller knows; whoever is about to write failed
\* does so for a purchase that cannot succeed any more; and as long as the biller has
\* no purchase, an order it is about to be asked for has not failed.
Careful(w, j, rows, purchase) ==
  /\ w \in Orders => j.pc \in OwnPCs /\ (j.pc \in {"new", "save"} => rows[w] = "absent")
  /\ w \notin Orders /\ j.order \in Orders => rows[j.order] # "absent"
  /\ j.pc \in {"save", "check", "write"} => j.goal # "absent"
  /\ w \in Handlers /\ j.order \in Orders => purchase[j.order] # "none"
  /\ ~PollRejects /\ j.goal = "failed" /\ j.pc \in {"save", "record", "check", "write"} =>
       purchase[j.order] \in {"none", "failed"}
  /\ w \in Pollers /\ j.pc = "ask" /\ purchase[j.order] = "none" => rows[j.order] # "failed"

Care == \A w \in Workers : Careful(w, job[w], status, biller)

\* Only the holder of the lock polls.
Locked == \A p \in Pollers : job[p].pc # "idle" => pollLock = p

Orderly == Care /\ Locked /\ (~PollRejects => FailedIsReal)

OInv == IInv /\ Orderly

\* A step of one worker that touches neither the rows nor the biller.
LEMMA CarefulMove ==
  ASSUME TypeOK, Orderly, UNCHANGED <<status, biller>>,
         NEW w \in Workers, NEW j \in Job, job' = [job EXCEPT ![w] = j],
         Careful(w, j, status, biller),
         Locked'
  PROVE  Orderly'
<1>1. \A v \in Workers : job'[v] = IF v = w THEN j ELSE job[v]
  BY DEF TypeOK
<1>2. Care'
  BY <1>1 DEF Care, Orderly
<1>3. ~PollRejects => FailedIsReal'
  BY DEF FailedIsReal, Orderly
<1> QED BY <1>2, <1>3 DEF Orderly

\* The lock while nobody takes or releases it.
LEMMA LockStays ==
  ASSUME TypeOK, Locked, pollLock' = pollLock, NEW w \in Workers, NEW j \in Job,
         job' = [job EXCEPT ![w] = j], w \in Pollers => job[w].pc # "idle"
  PROVE  Locked'
<1>1. \A v \in Workers : job'[v] = IF v = w THEN j ELSE job[v]
  BY DEF TypeOK
<1> QED BY <1>1, WorkerAssumption DEF Locked

-------------------------------------------------------------------------------

\* What a step of the shared procedure does to its worker and to the rows.
UpdateMove(w, j) ==
  /\ job' = [job EXCEPT ![w] = j]
  /\ j.order = job[w].order
  /\ job[w].pc \in UpdatePCs \ {"ok", "error"}
  /\ j.pc \in UpdatePCs
  /\ j.pc \in {"check", "write"} => job[w].pc \in {"check", "write"} /\ j.goal = job[w].goal
  /\ \/ status' = status
     \/ job[w].pc = "write" /\ status' = [status EXCEPT ![job[w].order] = NextStatus(w)]

LEMMA GotoMoves ==
  ASSUME TypeOK, NEW w \in Workers, NEW pc \in UpdatePCs, Goto(w, pc),
         job[w].pc \in UpdatePCs \ {"ok", "error"},
         pc \in {"check", "write"} => job[w].pc \in {"check", "write"},
         \/ status' = status
         \/ job[w].pc = "write" /\ status' = [status EXCEPT ![job[w].order] = NextStatus(w)]
  PROVE  \E j \in Job : UpdateMove(w, j)
<1> DEFINE j == [job[w] EXCEPT !.pc = pc]
<1>1. job[w] \in Job
  BY DEF TypeOK
<1>2. j \in Job /\ job' = [job EXCEPT ![w] = j]
  BY GotoTyped
<1>3. j.pc = pc /\ j.order = job[w].order /\ j.goal = job[w].goal
  BY <1>1 DEF Job
<1> HIDE DEF j
<1> QED BY <1>2, <1>3 DEF UpdateMove

LEMMA ReturnMoves ==
  ASSUME TypeOK, NEW w \in Workers, NEW pc \in {"ok", "error"}, Return(w, pc),
         job[w].pc \in UpdatePCs \ {"ok", "error"},
         \/ status' = status
         \/ job[w].pc = "write" /\ status' = [status EXCEPT ![job[w].order] = NextStatus(w)]
  PROVE  \E j \in Job : UpdateMove(w, j)
<1> DEFINE j == AtRest(pc, job[w].order)
<1>1. pc \in UpdatePCs
  BY DEF UpdatePCs
<1>2. j \in Job /\ job' = [job EXCEPT ![w] = j]
  BY <1>1, ReturnTyped
<1>3. j.pc = pc /\ j.order = job[w].order
  BY DEF AtRest
<1> HIDE DEF j
<1> QED BY <1>1, <1>2, <1>3 DEF UpdateMove

\* Taking an expense that was found or created.
LEMMA TakeMoves ==
  ASSUME TypeOK, NEW w \in Workers, NEW t \in Nat, NEW fresh \in BOOLEAN,
         job' = [job EXCEPT ![w] =
                   [job[w] EXCEPT !.pc = "readLink", !.txn = t, !.fresh = fresh]],
         job[w].pc \in {"find", "findAgain", "create"}, status' = status
  PROVE  \E j \in Job : UpdateMove(w, j)
<1> DEFINE j == [job[w] EXCEPT !.pc = "readLink", !.txn = t, !.fresh = fresh]
<1>1. job[w] \in Job
  BY DEF TypeOK
<1>2. j \in Job /\ j.pc = "readLink" /\ j.order = job[w].order
  BY <1>1 DEF Job, UpdatePCs
<1>3. job' = [job EXCEPT ![w] = j]
  OBVIOUS
<1> HIDE DEF j
<1> QED BY <1>2, <1>3 DEF UpdateMove, UpdatePCs

LEMMA UpdateMoves ==
  ASSUME TypeOK, NEW w \in Workers, UpdateStep(w)
  PROVE  \E j \in Job : UpdateMove(w, j)
<1>1. CASE CheckTransition(w)
  <2>1. job[w].pc = "check" /\ status' = status
    BY <1>1 DEF CheckTransition, At
  <2> QED BY <1>1, <2>1, GotoMoves, ReturnMoves DEF CheckTransition, UpdatePCs
<1>2. CASE WriteStatus(w)
  <2>1. job[w].pc = "write" /\ status' = [status EXCEPT ![job[w].order] = NextStatus(w)]
    BY <1>2 DEF WriteStatus, At
  <2>2. CASE job' = [job EXCEPT ![w].pc = "check", ![w].via = FALSE]
    <3> DEFINE j == [job[w] EXCEPT !.pc = "check", !.via = FALSE]
    <3>1. job[w] \in Job
      BY DEF TypeOK
    <3>2. j \in Job /\ j.pc = "check" /\ j.order = job[w].order /\ j.goal = job[w].goal
      BY <3>1 DEF Job, UpdatePCs
    <3>3. job' = [job EXCEPT ![w] = j]
      BY <2>2 DEF TypeOK
    <3> HIDE DEF j
    <3> QED BY <2>1, <3>2, <3>3 DEF UpdateMove, UpdatePCs
  <2> QED BY <1>2, <2>1, <2>2, GotoMoves, ReturnMoves DEF WriteStatus, UpdatePCs
<1>3. CASE ReadLatest(w)
  <2>1. job[w].pc = "latest" /\ status' = status
    BY <1>3 DEF ReadLatest, At
  <2> QED BY <1>3, <2>1, GotoMoves, ReturnMoves DEF ReadLatest, UpdatePCs
<1>4. CASE FindExpense(w) \/ FindAgain(w)
  <2>1. job[w].pc \in {"find", "findAgain"} /\ status' = status
    BY <1>4 DEF FindExpense, FindAgain, At
  <2>2. CASE \E t \in Matching(job[w].order) :
               job' = [job EXCEPT ![w].pc = "readLink", ![w].txn = t]
    <3>1. PICK t \in Matching(job[w].order) :
            job' = [job EXCEPT ![w].pc = "readLink", ![w].txn = t]
      BY <2>2
    <3>2. job[w] \in Job /\ t \in Nat
      BY DEF TypeOK, Matching
    <3>3. job' = [job EXCEPT ![w] =
                    [job[w] EXCEPT !.pc = "readLink", !.txn = t, !.fresh = job[w].fresh]]
      BY <3>1, <3>2 DEF TypeOK, Job
    <3> QED BY <2>1, <3>2, <3>3, TakeMoves DEF Job
  <2>3. CASE Goto(w, "create") \/ Return(w, "error")
    BY <2>1, <2>3, GotoMoves, ReturnMoves DEF UpdatePCs
  <2> QED BY <1>4, <2>2, <2>3 DEF FindExpense, FindAgain
<1>5. CASE CreateExpense(w)
  <2>1. job[w].pc = "create" /\ status' = status /\ Len(ledger) + 1 \in Nat
    BY <1>5 DEF CreateExpense, At, TypeOK
  <2> QED BY <1>5, <2>1, TakeMoves DEF CreateExpense, TypeOK
<1>6. CASE ReadLink(w)
  <2>1. job[w].pc = "readLink" /\ status' = status
    BY <1>6 DEF ReadLink, At
  <2> QED BY <1>6, <2>1, GotoMoves, ReturnMoves DEF ReadLink, UpdatePCs
<1>7. CASE SaveLink(w)
  <2>1. job[w].pc = "saveLink" /\ status' = status
    BY <1>7 DEF SaveLink, At
  <2> QED BY <1>7, <2>1, ReturnMoves DEF SaveLink, UpdatePCs
<1>8. CASE Reread(w)
  <2>1. job[w].pc = "reread" /\ status' = status
    BY <1>8 DEF Reread, At
  <2> QED BY <1>8, <2>1, GotoMoves, ReturnMoves DEF Reread, UpdatePCs
<1> QED BY <1>1, <1>2, <1>3, <1>4, <1>5, <1>6, <1>7, <1>8 DEF UpdateStep

\* A failing call only brings its worker back to its caller, or to the second try of a link.
LEMMA FailMoves ==
  ASSUME TypeOK, NEW w \in Workers, Fail(w)
  PROVE  /\ \E j \in Job : /\ job' = [job EXCEPT ![w] = j]
                           /\ j.order = job[w].order
                           /\ \/ j.pc = "error"
                              \/ j.pc = "reread" /\ job[w].pc \in {"readLink", "saveLink"}
         /\ job[w].pc \in InACall
         /\ UNCHANGED <<status, txn, biller, pollLock>>
<1>1. job[w] \in Job
  BY DEF TypeOK
<1>2. CASE Return(w, "error")
  <2>1. AtRest("error", job[w].order) \in Job
    BY <1>1, AtRestTyped DEF Job, UpdatePCs
  <2> QED BY <1>2, <2>1 DEF Return, AtRest, Fail, CallFails, CreateFailsAfterCommit
<1>3. CASE /\ job[w].pc \in {"readLink", "saveLink"}
           /\ job' = [job EXCEPT ![w].pc = "reread", ![w].fresh = FALSE]
           /\ CallFails(w)
  <2> DEFINE j == [job[w] EXCEPT !.pc = "reread", !.fresh = FALSE]
  <2>1. j \in Job /\ j.pc = "reread" /\ j.order = job[w].order
    BY <1>1 DEF Job, UpdatePCs
  <2>2. job' = [job EXCEPT ![w] = j]
    BY <1>3 DEF TypeOK
  <2> HIDE DEF j
  <2> QED BY <1>3, <2>1, <2>2 DEF Fail, CallFails, CreateFailsAfterCommit
<1>4. \/ Return(w, "error")
      \/ /\ job[w].pc \in {"readLink", "saveLink"}
         /\ job' = [job EXCEPT ![w].pc = "reread", ![w].fresh = FALSE]
         /\ CallFails(w)
  BY DEF Fail, CallFails, CreateFailsAfterCommit
<1> QED BY <1>2, <1>3, <1>4

\* A row is written: whoever else works on the order must be able to live with it.
LEMMA RowWritten ==
  ASSUME OInv, NEW w \in Workers, NEW j \in Job, job' = [job EXCEPT ![w] = j],
         NEW o \in Orders, NEW new \in RowStatus \ {"absent"},
         status' = [status EXCEPT ![o] = new], UNCHANGED biller,
         Careful(w, j, status', biller), Locked',
         o = w \/ job[o].pc \notin {"new", "save"},
         ~PollRejects /\ new = "failed" => biller[o] \in {"none", "failed"},
         \A p \in Pollers \ {w} :
           job[p].pc = "ask" /\ job[p].order = o /\ new = "failed" => biller[o] # "none"
  PROVE  Orderly'
<1>1. /\ \A v \in Workers : job'[v] = IF v = w THEN j ELSE job[v]
      /\ \A q \in Orders : status'[q] = IF q = o THEN new ELSE status[q]
  BY DEF OInv, IInv, TypeOK
<1>2. ASSUME NEW v \in Workers, v # w
      PROVE  Careful(v, job[v], status', biller)
  <2>1. Careful(v, job[v], status, biller) /\ job[v] \in Job
    BY DEF OInv, Orderly, Care, IInv, TypeOK
  <2>2. /\ v \in Orders => job[v].order = v
        /\ job[v].pc = "ask" => job[v].order \in Orders
    BY DEF OInv, IInv, TypeOK, Evidence, Justified, Working
  <2>3. v \in Orders => /\ job[v].pc \in OwnPCs
                        /\ job[v].pc \in {"new", "save"} => status'[v] = "absent"
    BY <1>1, <1>2, <2>1 DEF Careful
  <2>4. v \notin Orders /\ job[v].order \in Orders => status'[job[v].order] # "absent"
    BY <1>1, <2>1 DEF Careful
  <2>5. v \in Pollers /\ job[v].pc = "ask" /\ biller[job[v].order] = "none"
          => status'[job[v].order] # "failed"
    BY <1>1, <1>2, <2>1, <2>2 DEF Careful
  <2> QED BY <2>1, <2>3, <2>4, <2>5 DEF Careful
<1>3. Care'
  BY <1>1, <1>2 DEF Care
<1>4. ~PollRejects => FailedIsReal'
  BY <1>1 DEF OInv, Orderly, FailedIsReal
<1> QED BY <1>3, <1>4 DEF Orderly

LEMMA UpdateCareful ==
  ASSUME OInv, NEW w \in Workers, SharedStep(w)
  PROVE  Orderly'
<1> DEFINE o == job[w].order
           new == NextStatus(w)
<1>1. PICK j \in Job : UpdateMove(w, j)
  BY UpdateMoves DEF SharedStep, OInv, IInv
<1>2. UNCHANGED <<biller, pollLock>>
  BY DEF SharedStep, callerVars
<1>3. Careful(w, job[w], status, biller) /\ job[w] \in Job
  BY DEF OInv, Orderly, Care, IInv, TypeOK
<1>4. Locked'
  <2>1. job[w].pc # "idle"
    BY <1>1 DEF UpdateMove, UpdatePCs
  <2> QED BY <1>1, <1>2, <2>1, LockStays DEF UpdateMove, OInv, IInv, Orderly
<1>5. w \in Orders => job[w].pc \notin {"check", "write"} /\ j.pc \notin {"check", "write"}
  BY <1>1, <1>3 DEF Careful, OwnPCs, UpdateMove
<1>6. ASSUME NEW rows, w \notin Orders /\ o \in Orders => rows[o] # "absent"
      PROVE  Careful(w, j, rows, biller)
  <2>1. w \in Orders => j.pc \in OwnPCs /\ j.pc \notin {"new", "save"}
    BY <1>1, <1>5 DEF UpdateMove, UpdatePCs, OwnPCs
  <2>2. j.pc \notin {"new", "save", "record", "ask"} /\ j.order = o
    BY <1>1 DEF UpdateMove, UpdatePCs
  <2>3. j.pc \in {"check", "write"} =>
          /\ j.goal # "absent"
          /\ ~PollRejects /\ j.goal = "failed" => biller[o] \in {"none", "failed"}
    BY <1>1, <1>3 DEF Careful, UpdateMove
  <2> QED BY <1>3, <1>6, <2>1, <2>2, <2>3 DEF Careful
<1>7. CASE status' = status
  <2>1. Careful(w, j, status, biller)
    BY <1>3, <1>6 DEF Careful
  <2>2. job' = [job EXCEPT ![w] = j]
    BY <1>1 DEF UpdateMove
  <2>3. TypeOK /\ Orderly /\ UNCHANGED <<status, biller>>
    BY <1>2, <1>7 DEF OInv, IInv
  <2> HIDE DEF o, new
  <2> QED BY <1>4, <2>1, <2>2, <2>3, CarefulMove
<1>8. CASE job[w].pc = "write" /\ status' = [status EXCEPT ![o] = new]
  <2>1. o \in Orders
    BY <1>8 DEF OInv, IInv, Evidence, Justified, Working
  <2>2. /\ new \in RowStatus \ {"absent"}
        /\ ~PollRejects /\ new = "failed" => biller[o] \in {"none", "failed"}
    BY <1>3, <1>8 DEF NextStatus, Careful, Job, RowStatus, OrderStatus
  <2>3. w \notin Orders /\ status[o] # "absent"
    BY <1>3, <1>5, <1>8, <2>1 DEF Careful
  <2>4. job[o].pc \notin {"new", "save"}
    BY <2>1, <2>3, WorkerAssumption DEF OInv, Orderly, Care, Careful
  <2>5. ASSUME NEW p \in Pollers \ {w}, job[p].pc = "ask", biller[o] = "none"
        PROVE  FALSE
    <3>1. w \in Pollers
      BY <1>3, <2>1, <2>3, <2>5, WorkerAssumption DEF Careful
    <3>2. pollLock = w /\ pollLock = p
      BY <1>8, <2>5, <3>1 DEF OInv, Orderly, Locked
    <3> QED BY <3>2
  <2>6. Careful(w, j, status', biller)
    <3>1. status'[o] # "absent"
      BY <1>8, <2>1, <2>2 DEF OInv, IInv, TypeOK
    <3> QED BY <1>6, <3>1
  <2>7. job' = [job EXCEPT ![w] = j] /\ UNCHANGED biller
    BY <1>1, <1>2 DEF UpdateMove
  <2>8. \A p \in Pollers \ {w} :
          job[p].pc = "ask" /\ job[p].order = o /\ new = "failed" => biller[o] # "none"
    BY <2>5
  <2>9. status' = [status EXCEPT ![o] = new]
    BY <1>8
  <2> HIDE DEF o, new
  <2> QED BY <1>4, <2>1, <2>2, <2>4, <2>6, <2>7, <2>8, <2>9, RowWritten
<1> QED BY <1>1, <1>7, <1>8 DEF UpdateMove

LEMMA SaveOrderCareful ==
  ASSUME OInv, NEW o \in Orders, SaveOrder(o)
  PROVE  Orderly'
<1> DEFINE j == [job[o] EXCEPT !.pc = "recordTopup"]
           new == job[o].goal
<1>1. /\ o \in Workers /\ job[o] \in Job /\ job[o].order = o /\ job[o].pc = "save"
      /\ Careful(o, job[o], status, biller)
  BY WorkerAssumption DEF SaveOrder, At, OInv, Orderly, Care, IInv, TypeOK
<1>2. job' = [job EXCEPT ![o] = j] /\ j \in Job /\ j.pc = "recordTopup" /\ j.order = o
  BY <1>1, GotoTyped DEF SaveOrder, OInv, IInv, CallerPCs, Job
<1>3. /\ new \in RowStatus \ {"absent"}
      /\ ~PollRejects /\ new = "failed" => biller[o] \in {"none", "failed"}
      /\ status[o] = "absent"
  BY <1>1 DEF Careful, Job
<1>4. status' = [status EXCEPT ![o] = new] /\ UNCHANGED <<biller, pollLock>>
  BY DEF SaveOrder, callerVars
<1> HIDE DEF j, new
<1>5. o \notin Pollers /\ o \notin Handlers
  BY WorkerAssumption
<1>6. Locked'
  BY <1>1, <1>2, <1>4, <1>5, LockStays DEF OInv, IInv, Orderly
<1>7. Careful(o, j, status', biller)
  BY <1>2, <1>5 DEF Careful, OwnPCs
<1>8. ASSUME NEW p \in Pollers, job[p].order = o
      PROVE  FALSE
  BY <1>3, <1>8, WorkerAssumption DEF OInv, Orderly, Care, Careful
<1> QED BY <1>1, <1>2, <1>3, <1>4, <1>6, <1>7, <1>8, RowWritten

LEMMA RecordTopupCareful ==
  ASSUME OInv, NEW o \in Orders, RecordTopup(o)
  PROVE  Orderly'
<1>1. /\ o \in Workers /\ o \notin Pollers /\ o \notin Handlers
      /\ job[o] \in Job /\ job[o].order = o
      /\ TypeOK /\ Orderly /\ UNCHANGED <<status, biller, pollLock>>
  BY WorkerAssumption DEF RecordTopup, OInv, IInv, TypeOK
<1>2. \E j \in Job : job' = [job EXCEPT ![o] = j] /\ j.pc \in {"latest", "ok"}
  <2>1. CASE Goto(o, "latest")
    <3>1. [job[o] EXCEPT !.pc = "latest"].pc = "latest"
      BY <1>1 DEF Job
    <3> QED BY <1>1, <2>1, <3>1, GotoTyped DEF UpdatePCs
  <2>2. CASE Return(o, "ok")
    <3> DEFINE j == AtRest("ok", job[o].order)
    <3>1. j.pc = "ok" /\ j.order = job[o].order
      BY DEF AtRest
    <3>2. j \in Job /\ job' = [job EXCEPT ![o] = j]
      BY <1>1, <2>2, ReturnTyped DEF UpdatePCs
    <3> HIDE DEF j
    <3> QED BY <3>1, <3>2
  <2> QED BY <2>1, <2>2 DEF RecordTopup
<1>3. PICK j \in Job : job' = [job EXCEPT ![o] = j] /\ j.pc \in {"latest", "ok"}
  BY <1>2
<1>4. Careful(o, j, status, biller)
  BY <1>1, <1>3 DEF Careful, OwnPCs
<1>5. Locked'
  BY <1>1, <1>3, LockStays DEF Orderly
<1> QED BY <1>1, <1>3, <1>4, <1>5, CarefulMove

LEMMA ReceiveWebhookCareful ==
  ASSUME OInv, NEW h \in Handlers, NEW o \in Orders, NEW k \in Payloads,
         ReceiveWebhook(h, o, k)
  PROVE  Orderly'
<1> DEFINE new == IF WebhookApplies(status[o], k) THEN k ELSE "absent"
           via == ViaProcessing(status[o], k)
           j == [AtRest("record", o) EXCEPT !.goal = new, !.via = via]
<1>1. k \in WebhookStatus /\ new \in RowStatus /\ via \in BOOLEAN
  BY ConstantAssumption
     DEF WebhookStatus, RowStatus, OrderStatus, WebhookApplies, ViaProcessing
<1>2. biller[o] # "none" /\ (new = "failed" => biller[o] = "failed")
  BY <1>1 DEF ReceiveWebhook, CanBeSent, WebhookStatus
<1> HIDE DEF new, via
<1>3. /\ j \in Job /\ j.order = o /\ j.pc = "record" /\ j.goal = new
  BY <1>1 DEF AtRest, Job, CallerPCs, RowStatus
<1>4. job' = [job EXCEPT ![h] = j]
  BY DEF ReceiveWebhook, new, via
<1> HIDE DEF j
<1>5. h \in Workers /\ h \notin Orders /\ h \notin Pollers
  BY WorkerAssumption
<1>6. /\ status[o] # "absent" /\ UNCHANGED <<status, biller, pollLock>>
      /\ TypeOK /\ Orderly
  BY DEF ReceiveWebhook, OInv, IInv
<1>7. Careful(h, j, status, biller)
  BY <1>2, <1>3, <1>5, <1>6 DEF Careful
<1>8. Locked'
  BY <1>3, <1>4, <1>5, <1>6, LockStays DEF Orderly
<1> QED BY <1>3, <1>4, <1>5, <1>6, <1>7, <1>8, CarefulMove

LEMMA RecordWebhookCareful ==
  ASSUME OInv, NEW h \in Handlers, RecordWebhook(h)
  PROVE  Orderly'
<1>1. /\ h \in Workers /\ h \notin Orders /\ h \notin Pollers
      /\ job[h] \in Job /\ job[h].pc = "record" /\ Careful(h, job[h], status, biller)
      /\ TypeOK /\ Orderly /\ UNCHANGED <<status, biller, pollLock>>
  BY WorkerAssumption DEF RecordWebhook, At, OInv, Orderly, Care, IInv, TypeOK
<1>2. \E j \in Job : /\ job' = [job EXCEPT ![h] = j]
                     /\ j.order = job[h].order
                     /\ \/ j.pc = "ok"
                        \/ j.pc = "check" /\ j.goal = job[h].goal /\ j.goal # "absent"
  <2>1. CASE job[h].goal # "absent" /\ Goto(h, "check")
    <3> DEFINE j == [job[h] EXCEPT !.pc = "check"]
    <3>1. j.pc = "check" /\ j.goal = job[h].goal /\ j.order = job[h].order
      BY <1>1 DEF Job
    <3>2. j \in Job /\ job' = [job EXCEPT ![h] = j]
      BY <1>1, <2>1, GotoTyped DEF UpdatePCs
    <3> HIDE DEF j
    <3> QED BY <2>1, <3>1, <3>2
  <2>2. CASE Return(h, "ok")
    <3> DEFINE j == AtRest("ok", job[h].order)
    <3>1. j.pc = "ok" /\ j.order = job[h].order
      BY DEF AtRest
    <3>2. j \in Job /\ job' = [job EXCEPT ![h] = j]
      BY <1>1, <2>2, ReturnTyped DEF UpdatePCs
    <3> HIDE DEF j
    <3> QED BY <3>1, <3>2
  <2> QED BY <2>1, <2>2 DEF RecordWebhook
<1>3. PICK j \in Job : /\ job' = [job EXCEPT ![h] = j]
                       /\ j.order = job[h].order
                       /\ \/ j.pc = "ok"
                          \/ j.pc = "check" /\ j.goal = job[h].goal /\ j.goal # "absent"
  BY <1>2
<1>4. Careful(h, j, status, biller)
  BY <1>1, <1>3 DEF Careful
<1>5. Locked'
  BY <1>1, <1>3, LockStays DEF Orderly
<1> QED BY <1>1, <1>3, <1>4, <1>5, CarefulMove

LEMMA AnswerWebhookCareful ==
  ASSUME OInv, NEW h \in Handlers, AnswerWebhook(h)
  PROVE  Orderly'
<1> DEFINE j == AtRest("idle", NoOrder)
<1>1. /\ h \in Workers /\ h \notin Orders /\ h \notin Pollers
      /\ job' = [job EXCEPT ![h] = j]
      /\ TypeOK /\ Orderly /\ UNCHANGED <<status, biller, pollLock>>
  BY WorkerAssumption DEF AnswerWebhook, OInv, IInv
<1>2. j \in Job /\ j.pc = "idle" /\ j.order = NoOrder
  BY AtRestTyped DEF AtRest, CallerPCs
<1> HIDE DEF j
<1>3. Careful(h, j, status, biller)
  BY <1>1, <1>2, OrderAssumption DEF Careful
<1>4. Locked'
  BY <1>1, <1>2, LockStays DEF Orderly
<1> QED BY <1>1, <1>2, <1>3, <1>4, CarefulMove

LEMMA StartPollCareful ==
  ASSUME OInv, NEW p \in Pollers, StartPoll(p)
  PROVE  Orderly'
<1> DEFINE j == [job[p] EXCEPT !.pc = "next"]
<1>1. /\ p \in Workers /\ p \notin Orders /\ p \notin Handlers
      /\ job[p] \in Job /\ Careful(p, job[p], status, biller)
      /\ TypeOK /\ Orderly /\ UNCHANGED <<status, biller>>
      /\ pollLock = Nobody /\ pollLock' = p
  BY WorkerAssumption DEF StartPoll, OInv, Orderly, Care, IInv, TypeOK
<1>2. /\ j \in Job /\ job' = [job EXCEPT ![p] = j]
      /\ j.pc = "next" /\ j.order = job[p].order
  BY <1>1, GotoTyped DEF StartPoll, CallerPCs, Job
<1> HIDE DEF j
<1>3. Careful(p, j, status, biller)
  BY <1>1, <1>2 DEF Careful
<1>4. Locked'
  BY <1>1, <1>2, WorkerAssumption, ConstantAssumption DEF Orderly, Locked, TypeOK
<1> QED BY <1>1, <1>2, <1>3, <1>4, CarefulMove

LEMMA PollOrderCareful ==
  ASSUME OInv, NEW p \in Pollers, NEW o \in Orders, PollOrder(p, o)
  PROVE  Orderly'
<1>1. /\ p \in Workers /\ p \notin Orders /\ p \notin Handlers /\ job[p].pc = "next"
      /\ TypeOK /\ Orderly /\ UNCHANGED <<status, biller, pollLock>>
  BY WorkerAssumption DEF PollOrder, At, OInv, IInv
<1>2. CASE IsActive(status[o]) /\ job' = [job EXCEPT ![p] = AtRest("ask", o)]
  <2> DEFINE j == AtRest("ask", o)
  <2>1. j \in Job /\ j.pc = "ask" /\ j.order = o
    BY AtRestTyped DEF AtRest, CallerPCs
  <2>2. job' = [job EXCEPT ![p] = j]
    BY <1>2
  <2> HIDE DEF j
  <2>3. Careful(p, j, status, biller)
    BY <1>1, <1>2, <2>1 DEF Careful, IsActive
  <2>4. Locked'
    BY <1>1, <2>1, <2>2, LockStays DEF Orderly
  <2> QED BY <1>1, <2>1, <2>2, <2>3, <2>4, CarefulMove
<1>3. CASE UNCHANGED job
  BY <1>1, <1>3 DEF Orderly, Care, Locked, FailedIsReal
<1> QED BY <1>2, <1>3 DEF PollOrder

LEMMA EndCheckCareful ==
  ASSUME OInv, NEW p \in Pollers, EndCheck(p)
  PROVE  Orderly'
<1> DEFINE j == AtRest("next", NoOrder)
<1>1. /\ p \in Workers /\ p \notin Orders /\ p \notin Handlers /\ job[p].pc # "idle"
      /\ job' = [job EXCEPT ![p] = j]
      /\ TypeOK /\ Orderly /\ UNCHANGED <<status, biller, pollLock>>
  BY WorkerAssumption DEF EndCheck, At, OInv, IInv
<1>2. j \in Job /\ j.pc = "next" /\ j.order = NoOrder
  BY AtRestTyped DEF AtRest, CallerPCs
<1> HIDE DEF j
<1>3. Careful(p, j, status, biller)
  BY <1>1, <1>2, OrderAssumption DEF Careful
<1>4. Locked'
  BY <1>1, <1>2, LockStays DEF Orderly
<1> QED BY <1>1, <1>2, <1>3, <1>4, CarefulMove

LEMMA EndPollCareful ==
  ASSUME OInv, NEW p \in Pollers, EndPoll(p)
  PROVE  Orderly'
<1> DEFINE j == [job[p] EXCEPT !.pc = "idle"]
<1>1. /\ p \in Workers /\ p \notin Orders /\ p \notin Handlers /\ job[p].pc = "next"
      /\ job[p] \in Job /\ Careful(p, job[p], status, biller)
      /\ TypeOK /\ Orderly /\ UNCHANGED <<status, biller>>
  BY WorkerAssumption DEF EndPoll, At, OInv, Orderly, Care, IInv, TypeOK
<1>2. /\ j \in Job /\ job' = [job EXCEPT ![p] = j]
      /\ j.pc = "idle" /\ j.order = job[p].order
  BY <1>1, GotoTyped DEF EndPoll, CallerPCs, Job
<1> HIDE DEF j
<1>3. Careful(p, j, status, biller)
  BY <1>1, <1>2 DEF Careful
<1>4. ASSUME NEW q \in Pollers PROVE job'[q].pc = "idle"
  <2>1. q \in Workers /\ job'[q] = IF q = p THEN j ELSE job[q]
    BY <1>1, <1>2, WorkerAssumption DEF TypeOK
  <2> QED BY <1>1, <1>2, <2>1 DEF Orderly, Locked
<1> QED BY <1>1, <1>2, <1>3, <1>4, CarefulMove DEF Locked

-------------------------------------------------------------------------------
\* The state of a purchase changes: whoever else is about to write that its order has
\* failed must still be right, and so must the row.
LEMMA PurchaseMoves ==
  ASSUME OInv, UNCHANGED status,
         NEW o \in Orders, NEW b \in BillerStates, biller' = [biller EXCEPT ![o] = b],
         NEW w \in Workers, NEW j \in Job, job' = [job EXCEPT ![w] = j],
         Careful(w, j, status, biller'), Locked',
         biller[o] # "none" => b # "none",
         ~PollRejects /\ status[o] = "failed" => b \in {"none", "failed"},
         \A v \in Workers \ {w} :
           /\ ~PollRejects /\ job[v].order = o /\ job[v].goal = "failed"
           /\ job[v].pc \in {"save", "record", "check", "write"}
           => b \in {"none", "failed"}
  PROVE  Orderly'
<1>1. /\ \A v \in Workers : job'[v] = IF v = w THEN j ELSE job[v]
      /\ \A q \in Orders : biller'[q] = IF q = o THEN b ELSE biller[q]
  BY DEF OInv, IInv, TypeOK
<1>2. ASSUME NEW v \in Workers, v # w
      PROVE  Careful(v, job[v], status, biller')
  <2>1. Careful(v, job[v], status, biller) /\ job[v] \in Job
    BY DEF OInv, Orderly, Care, IInv, TypeOK
  <2>2. job[v].pc \in {"save", "record", "check", "write", "ask"} => job[v].order \in Orders
    BY DEF OInv, IInv, Evidence, Justified, Working
  <2>3. /\ v \in Handlers /\ job[v].order \in Orders => biller'[job[v].order] # "none"
        /\ ~PollRejects /\ job[v].goal = "failed"
             /\ job[v].pc \in {"save", "record", "check", "write"} =>
             biller'[job[v].order] \in {"none", "failed"}
        /\ v \in Pollers /\ job[v].pc = "ask" /\ biller'[job[v].order] = "none" =>
             status[job[v].order] # "failed"
    BY <1>1, <1>2, <2>1, <2>2 DEF Careful
  <2> QED BY <2>1, <2>3 DEF Careful
<1>3. Care'
  BY <1>1, <1>2 DEF Care
<1>4. ~PollRejects => FailedIsReal'
  BY <1>1 DEF OInv, Orderly, FailedIsReal
<1> QED BY <1>3, <1>4 DEF Orderly

\* An answer of failure is true, unless status checks are refused.
LEMMA FailureIsTrue ==
  ASSUME NEW o \in Orders, NEW reply \in Replies, Topup(o, reply)
  PROVE  \E b \in BillerStates :
           /\ biller' = [biller EXCEPT ![o] = b]
           /\ biller[o] # "none" => b = biller[o]
           /\ ~PollRejects /\ reply \in {"gagal", "rejected"} => b \in {"none", "failed"}
<1>1. PICK b \in BillerStates :
        /\ biller[o] # "none" => b = biller[o]
        /\ ~PollRejects => reply \in Answers(b) \cup {"lost"}
        /\ biller' = [biller EXCEPT ![o] = b]
  BY DEF Topup
<1>2. ~PollRejects /\ reply \in {"gagal", "rejected"} => b \in {"none", "failed"}
  BY <1>1 DEF Answers, BillerStates
<1> QED BY <1>1, <1>2

LEMMA CallTopupCareful ==
  ASSUME OInv, NEW o \in Orders, CallTopup(o)
  PROVE  Orderly'
<1>1. PICK reply \in Replies :
        /\ Topup(o, reply)
        /\ job' = [job EXCEPT ![o].pc = "save", ![o].goal = CreationStatus(reply)]
  BY DEF CallTopup
<1>2. PICK b \in BillerStates :
        /\ biller' = [biller EXCEPT ![o] = b]
        /\ biller[o] # "none" => b = biller[o]
        /\ ~PollRejects /\ reply \in {"gagal", "rejected"} => b \in {"none", "failed"}
  BY <1>1, FailureIsTrue
<1> DEFINE new == CreationStatus(reply)
           j == [job[o] EXCEPT !.pc = "save", !.goal = new]
<1>3. /\ o \in Workers /\ o \notin Pollers /\ o \notin Handlers
      /\ job[o] \in Job /\ job[o].order = o /\ job[o].pc = "new"
      /\ Careful(o, job[o], status, biller) /\ UNCHANGED <<status, pollLock>>
      /\ TypeOK /\ Orderly
  BY WorkerAssumption DEF CallTopup, At, OInv, Orderly, Care, IInv, TypeOK
<1>4. new \in RowStatus \ {"absent"} /\ (new = "failed" => reply \in {"gagal", "rejected"})
  BY DEF CreationStatus, StatusOfReply, RowStatus, OrderStatus, Replies
<1>5. j \in Job /\ j.order = o /\ j.pc = "save" /\ j.goal = new
  <2> HIDE DEF new
  <2> QED BY <1>3, <1>4 DEF Job, CallerPCs
<1>6. job' = [job EXCEPT ![o] = j]
  BY <1>1, <1>3 DEF TypeOK
<1> HIDE DEF j, new
<1>7. status[o] = "absent" /\ biller'[o] = b
  BY <1>2, <1>3 DEF Careful, TypeOK
<1>8. Careful(o, j, status, biller')
  BY <1>2, <1>3, <1>4, <1>5, <1>7 DEF Careful, OwnPCs
<1>9. Locked'
  BY <1>3, <1>5, <1>6, LockStays DEF Orderly
<1>10. ASSUME NEW v \in Workers \ {o}, job[v].order = o
       PROVE  FALSE
  <2>1. v \notin Orders
    BY <1>10, WorkerAssumption DEF OInv, IInv, TypeOK
  <2> QED BY <1>7, <1>10, <2>1 DEF OInv, Orderly, Care, Careful
<1>11. \A v \in Workers \ {o} :
         /\ ~PollRejects /\ job[v].order = o /\ job[v].goal = "failed"
         /\ job[v].pc \in {"save", "record", "check", "write"}
         => b \in {"none", "failed"}
  BY <1>10
<1>12. biller' = [biller EXCEPT ![o] = b] /\ (biller[o] # "none" => b # "none") /\ UNCHANGED status
  BY <1>2, <1>3
<1>13. /\ o \in Workers /\ j \in Job
       /\ ~PollRejects /\ status[o] = "failed" => b \in {"none", "failed"}
  BY <1>3, <1>5, <1>7
<1> QED BY <1>6, <1>8, <1>9, <1>11, <1>12, <1>13, PurchaseMoves

LEMMA AskBillerCareful ==
  ASSUME OInv, NEW p \in Pollers, NEW reply \in Replies, AskBiller(p, reply)
  PROVE  Orderly'
<1> DEFINE o == job[p].order
           new == StatusOfReply(reply)
<1>1. /\ p \in Workers /\ p \notin Orders /\ p \notin Handlers
      /\ job[p] \in Job /\ job[p].pc = "ask" /\ o \in Orders
      /\ Careful(p, job[p], status, biller) /\ UNCHANGED <<status, pollLock>>
      /\ TypeOK /\ Orderly /\ Topup(o, reply)
  BY WorkerAssumption
     DEF AskBiller, At, OInv, Orderly, Care, IInv, TypeOK, Evidence, Justified, Working
<1>2. PICK b \in BillerStates :
        /\ biller' = [biller EXCEPT ![o] = b]
        /\ biller[o] # "none" => b = biller[o]
        /\ ~PollRejects /\ reply \in {"gagal", "rejected"} => b \in {"none", "failed"}
  BY <1>1, FailureIsTrue
<1>3. new \in RowStatus \ {"absent"} /\ (new = "failed" => reply \in {"gagal", "rejected"})
  BY DEF StatusOfReply, RowStatus, OrderStatus, Replies
<1>4. \E j \in Job : /\ job' = [job EXCEPT ![p] = j]
                     /\ j.order = o
                     /\ j.pc = "ok" \/ (j.pc = "check" /\ j.goal = new)
  <2>1. CASE Return(p, "ok")
    <3> DEFINE j == AtRest("ok", o)
    <3>1. j.pc = "ok" /\ j.order = o
      BY DEF AtRest
    <3>2. j \in Job /\ job' = [job EXCEPT ![p] = j]
      BY <1>1, <2>1, ReturnTyped DEF UpdatePCs
    <3> HIDE DEF j
    <3> QED BY <3>1, <3>2
  <2>2. CASE CallUpdate(p, o, new, ViaProcessing(seen[p], new))
    <3> DEFINE via == ViaProcessing(seen[p], new)
               j == [AtRest("check", o) EXCEPT !.goal = new, !.via = via]
    <3>1. via \in BOOLEAN
      BY DEF ViaProcessing
    <3> HIDE DEF new, via
    <3>2. j \in Job /\ j.order = o /\ j.pc = "check" /\ j.goal = new
      BY <1>1, <1>3, <3>1 DEF AtRest, Job, UpdatePCs
    <3>3. job' = [job EXCEPT ![p] = j]
      BY <2>2 DEF CallUpdate, new, via
    <3> HIDE DEF j
    <3> QED BY <3>2, <3>3
  <2> QED BY <2>1, <2>2 DEF AskBiller
<1>5. PICK j \in Job : /\ job' = [job EXCEPT ![p] = j]
                       /\ j.order = o
                       /\ j.pc = "ok" \/ (j.pc = "check" /\ j.goal = new)
  BY <1>4
<1> HIDE DEF new
<1>6. biller'[o] = b /\ status[o] # "absent" /\ (biller[o] = "none" => status[o] # "failed")
  BY <1>1, <1>2 DEF Careful, TypeOK
<1>7. Careful(p, j, status, biller')
  BY <1>1, <1>2, <1>3, <1>5, <1>6 DEF Careful
<1>8. Locked'
  BY <1>1, <1>5, LockStays DEF Orderly
<1>9. ~PollRejects /\ status[o] = "failed" => b \in {"none", "failed"}
  BY <1>1, <1>2, <1>6 DEF Orderly, FailedIsReal
\* Nobody else is about to write: the lock keeps the other pollers out, no webhook can
\* have come before the purchase, and the order's own request has saved its row.
<1>10. ASSUME NEW v \in Workers \ {p}, ~PollRejects, job[v].order = o, job[v].goal = "failed",
              job[v].pc \in {"save", "record", "check", "write"}
       PROVE  b \in {"none", "failed"}
  <2>1. Careful(v, job[v], status, biller)
    BY DEF OInv, Orderly, Care
  <2>2. CASE biller[o] # "none"
    BY <1>2, <1>10, <2>1, <2>2 DEF Careful
  <2>3. CASE biller[o] = "none"
    <3>1. v \notin Handlers
      BY <1>1, <1>10, <2>1, <2>3 DEF Careful
    <3>2. v \notin Pollers
      BY <1>1, <1>10 DEF Orderly, Locked
    <3>3. v \in Orders /\ v = o
      BY <1>10, <3>1, <3>2, WorkerAssumption DEF OInv, IInv, TypeOK
    <3> QED BY <1>6, <1>10, <2>1, <3>3 DEF Careful, OwnPCs
  <2> QED BY <2>2, <2>3
<1>11. \A v \in Workers \ {p} :
         /\ ~PollRejects /\ job[v].order = o /\ job[v].goal = "failed"
         /\ job[v].pc \in {"save", "record", "check", "write"}
         => b \in {"none", "failed"}
  BY <1>10
<1>12. biller' = [biller EXCEPT ![o] = b] /\ (biller[o] # "none" => b # "none") /\ UNCHANGED status
  BY <1>1, <1>2
<1>13. o \in Orders /\ p \in Workers /\ job' = [job EXCEPT ![p] = j]
  BY <1>1, <1>5
<1> HIDE DEF o
<1> QED BY <1>7, <1>8, <1>9, <1>11, <1>12, <1>13, PurchaseMoves

LEMMA BillerSettlesCareful ==
  ASSUME OInv, NEW o \in Orders, BillerSettles(o)
  PROVE  Orderly'
<1>1. PICK b \in BillerStates : biller' = [biller EXCEPT ![o] = b] /\ b # "none"
  BY DEF BillerSettles, BillerStates
<1>2. /\ o \in Workers /\ o \notin Handlers /\ o \notin Pollers /\ job[o] \in Job
      /\ job[o].order = o /\ biller[o] = "open" /\ UNCHANGED <<status, job, pollLock>>
      /\ Careful(o, job[o], status, biller) /\ TypeOK /\ Orderly
  BY WorkerAssumption DEF BillerSettles, updateVars, OInv, Orderly, Care, IInv, TypeOK
<1>3. job' = [job EXCEPT ![o] = job[o]]
  BY <1>2 DEF TypeOK
<1>4. Locked' /\ (~PollRejects => status[o] # "failed")
  BY <1>2 DEF Orderly, Locked, FailedIsReal
<1>5. \A v \in Workers : ~(/\ ~PollRejects /\ job[v].order = o /\ job[v].goal = "failed"
                           /\ job[v].pc \in {"save", "record", "check", "write"})
  BY <1>2 DEF Orderly, Care, Careful
<1>6. Careful(o, job[o], status, biller')
  BY <1>2, <1>5 DEF Careful
<1>7. \A v \in Workers \ {o} :
         /\ ~PollRejects /\ job[v].order = o /\ job[v].goal = "failed"
         /\ job[v].pc \in {"save", "record", "check", "write"}
         => b \in {"none", "failed"}
  BY <1>5
<1>8. /\ biller' = [biller EXCEPT ![o] = b] /\ (biller[o] # "none" => b # "none")
      /\ UNCHANGED status /\ (~PollRejects /\ status[o] = "failed" => b \in {"none", "failed"})
  BY <1>1, <1>2, <1>4
<1>9. o \in Workers /\ job[o] \in Job /\ Locked'
  BY <1>2, <1>4
<1> QED BY <1>3, <1>6, <1>7, <1>8, <1>9, PurchaseMoves

LEMMA FailCareful ==
  ASSUME OInv, NEW w \in Workers, Fail(w)
  PROVE  Orderly'
<1>1. PICK j \in Job : /\ job' = [job EXCEPT ![w] = j]
                       /\ j.order = job[w].order
                       /\ \/ j.pc = "error"
                          \/ j.pc = "reread" /\ job[w].pc \in {"readLink", "saveLink"}
  BY FailMoves DEF OInv, IInv
<1>2. /\ job[w].pc # "idle" /\ UNCHANGED <<status, biller, pollLock>>
      /\ Careful(w, job[w], status, biller) /\ TypeOK /\ Orderly
  BY FailMoves DEF OInv, Orderly, Care, IInv, InACall, UpdatePCs
<1>3. Careful(w, j, status, biller)
  BY <1>1, <1>2 DEF Careful, OwnPCs
<1>4. Locked'
  BY <1>1, <1>2, LockStays DEF Orderly
<1> QED BY <1>1, <1>2, <1>3, <1>4, CarefulMove

LEMMA CrashCareful ==
  ASSUME OInv, Crash
  PROVE  Orderly'
<1>1. UNCHANGED <<status, biller>> /\ Orderly
  BY DEF Crash, OInv
<1>2. ASSUME NEW w \in Workers PROVE Careful(w, job'[w], status, biller)
  <2>1. CASE w \in Orders /\ job[w].pc = "new"
    <3>1. job'[w] = job[w]
      BY <2>1 DEF Crash
    <3> QED BY <1>1, <3>1 DEF Orderly, Care
  <2>2. CASE w \in Orders /\ job[w].pc # "new"
    <3>1. job'[w] = AtRest("error", w)
      BY <2>2 DEF Crash
    <3> QED BY <2>2, <3>1, WorkerAssumption DEF AtRest, Careful, OwnPCs
  <2>3. CASE w \notin Orders
    <3>1. job'[w] = AtRest("idle", NoOrder)
      BY <2>3 DEF Crash
    <3> QED BY <2>3, <3>1, OrderAssumption DEF AtRest, Careful
  <2> QED BY <2>1, <2>2, <2>3
<1>3. Care'
  BY <1>1, <1>2 DEF Care
<1>4. Locked'
  BY WorkerAssumption DEF Crash, Locked, AtRest
<1> QED BY <1>1, <1>3, <1>4 DEF Orderly, FailedIsReal

LEMMA InitCareful ==
  ASSUME Init
  PROVE  Orderly
<1>1. Care
  <2> SUFFICES ASSUME NEW w \in Workers PROVE Careful(w, job[w], status, biller)
    BY DEF Care
  <2>1. CASE w \in Orders
    BY <2>1, WorkerAssumption DEF Init, AtRest, Careful, OwnPCs
  <2>2. CASE w \notin Orders
    BY <2>2, OrderAssumption DEF Init, AtRest, Careful
  <2> QED BY <2>1, <2>2
<1>2. Locked /\ FailedIsReal
  BY WorkerAssumption DEF Init, AtRest, Locked, FailedIsReal
<1> QED BY <1>1, <1>2 DEF Orderly

LEMMA NextCareful ==
  ASSUME OInv, [Next]_vars
  PROVE  Orderly'
<1>1. ASSUME NEW o \in Orders, OrderStep(o) \/ BillerSettles(o)
      PROVE  Orderly'
  BY <1>1, CallTopupCareful, SaveOrderCareful, RecordTopupCareful, BillerSettlesCareful
     DEF OrderStep
<1>2. ASSUME NEW h \in Handlers,
             \/ RecordWebhook(h) \/ AnswerWebhook(h)
             \/ \E o \in Orders, k \in Payloads : ReceiveWebhook(h, o, k)
      PROVE  Orderly'
  BY <1>2, ReceiveWebhookCareful, RecordWebhookCareful, AnswerWebhookCareful
<1>3. ASSUME NEW p \in Pollers, PollStep(p)
      PROVE  Orderly'
  BY <1>3, StartPollCareful, PollOrderCareful, AskBillerCareful, EndCheckCareful, EndPollCareful
     DEF PollStep
<1>4. ASSUME NEW w \in Workers, SharedStep(w) \/ Fail(w)
      PROVE  Orderly'
  BY <1>4, UpdateCareful, FailCareful
<1>5. CASE Crash
  BY <1>5, CrashCareful
<1>6. CASE UNCHANGED <<status, job, biller, pollLock>>
  BY <1>6 DEF OInv, Orderly, Care, Locked, FailedIsReal
<1>7. ASSUME \/ UNCHANGED vars
             \/ \E o \in Orders : Expire(o)
             \/ \E t \in 1 .. Len(ledger) : UserDeletes(t)
      PROVE  UNCHANGED <<status, job, biller, pollLock>>
  BY <1>7 DEF vars, updateVars, callerVars, Expire, UserDeletes, DeleteExpense
<1> QED BY <1>1, <1>2, <1>3, <1>4, <1>5, <1>6, <1>7 DEF Next

LEMMA OrderlyAlways == Spec => []OInv
<1>1. Init => OInv
  BY InitEstablishes, InitCareful DEF OInv
<1>2. OInv /\ [Next]_vars => OInv'
  BY NextKeeps, NextCareful DEF OInv
<1> QED BY <1>1, <1>2, PTL DEF Spec

\* An order is shown as failed only when the biller has no purchase of it that is or may
\* become successful, as long as the biller answers a status check with what it knows of
\* the purchase: however polls, webhooks, lost answers and crashes are interleaved.
THEOREM FailedIsRealAlways ==
  ASSUME ~PollRejects
  PROVE  Spec => []FailedIsReal
<1>1. OInv => FailedIsReal
  BY DEF OInv, Orderly
<1> QED BY <1>1, OrderlyAlways, PTL

-------------------------------------------------------------------------------
(***************************************************************************)
(* Purchases have orders.                                                  *)
(***************************************************************************)

\* Nothing is bought before the request has begun, and while no call has failed the
\* request leaves a row behind.
Placed ==
  \A o \in Orders :
    /\ job[o].pc = "new" => biller[o] = "none"
    /\ faults = 0 /\ job[o].pc \notin {"new", "save"} => status[o] # "absent"

\* What a step has to respect.
PlacedStep ==
  \A o \in Orders :
    /\ job'[o].pc = "new" => job[o].pc = "new" /\ biller'[o] = biller[o]
    /\ status[o] # "absent" => status'[o] # "absent"
    /\ faults' = 0 => faults = 0
    /\ faults' = 0 /\ job[o].pc \in {"new", "save"} /\ job'[o].pc \notin {"new", "save"}
         => status'[o] # "absent"

LEMMA PlacedStays ==
  ASSUME Placed, PlacedStep
  PROVE  Placed'
  BY DEF Placed, PlacedStep

\* Handlers and pollers, when they call neither the biller nor the shared procedure.
LEMMA OthersMove ==
  ASSUME IInv, NEW w \in Handlers \cup Pollers, NEW j, job' = [job EXCEPT ![w] = j],
         UNCHANGED <<status, biller, faults>>
  PROVE  PlacedStep
<1>1. \A o \in Orders : job'[o] = job[o]
  BY WorkerAssumption DEF IInv, TypeOK
<1> QED BY <1>1 DEF PlacedStep

LEMMA UpdatePlaced ==
  ASSUME OInv, NEW w \in Workers, SharedStep(w)
  PROVE  PlacedStep
<1>1. PICK j \in Job : UpdateMove(w, j)
  BY UpdateMoves DEF SharedStep, OInv, IInv
<1>2. \A v \in Workers : job'[v] = IF v = w THEN j ELSE job[v]
  BY <1>1 DEF UpdateMove, OInv, IInv, TypeOK
<1>3. /\ job[w].pc \notin {"new", "save"} /\ j.pc \notin {"new", "save"}
      /\ job[w].pc = "write" => NextStatus(w) # "absent"
  BY <1>1 DEF UpdateMove, UpdatePCs, OInv, Orderly, Care, Careful, NextStatus
<1>4. \A o \in Orders : status[o] # "absent" => status'[o] # "absent"
  <2>1. CASE status' = status
    BY <2>1
  <2>2. CASE job[w].pc = "write" /\ status' = [status EXCEPT ![job[w].order] = NextStatus(w)]
    BY <1>3, <2>2 DEF OInv, IInv, TypeOK
  <2> QED BY <1>1, <2>1, <2>2 DEF UpdateMove
<1>5. UNCHANGED <<biller, faults>>
  BY DEF SharedStep, callerVars
<1> QED BY <1>2, <1>3, <1>4, <1>5, WorkerAssumption DEF PlacedStep

LEMMA OrderPlaced ==
  ASSUME OInv, NEW o \in Orders, OrderStep(o)
  PROVE  PlacedStep
<1>1. /\ o \in Workers /\ job[o] \in Job /\ job[o].order = o
      /\ Careful(o, job[o], status, biller) /\ faults' = faults
  BY WorkerAssumption DEF OInv, IInv, TypeOK, Orderly, Care, OrderStep, CallTopup, SaveOrder,
                          RecordTopup, callerVars
<1>2. CASE CallTopup(o)
  <2>1. PICK reply \in Replies :
          /\ Topup(o, reply)
          /\ job' = [job EXCEPT ![o].pc = "save", ![o].goal = CreationStatus(reply)]
    BY <1>2 DEF CallTopup
  <2>2. \A q \in Orders : /\ q # o => job'[q] = job[q] /\ biller'[q] = biller[q]
                          /\ job'[o].pc = "save"
    BY <1>1, <2>1, WorkerAssumption DEF Topup, OInv, IInv, TypeOK, Job
  <2> QED BY <1>1, <1>2, <2>2 DEF PlacedStep, CallTopup
<1>3. CASE SaveOrder(o)
  <2>1. /\ \A q \in Orders : q # o => job'[q] = job[q] /\ status'[q] = status[q]
        /\ job'[o].pc = "recordTopup" /\ status'[o] = job[o].goal /\ biller' = biller
    BY <1>1, <1>3, WorkerAssumption DEF SaveOrder, Goto, OInv, IInv, TypeOK, Job, callerVars
  <2>2. job[o].goal # "absent"
    BY <1>1, <1>3 DEF SaveOrder, At, Careful
  <2> QED BY <1>1, <2>1, <2>2 DEF PlacedStep
<1>4. CASE RecordTopup(o)
  <2>1. \A q \in Orders : q # o => job'[q] = job[q]
    BY <1>4, WorkerAssumption DEF RecordTopup, Goto, Return, OInv, IInv, TypeOK
  <2>2. job'[o].pc \in {"latest", "ok"} /\ job[o].pc = "recordTopup"
    <3>1. CASE Goto(o, "latest")
      BY <1>1, <3>1, <1>4 DEF RecordTopup, At, Goto, OInv, IInv, TypeOK, Job
    <3>2. CASE Return(o, "ok")
      BY <1>1, <3>2, <1>4 DEF RecordTopup, At, Return, AtRest, OInv, IInv, TypeOK
    <3> QED BY <1>4, <3>1, <3>2 DEF RecordTopup
  <2> QED BY <1>1, <1>4, <2>1, <2>2 DEF PlacedStep, RecordTopup
<1> QED BY <1>2, <1>3, <1>4 DEF OrderStep

LEMMA AskBillerPlaced ==
  ASSUME OInv, NEW p \in Pollers, NEW reply \in Replies, AskBiller(p, reply)
  PROVE  PlacedStep
<1> DEFINE o == job[p].order
<1>1. \A q \in Orders : job'[q] = job[q]
  BY WorkerAssumption DEF AskBiller, CallUpdate, Return, OInv, IInv, TypeOK
<1>2. p \in Workers /\ p \notin Orders /\ o \in Orders
  BY WorkerAssumption DEF AskBiller, At, OInv, IInv, Evidence, Justified, Working
<1>3. status[o] # "absent" /\ status' = status /\ faults' = faults
  BY <1>2 DEF AskBiller, OInv, Orderly, Care, Careful
<1>4. job[o].pc # "new"
  BY <1>2, <1>3, WorkerAssumption DEF OInv, Orderly, Care, Careful
<1>5. \A q \in Orders : q # o => biller'[q] = biller[q]
  BY <1>2 DEF AskBiller, Topup, OInv, IInv, TypeOK
<1> QED BY <1>1, <1>3, <1>4, <1>5 DEF PlacedStep

LEMMA BillerSettlesPlaced ==
  ASSUME Placed, IInv, NEW o \in Orders, BillerSettles(o)
  PROVE  PlacedStep
<1>1. job[o].pc # "new" /\ \A q \in Orders : q # o => biller'[q] = biller[q]
  BY DEF BillerSettles, Placed, IInv, TypeOK
<1> QED BY <1>1 DEF BillerSettles, updateVars, PlacedStep

LEMMA FaultPlaced ==
  ASSUME IInv, Crash \/ \E w \in Workers : Fail(w)
  PROVE  PlacedStep
<1>1. faults' # 0 /\ UNCHANGED <<status, biller>>
  <2>1. faults \in Nat /\ faults' = faults + 1
    BY DEF Crash, Fail, IInv, TypeOK
  <2>2. UNCHANGED <<status, biller>>
    BY FailMoves DEF Crash, IInv
  <2> QED BY <2>1, <2>2
<1>2. ASSUME NEW o \in Orders, job'[o].pc = "new" PROVE job[o].pc = "new"
  <2>1. CASE Crash
    BY <1>2, <2>1, WorkerAssumption DEF Crash, AtRest
  <2>2. CASE \E w \in Workers : Fail(w)
    <3>1. PICK w \in Workers : Fail(w)
      BY <2>2
    <3>2. PICK j \in Job : job' = [job EXCEPT ![w] = j] /\ j.pc \in {"error", "reread"}
      BY <3>1, FailMoves DEF IInv
    <3> QED BY <1>2, <3>2, WorkerAssumption DEF IInv, TypeOK
  <2> QED BY <2>1, <2>2
<1> QED BY <1>1, <1>2 DEF PlacedStep

LEMMA NextPlaced ==
  ASSUME OInv, Placed, [Next]_vars
  PROVE  Placed'
<1> SUFFICES PlacedStep
  BY PlacedStays
<1>0. IInv
  BY DEF OInv
<1>1. ASSUME NEW o \in Orders, OrderStep(o) \/ BillerSettles(o)
      PROVE  PlacedStep
  BY <1>0, <1>1, OrderPlaced, BillerSettlesPlaced
<1>2. ASSUME NEW h \in Handlers,
             \/ RecordWebhook(h) \/ AnswerWebhook(h)
             \/ \E o \in Orders, k \in Payloads : ReceiveWebhook(h, o, k)
      PROVE  PlacedStep
  <2>1. \E j : job' = [job EXCEPT ![h] = j]
    BY <1>2 DEF RecordWebhook, AnswerWebhook, ReceiveWebhook, Goto, Return
  <2>2. UNCHANGED <<status, biller, faults>>
    BY <1>2 DEF RecordWebhook, AnswerWebhook, ReceiveWebhook
  <2> QED BY <1>0, <2>1, <2>2, OthersMove
<1>3. ASSUME NEW p \in Pollers, PollStep(p)
      PROVE  PlacedStep
  <2>1. ASSUME \/ StartPoll(p) \/ EndCheck(p) \/ EndPoll(p)
               \/ \E o \in Orders : PollOrder(p, o)
        PROVE  PlacedStep
    <3>1. UNCHANGED <<status, biller, faults>>
      BY <2>1 DEF StartPoll, EndCheck, EndPoll, PollOrder
    <3>2. UNCHANGED job \/ \E j : job' = [job EXCEPT ![p] = j]
      BY <2>1 DEF StartPoll, EndCheck, EndPoll, PollOrder, Goto
    <3>3. CASE UNCHANGED job
      BY <3>1, <3>3 DEF PlacedStep
    <3> QED BY <1>0, <3>1, <3>2, <3>3, OthersMove
  <2> QED BY <1>3, <2>1, AskBillerPlaced DEF PollStep
<1>4. ASSUME NEW w \in Workers, SharedStep(w)
      PROVE  PlacedStep
  BY <1>4, UpdatePlaced
<1>5. CASE Crash \/ \E w \in Workers : Fail(w)
  BY <1>0, <1>5, FaultPlaced
<1>6. ASSUME \/ UNCHANGED vars
             \/ \E o \in Orders : Expire(o)
             \/ \E t \in 1 .. Len(ledger) : UserDeletes(t)
      PROVE  PlacedStep
  BY <1>6 DEF vars, updateVars, callerVars, Expire, UserDeletes, DeleteExpense, PlacedStep
<1> QED BY <1>1, <1>2, <1>3, <1>4, <1>5, <1>6 DEF Next

\* Whatever the biller has accepted has an order once its request is answered, as long as
\* no call to the database has failed and the server has not stopped: also when the answer
\* of the biller was lost or refused.
THEOREM PurchaseHasOrderAlways == Spec => []PurchaseHasOrder
<1>1. Init => Placed
  BY WorkerAssumption DEF Init, Placed, AtRest
<1>2. Placed /\ OInv /\ [Next]_vars => Placed'
  BY NextPlaced
<1>3. Placed => PurchaseHasOrder
  BY DEF Placed, PurchaseHasOrder
<1> QED BY <1>1, <1>2, <1>3, OrderlyAlways, PTL DEF Spec

-------------------------------------------------------------------------------
(***************************************************************************)
(* Successful orders are booked.                                           *)
(***************************************************************************)

\* A worker with the job j will link the order it works on, or find it linked.
Finisher(j) ==
  \/ j.pc = "recordTopup" /\ j.goal = "success"
  \/ j.pc \in {"latest", "find", "create", "readLink", "saveLink"}

\* While no call has failed, a successful order that is not linked has somebody who will
\* link it.
Booked ==
  faults = 0 =>
    \A o \in Orders : status[o] = "success" /\ txn[o] = 0 =>
      \E w \in Workers : job[w].order = o /\ Finisher(job[w])

\* What a step of worker w that leaves it with job j has to respect: no link is removed,
\* whoever writes success goes on to the link, and whoever was on the way to it stays on
\* it until the order is linked.
BookedStep(w, j) ==
  /\ faults' = faults
  /\ job' = [job EXCEPT ![w] = j]
  /\ \A o \in Orders : txn[o] # 0 => txn'[o] # 0
  /\ \A o \in Orders : status'[o] = "success" /\ txn'[o] = 0 =>
       /\ status[o] # "success" => j.order = o /\ Finisher(j)
       /\ job[w].order = o /\ Finisher(job[w]) => j.order = o /\ Finisher(j)

LEMMA BookedStays ==
  ASSUME TypeOK, Booked, NEW w \in Workers, NEW j, BookedStep(w, j)
  PROVE  Booked'
<1> SUFFICES ASSUME faults' = 0, NEW o \in Orders, status'[o] = "success", txn'[o] = 0
             PROVE  \E v \in Workers : job'[v].order = o /\ Finisher(job'[v])
  BY DEF Booked, Finisher
<1>1. \A v \in Workers : job'[v] = IF v = w THEN j ELSE job[v]
  BY DEF BookedStep, TypeOK
<1>2. CASE status[o] # "success"
  <2>1. j.order = o /\ Finisher(j)
    BY <1>2 DEF BookedStep
  <2> QED BY <1>1, <2>1
<1>3. CASE status[o] = "success"
  <2>1. txn[o] = 0 /\ faults = 0
    BY DEF BookedStep
  <2>2. PICK v \in Workers : job[v].order = o /\ Finisher(job[v])
    BY <1>3, <2>1 DEF Booked
  <2>3. CASE v = w
    <3>1. j.order = o /\ Finisher(j)
      BY <2>2, <2>3 DEF BookedStep
    <3> QED BY <1>1, <3>1
  <2>4. CASE v # w
    BY <1>1, <2>2, <2>4
  <2> QED BY <2>3, <2>4
<1> QED BY <1>2, <1>3

\* A worker that is not on the way to a link, and writes nothing.
LEMMA IdleMoves ==
  ASSUME TypeOK, Booked, UNCHANGED <<status, txn, faults>>,
         NEW w \in Workers, NEW j, job' = [job EXCEPT ![w] = j], ~Finisher(job[w])
  PROVE  Booked'
<1>1. BookedStep(w, j)
  BY DEF BookedStep
<1> QED BY <1>1, BookedStays

\* A worker on the way to a link goes to its next stop.
LEMMA FinisherMoves ==
  ASSUME TypeOK, Booked, UNCHANGED <<status, txn, faults>>,
         NEW w \in Workers, NEW j, job' = [job EXCEPT ![w] = j],
         j.order = job[w].order,
         LET o == job[w].order IN
         o \in Orders /\ status[o] = "success" /\ txn[o] = 0 => Finisher(j)
  PROVE  Booked'
<1>1. BookedStep(w, j)
  BY DEF BookedStep
<1> QED BY <1>1, BookedStays

\* How the shared procedure moves a worker.
LEMMA GotoShape ==
  ASSUME TypeOK, NEW w \in Workers, NEW pc \in UpdatePCs, Goto(w, pc)
  PROVE  \E j \in Job : /\ job' = [job EXCEPT ![w] = j]
                        /\ j.order = job[w].order /\ j.pc = pc /\ j.goal = job[w].goal
<1> DEFINE j == [job[w] EXCEPT !.pc = pc]
<1>1. j \in Job /\ job' = [job EXCEPT ![w] = j]
  BY GotoTyped
<1>2. j.pc = pc /\ j.order = job[w].order /\ j.goal = job[w].goal
  BY DEF TypeOK, Job
<1> HIDE DEF j
<1> QED BY <1>1, <1>2

LEMMA ReturnShape ==
  ASSUME TypeOK, NEW w \in Workers, NEW pc \in {"ok", "error"}, Return(w, pc)
  PROVE  \E j \in Job : /\ job' = [job EXCEPT ![w] = j]
                        /\ j.order = job[w].order /\ j.pc = pc
<1> DEFINE j == AtRest(pc, job[w].order)
<1>1. j \in Job /\ job' = [job EXCEPT ![w] = j]
  BY ReturnTyped DEF UpdatePCs
<1>2. j.pc = pc /\ j.order = job[w].order
  BY DEF AtRest
<1> HIDE DEF j
<1> QED BY <1>1, <1>2

LEMMA TakeShape ==
  ASSUME TypeOK, NEW w \in Workers, FindExpense(w) \/ FindAgain(w) \/ CreateExpense(w)
  PROVE  \E j \in Job : /\ job' = [job EXCEPT ![w] = j]
                        /\ j.order = job[w].order
                        /\ \/ j.pc = "readLink"
                           \/ j.pc = "create" /\ FindExpense(w)
                           \/ j.pc = "error" /\ FindAgain(w)
<1>1. job[w] \in Job /\ Len(ledger) \in Nat
  BY DEF TypeOK
<1>2. CASE \E t \in Nat, fresh \in BOOLEAN :
             job' = [job EXCEPT ![w] =
                       [job[w] EXCEPT !.pc = "readLink", !.txn = t, !.fresh = fresh]]
  <2>1. PICK t \in Nat, fresh \in BOOLEAN :
          job' = [job EXCEPT ![w] =
                    [job[w] EXCEPT !.pc = "readLink", !.txn = t, !.fresh = fresh]]
    BY <1>2
  <2> DEFINE j == [job[w] EXCEPT !.pc = "readLink", !.txn = t, !.fresh = fresh]
  <2>2. j \in Job /\ j.pc = "readLink" /\ j.order = job[w].order
    BY <1>1 DEF Job, UpdatePCs
  <2>3. job' = [job EXCEPT ![w] = j]
    BY <2>1
  <2> HIDE DEF j
  <2> QED BY <2>2, <2>3
<1>3. CASE CreateExpense(w)
  <2>1. /\ Len(ledger) + 1 \in Nat /\ TRUE \in BOOLEAN
        /\ job' = [job EXCEPT ![w] =
                     [job[w] EXCEPT !.pc = "readLink", !.txn = Len(ledger) + 1, !.fresh = TRUE]]
    BY <1>1, <1>3 DEF CreateExpense, TypeOK
  <2> QED BY <1>2, <2>1
<1>4. CASE \E t \in Matching(job[w].order) :
             job' = [job EXCEPT ![w].pc = "readLink", ![w].txn = t]
  <2>1. PICK t \in Matching(job[w].order) :
          job' = [job EXCEPT ![w].pc = "readLink", ![w].txn = t]
    BY <1>4
  <2>2. t \in Nat /\ job[w].fresh \in BOOLEAN
    BY <1>1 DEF Matching, Job
  <2>3. job' = [job EXCEPT ![w] =
                  [job[w] EXCEPT !.pc = "readLink", !.txn = t, !.fresh = job[w].fresh]]
    BY <1>1, <2>1 DEF TypeOK, Job
  <2> QED BY <1>2, <2>2, <2>3
<1>5. CASE FindExpense(w) /\ Goto(w, "create")
  BY <1>5, GotoShape DEF UpdatePCs
<1>6. CASE FindAgain(w) /\ Return(w, "error")
  BY <1>6, ReturnShape
<1>7. \/ CreateExpense(w)
      \/ \E t \in Matching(job[w].order) : job' = [job EXCEPT ![w].pc = "readLink", ![w].txn = t]
      \/ FindExpense(w) /\ Goto(w, "create")
      \/ FindAgain(w) /\ Return(w, "error")
  BY DEF FindExpense, FindAgain
<1> QED BY <1>3, <1>4, <1>5, <1>6, <1>7

LEMMA UpdateBooked ==
  ASSUME IInv, Booked, NEW w \in Workers, SharedStep(w)
  PROVE  Booked'
<1> DEFINE o == job[w].order
<1>0. TypeOK /\ faults' = faults /\ job[w] \in Job
  BY DEF SharedStep, callerVars, IInv, TypeOK
<1>1. CASE CheckTransition(w)
  <2>1. job[w].pc = "check" /\ UNCHANGED <<status, txn, faults>> /\ ~Finisher(job[w])
    BY <1>0, <1>1 DEF CheckTransition, At, Finisher
  <2>2. \E j \in Job : job' = [job EXCEPT ![w] = j]
    BY <1>0, <1>1, GotoShape, ReturnShape DEF CheckTransition, UpdatePCs
  <2> QED BY <1>0, <2>1, <2>2, IdleMoves
<1>2. CASE WriteStatus(w)
  <2>1. /\ job[w].pc = "write" /\ ~Finisher(job[w]) /\ txn' = txn /\ o \in Orders
        /\ \A q \in Orders : status'[q] = IF q = o THEN NextStatus(w) ELSE status[q]
    BY <1>2 DEF WriteStatus, At, Finisher, IInv, TypeOK, Evidence, Justified, Working
  <2>2. \E j \in Job : /\ job' = [job EXCEPT ![w] = j]
                       /\ j.order = o
                       /\ NextStatus(w) = "success" /\ txn[o] = 0 => Finisher(j)
    <3>1. CASE job[w].via /\ job' = [job EXCEPT ![w].pc = "check", ![w].via = FALSE]
      <4> DEFINE j == [job[w] EXCEPT !.pc = "check", !.via = FALSE]
      <4>1. j \in Job /\ j.order = o
        BY <1>0 DEF Job, UpdatePCs
      <4>2. job' = [job EXCEPT ![w] = j]
        BY <1>0, <3>1 DEF TypeOK
      <4>3. NextStatus(w) # "success"
        BY <3>1 DEF NextStatus
      <4> HIDE DEF j
      <4> QED BY <4>1, <4>2, <4>3
    <3>2. CASE Goto(w, "latest")
      BY <1>0, <3>2, GotoShape DEF UpdatePCs, Finisher
    <3>3. CASE ~job[w].via /\ (job[w].goal # "success" \/ txn[o] # 0) /\ Return(w, "ok")
      BY <1>0, <3>3, ReturnShape DEF NextStatus
    <3> QED BY <1>2, <3>1, <3>2, <3>3 DEF WriteStatus
  <2>3. PICK j \in Job : /\ job' = [job EXCEPT ![w] = j]
                         /\ j.order = o
                         /\ NextStatus(w) = "success" /\ txn[o] = 0 => Finisher(j)
    BY <2>2
  <2>4. BookedStep(w, j)
    BY <1>0, <2>1, <2>3 DEF BookedStep
  <2> QED BY <1>0, <2>4, BookedStays
<1>3. CASE ReadLatest(w)
  <2>1. UNCHANGED <<status, txn, faults>>
    BY <1>0, <1>3 DEF ReadLatest
  <2>2. \E j \in Job : /\ job' = [job EXCEPT ![w] = j] /\ j.order = o
                       /\ status[o] = "success" /\ txn[o] = 0 => Finisher(j)
    BY <1>0, <1>3, GotoShape, ReturnShape DEF ReadLatest, UpdatePCs, Finisher
  <2> QED BY <1>0, <2>1, <2>2, FinisherMoves
<1>4. CASE FindExpense(w) \/ CreateExpense(w)
  <2>1. UNCHANGED <<status, txn, faults>>
    BY <1>0, <1>4 DEF FindExpense, CreateExpense
  <2>2. \E j \in Job : /\ job' = [job EXCEPT ![w] = j] /\ j.order = o /\ Finisher(j)
    <3>1. ~FindAgain(w)
      BY <1>4 DEF FindExpense, CreateExpense, FindAgain, At
    <3> QED BY <1>0, <1>4, <3>1, TakeShape DEF Finisher
  <2> QED BY <1>0, <2>1, <2>2, FinisherMoves
<1>5. CASE ReadLink(w)
  <2>1. UNCHANGED <<status, txn, faults>>
    BY <1>0, <1>5 DEF ReadLink
  <2>2. \E j \in Job : /\ job' = [job EXCEPT ![w] = j] /\ j.order = o
                       /\ txn[o] = 0 => Finisher(j)
    BY <1>0, <1>5, GotoShape, ReturnShape DEF ReadLink, UpdatePCs, Finisher
  <2> QED BY <1>0, <2>1, <2>2, FinisherMoves
<1>6. CASE SaveLink(w)
  <2>1. /\ o \in Orders /\ job[w].txn # 0 /\ status' = status
        /\ \A q \in Orders : txn'[q] = IF q = o THEN job[w].txn ELSE txn[q]
    BY <1>6 DEF SaveLink, At, IInv, TypeOK, Evidence, Justified, Working, Finalizing
  <2>2. PICK j \in Job : job' = [job EXCEPT ![w] = j]
    BY <1>0, <1>6, ReturnShape DEF SaveLink
  <2>3. BookedStep(w, j)
    BY <1>0, <2>1, <2>2 DEF BookedStep
  <2> QED BY <1>0, <2>3, BookedStays
<1>7. CASE Reread(w) \/ FindAgain(w)
  <2>1. UNCHANGED <<status, txn, faults>> /\ ~Finisher(job[w])
    BY <1>0, <1>7 DEF Reread, FindAgain, At, Finisher
  <2>2. \E j \in Job : job' = [job EXCEPT ![w] = j]
    BY <1>0, <1>7, GotoShape, ReturnShape, TakeShape DEF Reread, UpdatePCs
  <2> QED BY <1>0, <2>1, <2>2, IdleMoves
<1> QED BY <1>1, <1>2, <1>3, <1>4, <1>5, <1>6, <1>7 DEF SharedStep, UpdateStep

LEMMA OrderBooked ==
  ASSUME IInv, Booked, NEW o \in Orders, OrderStep(o)
  PROVE  Booked'
<1>1. TypeOK /\ o \in Workers /\ job[o] \in Job /\ job[o].order = o
  BY WorkerAssumption DEF IInv, TypeOK
<1>2. CASE CallTopup(o)
  <2>1. \E j : job' = [job EXCEPT ![o] = j]
    BY <1>2 DEF CallTopup
  <2>2. UNCHANGED <<status, txn, faults>> /\ ~Finisher(job[o])
    BY <1>2 DEF CallTopup, At, Finisher
  <2> QED BY <1>1, <2>1, <2>2, IdleMoves
<1>3. CASE SaveOrder(o)
  <2> DEFINE j == [job[o] EXCEPT !.pc = "recordTopup"]
  <2>1. j.order = o /\ j.pc = "recordTopup" /\ j.goal = job[o].goal
    BY <1>1 DEF Job
  <2>2. job' = [job EXCEPT ![o] = j] /\ UNCHANGED <<txn, faults>>
    BY <1>3 DEF SaveOrder, Goto, callerVars
  <2>3. \A q \in Orders : status'[q] = IF q = o THEN job[o].goal ELSE status[q]
    BY <1>1, <1>3 DEF SaveOrder, TypeOK
  <2>4. ~Finisher(job[o])
    BY <1>3 DEF SaveOrder, At, Finisher
  <2> HIDE DEF j
  <2>5. BookedStep(o, j)
    BY <2>1, <2>2, <2>3, <2>4 DEF BookedStep, Finisher
  <2> QED BY <1>1, <2>5, BookedStays
<1>4. CASE RecordTopup(o)
  <2>1. UNCHANGED <<status, txn, faults>> /\ job[o].pc = "recordTopup"
    BY <1>4 DEF RecordTopup, At
  <2>2. CASE Goto(o, "latest")
    <3>1. PICK j \in Job : job' = [job EXCEPT ![o] = j] /\ j.order = o /\ Finisher(j)
      BY <1>1, <2>2, GotoShape DEF UpdatePCs, Finisher
    <3> QED BY <1>1, <2>1, <3>1, FinisherMoves
  <2>3. CASE job[o].goal # "success" /\ Return(o, "ok")
    <3>1. ~Finisher(job[o])
      BY <2>1, <2>3 DEF Finisher
    <3>2. \E j : job' = [job EXCEPT ![o] = j]
      BY <2>3 DEF Return
    <3> QED BY <1>1, <2>1, <3>1, <3>2, IdleMoves
  <2> QED BY <1>4, <2>2, <2>3 DEF RecordTopup
<1> QED BY <1>2, <1>3, <1>4 DEF OrderStep

LEMMA NextBooked ==
  ASSUME IInv, Booked, [Next]_vars
  PROVE  Booked'
<1>1. ASSUME NEW o \in Orders, OrderStep(o)
      PROVE  Booked'
  BY <1>1, OrderBooked
<1>2. ASSUME NEW h \in Handlers,
             \/ RecordWebhook(h) \/ AnswerWebhook(h)
             \/ \E o \in Orders, k \in Payloads : ReceiveWebhook(h, o, k)
      PROVE  Booked'
  <2>1. \E j : job' = [job EXCEPT ![h] = j]
    BY <1>2 DEF RecordWebhook, AnswerWebhook, ReceiveWebhook, Goto, Return
  <2>2. UNCHANGED <<status, txn, faults>> /\ ~Finisher(job[h])
    BY <1>2 DEF RecordWebhook, AnswerWebhook, ReceiveWebhook, At, Finisher
  <2> QED BY <2>1, <2>2, IdleMoves, WorkerAssumption DEF IInv
<1>3. ASSUME NEW p \in Pollers, PollStep(p)
      PROVE  Booked'
  <2>1. UNCHANGED <<status, txn, faults>> /\ ~Finisher(job[p])
    BY <1>3 DEF PollStep, StartPoll, EndCheck, EndPoll, PollOrder, AskBiller, At, Finisher
  <2>2. UNCHANGED job \/ \E j : job' = [job EXCEPT ![p] = j]
    BY <1>3 DEF PollStep, StartPoll, EndCheck, EndPoll, PollOrder, AskBiller,
                Goto, Return, CallUpdate
  <2>3. CASE UNCHANGED job
    BY <2>1, <2>3 DEF Booked
  <2> QED BY <2>1, <2>2, <2>3, IdleMoves, WorkerAssumption DEF IInv
<1>4. ASSUME NEW w \in Workers, SharedStep(w)
      PROVE  Booked'
  BY <1>4, UpdateBooked
<1>5. CASE Crash \/ \E w \in Workers : Fail(w)
  <2>1. faults \in Nat /\ faults' = faults + 1
    BY <1>5 DEF Crash, Fail, IInv, TypeOK
  <2> QED BY <2>1 DEF Booked
<1>6. CASE UNCHANGED <<status, txn, job, faults>>
  BY <1>6 DEF Booked
<1>7. ASSUME \/ UNCHANGED vars
             \/ \E o \in Orders : Expire(o) \/ BillerSettles(o)
             \/ \E t \in 1 .. Len(ledger) : UserDeletes(t)
      PROVE  UNCHANGED <<status, txn, job, faults>>
  BY <1>7 DEF vars, updateVars, callerVars, Expire, BillerSettles, UserDeletes, DeleteExpense
<1> QED BY <1>1, <1>2, <1>3, <1>4, <1>5, <1>6, <1>7 DEF Next

\* While no call has failed, a successful order nobody is working on any more is linked
\* to an expense, whoever wrote success and whatever was written over it in between.
THEOREM SuccessIsBookedAlways == Spec => []SuccessIsBooked
<1>1. Init => Booked
  BY DEF Init, Booked
<1>2. IInv /\ Booked /\ [Next]_vars => Booked'
  BY NextBooked
<1>3. Booked => SuccessIsBooked
  BY DEF Booked, Finisher, SuccessIsBooked, Quiet
<1> QED BY <1>1, <1>2, <1>3, Invariance, PTL DEF Spec

-------------------------------------------------------------------------------
(***************************************************************************)
(* The promise of OrderLifecycle.                                          *)
(***************************************************************************)

\* A worker with the job j is on the way from the success of its order to the link.
Ending(j) == (j.pc = "recordTopup" /\ j.goal = "success") \/ j.pc \in Finalizing

Outcomes == {"pending", "processing", "success", "failed"}

\* What the job j says of its order when one goroutine at a time writes it: it is asked
\* for and written only while it is active, and ends only when it is successful; it is
\* not booked before the expense is created, and not linked when the link is saved.
Steady(j, rows, links, expenses) ==
  /\ j.pc \in {"ask", "check", "write"} => IsActive(rows[j.order])
  /\ j.pc \in {"save", "recordTopup", "check", "write"} => j.goal \in Outcomes
  /\ Ending(j) => rows[j.order] = "success"
  /\ Ending(j) /\ j.pc \in {"recordTopup", "latest", "find", "create"} =>
       \A t \in 1 .. Len(expenses) : expenses[t] # j.order
  /\ j.pc = "saveLink" => links[j.order] = 0

\* Only successful orders are booked and linked.
Unbooked(o, rows, links, expenses) ==
  /\ rows[o] \in Outcomes \cup {"absent"}
  /\ rows[o] # "success" =>
       links[o] = 0 /\ \A t \in 1 .. Len(expenses) : expenses[t] # o

Sole ==
  /\ \A w \in Workers : Steady(job[w], status, txn, ledger)
  /\ \A o \in Orders : Unbooked(o, status, txn, ledger)
  /\ \A v, w \in Workers :
       Ending(job[v]) /\ Ending(job[w]) /\ job[v].order = job[w].order => v = w


\* A worker moves and nothing else does.
LEMMA SoleMove ==
  ASSUME TypeOK, Sole, UNCHANGED <<status, txn, ledger>>,
         NEW w \in Workers, NEW j, job' = [job EXCEPT ![w] = j],
         Steady(j, status, txn, ledger),
         Ending(j) => Ending(job[w]) /\ j.order = job[w].order
  PROVE  Sole'
<1>1. \A v \in Workers : job'[v] = IF v = w THEN j ELSE job[v]
  BY DEF TypeOK
<1>2. \A v \in Workers : Steady(job'[v], status', txn', ledger')
  BY <1>1 DEF Sole
<1>3. \A o \in Orders : Unbooked(o, status', txn', ledger')
  BY DEF Sole
<1>4. \A u, v \in Workers :
        Ending(job'[u]) /\ Ending(job'[v]) /\ job'[u].order = job'[v].order => u = v
  BY <1>1 DEF Sole
<1> QED BY <1>2, <1>3, <1>4 DEF Sole, Ending

\* A worker moves and writes the row of o or books it, which nobody else is about to do.
LEMMA SoleWrite ==
  ASSUME IInv, Sole, NEW w \in Workers, NEW j, job' = [job EXCEPT ![w] = j],
         NEW o \in Orders,
         \A q \in Orders \ {o} :
           /\ status'[q] = status[q] /\ txn'[q] = txn[q]
           /\ (\A t \in 1 .. Len(ledger) : ledger[t] # q)
                => \A t \in 1 .. Len(ledger') : ledger'[t] # q,
         \A v \in Workers \ {w} :
           job[v].order = o => ~Ending(job[v]) /\ job[v].pc \notin {"ask", "check", "write"},
         Steady(j, status', txn', ledger'), Unbooked(o, status', txn', ledger'),
         Ending(j) => j.order = o
  PROVE  Sole'
<1>1. \A v \in Workers : job'[v] = IF v = w THEN j ELSE job[v]
  BY DEF IInv, TypeOK
<1>2. \A v \in Workers : Steady(job'[v], status', txn', ledger')
  <2> SUFFICES ASSUME NEW v \in Workers \ {w} PROVE Steady(job[v], status', txn', ledger')
    BY <1>1
  <2>1. Steady(job[v], status, txn, ledger)
    BY DEF Sole
  <2>2. Ending(job[v]) \/ job[v].pc \in {"ask", "check", "write"} => job[v].order \in Orders \ {o}
    BY DEF IInv, Evidence, Justified, Working, Ending, Finalizing
  <2>3. job[v].pc = "saveLink" => Ending(job[v])
    BY DEF Ending, Finalizing
  <2> QED BY <2>1, <2>2, <2>3 DEF Steady
<1>3. \A q \in Orders : Unbooked(q, status', txn', ledger')
  <2> SUFFICES ASSUME NEW q \in Orders \ {o} PROVE Unbooked(q, status', txn', ledger')
    OBVIOUS
  <2>1. Unbooked(q, status, txn, ledger)
    BY DEF Sole
  <2> QED BY <2>1 DEF Unbooked
<1>4. \A u, v \in Workers :
        Ending(job'[u]) /\ Ending(job'[v]) /\ job'[u].order = job'[v].order => u = v
  BY <1>1 DEF Sole
<1> QED BY <1>2, <1>3, <1>4 DEF Sole, Ending

\* Whoever writes the status of an order, or ends it, is the only one to do so.
LEMMA OneWriter ==
  ASSUME Handlers = {}, OInv, Sole, NEW w \in Workers,
         Ending(job[w]) \/ job[w].pc \in {"check", "write"}
  PROVE  \A v \in Workers \ {w} :
           job[v].order = job[w].order
             => ~Ending(job[v]) /\ job[v].pc \notin {"ask", "check", "write"}
<1> SUFFICES ASSUME NEW v \in Workers \ {w}, job[v].order = job[w].order
             PROVE  ~Ending(job[v]) /\ job[v].pc \notin {"ask", "check", "write"}
  OBVIOUS
<1>1. /\ Steady(job[w], status, txn, ledger) /\ Steady(job[v], status, txn, ledger)
      /\ Ending(job[v]) /\ Ending(job[w]) => v = w
  BY DEF Sole
<1>2. CASE Ending(job[w])
  BY <1>1, <1>2 DEF Steady, IsActive
<1>3. CASE job[w].pc \in {"check", "write"}
  <2>1. ~Ending(job[v])
    BY <1>1, <1>3 DEF Steady, IsActive
  <2>2. \A u \in Workers : job[u].pc \in {"ask", "check", "write"} => pollLock = u
    <3> SUFFICES ASSUME NEW u \in Workers, job[u].pc \in {"ask", "check", "write"}
                 PROVE  pollLock = u
      OBVIOUS
    <3>1. u \notin Orders
      BY DEF OInv, Orderly, Care, Careful, OwnPCs
    <3>2. u \in Pollers
      BY <3>1, WorkerAssumption
    <3> QED BY <3>2 DEF OInv, Orderly, Locked
  <2> QED BY <1>3, <2>1, <2>2
<1> QED BY <1>2, <1>3

-------------------------------------------------------------------------------

LEMMA WriteStatusSole ==
  ASSUME Handlers = {}, OInv, Sole, NEW w \in Workers, WriteStatus(w)
  PROVE  Sole'
<1> DEFINE o == job[w].order
           new == NextStatus(w)
<1>1. /\ job[w].pc = "write" /\ o \in Orders /\ job[w] \in Job
      /\ Steady(job[w], status, txn, ledger) /\ Unbooked(o, status, txn, ledger)
      /\ IInv /\ txn' = txn /\ ledger' = ledger
  BY DEF WriteStatus, At, OInv, IInv, TypeOK, Evidence, Justified, Working, Sole
<1>2. /\ IsActive(status[o]) /\ job[w].goal \in Outcomes
      /\ txn[o] = 0 /\ \A t \in 1 .. Len(ledger) : ledger[t] # o
  BY <1>1 DEF Steady, IsActive, Unbooked
<1>3. \A q \in Orders : status'[q] = IF q = o THEN new ELSE status[q]
  BY <1>1 DEF WriteStatus, IInv, TypeOK
<1>4. new \in Outcomes
  BY <1>2 DEF NextStatus, Outcomes
<1>5. \E j \in Job : /\ job' = [job EXCEPT ![w] = j]
                     /\ j.order = o
                     /\ \/ j.pc = "check" /\ j.goal = job[w].goal /\ new = "processing"
                        \/ j.pc = "latest" /\ new = "success"
                        \/ j.pc = "ok"
  <2>1. CASE job[w].via /\ job' = [job EXCEPT ![w].pc = "check", ![w].via = FALSE]
    <3> DEFINE j == [job[w] EXCEPT !.pc = "check", !.via = FALSE]
    <3>1. j \in Job /\ j.order = o /\ j.pc = "check" /\ j.goal = job[w].goal
      BY <1>1 DEF Job, UpdatePCs
    <3>2. job' = [job EXCEPT ![w] = j]
      BY <1>1, <2>1 DEF IInv, TypeOK
    <3>3. new = "processing"
      BY <2>1 DEF NextStatus
    <3> HIDE DEF j
    <3> QED BY <3>1, <3>2, <3>3
  <2>2. CASE ~job[w].via /\ job[w].goal = "success" /\ Goto(w, "latest")
    <3>1. new = "success"
      BY <2>2 DEF NextStatus
    <3> QED BY <1>1, <2>2, <3>1, GotoShape DEF UpdatePCs, IInv
  <2>3. CASE Return(w, "ok")
    BY <1>1, <2>3, ReturnShape DEF IInv
  <2> QED BY <2>1, <2>2, <2>3 DEF WriteStatus
<1>6. PICK j \in Job : /\ job' = [job EXCEPT ![w] = j]
                       /\ j.order = o
                       /\ \/ j.pc = "check" /\ j.goal = job[w].goal /\ new = "processing"
                          \/ j.pc = "latest" /\ new = "success"
                          \/ j.pc = "ok"
  BY <1>5
<1> HIDE DEF new
<1>7. Steady(j, status', txn', ledger')
  BY <1>1, <1>2, <1>3, <1>6 DEF Steady, Ending, Finalizing, IsActive
<1>8. Unbooked(o, status', txn', ledger')
  BY <1>1, <1>2, <1>3, <1>4 DEF Unbooked
<1>9. \A v \in Workers \ {w} :
        job[v].order = o => ~Ending(job[v]) /\ job[v].pc \notin {"ask", "check", "write"}
  BY <1>1, OneWriter
<1>10. \A q \in Orders \ {o} :
         /\ status'[q] = status[q] /\ txn'[q] = txn[q]
         /\ (\A t \in 1 .. Len(ledger) : ledger[t] # q)
              => \A t \in 1 .. Len(ledger') : ledger'[t] # q
  BY <1>1, <1>3
<1>11. o \in Orders /\ IInv /\ j.order = o /\ job' = [job EXCEPT ![w] = j]
  BY <1>1, <1>6
<1> HIDE DEF o
<1> QED BY <1>7, <1>8, <1>9, <1>10, <1>11, SoleWrite

\* Creating the expense, whether or not the worker learns of it.
LEMMA AppendSole ==
  ASSUME Handlers = {}, OInv, Sole, NEW w \in Workers, At(w, "create"),
         ledger' = Append(ledger, job[w].order), UNCHANGED <<status, txn>>,
         NEW j \in Job, job' = [job EXCEPT ![w] = j], j.order = job[w].order,
         j.pc \in {"readLink", "error"}
  PROVE  Sole'
<1> DEFINE o == job[w].order
<1>1. /\ job[w].pc = "create" /\ Ending(job[w]) /\ o \in Orders
      /\ Steady(job[w], status, txn, ledger) /\ Unbooked(o, status, txn, ledger)
      /\ IInv /\ ledger \in Seq(Orders) /\ Len(ledger) \in Nat
  BY DEF At, OInv, IInv, TypeOK, Evidence, Justified, Working, Ending, Finalizing, Sole
<1>2. status[o] = "success"
  BY <1>1 DEF Steady
<1>3. Steady(j, status', txn', ledger')
  BY <1>2 DEF Steady, Ending
<1>4. Unbooked(o, status', txn', ledger')
  BY <1>1, <1>2 DEF Unbooked
<1>5. \A v \in Workers \ {w} :
        job[v].order = o => ~Ending(job[v]) /\ job[v].pc \notin {"ask", "check", "write"}
  BY <1>1, OneWriter
<1>6. \A q \in Orders \ {o} :
        /\ status'[q] = status[q] /\ txn'[q] = txn[q]
        /\ (\A t \in 1 .. Len(ledger) : ledger[t] # q)
             => \A t \in 1 .. Len(ledger') : ledger'[t] # q
  BY <1>1
<1>7. o \in Orders /\ IInv /\ j.order = o
  BY <1>1
<1> HIDE DEF o
<1> QED BY <1>3, <1>4, <1>5, <1>6, <1>7, SoleWrite

LEMMA SaveLinkSole ==
  ASSUME Handlers = {}, OInv, Sole, NEW w \in Workers, SaveLink(w)
  PROVE  Sole'
<1> DEFINE o == job[w].order
<1>1. /\ job[w].pc = "saveLink" /\ Ending(job[w]) /\ o \in Orders
      /\ Steady(job[w], status, txn, ledger) /\ Unbooked(o, status, txn, ledger)
      /\ IInv /\ status' = status /\ ledger' = ledger
  BY DEF SaveLink, At, OInv, IInv, Evidence, Justified, Working, Ending, Finalizing, Sole
<1>2. status[o] = "success"
  BY <1>1 DEF Steady
<1>3. PICK j \in Job : /\ job' = [job EXCEPT ![w] = j]
                       /\ j.order = o /\ j.pc = "ok"
  BY <1>1, ReturnShape DEF SaveLink, IInv
<1>4. Steady(j, status', txn', ledger')
  BY <1>3 DEF Steady, Ending, Finalizing
<1>5. Unbooked(o, status', txn', ledger')
  BY <1>1, <1>2 DEF Unbooked
<1>6. \A v \in Workers \ {w} :
        job[v].order = o => ~Ending(job[v]) /\ job[v].pc \notin {"ask", "check", "write"}
  BY <1>1, OneWriter
<1>7. \A q \in Orders \ {o} :
        /\ status'[q] = status[q] /\ txn'[q] = txn[q]
        /\ (\A t \in 1 .. Len(ledger) : ledger[t] # q)
             => \A t \in 1 .. Len(ledger') : ledger'[t] # q
  BY <1>1 DEF SaveLink, IInv, TypeOK
<1>8. o \in Orders /\ IInv /\ j.order = o /\ job' = [job EXCEPT ![w] = j]
  BY <1>1, <1>3
<1> HIDE DEF o
<1> QED BY <1>4, <1>5, <1>6, <1>7, <1>8, SoleWrite

-------------------------------------------------------------------------------

\* Going back to a caller is always sound.
LEMMA ReturnSole ==
  ASSUME TypeOK, Sole, UNCHANGED <<status, txn, ledger>>,
         NEW w \in Workers, NEW pc \in {"ok", "error"}, Return(w, pc)
  PROVE  Sole'
<1>1. PICK j \in Job : job' = [job EXCEPT ![w] = j] /\ j.pc = pc
  BY ReturnShape
<1>2. Steady(j, status, txn, ledger) /\ ~Ending(j)
  BY <1>1 DEF Steady, Ending, Finalizing
<1> QED BY <1>1, <1>2, SoleMove

LEMMA GotoSole ==
  ASSUME TypeOK, Sole, UNCHANGED <<status, txn, ledger>>,
         NEW w \in Workers, NEW pc \in UpdatePCs, Goto(w, pc),
         \/ pc = "write" /\ job[w].pc = "check"
         \/ pc = "latest" /\ job[w].pc = "recordTopup" /\ job[w].goal = "success"
         \/ pc = "find" /\ job[w].pc = "latest"
         \/ pc = "create" /\ job[w].pc = "find"
         \/ pc = "saveLink" /\ job[w].pc = "readLink" /\ txn[job[w].order] = 0
         \/ pc = "findAgain" /\ job[w].pc = "reread"
  PROVE  Sole'
<1>1. PICK j \in Job : /\ job' = [job EXCEPT ![w] = j]
                       /\ j.order = job[w].order /\ j.pc = pc /\ j.goal = job[w].goal
  BY GotoShape
<1>2. Steady(job[w], status, txn, ledger)
  BY DEF Sole
<1>3. Steady(j, status, txn, ledger)
  BY <1>1, <1>2 DEF Steady, Ending, Finalizing
<1>4. Ending(j) => Ending(job[w])
  BY <1>1 DEF Ending, Finalizing
<1> QED BY <1>1, <1>3, <1>4, SoleMove

LEMMA TakeSole ==
  ASSUME TypeOK, Sole, UNCHANGED <<status, txn, ledger>>, NEW w \in Workers,
         FindExpense(w) \/ FindAgain(w)
  PROVE  Sole'
<1>1. PICK j \in Job : /\ job' = [job EXCEPT ![w] = j]
                       /\ j.order = job[w].order
                       /\ \/ j.pc = "readLink"
                          \/ j.pc = "create" /\ FindExpense(w)
                          \/ j.pc = "error" /\ FindAgain(w)
  BY TakeShape
<1>2. Steady(job[w], status, txn, ledger) /\ Ending(job[w])
  BY DEF Sole, FindExpense, FindAgain, At, Ending, Finalizing
<1>3. FindExpense(w) => job[w].pc = "find"
  BY DEF FindExpense, At
<1>4. Steady(j, status, txn, ledger)
  BY <1>1, <1>2, <1>3 DEF Steady, Ending, Finalizing
<1> QED BY <1>1, <1>2, <1>4, SoleMove

LEMMA UpdateSole ==
  ASSUME Handlers = {}, OInv, Sole, NEW w \in Workers, UpdateStep(w)
  PROVE  Sole'
<1>0. TypeOK /\ job[w] \in Job
  BY DEF OInv, IInv, TypeOK
<1>1. CASE CheckTransition(w)
  BY <1>0, <1>1, GotoSole, ReturnSole DEF CheckTransition, At, UpdatePCs
<1>2. CASE ReadLatest(w)
  BY <1>0, <1>2, GotoSole, ReturnSole DEF ReadLatest, At, UpdatePCs
<1>3. CASE FindExpense(w) \/ FindAgain(w)
  BY <1>0, <1>3, TakeSole DEF FindExpense, FindAgain
<1>4. CASE CreateExpense(w)
  <2>1. ~FindExpense(w) /\ ~FindAgain(w)
    BY <1>4 DEF CreateExpense, FindExpense, FindAgain, At
  <2> QED BY <1>0, <1>4, <2>1, TakeShape, AppendSole DEF CreateExpense
<1>5. CASE ReadLink(w)
  BY <1>0, <1>5, GotoSole, ReturnSole DEF ReadLink, At, UpdatePCs
<1>6. CASE Reread(w)
  BY <1>0, <1>6, GotoSole, ReturnSole DEF Reread, At, UpdatePCs
<1> QED BY <1>1, <1>2, <1>3, <1>4, <1>5, <1>6, WriteStatusSole, SaveLinkSole DEF UpdateStep

LEMMA OrderSole ==
  ASSUME OInv, Sole, NEW o \in Orders, OrderStep(o)
  PROVE  Sole'
<1>1. /\ TypeOK /\ IInv /\ o \in Workers /\ job[o] \in Job /\ job[o].order = o
      /\ Careful(o, job[o], status, biller) /\ Steady(job[o], status, txn, ledger)
  BY WorkerAssumption DEF OInv, IInv, TypeOK, Orderly, Care, Sole
<1>2. CASE CallTopup(o)
  <2>1. PICK reply \in Replies :
          job' = [job EXCEPT ![o].pc = "save", ![o].goal = CreationStatus(reply)]
    BY <1>2 DEF CallTopup
  <2> DEFINE new == CreationStatus(reply)
             j == [job[o] EXCEPT !.pc = "save", !.goal = new]
  <2>2. new \in Outcomes
    BY DEF CreationStatus, StatusOfReply, Replies, Outcomes
  <2>3. j.pc = "save" /\ j.goal = new
    BY <1>1 DEF Job
  <2>4. job' = [job EXCEPT ![o] = j]
    BY <1>1, <2>1 DEF TypeOK
  <2> HIDE DEF new, j
  <2>5. Steady(j, status, txn, ledger) /\ ~Ending(j)
    BY <2>2, <2>3 DEF Steady, Ending, Finalizing
  <2> QED BY <1>1, <1>2, <2>4, <2>5, SoleMove DEF CallTopup
<1>3. CASE SaveOrder(o)
  <2> DEFINE new == job[o].goal
             j == [job[o] EXCEPT !.pc = "recordTopup"]
  <2>1. j.order = o /\ j.pc = "recordTopup" /\ j.goal = new
    BY <1>1 DEF Job
  <2>2. job' = [job EXCEPT ![o] = j] /\ txn' = txn /\ ledger' = ledger
    BY <1>3 DEF SaveOrder, Goto
  <2>3. new \in Outcomes /\ status[o] = "absent"
    BY <1>1, <1>3 DEF SaveOrder, At, Steady, Careful
  <2>4. \A q \in Orders : status'[q] = IF q = o THEN new ELSE status[q]
    BY <1>1, <1>3 DEF SaveOrder, TypeOK
  <2>5. txn[o] = 0 /\ \A t \in 1 .. Len(ledger) : ledger[t] # o
    BY <2>3 DEF Sole, Unbooked
  <2> HIDE DEF new, j
  <2>6. Steady(j, status', txn', ledger') /\ Unbooked(o, status', txn', ledger')
    BY <2>1, <2>2, <2>3, <2>4, <2>5 DEF Steady, Ending, Finalizing, Unbooked
  <2>7. \A v \in Workers \ {o} : job[v].order # o
    BY <2>3, WorkerAssumption DEF OInv, IInv, TypeOK, Orderly, Care, Careful
  <2>8. \A q \in Orders \ {o} :
          /\ status'[q] = status[q] /\ txn'[q] = txn[q]
          /\ (\A t \in 1 .. Len(ledger) : ledger[t] # q)
               => \A t \in 1 .. Len(ledger') : ledger'[t] # q
    BY <2>2, <2>4
  <2>9. Ending(j) => j.order = o
    BY <2>1
  <2>10. IInv /\ o \in Workers /\ job' = [job EXCEPT ![o] = j]
    BY <1>1, <2>2
  <2> QED BY <2>6, <2>7, <2>8, <2>9, <2>10, SoleWrite
<1>4. CASE RecordTopup(o)
  <2>1. UNCHANGED <<status, txn, ledger>> /\ job[o].pc = "recordTopup"
    BY <1>4 DEF RecordTopup, At
  <2>2. CASE job[o].goal = "success" /\ Goto(o, "latest")
    BY <1>1, <2>1, <2>2, GotoSole DEF UpdatePCs
  <2>3. CASE Return(o, "ok")
    BY <1>1, <2>1, <2>3, ReturnSole
  <2> QED BY <1>4, <2>2, <2>3 DEF RecordTopup
<1> QED BY <1>2, <1>3, <1>4 DEF OrderStep

LEMMA PollSole ==
  ASSUME OInv, Sole, NEW p \in Pollers, PollStep(p)
  PROVE  Sole'
<1>1. /\ TypeOK /\ p \in Workers /\ job[p] \in Job /\ UNCHANGED <<status, txn, ledger>>
      /\ Steady(job[p], status, txn, ledger)
  BY WorkerAssumption
     DEF OInv, IInv, TypeOK, Sole, PollStep, StartPoll, EndCheck, EndPoll, PollOrder, AskBiller
<1>2. ASSUME NEW j, job' = [job EXCEPT ![p] = j], j.pc \in {"idle", "next"}
      PROVE  Sole'
  <2>1. Steady(j, status, txn, ledger) /\ ~Ending(j)
    BY <1>2 DEF Steady, Ending, Finalizing
  <2> QED BY <1>1, <1>2, <2>1, SoleMove
<1>3. CASE StartPoll(p) \/ EndPoll(p)
  <2>1. PICK pc \in {"idle", "next"} : Goto(p, pc)
    BY <1>3 DEF StartPoll, EndPoll
  <2>2. [job[p] EXCEPT !.pc = pc].pc = pc
    BY <1>1 DEF Job
  <2>3. job' = [job EXCEPT ![p] = [job[p] EXCEPT !.pc = pc]]
    BY <2>1 DEF Goto
  <2> QED BY <1>2, <2>2, <2>3
<1>4. CASE EndCheck(p)
  <2>1. job' = [job EXCEPT ![p] = AtRest("next", NoOrder)] /\ AtRest("next", NoOrder).pc = "next"
    BY <1>4 DEF EndCheck, AtRest
  <2> QED BY <1>2, <2>1
<1>5. ASSUME NEW o \in Orders, PollOrder(p, o)
      PROVE  Sole'
  <2> DEFINE j == AtRest("ask", o)
  <2>1. CASE IsActive(status[o]) /\ job' = [job EXCEPT ![p] = j]
    <3>1. j.pc = "ask" /\ j.order = o
      BY DEF AtRest
    <3> HIDE DEF j
    <3>2. Steady(j, status, txn, ledger) /\ ~Ending(j)
      BY <2>1, <3>1 DEF Steady, Ending, Finalizing
    <3> QED BY <1>1, <2>1, <3>2, SoleMove
  <2>2. CASE UNCHANGED job
    BY <1>1, <2>2 DEF Sole
  <2> QED BY <1>5, <2>1, <2>2 DEF PollOrder
<1>6. ASSUME NEW reply \in Replies, AskBiller(p, reply)
      PROVE  Sole'
  <2> DEFINE o == job[p].order
             new == StatusOfReply(reply)
             via == ViaProcessing(seen[p], new)
             j == [AtRest("check", o) EXCEPT !.goal = new, !.via = via]
  <2>1. CASE Return(p, "ok")
    BY <1>1, <2>1, ReturnSole
  <2>2. CASE CallUpdate(p, o, new, via)
    <3>1. j.pc = "check" /\ j.order = o /\ j.goal = new
      BY DEF AtRest
    <3>2. new \in Outcomes
      BY DEF StatusOfReply, Replies, Outcomes
    <3>3. job[p].pc = "ask" /\ job' = [job EXCEPT ![p] = j]
      BY <1>6, <2>2 DEF AskBiller, At, CallUpdate
    <3> HIDE DEF j, new
    <3>4. Steady(j, status, txn, ledger) /\ ~Ending(j)
      BY <1>1, <3>1, <3>2, <3>3 DEF Steady, Ending, Finalizing
    <3> QED BY <1>1, <3>3, <3>4, SoleMove
  <2> QED BY <1>6, <2>1, <2>2 DEF AskBiller
<1> QED BY <1>3, <1>4, <1>5, <1>6 DEF PollStep

LEMMA FailSole ==
  ASSUME Handlers = {}, OInv, Sole, NEW w \in Workers, Fail(w)
  PROVE  Sole'
<1>1. PICK j \in Job : /\ job' = [job EXCEPT ![w] = j]
                       /\ j.order = job[w].order
                       /\ \/ j.pc = "error"
                          \/ j.pc = "reread" /\ job[w].pc \in {"readLink", "saveLink"}
  BY FailMoves DEF OInv, IInv
<1>2. CASE CallFails(w)
  <2>1. TypeOK /\ UNCHANGED <<status, txn, ledger>> /\ Steady(job[w], status, txn, ledger)
    BY <1>2 DEF CallFails, OInv, IInv, Sole
  <2>2. Ending(j) => Ending(job[w])
    BY <1>1 DEF Ending, Finalizing
  <2>3. Steady(j, status, txn, ledger)
    BY <1>1, <2>1, <2>2 DEF Steady, Finalizing
  <2> QED BY <1>1, <2>1, <2>2, <2>3, SoleMove
<1>3. CASE CreateFailsAfterCommit(w)
  <2>1. At(w, "create") /\ ledger' = Append(ledger, job[w].order) /\ UNCHANGED <<status, txn>>
    BY <1>3 DEF CreateFailsAfterCommit
  <2>2. j.pc = "error"
    BY <1>1, <2>1 DEF At
  <2> QED BY <1>1, <2>1, <2>2, AppendSole
<1> QED BY <1>2, <1>3 DEF Fail

LEMMA CrashSole ==
  ASSUME Sole, Crash
  PROVE  Sole'
<1>1. \A w \in Workers : ~Ending(job'[w]) /\ Steady(job'[w], status, txn, ledger)
  <2> SUFFICES ASSUME NEW w \in Workers
               PROVE  ~Ending(job'[w]) /\ Steady(job'[w], status, txn, ledger)
    OBVIOUS
  <2>1. CASE w \in Orders /\ job[w].pc = "new"
    <3>1. job'[w] = job[w]
      BY <2>1 DEF Crash
    <3> QED BY <2>1, <3>1 DEF Sole, Ending, Finalizing
  <2>2. CASE ~(w \in Orders /\ job[w].pc = "new")
    <3>1. job'[w].pc \in {"error", "idle"}
      BY <2>2 DEF Crash, AtRest
    <3> QED BY <3>1 DEF Steady, Ending, Finalizing
  <2> QED BY <2>1, <2>2
<1> QED BY <1>1 DEF Crash, Sole

LEMMA InitSole ==
  ASSUME Init
  PROVE  Sole
<1>1. \A w \in Workers : ~Ending(job[w]) /\ Steady(job[w], status, txn, ledger)
  <2> SUFFICES ASSUME NEW w \in Workers
               PROVE  ~Ending(job[w]) /\ Steady(job[w], status, txn, ledger)
    OBVIOUS
  <2>1. job[w].pc \in {"new", "idle"}
    BY DEF Init, AtRest
  <2> QED BY <2>1 DEF Steady, Ending, Finalizing
<1>2. \A o \in Orders : Unbooked(o, status, txn, ledger)
  BY DEF Init, Unbooked
<1> QED BY <1>1, <1>2 DEF Sole

LEMMA NextSole ==
  ASSUME Handlers = {}, OInv, Sole, [Next]_vars
  PROVE  Sole'
<1>1. ASSUME NEW w \in Workers, SharedStep(w) \/ Fail(w)
      PROVE  Sole'
  BY <1>1, UpdateSole, FailSole DEF SharedStep
<1>2. CASE UNCHANGED <<status, txn, ledger, job>>
  BY <1>2 DEF Sole
<1>3. ASSUME \/ UNCHANGED vars
             \/ \E o \in Orders : Expire(o) \/ BillerSettles(o)
             \/ \E t \in 1 .. Len(ledger) : UserDeletes(t)
      PROVE  UNCHANGED <<status, txn, ledger, job>>
  BY <1>3 DEF vars, updateVars, callerVars, Expire, BillerSettles, UserDeletes, DeleteExpense
<1> QED BY <1>1, <1>2, <1>3, OrderSole, PollSole, CrashSole DEF Next

LEMMA SoleAlways ==
  ASSUME Handlers = {}
  PROVE  Spec => [](OInv /\ Sole)
<1>1. Init => Sole
  BY InitSole
<1>2. OInv /\ Sole /\ [Next]_vars => Sole'
  BY NextSole
<1> QED BY <1>1, <1>2, OrderlyAlways, PTL DEF Spec

-------------------------------------------------------------------------------
(***************************************************************************)
(* The refinement mapping.                                                 *)
(***************************************************************************)

Phase == [o \in Orders |-> IF IsActive(status[o]) THEN "active" ELSE status[o]]
Expenses(o) == {t \in 1 .. Len(ledger) : ledger[t] = o}
Bookings == [o \in Orders |-> Cardinality(Expenses(o))]
Payer == [o \in Orders |-> IF txn[o] = 0 THEN NoOrder ELSE ledger[txn[o]]]

LEMMA ExpensesFinite ==
  ASSUME ledger \in Seq(Orders), NEW o
  PROVE  /\ IsFiniteSet(Expenses(o))
         /\ Cardinality(Expenses(o)) = 0 <=> \A t \in 1 .. Len(ledger) : ledger[t] # o
<1>1. Len(ledger) \in Nat
  OBVIOUS
<1>2. IsFiniteSet(1 .. Len(ledger))
  BY <1>1, FS_Interval
<1>3. IsFiniteSet(Expenses(o))
  BY <1>2, FS_Subset DEF Expenses
<1>4. Cardinality(Expenses(o)) = 0 <=> Expenses(o) = {}
  BY <1>3, FS_EmptySet
<1> QED BY <1>3, <1>4 DEF Expenses

\* The first expense of an order.
LEMMA Books ==
  ASSUME TypeOK, NEW o \in Orders, ledger' = Append(ledger, o),
         \A t \in 1 .. Len(ledger) : ledger[t] # o
  PROVE  Bookings[o] = 0 /\ Bookings' = [Bookings EXCEPT ![o] = 1]
<1>1. ledger \in Seq(Orders) /\ Len(ledger) \in Nat
  BY DEF TypeOK
<1>2. Bookings[o] = 0
  BY <1>1, ExpensesFinite DEF Bookings
<1>3. /\ Len(ledger') = Len(ledger) + 1
      /\ \A t \in 1 .. Len(ledger) : ledger'[t] = ledger[t]
      /\ ledger'[Len(ledger) + 1] = o
  BY <1>1
<1>4. Expenses(o)' = {Len(ledger) + 1}
  BY <1>1, <1>3 DEF Expenses
<1>5. Cardinality(Expenses(o)') = 1
  BY <1>4, FS_Singleton
<1>6. \A q \in Orders \ {o} : Expenses(q)' = Expenses(q)
  BY <1>1, <1>3 DEF Expenses
<1>7. \A q \in Orders : Bookings'[q] = IF q = o THEN 1 ELSE Bookings[q]
  BY <1>5, <1>6 DEF Bookings
<1> QED BY <1>2, <1>7 DEF Bookings

\* The other two parts of the mapping.
LEMMA PhaseMoves ==
  ASSUME TypeOK, NEW o \in Orders, NEW s, status' = [status EXCEPT ![o] = s]
  PROVE  Phase' = [Phase EXCEPT ![o] = IF IsActive(s) THEN "active" ELSE s]
<1>1. \A q \in Orders : status'[q] = IF q = o THEN s ELSE status[q]
  BY DEF TypeOK
<1> QED BY <1>1 DEF Phase

LEMMA PayerStays ==
  ASSUME TypeOK, LinkIsSound, NEW o \in Orders, ledger' = Append(ledger, o), txn' = txn
  PROVE  Payer' = Payer
<1>1. \A q \in Orders : txn[q] # 0 => ledger'[txn[q]] = ledger[txn[q]]
  BY DEF TypeOK, LinkIsSound
<1> QED BY <1>1 DEF Payer

LEMMA PayerMoves ==
  ASSUME TypeOK, NEW o \in Orders, NEW t \in 1 .. Len(ledger),
         txn' = [txn EXCEPT ![o] = t], ledger' = ledger
  PROVE  Payer' = [Payer EXCEPT ![o] = ledger[t]]
<1>1. \A q \in Orders : txn'[q] = IF q = o THEN t ELSE txn[q]
  BY DEF TypeOK
<1>2. t # 0
  BY DEF TypeOK
<1>3. \A q \in Orders : Payer'[q] = IF q = o THEN ledger[t] ELSE Payer[q]
  BY <1>1, <1>2 DEF Payer
<1> QED BY <1>3 DEF Payer

-------------------------------------------------------------------------------
(***************************************************************************)
(* Every step is one of the promise, or a stutter.                         *)
(***************************************************************************)

Abstract == <<Phase, Bookings, Payer>>

AbstractStep ==
  \/ UNCHANGED Abstract
  \/ \E o \in Orders : \/ Lifecycle!Place(o) \/ Lifecycle!Settle(o)
                       \/ Lifecycle!Book(o) \/ Lifecycle!Link(o)

LEMMA Stutters ==
  ASSUME UNCHANGED <<status, txn, ledger>>
  PROVE  AbstractStep
<1>1. Phase' = Phase /\ Payer' = Payer
  BY DEF Phase, Payer
<1>2. Bookings' = Bookings
  BY DEF Bookings, Expenses
<1> QED BY <1>1, <1>2 DEF AbstractStep, Abstract

LEMMA RowStep ==
  ASSUME TypeOK, NEW o \in Orders, NEW new \in Outcomes, status' = [status EXCEPT ![o] = new],
         UNCHANGED <<txn, ledger>>,
         status[o] = "absent" \/ IsActive(status[o])
  PROVE  AbstractStep
<1> DEFINE s == IF IsActive(new) THEN "active" ELSE new
<1>1. Phase' = [Phase EXCEPT ![o] = s] /\ s \in {"active", "success", "failed"}
  BY PhaseMoves DEF Outcomes, IsActive
<1>2. Bookings' = Bookings /\ Payer' = Payer
  BY DEF Bookings, Expenses, Payer
<1> HIDE DEF s
<1>3. CASE status[o] = "absent"
  <2>1. Phase[o] = "absent"
    BY <1>3 DEF Phase, IsActive
  <2>2. Lifecycle!Place(o)
    BY <1>1, <1>2, <2>1 DEF Lifecycle!Place, Phase, Bookings, Payer, Expenses
  <2> QED BY <2>2 DEF AbstractStep
<1>4. CASE IsActive(status[o])
  <2>1. Phase[o] = "active"
    BY <1>4 DEF Phase
  <2>2. CASE s = "active"
    <3>1. Phase' = Phase
      BY <1>1, <2>1, <2>2 DEF Phase
    <3> QED BY <1>2, <3>1 DEF AbstractStep, Abstract
  <2>3. CASE s \in {"success", "failed"}
    <3>1. Lifecycle!Settle(o)
      BY <1>1, <1>2, <2>1, <2>3 DEF Lifecycle!Settle, Phase, Bookings, Payer, Expenses
    <3> QED BY <3>1 DEF AbstractStep
  <2> QED BY <1>1, <2>2, <2>3
<1> QED BY <1>3, <1>4

LEMMA BookStep ==
  ASSUME IInv, Sole, NEW w \in Workers, At(w, "create"),
         ledger' = Append(ledger, job[w].order), UNCHANGED <<status, txn>>
  PROVE  AbstractStep
<1> DEFINE o == job[w].order
<1>1. TypeOK /\ LinkIsSound /\ o \in Orders /\ Ending(job[w])
  BY DEF At, IInv, Evidence, Justified, Working, Ending, Finalizing
<1>2. status[o] = "success" /\ \A t \in 1 .. Len(ledger) : ledger[t] # o
  BY <1>1 DEF At, Sole, Steady
<1> HIDE DEF o
<1>3. ledger' = Append(ledger, o)
  BY DEF o
<1>4. Bookings[o] = 0 /\ Bookings' = [Bookings EXCEPT ![o] = 1]
  BY <1>1, <1>2, <1>3, Books
<1>5. Phase[o] = "success" /\ Phase' = Phase /\ Payer' = Payer
  BY <1>1, <1>2, <1>3, PayerStays DEF Phase, IsActive
<1>6. Lifecycle!Book(o)
  BY <1>4, <1>5 DEF Lifecycle!Book, Phase, Bookings, Payer, Expenses
<1> QED BY <1>1, <1>6 DEF AbstractStep

LEMMA LinkRow ==
  ASSUME TypeOK, NEW o \in Orders, NEW t \in 1 .. Len(ledger),
         Signature[ledger[t]] = Signature[o], status[o] = "success", txn[o] = 0,
         txn' = [txn EXCEPT ![o] = t], UNCHANGED <<status, ledger>>
  PROVE  AbstractStep
<1>1. ledger \in Seq(Orders) /\ ledger[t] \in Orders
  BY DEF TypeOK
<1>2. Bookings[ledger[t]] # 0
  BY <1>1, ExpensesFinite DEF Bookings
<1>3. Payer[o] = NoOrder /\ Payer' = [Payer EXCEPT ![o] = ledger[t]]
  BY PayerMoves DEF Payer
<1>4. Phase[o] = "success" /\ Phase' = Phase /\ Bookings' = Bookings
  BY DEF Phase, IsActive, Bookings, Expenses
<1>5. Lifecycle!Link(o)
  BY <1>1, <1>2, <1>3, <1>4 DEF Lifecycle!Link, Phase, Bookings, Payer, Expenses
<1> QED BY <1>5 DEF AbstractStep

LEMMA LinkStep ==
  ASSUME IInv, Sole, NEW w \in Workers, SaveLink(w)
  PROVE  AbstractStep
<1> DEFINE o == job[w].order
           t == job[w].txn
<1>1. /\ TypeOK /\ o \in Orders /\ Ending(job[w]) /\ Steady(job[w], status, txn, ledger)
      /\ t \in 1 .. Len(ledger) /\ Signature[ledger[t]] = Signature[o]
      /\ txn' = [txn EXCEPT ![o] = t] /\ UNCHANGED <<status, ledger>>
  BY DEF SaveLink, At, IInv, Evidence, Justified, Working, Ending, Finalizing, Sole
<1>2. status[o] = "success" /\ txn[o] = 0
  BY <1>1 DEF SaveLink, At, Steady
<1> HIDE DEF o, t
<1> QED BY <1>1, <1>2, LinkRow

LEMMA UpdateImplements ==
  ASSUME IInv, Sole, NEW w \in Workers, UpdateStep(w)
  PROVE  AbstractStep
<1>1. CASE WriteStatus(w)
  <2> DEFINE o == job[w].order
             new == NextStatus(w)
  <2>1. /\ TypeOK /\ job[w].pc = "write" /\ o \in Orders /\ UNCHANGED <<txn, ledger>>
        /\ Steady(job[w], status, txn, ledger) /\ status' = [status EXCEPT ![o] = new]
    BY <1>1 DEF WriteStatus, At, IInv, Evidence, Justified, Working, Sole
  <2>2. IsActive(status[o]) /\ new \in Outcomes
    BY <2>1 DEF Steady, NextStatus, Outcomes
  <2> HIDE DEF o, new
  <2> QED BY <2>1, <2>2, RowStep
<1>2. CASE CreateExpense(w)
  BY <1>2, BookStep DEF CreateExpense
<1>3. CASE SaveLink(w)
  BY <1>3, LinkStep
<1>4. CASE \/ CheckTransition(w) \/ ReadLatest(w) \/ FindExpense(w)
           \/ ReadLink(w) \/ Reread(w) \/ FindAgain(w)
  BY <1>4, Stutters
     DEF CheckTransition, ReadLatest, FindExpense, ReadLink, Reread, FindAgain
<1> QED BY <1>1, <1>2, <1>3, <1>4 DEF UpdateStep

LEMMA OrderImplements ==
  ASSUME OInv, Sole, NEW o \in Orders, OrderStep(o)
  PROVE  AbstractStep
<1>1. CASE SaveOrder(o)
  <2>1. /\ TypeOK /\ o \in Workers /\ Careful(o, job[o], status, biller)
        /\ Steady(job[o], status, txn, ledger)
    BY WorkerAssumption DEF OInv, IInv, Orderly, Care, Sole
  <2>2. status[o] = "absent" /\ job[o].goal \in Outcomes
    BY <1>1, <2>1 DEF SaveOrder, At, Careful, Steady
  <2>3. status' = [status EXCEPT ![o] = job[o].goal] /\ UNCHANGED <<txn, ledger>>
    BY <1>1 DEF SaveOrder
  <2> QED BY <2>1, <2>2, <2>3, RowStep
<1>2. CASE CallTopup(o) \/ RecordTopup(o)
  BY <1>2, Stutters DEF CallTopup, RecordTopup
<1> QED BY <1>1, <1>2 DEF OrderStep

LEMMA NextImplements ==
  ASSUME Handlers = {}, OInv, Sole, [Next]_vars
  PROVE  AbstractStep
<1>0. IInv
  BY DEF OInv
<1>1. ASSUME NEW w \in Workers, SharedStep(w)
      PROVE  AbstractStep
  BY <1>0, <1>1, UpdateImplements DEF SharedStep
<1>2. ASSUME NEW w \in Workers, Fail(w)
      PROVE  AbstractStep
  <2>1. CASE CallFails(w)
    BY <2>1, Stutters DEF CallFails
  <2>2. CASE CreateFailsAfterCommit(w)
    BY <1>0, <2>2, BookStep DEF CreateFailsAfterCommit
  <2> QED BY <1>2, <2>1, <2>2 DEF Fail
<1>3. ASSUME NEW p \in Pollers, PollStep(p)
      PROVE  AbstractStep
  BY <1>3, Stutters DEF PollStep, StartPoll, EndCheck, EndPoll, PollOrder, AskBiller
<1>4. ASSUME \/ UNCHANGED vars \/ Crash
             \/ \E o \in Orders : Expire(o) \/ BillerSettles(o)
             \/ \E t \in 1 .. Len(ledger) : UserDeletes(t)
      PROVE  AbstractStep
  <2>1. UNCHANGED <<status, txn, ledger>>
    BY <1>4 DEF vars, updateVars, Crash, Expire, BillerSettles, UserDeletes, DeleteExpense
  <2> QED BY <2>1, Stutters
<1> QED BY <1>1, <1>2, <1>3, <1>4, OrderImplements DEF Next

LEMMA InitImplements ==
  ASSUME Init
  PROVE  Lifecycle!AbsInit
<1>1. \A o \in Orders : Expenses(o) = {} /\ status[o] = "absent" /\ txn[o] = 0
  BY DEF Init, Expenses
<1>2. \A o \in Orders : Cardinality(Expenses(o)) = 0
  BY <1>1, FS_EmptySet
<1> QED BY <1>1, <1>2 DEF Lifecycle!AbsInit, Expenses, IsActive

\* Without webhooks the service keeps the promise of OrderLifecycle, also when status
\* checks are refused, calls fail, users delete expenses and the server stops: no outcome
\* is revised, no purchase is booked twice or before its outcome, no link is replaced.
THEOREM LifecycleImplemented ==
  ASSUME Handlers = {}
  PROVE  Spec => ImplementsLifecycle
<1>1. Init => Lifecycle!AbsInit
  BY InitImplements
<1>2. OInv /\ Sole /\ [Next]_vars => [Lifecycle!AbsNext]_(Lifecycle!absVars)
  <2> SUFFICES ASSUME OInv, Sole, [Next]_vars
               PROVE  Lifecycle!AbsNext \/ UNCHANGED Lifecycle!absVars
    BY DEF Lifecycle!AbsNext
  <2>1. AbstractStep
    BY NextImplements
  <2>2. CASE UNCHANGED Abstract
    BY <2>2 DEF Abstract, Lifecycle!absVars, Phase, Bookings, Payer, Expenses
  <2> QED BY <2>1, <2>2 DEF AbstractStep, Lifecycle!AbsNext
<1> QED BY <1>1, <1>2, SoleAlways, PTL DEF Spec, ImplementsLifecycle, Lifecycle!AbsSpec

LEMMA LedgerMoves ==
  ASSUME [Next]_vars
  PROVE  \/ ledger' = ledger
         \/ \E w \in Workers : At(w, "create") /\ ledger' = Append(ledger, job[w].order)
<1>1. ASSUME NEW w \in Workers, SharedStep(w) \/ Fail(w)
      PROVE  \/ ledger' = ledger
             \/ At(w, "create") /\ ledger' = Append(ledger, job[w].order)
  BY <1>1 DEF SharedStep, UpdateStep, CheckTransition, WriteStatus, ReadLatest, FindExpense,
              CreateExpense, ReadLink, SaveLink, Reread, FindAgain,
              Fail, CallFails, CreateFailsAfterCommit
<1>2. ASSUME \/ UNCHANGED vars \/ Crash
             \/ \E o \in Orders : OrderStep(o) \/ Expire(o) \/ BillerSettles(o)
             \/ \E p \in Pollers : PollStep(p)
             \/ \E h \in Handlers : \/ RecordWebhook(h) \/ AnswerWebhook(h)
                                    \/ \E o \in Orders, k \in Payloads : ReceiveWebhook(h, o, k)
             \/ \E t \in 1 .. Len(ledger) : UserDeletes(t)
      PROVE  ledger' = ledger
  BY <1>2 DEF vars, updateVars, Crash, OrderStep, CallTopup, SaveOrder, RecordTopup, Expire,
              BillerSettles, PollStep, StartPoll, EndCheck, EndPoll, PollOrder, AskBiller,
              RecordWebhook, AnswerWebhook, ReceiveWebhook, UserDeletes, DeleteExpense
<1> QED BY <1>1, <1>2 DEF Next

\* Without webhooks no purchase is booked twice.  (With them it can be: two goroutines may
\* finalize the same order.)
THEOREM BookedOnceByPolls ==
  ASSUME Handlers = {}
  PROVE  Spec => []BookedOnce
<1>1. Init => BookedOnce
  BY DEF Init, BookedOnce
<1>2. BookedOnce /\ OInv /\ Sole /\ [Next]_vars => BookedOnce'
  <2> SUFFICES ASSUME BookedOnce, OInv, Sole, [Next]_vars
               PROVE  BookedOnce'
    OBVIOUS
  <2>1. ASSUME NEW w \in Workers, At(w, "create"), ledger' = Append(ledger, job[w].order)
        PROVE  BookedOnce'
    <3> DEFINE o == job[w].order
    <3>1. ledger \in Seq(Orders) /\ Len(ledger) \in Nat /\ Ending(job[w]) /\ o \in Orders
      BY <2>1 DEF At, OInv, IInv, TypeOK, Evidence, Justified, Working, Ending, Finalizing
    <3>2. \A t \in 1 .. Len(ledger) : ledger[t] # o
      BY <2>1, <3>1 DEF At, Sole, Steady
    <3>3. /\ Len(ledger') = Len(ledger) + 1
          /\ \A t \in 1 .. Len(ledger) : ledger'[t] = ledger[t]
          /\ ledger'[Len(ledger) + 1] = o
      BY <2>1, <3>1
    <3> HIDE DEF o
    <3> QED BY <3>1, <3>2, <3>3 DEF BookedOnce
  <2>2. CASE ledger' = ledger
    BY <2>2 DEF BookedOnce
  <2> QED BY <2>1, <2>2, LedgerMoves
<1> QED BY <1>1, <1>2, SoleAlways, PTL DEF Spec

===============================================================================
