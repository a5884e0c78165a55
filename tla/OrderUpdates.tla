----------------------------- MODULE OrderUpdates ------------------------------
(***************************************************************************)
(* The part of the Digiflazz order service that every writer of an order   *)
(* shares: UpdateStatus (read, check the transition table, write) and the  *)
(* finalization of a successful order, which books the expense and links   *)
(* it to the order.                                                        *)
(*                                                                         *)
(* A worker is a goroutine of the server: the request that creates an      *)
(* order, a webhook request or the cron poll.  job[w] is where it stands.  *)
(* Each database call is one step, because nothing is held across two of   *)
(* them: no SQL transaction, no mutex and no version column.  A caller     *)
(* enters at "check" or "latest"; the procedure comes back to it with pc   *)
(* "ok" or "error".                                                        *)
(***************************************************************************)
EXTENDS DigiflazzStatus, Naturals, Sequences

CONSTANTS
  Orders,     \* orders, named by their ref_id (fresh and unique per order)
  Workers,    \* the goroutines that write orders
  NoOrder,    \* what a worker at rest works on
  Signature   \* Signature[o]: the (family, creator, category, amount, note) of
              \* the expense of o; two purchases of one product for one customer
              \* by one user have the same

ASSUME OrderAssumption == NoOrder \notin Orders

VARIABLES
  status,     \* status[o]: column status of o's row, "absent" before it exists
  txn,        \* txn[o]: column transaction_id, an index of ledger, 0 when empty
  ledger,     \* the expense transactions in order of creation, each given as
              \* the order it was booked for
  deleted,    \* the expenses a user has deleted since
  job         \* job[w]: the program counter and the locals of worker w

updateVars == <<status, txn, ledger, deleted, job>>

RowStatus == OrderStatus \cup {"absent"}

UpdatePCs == {"check", "write", "latest", "find", "create", "readLink", "saveLink",
              "reread", "findAgain", "ok", "error"}

CallerPCs == {"new", "save", "recordTopup", "idle", "record", "next", "ask"}

Job == [pc    : UpdatePCs \cup CallerPCs,
        order : Orders \cup {NoOrder},
        goal  : RowStatus,     \* the status to reach
        via   : BOOLEAN,       \* pending orders go through processing first
        txn   : Nat,           \* the expense to link
        fresh : BOOLEAN]       \* the expense was created by this worker

\* A job in which nothing but the program counter and the order is set.
AtRest(pc, o) ==
  [pc |-> pc, order |-> o, goal |-> "absent", via |-> FALSE, txn |-> 0, fresh |-> FALSE]

At(w, pc) == job[w].pc = pc
Goto(w, pc) == job' = [job EXCEPT ![w].pc = pc]
Return(w, pc) == job' = [job EXCEPT ![w] = AtRest(pc, job[w].order)]

\* Calls UpdateStatus for order o: once, or via processing when told so.
CallUpdate(w, o, goal, via) ==
  job' = [job EXCEPT ![w] = [AtRest("check", o) EXCEPT !.goal = goal, !.via = via]]

\* The expenses FindByFamilyUserCategoryAmountNote matches.  It does not look at
\* whether one of them is already linked to another order.
Matching(o) == {t \in (1 .. Len(ledger)) \ deleted : Signature[ledger[t]] = Signature[o]}

NextStatus(w) == IF job[w].via THEN "processing" ELSE job[w].goal

-------------------------------------------------------------------------------
(***************************************************************************)
(* Mutations of the steps below.                                           *)
(***************************************************************************)

\* Finalizes whatever status was written.
WriteAndFinalizeAlways(w) ==
  LET o == job[w].order IN
  /\ At(w, "write")
  /\ status' = [status EXCEPT ![o] = NextStatus(w)]
  /\ IF job[w].via
     THEN job' = [job EXCEPT ![w].pc = "check", ![w].via = FALSE]
     ELSE Goto(w, "create")
  /\ UNCHANGED <<txn, ledger, deleted>>

\* Writes and forgets to finalize.
WriteOnly(w) ==
  LET o == job[w].order IN
  /\ At(w, "write")
  /\ status' = [status EXCEPT ![o] = NextStatus(w)]
  /\ IF job[w].via
     THEN job' = [job EXCEPT ![w].pc = "check", ![w].via = FALSE]
     ELSE Return(w, "ok")
  /\ UNCHANGED <<txn, ledger, deleted>>

\* Links the order before the expense exists.
LinkBeforeCreate(w) ==
  /\ At(w, "create")
  /\ ledger' = ledger
  /\ job' = [job EXCEPT ![w] =
       [@ EXCEPT !.pc = "readLink", !.txn = Len(ledger) + 1, !.fresh = TRUE]]
  /\ UNCHANGED <<status, txn, deleted>>

-------------------------------------------------------------------------------
(***************************************************************************)
(* UpdateStatus: GetByID and the table, then orderRepo.UpdateStatus, which *)
(* looks the row up again but writes whatever status it finds there.       *)
(***************************************************************************)

CheckTransition(w) ==
  /\ At(w, "check")
  /\ \/ /\ CanTransition(status[job[w].order], NextStatus(w))
        /\ Goto(w, "write")
     \/ /\ ~CanTransition(status[job[w].order], NextStatus(w))
        /\ Return(w, "error")
  /\ UNCHANGED <<status, txn, ledger, deleted>>

WriteStatus(w) ==
  LET o == job[w].order IN
  /\ At(w, "write")
  /\ status' = [status EXCEPT ![o] = NextStatus(w)]
  /\ \/ /\ job[w].via
        /\ job' = [job EXCEPT ![w].pc = "check", ![w].via = FALSE]
     \/ /\ ~job[w].via
        /\ job[w].goal = "success" /\ txn[o] = 0
        /\ Goto(w, "latest")
     \/ /\ ~job[w].via
        /\ job[w].goal # "success" \/ txn[o] # 0
        /\ Return(w, "ok")
  /\ UNCHANGED <<txn, ledger, deleted>>

(***************************************************************************)
(* finalizeSuccessOrder: read the order again, look for a matching         *)
(* expense, create one if there is none, link it.                          *)
(***************************************************************************)

ReadLatest(w) ==
  LET o == job[w].order IN
  /\ At(w, "latest")
  /\ \/ /\ status[o] = "success" /\ txn[o] = 0
        /\ Goto(w, "find")
     \/ /\ status[o] # "success" \/ txn[o] # 0
        /\ Return(w, "ok")
  /\ UNCHANGED <<status, txn, ledger, deleted>>

\* The newest matching expense is taken, if there is one.
FindExpense(w) ==
  LET found == Matching(job[w].order) IN
  /\ At(w, "find")
  /\ \/ /\ found = {}
        /\ Goto(w, "create")
     \/ \E t \in found :
          /\ \A u \in found : u <= t
          /\ job' = [job EXCEPT ![w].pc = "readLink", ![w].txn = t]
  /\ UNCHANGED <<status, txn, ledger, deleted>>

CreateExpense(w) ==
  /\ At(w, "create")
  /\ ledger' = Append(ledger, job[w].order)
  /\ job' = [job EXCEPT ![w] =
       [@ EXCEPT !.pc = "readLink", !.txn = Len(ledger) + 1, !.fresh = TRUE]]
  /\ UNCHANGED <<status, txn, deleted>>

\* LinkTransactionIfEmpty reads the row ...
ReadLink(w) ==
  /\ At(w, "readLink")
  /\ \/ /\ txn[job[w].order] = 0
        /\ Goto(w, "saveLink")
     \/ /\ txn[job[w].order] # 0
        /\ Return(w, "ok")
  /\ UNCHANGED <<status, txn, ledger, deleted>>

\* ... and then saves the column transaction_id.
SaveLink(w) ==
  /\ At(w, "saveLink")
  /\ txn' = [txn EXCEPT ![job[w].order] = job[w].txn]
  /\ Return(w, "ok")
  /\ UNCHANGED <<status, ledger, deleted>>

(***************************************************************************)
(* recoverFinalizedOrder, entered when the link of a newly created expense *)
(* failed: read the order, search again, try to link once more.            *)
(***************************************************************************)

Reread(w) ==
  /\ At(w, "reread")
  /\ \/ /\ txn[job[w].order] # 0
        /\ Return(w, "ok")
     \/ /\ txn[job[w].order] = 0
        /\ Goto(w, "findAgain")
  /\ UNCHANGED <<status, txn, ledger, deleted>>

FindAgain(w) ==
  LET found == Matching(job[w].order) IN
  /\ At(w, "findAgain")
  /\ \/ /\ found = {}
        /\ Return(w, "error")
     \/ \E t \in found :
          /\ \A u \in found : u <= t
          /\ job' = [job EXCEPT ![w].pc = "readLink", ![w].txn = t]
  /\ UNCHANGED <<status, txn, ledger, deleted>>

\* One step of the shared procedure.
UpdateStep(w) ==
  \/ CheckTransition(w) \/ WriteStatus(w)
  \/ ReadLatest(w) \/ FindExpense(w) \/ CreateExpense(w)
  \/ ReadLink(w) \/ SaveLink(w)
  \/ Reread(w) \/ FindAgain(w)

\* DeleteTransaction: the user removes an expense; transaction_id is a plain text
\* column, so an order linked to it keeps the dangling id.
DeleteExpense(t) ==
  /\ t \in (1 .. Len(ledger)) \ deleted
  /\ deleted' = deleted \cup {t}
  /\ UNCHANGED <<status, txn, ledger, job>>

\* The database or HTTP call worker w is about to make fails.  Only the link of
\* an expense this worker has just created is tried a second time.
CallFails(w) ==
  /\ \/ /\ job[w].pc \in {"readLink", "saveLink"} /\ job[w].fresh
        /\ job' = [job EXCEPT ![w].pc = "reread", ![w].fresh = FALSE]
     \/ /\ ~(job[w].pc \in {"readLink", "saveLink"} /\ job[w].fresh)
        /\ Return(w, "error")
  /\ UNCHANGED <<status, txn, ledger, deleted>>

\* The expense is stored, and Save still returns the error of the balance hook.
CreateFailsAfterCommit(w) ==
  /\ At(w, "create")
  /\ ledger' = Append(ledger, job[w].order)
  /\ Return(w, "error")
  /\ UNCHANGED <<status, txn, deleted>>

===============================================================================
