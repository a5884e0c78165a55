----------------------------- MODULE FamilyBalance -----------------------------
(***************************************************************************)
(* The balance of one family: the table transactions, the materialized row *)
(* of family_balances and the hooks that keep the second in step with the  *)
(* first after a transaction was created, updated or deleted.              *)
(*                                                                         *)
(* PocketBase (external) runs an after-success hook once the change is     *)
(* committed, on its own connection, so that between the two every other   *)
(* request can take its turn; each SQL statement is one step.              *)
(***************************************************************************)
EXTENDS Integers, FiniteSets, FiniteSetsExt

CONSTANTS
  Requests,   \* the requests made to the family's ledger, one operation each
  Ids,        \* record ids of transactions; an id is never used twice
  Amounts,    \* the amounts entered
  MaxFaults   \* bound on hooks that fail, or that a crash never lets run

ASSUME BalanceAssumption ==
  /\ Amounts \subseteq Nat \ {0}
  /\ MaxFaults \in Nat
  /\ IsFiniteSet(Ids) /\ IsFiniteSet(Requests)

VARIABLES
  transactions,   \* transactions[t]: the record, NotYet or Deleted
  balances,       \* the family's row in family_balances, or NoRow
  hookPending,    \* the hook of the newly created family has not run yet
  request,        \* request[r]: where request r stands, and its locals
  failed,         \* hooks that failed so far
  missed,         \* history: what creations and deletions did to the table and no
                  \* hook has told, or will tell, the row
  raced           \* history: the last update to set the row ran into another request

vars == <<transactions, balances, hookPending, request, failed, missed, raced>>

Types == {"income", "expense"}
Record == [type : Types, amount : Amounts]
NotYet == [type |-> "none", amount |-> 0]
Deleted == [type |-> "deleted", amount |-> 0]
IsRecord(t) == transactions[t].type \in Types

Value(record) == IF record.type = "income" THEN record.amount ELSE -record.amount

NoRow == [balance |-> 0, income |-> 0, expense |-> 0, present |-> FALSE]
Row(income, expense) ==
  [balance |-> income - expense, income |-> income, expense |-> expense, present |-> TRUE]

Total(type, trans) ==
  MapThenSumSet(LAMBDA t : trans[t].amount, {t \in Ids : trans[t].type = type})

\* The sums the SQL aggregates compute.
Totals(trans) == Row(Total("income", trans), Total("expense", trans))

\* record: what the request has loaded or created; totals: what its SELECT returned;
\* history: gain is what it did to the table, and crossed that somebody changed the
\* table after that SELECT.
AtRest(pc) == [pc |-> pc, id |-> CHOOSE t \in Ids : TRUE, record |-> NotYet,
               totals |-> NoRow, gain |-> 0, crossed |-> FALSE]
At(r, pc) == request[r].pc = pc
Goto(r, pc) == request' = [request EXCEPT ![r].pc = pc]
Finish(r) == request' = [request EXCEPT ![r] = AtRest("done")]

\* Request r goes on as job and has changed the table under every sum taken so far.
Change(r, job) ==
  request' = [q \in Requests |-> IF q = r THEN job
                                 ELSE [request[q] EXCEPT !.crossed = At(q, "set")]]

Init ==
  /\ transactions = [t \in Ids |-> NotYet]
  /\ balances = NoRow
  /\ hookPending = TRUE
  /\ request = [r \in Requests |-> AtRest("new")]
  /\ failed = 0
  /\ missed = 0
  /\ raced = FALSE

\* UPDATE family_balances SET balance = balance + delta, ... WHERE family_id = ...;
\* without a row it changes nothing and reports no error.
AddToRow(record, sign) ==
  LET amount == sign * record.amount
      column == IF record.type = "income" THEN "income" ELSE "expense"
  IN  IF balances.present
      THEN /\ balances' = [balances EXCEPT !.balance = @ + sign * Value(record),
                                           ![column] = @ + amount]
           /\ UNCHANGED missed
      ELSE /\ missed' = missed + sign * Value(record)
           /\ UNCHANGED balances

\* What the hook of a request that has got so far has still to add to the balance.
Owes(job) ==
  CASE job.pc = "created"        -> Value(job.record)
    [] job.pc = "deleted"        -> -Value(job.record)
    [] job.pc \in {"sum", "set"} -> job.gain
    [] OTHER                     -> 0

Owed(r) == Owes(request[r])
TotalOwed(jobs) == MapThenSumSet(LAMBDA r : Owes(jobs[r]), Requests)

-------------------------------------------------------------------------------
(***************************************************************************)
(* Mutations of the steps below.                                           *)
(***************************************************************************)

\* The hook of the deletion adds the amount once more.
AddsOnDelete(r) ==
  /\ At(r, "deleted")
  /\ AddToRow(request[r].record, 1)
  /\ Finish(r)
  /\ UNCHANGED <<transactions, hookPending, failed, raced>>

\* GetTotalByFamily without the sum it falls back to.
RowOnly == balances.balance

\* The SELECT of an update leaves the expenses out.
SumsIncomeOnly(r) ==
  /\ At(r, "sum")
  /\ request' = [request EXCEPT ![r].pc = "set",
                                ![r].totals = Row(Total("income", transactions), 0)]
  /\ UNCHANGED <<transactions, balances, hookPending, failed, missed, raced>>

-------------------------------------------------------------------------------
(***************************************************************************)
(* The hook of a new family: it inserts the row of zeros.  When the INSERT *)
(* fails this is only logged, and the family never gets a row.             *)
(***************************************************************************)

FamilyHook ==
  /\ hookPending
  /\ hookPending' = FALSE
  /\ \/ /\ balances' = Row(0, 0)
        /\ UNCHANGED failed
     \/ /\ failed < MaxFaults
        /\ failed' = failed + 1
        /\ UNCHANGED balances
  /\ UNCHANGED <<transactions, request, missed, raced>>

(***************************************************************************)
(* CreateTransaction, and the finalization of a Digiflazz order.           *)
(***************************************************************************)

CreateTransaction(r) ==
  /\ At(r, "new")
  /\ \E t \in Ids, record \in Record :
       /\ transactions[t] = NotYet
       /\ transactions' = [transactions EXCEPT ![t] = record]
       /\ Change(r, [AtRest("created") EXCEPT !.id = t, !.record = record])
  /\ UNCHANGED <<balances, hookPending, failed, missed, raced>>

CreateHook(r) ==
  /\ At(r, "created")
  /\ AddToRow(request[r].record, 1)
  /\ Finish(r)
  /\ UNCHANGED <<transactions, hookPending, failed, raced>>

(***************************************************************************)
(* UpdateTransaction: the record is loaded, only the fields that differ    *)
(* from what was loaded are written, and the hook sums the table.          *)
(***************************************************************************)

LoadForUpdate(r) ==
  /\ At(r, "new")
  /\ \E t \in Ids :
       /\ IsRecord(t)
       /\ request' = [request EXCEPT ![r] =
            [AtRest("save") EXCEPT !.id = t, !.record = transactions[t]]]
  /\ UNCHANGED <<transactions, balances, hookPending, failed, missed, raced>>

\* A record deleted in the meantime is not brought back.
SaveUpdate(r) ==
  LET old == request[r].record  t == request[r].id IN
  /\ At(r, "save")
  /\ \E new \in Record :
       /\ transactions' = IF ~IsRecord(t) THEN transactions
                          ELSE [transactions EXCEPT
                                  ![t].type   = IF new.type = old.type THEN @ ELSE new.type,
                                  ![t].amount = IF new.amount = old.amount THEN @ ELSE new.amount]
       /\ Change(r, [request[r] EXCEPT !.pc = "sum",
                       !.gain = Value(transactions'[t]) - Value(transactions[t])])
  /\ UNCHANGED <<balances, hookPending, failed, missed, raced>>

SumForUpdate(r) ==
  /\ At(r, "sum")
  /\ request' = [request EXCEPT ![r].pc = "set", ![r].totals = Totals(transactions)]
  /\ UNCHANGED <<transactions, balances, hookPending, failed, missed, raced>>

\* When nobody has changed the table since the SELECT and no other hook is still to
\* run, this makes up for everything the row has missed.
UpdateHook(r) ==
  /\ At(r, "set")
  /\ balances' = IF balances.present THEN request[r].totals ELSE balances
  /\ IF balances.present
     THEN /\ raced' = (request[r].crossed \/ \E q \in Requests \ {r} : Owed(q) # 0)
          /\ missed' = 0
     ELSE missed' = missed + Owed(r) /\ UNCHANGED raced
  /\ Finish(r)
  /\ UNCHANGED <<transactions, hookPending, failed>>

(***************************************************************************)
(* DeleteTransaction: the hook takes off the amount that was loaded.  The  *)
(* check of the creator reads a column that never changes.                 *)
(***************************************************************************)

LoadForDelete(r) ==
  /\ At(r, "new")
  /\ \E t \in Ids :
       /\ IsRecord(t)
       /\ request' = [request EXCEPT ![r] =
            [AtRest("delete") EXCEPT !.id = t, !.record = transactions[t]]]
  /\ UNCHANGED <<transactions, balances, hookPending, failed, missed, raced>>

\* A DELETE that finds no row any more is no error, and the hook runs once more.
DeleteRecord(r) ==
  LET t == request[r].id IN
  /\ At(r, "delete")
  /\ transactions' = [transactions EXCEPT ![t] = Deleted]
  /\ missed' = missed + Value(request[r].record) - Value(transactions[t])
  /\ Change(r, [request[r] EXCEPT !.pc = "deleted"])
  /\ UNCHANGED <<balances, hookPending, failed, raced>>

DeleteHook(r) ==
  /\ At(r, "deleted")
  /\ AddToRow(request[r].record, -1)
  /\ Finish(r)
  /\ UNCHANGED <<transactions, hookPending, failed, raced>>

\* The statement of a hook fails, or the server stops before it: the change of the
\* transaction stays.
HookFails(r) ==
  /\ failed < MaxFaults
  /\ failed' = failed + 1
  /\ request[r].pc \in {"created", "sum", "set", "deleted"}
  /\ missed' = missed + Owed(r)
  /\ Finish(r)
  /\ UNCHANGED <<transactions, balances, hookPending, raced>>

Next ==
  \/ FamilyHook
  \/ \E r \in Requests :
       \/ CreateTransaction(r) \/ CreateHook(r)
       \/ LoadForUpdate(r) \/ SaveUpdate(r) \/ SumForUpdate(r) \/ UpdateHook(r)
       \/ LoadForDelete(r) \/ DeleteRecord(r) \/ DeleteHook(r)
       \/ HookFails(r)

Spec == Init /\ [][Next]_vars

-------------------------------------------------------------------------------
(***************************************************************************)
(* Properties.                                                             *)
(***************************************************************************)

\* GetTotalByFamily: the materialized balance, or the sum when there is no row.
Balance == IF balances.present THEN balances.balance ELSE Totals(transactions).balance

Quiet == ~hookPending /\ \A r \in Requests : request[r].pc \in {"new", "done"}

\* The row differs from the table by what the hooks that have not run yet will add,
\* and by what hooks missed that failed, came before the row existed, or took off
\* another amount than the record deleted had by then, in whatever order creations,
\* updates and deletions come.
\* Only an update that runs into another request can spoil this, and the next one
\* that does not restores it.
RowLagsByHooks ==
  ~raced => balances.balance + TotalOwed(request) + missed
              = Totals(transactions).balance

\* The balance shown is the sum of the family's transactions when no request is under
\* way, no hook was missed and the last update was not raced, and also as long as the
\* row could not be created.
BalanceIsTotal ==
  Quiet /\ (~balances.present \/ (~raced /\ missed = 0)) => Balance = Totals(transactions).balance

\* An update whose two statements nobody runs in between leaves the right row,
\* whatever hooks have failed before it.
UpdateRepairs ==
  [][\A r \in Requests :
       UpdateHook(r) /\ balances.present /\ ~request[r].crossed
         => balances' = Totals(transactions')]_vars

===============================================================================
