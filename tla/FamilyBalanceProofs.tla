-------------------------- MODULE FamilyBalanceProofs --------------------------
(***************************************************************************)
(* Proofs about FamilyBalance: that the row of balances differs from the   *)
(* table by exactly what the hooks have still to add and what they missed, *)
(* for any number of requests, transactions and amounts.                   *)
(*                                                                         *)
(* Besides the types the invariant says what a request carries (OnTrack),  *)
(* that there is no balance without a row (NoneYet), and that a sum nobody *)
(* has overtaken is still the sum of the table (Summed).                   *)
(***************************************************************************)
EXTENDS FamilyBalance, Sums

Entry == Record \cup {NotYet, Deleted}

Figures == [balance : Int, income : Int, expense : Int, present : BOOLEAN]

PCs == {"new", "created", "save", "sum", "set", "delete", "deleted", "done"}

Job == [pc : PCs, id : Ids \cup {AtRest("new").id}, record : Entry, totals : Figures,
        gain : Int, crossed : BOOLEAN]

Typed ==
  /\ transactions \in [Ids -> Entry]
  /\ balances \in Figures
  /\ hookPending \in BOOLEAN
  /\ request \in [Requests -> Job]
  /\ missed \in Int
  /\ raced \in BOOLEAN

OnTrack ==
  \A r \in Requests :
    /\ request[r].pc \in {"save", "delete"} => request[r].id \in Ids
    /\ At(r, "set") => request[r].totals.present

NoneYet ==
  /\ hookPending => ~balances.present
  /\ ~balances.present => balances.balance = 0

Summed ==
  \A r \in Requests :
    At(r, "set") /\ ~request[r].crossed => request[r].totals = Totals(transactions)

IInv == Typed /\ OnTrack /\ NoneYet /\ Summed /\ RowLagsByHooks

-------------------------------------------------------------------------------
(***************************************************************************)
(* The sums.                                                               *)
(***************************************************************************)

Part(type, record) == IF record.type = type THEN record.amount ELSE 0

AmountsOf(trans) == [t \in Ids |-> trans[t].amount]

OfType(type, trans) == {t \in Ids : trans[t].type = type}

LEMMA EntryTyped ==
  \A e \in Entry : /\ e.amount \in Int /\ Value(e) \in Int
                   /\ Value(e) = Part("income", e) - Part("expense", e)
<1>1. \A e \in Record : e.type \in Types /\ e.amount \in Int
  <2>1. \A a \in Amounts : a \in Int
    BY BalanceAssumption
  <2> QED BY <2>1 DEF Record
<1>2. \A e \in Entry : /\ e.type \in {"income", "expense"} \/ e.amount = 0
                       /\ e.amount \in Int
  BY <1>1 DEF Entry, Types, NotYet, Deleted
<1> QED BY <1>2 DEF Value, Part

LEMMA TotalIs ==
  ASSUME NEW trans \in [Ids -> Entry], NEW type
  PROVE  Total(type, trans) = Sum(AmountsOf(trans), OfType(type, trans))
<1> DEFINE S == OfType(type, trans)
           f == AmountsOf(trans)
           iter == CHOOSE h : h = [s \in SUBSET S |->
                     IF s = {} THEN 0
                     ELSE trans[CHOOSE x \in s : TRUE].amount
                            + h[s \ {CHOOSE x \in s : TRUE}]]
<1>1. Total(type, trans) = iter[S]
  BY DEF Total, OfType, MapThenSumSet, MapThenFoldSet
<1>2. S \subseteq Ids /\ IsFiniteSet(S)
  BY BalanceAssumption, FS_Subset DEF OfType
<1>3. IntOn(f, S)
  BY <1>2, EntryTyped DEF IntOn, AmountsOf
<1>4. \A s \in SUBSET S : s # {} => f[Pick(s)] = trans[CHOOSE x \in s : TRUE].amount
  BY <1>2, PickIn DEF AmountsOf, Pick
<1> HIDE DEF S, f
<1>5. PICK g : IsSum(g, f, S)
  BY <1>2, <1>3, SumExists
<1>6. g = [s \in SUBSET S |->
             IF s = {} THEN 0
             ELSE trans[CHOOSE x \in s : TRUE].amount + g[s \ {CHOOSE x \in s : TRUE}]]
  BY <1>4, <1>5 DEF IsSum, Recurses, Pick
<1>7. iter = [s \in SUBSET S |->
                IF s = {} THEN 0
                ELSE trans[CHOOSE x \in s : TRUE].amount + iter[s \ {CHOOSE x \in s : TRUE}]]
  BY <1>6
<1> HIDE DEF iter
<1>8. Recurses(iter, f, S)
  BY <1>4, <1>7 DEF Recurses, Pick
<1>9. iter[S] = g[S]
  BY <1>2, <1>5, <1>8, SameRecursion DEF IsSum
<1> QED BY <1>1, <1>2, <1>3, <1>5, <1>9, SumIs DEF S, f

\* The table changes at t.
LEMMA TotalMoves ==
  ASSUME NEW old \in [Ids -> Entry], NEW new \in [Ids -> Entry], NEW t \in Ids,
         \A u \in Ids \ {t} : new[u] = old[u], NEW type
  PROVE  /\ Total(type, new) = Total(type, old) + Part(type, new[t]) - Part(type, old[t])
         /\ Total(type, old) \in Int
<1> DEFINE S1 == OfType(type, old)  S2 == OfType(type, new)
           f1 == AmountsOf(old)     f2 == AmountsOf(new)
           R == S1 \ {t}
<1>1. IsFiniteSet(S1) /\ IsFiniteSet(S2) /\ IsFiniteSet(R)
  BY BalanceAssumption, FS_Subset DEF OfType
<1>2. IntOn(f1, S1) /\ IntOn(f2, S2) /\ IntOn(f1, R)
  BY EntryTyped DEF IntOn, AmountsOf, OfType
<1>3. R = S1 \ {t} /\ R = S2 \ {t} /\ Agree(f1, f2, R)
  BY DEF OfType, AmountsOf, Agree
<1>4. /\ t \in S1 <=> old[t].type = type
      /\ t \in S2 <=> new[t].type = type
      /\ f1[t] = old[t].amount /\ f2[t] = new[t].amount
      /\ t \notin S1 => S1 = R
      /\ t \notin S2 => S2 = S2 \ {t}
  BY DEF OfType, AmountsOf
<1>5. f1[t] \in Int /\ f2[t] \in Int
  BY EntryTyped DEF AmountsOf
<1> HIDE DEF S1, S2, f1, f2
<1>6. Sum(f1, R) = Sum(f2, R) /\ Sum(f1, R) \in Int
  <2> HIDE DEF R
  <2> QED BY <1>1, <1>2, <1>3, SumSame, SumInt
<1>7. Sum(f1, S1) = Part(type, old[t]) + Sum(f1, R)
  <2>1. CASE t \in S1
    <3>1. Sum(f1, S1) = f1[t] + Sum(f1, S1 \ {t})
      BY <1>1, <1>2, <2>1, SumRemove
    <3> HIDE DEF R
    <3> QED BY <1>3, <1>4, <2>1, <3>1 DEF Part
  <2>2. CASE t \notin S1
    <3>1. S1 = R
      BY <1>4, <2>2
    <3> HIDE DEF R
    <3> QED BY <1>4, <1>6, <2>2, <3>1 DEF Part
  <2> QED BY <2>1, <2>2
<1>8. Sum(f2, S2) = Part(type, new[t]) + Sum(f2, R)
  <2>1. CASE t \in S2
    <3>1. Sum(f2, S2) = f2[t] + Sum(f2, S2 \ {t})
      BY <1>1, <1>2, <2>1, SumRemove
    <3> QED BY <1>3, <1>4, <2>1, <3>1 DEF Part
  <2>2. CASE t \notin S2
    <3>1. S2 = R
      BY <1>3, <1>4, <2>2
    <3> QED BY <1>4, <1>6, <2>2, <3>1 DEF Part
  <2> QED BY <2>1, <2>2
<1>9. Total(type, old) = Sum(f1, S1) /\ Total(type, new) = Sum(f2, S2)
  BY TotalIs DEF S1, S2, f1, f2
<1>10. Part(type, old[t]) \in Int /\ Part(type, new[t]) \in Int
  BY <1>4, <1>5 DEF Part
<1> HIDE DEF R
<1> QED BY <1>6, <1>7, <1>8, <1>9, <1>10

LEMMA TotalInt ==
  ASSUME NEW trans \in [Ids -> Entry], NEW type
  PROVE  Total(type, trans) \in Int
<1>1. IsFiniteSet(OfType(type, trans)) /\ IntOn(AmountsOf(trans), OfType(type, trans))
  BY BalanceAssumption, FS_Subset, EntryTyped DEF OfType, IntOn, AmountsOf
<1> QED BY <1>1, TotalIs, SumInt

LEMMA TotalsTyped ==
  ASSUME NEW trans \in [Ids -> Entry]
  PROVE  Totals(trans) \in Figures
BY TotalInt DEF Totals, Row, Figures

LEMMA TotalsMove ==
  ASSUME NEW old \in [Ids -> Entry], NEW new \in [Ids -> Entry], NEW t \in Ids,
         \A u \in Ids \ {t} : new[u] = old[u]
  PROVE  Totals(new).balance = Totals(old).balance + Value(new[t]) - Value(old[t])
<1>1. Total("income", new)
        = Total("income", old) + Part("income", new[t]) - Part("income", old[t])
  BY TotalMoves
<1>2. Total("expense", new)
        = Total("expense", old) + Part("expense", new[t]) - Part("expense", old[t])
  BY TotalMoves
<1>3. /\ Totals(new).balance = Total("income", new) - Total("expense", new)
      /\ Totals(old).balance = Total("income", old) - Total("expense", old)
  BY DEF Totals, Row
<1>4. Total("income", old) \in Int /\ Total("expense", old) \in Int
  BY TotalInt
<1>5. /\ Value(new[t]) = Part("income", new[t]) - Part("expense", new[t])
      /\ Value(old[t]) = Part("income", old[t]) - Part("expense", old[t])
  BY EntryTyped
<1>6. \A type : Part(type, new[t]) \in Int /\ Part(type, old[t]) \in Int
  BY EntryTyped DEF Part
<1> QED BY <1>1, <1>2, <1>3, <1>4, <1>5, <1>6

LEMMA OwesInt ==
  ASSUME NEW job \in Job
  PROVE  Owes(job) \in Int
BY EntryTyped DEF Job, Owes

Debts(jobs) == [r \in Requests |-> Owes(jobs[r])]

LEMMA TotalOwedIs ==
  ASSUME NEW jobs \in [Requests -> Job]
  PROVE  TotalOwed(jobs) = Sum(Debts(jobs), Requests)
<1> DEFINE f == Debts(jobs)
           iter == CHOOSE h : h = [s \in SUBSET Requests |->
                     IF s = {} THEN 0
                     ELSE Owes(jobs[CHOOSE x \in s : TRUE]) + h[s \ {CHOOSE x \in s : TRUE}]]
<1>1. TotalOwed(jobs) = iter[Requests]
  BY DEF TotalOwed, MapThenSumSet, MapThenFoldSet
<1>2. IsFiniteSet(Requests)
  BY BalanceAssumption
<1>3. IntOn(f, Requests)
  BY OwesInt DEF IntOn, Debts
<1>4. \A s \in SUBSET Requests : s # {} => f[Pick(s)] = Owes(jobs[CHOOSE x \in s : TRUE])
  BY PickIn DEF Debts, Pick
<1> HIDE DEF f
<1>5. PICK g : IsSum(g, f, Requests)
  BY <1>2, <1>3, SumExists
<1>6. g = [s \in SUBSET Requests |->
             IF s = {} THEN 0
             ELSE Owes(jobs[CHOOSE x \in s : TRUE]) + g[s \ {CHOOSE x \in s : TRUE}]]
  BY <1>4, <1>5 DEF IsSum, Recurses, Pick
<1>7. iter = [s \in SUBSET Requests |->
                IF s = {} THEN 0
                ELSE Owes(jobs[CHOOSE x \in s : TRUE]) + iter[s \ {CHOOSE x \in s : TRUE}]]
  BY <1>6
<1> HIDE DEF iter
<1>8. Recurses(iter, f, Requests)
  BY <1>4, <1>7 DEF Recurses, Pick
<1>9. iter[Requests] = g[Requests]
  BY <1>2, <1>5, <1>8, SameRecursion DEF IsSum
<1> QED BY <1>1, <1>2, <1>3, <1>5, <1>9, SumIs DEF f

\* What request r owes changes, and nobody else's debt.
LEMMA OwedMoves ==
  ASSUME NEW old \in [Requests -> Job], NEW new \in [Requests -> Job], NEW r \in Requests,
         \A q \in Requests \ {r} : Owes(new[q]) = Owes(old[q])
  PROVE  /\ TotalOwed(new) = TotalOwed(old) + Owes(new[r]) - Owes(old[r])
         /\ TotalOwed(old) \in Int
<1> DEFINE f == Debts(old)  e == Debts(new)
<1>1. IsFiniteSet(Requests)
  BY BalanceAssumption
<1>2. IntOn(f, Requests) /\ IntOn(e, Requests)
  BY OwesInt DEF IntOn, Debts
<1>3. Agree(f, e, Requests \ {r}) /\ f[r] = Owes(old[r]) /\ e[r] = Owes(new[r])
  BY DEF Agree, Debts
<1>4. TotalOwed(old) = Sum(f, Requests) /\ TotalOwed(new) = Sum(e, Requests)
  BY TotalOwedIs
<1>5. Owes(old[r]) \in Int /\ Owes(new[r]) \in Int
  BY OwesInt
<1> HIDE DEF f, e
<1>6. Sum(e, Requests) = Sum(f, Requests) + e[r] - f[r]
  BY <1>1, <1>2, <1>3, SumPoint, Z3
<1>7. Sum(f, Requests) \in Int
  BY <1>1, <1>2, SumInt
<1> QED BY <1>3, <1>4, <1>5, <1>6, <1>7

LEMMA NothingOwed ==
  ASSUME NEW jobs \in [Requests -> Job], \A r \in Requests : Owes(jobs[r]) = 0
  PROVE  TotalOwed(jobs) = 0
<1>1. \A r \in Requests : Debts(jobs)[r] = 0
  BY DEF Debts
<1> QED BY <1>1, BalanceAssumption, TotalOwedIs, SumZero

-------------------------------------------------------------------------------
(***************************************************************************)
(* The steps.                                                              *)
(***************************************************************************)

LEMMA RestIsTyped ==
  \A pc \in PCs : AtRest(pc) \in Job /\ AtRest(pc).pc = pc
BY DEF AtRest, Job, Entry, NoRow, Figures

\* An entry of a type that is recorded is a record.
LEMMA RecordIsTyped == \A e \in Entry : e.type \in Types => e \in Record
BY DEF Entry, Types, NotYet, Deleted

Loaded(pc, t, e) == [AtRest(pc) EXCEPT !.id = t, !.record = e]

LEMMA LoadedIsTyped ==
  \A pc \in PCs, t \in Ids, e \in Entry :
    /\ Loaded(pc, t, e) \in Job
    /\ Loaded(pc, t, e).pc = pc /\ Loaded(pc, t, e).id = t /\ Loaded(pc, t, e).record = e
<1> SUFFICES ASSUME NEW pc \in PCs, NEW t \in Ids, NEW e \in Entry
             PROVE  /\ Loaded(pc, t, e) \in Job
                    /\ Loaded(pc, t, e).pc = pc /\ Loaded(pc, t, e).id = t
                    /\ Loaded(pc, t, e).record = e
  OBVIOUS
<1> DEFINE rest == AtRest(pc)
           moved == [rest EXCEPT !.id = t]
<1>1. rest \in Job /\ rest.pc = pc
  BY RestIsTyped
<1>2. Loaded(pc, t, e) = [moved EXCEPT !.record = e]
  BY DEF Loaded
<1> HIDE DEF rest
<1>3. moved \in Job /\ moved.pc = pc /\ moved.id = t
  BY <1>1 DEF Job
<1> HIDE DEF moved
<1> QED BY <1>2, <1>3 DEF Job

LEMMA RowAdds ==
  ASSUME Typed, NoneYet, NEW e \in Entry, NEW sign \in {1, -1}, AddToRow(e, sign)
  PROVE  /\ balances' \in Figures /\ missed' \in Int
         /\ balances'.present = balances.present
         /\ balances'.balance + missed' = balances.balance + missed + sign * Value(e)
         /\ ~balances.present => balances' = balances
<1>1. e.amount \in Int /\ Value(e) \in Int /\ sign * Value(e) \in Int /\ sign * e.amount \in Int
  BY EntryTyped
<1> DEFINE gain == sign * Value(e)  amount == sign * e.amount
<1>2. gain \in Int /\ amount \in Int
  BY <1>1
<1>3. \/ /\ balances.present /\ missed' = missed
         /\ \/ balances' = [balances EXCEPT !.balance = @ + gain, !.income = @ + amount]
            \/ balances' = [balances EXCEPT !.balance = @ + gain, !.expense = @ + amount]
      \/ ~balances.present /\ missed' = missed + gain /\ balances' = balances
  BY DEF AddToRow
<1> HIDE DEF gain, amount
<1>4. balances \in Figures /\ missed \in Int
  BY DEF Typed
<1>5. /\ balances' \in Figures /\ missed' \in Int
      /\ balances'.present = balances.present
      /\ balances'.balance + missed' = balances.balance + missed + gain
      /\ ~balances.present => balances' = balances
  <2>1. CASE ~balances.present /\ missed' = missed + gain /\ balances' = balances
    BY <1>2, <1>4, <2>1 DEF Figures
  <2>2. CASE /\ balances.present /\ missed' = missed
             /\ balances' = [balances EXCEPT !.balance = @ + gain, !.income = @ + amount]
    <3>1. missed' = missed /\ balances.present /\ balances.balance \in Int
      BY <1>4, <2>2 DEF Figures
    <3>2. balances' = [balance |-> balances.balance + gain, income |-> balances.income + amount,
                       expense |-> balances.expense, present |-> balances.present]
      BY <1>4, <2>2 DEF Figures
    <3>3. /\ balances' \in Figures /\ balances'.balance = balances.balance + gain
          /\ balances'.present = balances.present
      BY <1>2, <1>4, <3>2 DEF Figures
    <3> QED BY <1>2, <1>4, <3>1, <3>3
  <2>3. CASE /\ balances.present /\ missed' = missed
             /\ balances' = [balances EXCEPT !.balance = @ + gain, !.expense = @ + amount]
    <3>1. missed' = missed /\ balances.present /\ balances.balance \in Int
      BY <1>4, <2>3 DEF Figures
    <3>2. balances' = [balance |-> balances.balance + gain, income |-> balances.income,
                       expense |-> balances.expense + amount, present |-> balances.present]
      BY <1>4, <2>3 DEF Figures
    <3>3. /\ balances' \in Figures /\ balances'.balance = balances.balance + gain
          /\ balances'.present = balances.present
      BY <1>2, <1>4, <3>2 DEF Figures
    <3> QED BY <1>2, <1>4, <3>1, <3>3
  <2> QED BY <1>3, <2>1, <2>2, <2>3
<1> QED BY <1>5 DEF gain

LEMMA Whole ==
  ASSUME Typed
  PROVE  /\ balances.balance \in Int /\ missed \in Int
         /\ TotalOwed(request) \in Int /\ Totals(transactions).balance \in Int
         /\ \A r \in Requests : Owes(request[r]) \in Int
         /\ \A t \in Ids : Value(transactions[t]) \in Int
<1>1. balances.balance \in Int /\ missed \in Int
  BY DEF Typed, Figures
<1>2. Totals(transactions).balance \in Int
  BY TotalsTyped DEF Typed, Figures
<1>3. /\ \A r \in Requests : Owes(request[r]) \in Int
      /\ \A t \in Ids : Value(transactions[t]) \in Int
  BY OwesInt, EntryTyped DEF Typed
<1>4. request \in [Requests -> Job] /\ IsFiniteSet(Requests)
  BY BalanceAssumption DEF Typed
<1>5. IntOn(Debts(request), Requests)
  BY <1>3 DEF IntOn, Debts
<1>6. TotalOwed(request) \in Int
  BY <1>4, <1>5, TotalOwedIs, SumInt
<1> QED BY <1>1, <1>2, <1>3, <1>6

\* Request r goes on as job.
LEMMA JobMoves ==
  ASSUME Typed, OnTrack, NEW r \in Requests, NEW job \in Job,
         job.pc \in {"save", "delete"} => job.id \in Ids,
         job.pc = "set" => job.totals.present,
         request' = [request EXCEPT ![r] = job]
  PROVE  /\ request' \in [Requests -> Job]
         /\ \A q \in Requests : request'[q] = IF q = r THEN job ELSE request[q]
         /\ OnTrack'
         /\ TotalOwed(request') = TotalOwed(request) + Owes(job) - Owes(request[r])
<1>1. request \in [Requests -> Job]
  BY DEF Typed
<1>2. request' \in [Requests -> Job]
  BY <1>1
<1>3. \A q \in Requests : request'[q] = IF q = r THEN job ELSE request[q]
  BY <1>1
<1>4. OnTrack'
  BY <1>3 DEF OnTrack, At
<1>5. \A q \in Requests \ {r} : Owes(request'[q]) = Owes(request[q])
  BY <1>3
<1>6. TotalOwed(request') = TotalOwed(request) + Owes(request'[r]) - Owes(request[r])
  BY <1>1, <1>2, <1>5, OwedMoves
<1>7. request'[r] = job
  BY <1>3
<1> QED BY <1>2, <1>3, <1>4, <1>6, <1>7

\* Request r goes on as job and has changed the table.
LEMMA JobCrosses ==
  ASSUME Typed, OnTrack, NEW r \in Requests, NEW job \in Job,
         job.pc \notin {"save", "delete", "set"}, Change(r, job)
  PROVE  /\ request' \in [Requests -> Job]
         /\ OnTrack'
         /\ Summed'
         /\ TotalOwed(request') = TotalOwed(request) + Owes(job) - Owes(request[r])
<1>1. request \in [Requests -> Job]
  BY DEF Typed
<1>2. ASSUME NEW q \in Requests
      PROVE  [request[q] EXCEPT !.crossed = At(q, "set")] \in Job
  <2>1. request[q] \in Job
    BY <1>1
  <2> QED BY <2>1 DEF Job, At
<1>3. request' \in [Requests -> Job]
  BY <1>2 DEF Change
<1>4. request'[r] = job
  BY DEF Change
<1>5. ASSUME NEW q \in Requests \ {r}
      PROVE  /\ request'[q].pc = request[q].pc /\ request'[q].id = request[q].id
             /\ request'[q].record = request[q].record
             /\ request'[q].gain = request[q].gain
             /\ request'[q].totals = request[q].totals
             /\ request'[q].crossed = (request[q].pc = "set")
  <2>1. request[q] \in Job
    BY <1>1
  <2>2. request'[q] = [request[q] EXCEPT !.crossed = At(q, "set")]
    BY DEF Change
  <2> QED BY <2>1, <2>2 DEF Job, At
<1>6. OnTrack'
  BY <1>4, <1>5 DEF OnTrack, At
<1>7. Summed'
  BY <1>4, <1>5 DEF Summed, At
<1>8. \A q \in Requests \ {r} : Owes(request'[q]) = Owes(request[q])
  BY <1>5 DEF Owes
<1>9. TotalOwed(request') = TotalOwed(request) + Owes(request'[r]) - Owes(request[r])
  BY <1>1, <1>3, <1>8, OwedMoves
<1> QED BY <1>3, <1>4, <1>6, <1>7, <1>9

\* A sum stays the sum of a table that stays.
LEMMA SumStays ==
  ASSUME Summed, NEW r \in Requests, NEW job,
         \A q \in Requests : request'[q] = IF q = r THEN job ELSE request[q],
         job.pc = "set" => job.totals = Totals(transactions),
         transactions' = transactions
  PROVE  Summed'
<1>1. Totals(transactions') = Totals(transactions)
  OBVIOUS
<1> QED BY <1>1 DEF Summed, At

LEMMA InitEstablishes == Init => IInv
<1> SUFFICES ASSUME Init
             PROVE  IInv
  OBVIOUS
<1>1. request \in [Requests -> Job] /\ \A r \in Requests : request[r] = AtRest("new")
  BY RestIsTyped DEF Init, PCs
<1>2. AtRest("new").pc = "new"
  BY DEF AtRest
<1>3. Typed
  <2>1. transactions \in [Ids -> Entry]
    BY DEF Init, Entry
  <2>2. balances \in Figures
    BY DEF Init, NoRow, Figures
  <2>3. hookPending = TRUE /\ missed = 0 /\ raced = FALSE
    BY DEF Init
  <2>4. missed \in Int
    BY <2>3
  <2>5. hookPending \in BOOLEAN
    BY <2>3, Zenon
  <2>6. raced \in BOOLEAN
    BY <2>3, Zenon
  <2> QED BY <1>1, <2>1, <2>2, <2>4, <2>5, <2>6 DEF Typed
<1>4. OnTrack /\ Summed /\ NoneYet
  BY <1>1, <1>2 DEF Init, OnTrack, Summed, NoneYet, NoRow, At
<1>5. TotalOwed(request) = 0
  BY <1>1, <1>2, NothingOwed DEF Owes
<1>6. ASSUME NEW type \in Types
      PROVE  Total(type, transactions) = 0
  <2>1. OfType(type, transactions) = {}
    BY <1>6 DEF Init, OfType, Types, NotYet
  <2>2. transactions \in [Ids -> Entry]
    BY <1>3 DEF Typed
  <2> QED BY <2>1, <2>2, TotalIs, SumEmpty
<1>7. Totals(transactions).balance = 0
  BY <1>6 DEF Totals, Row, Types
<1>8. RowLagsByHooks
  BY <1>5, <1>7 DEF Init, RowLagsByHooks, NoRow
<1> QED BY <1>3, <1>4, <1>8 DEF IInv

LEMMA FamilyHookKeeps == IInv /\ FamilyHook => IInv'
<1> SUFFICES ASSUME IInv, FamilyHook
             PROVE  IInv'
  OBVIOUS
<1>1. hookPending /\ ~hookPending' /\ ~balances.present /\ balances.balance = 0
  BY DEF IInv, FamilyHook, NoneYet
<1>2. UNCHANGED <<transactions, request, missed, raced>>
  BY DEF FamilyHook
<1>3. balances' \in Figures /\ balances'.balance = 0
  <2>1. CASE balances' = Row(0, 0)
    BY <2>1 DEF Row, Figures
  <2>2. CASE balances' = balances
    BY <1>1, <2>2 DEF IInv, Typed
  <2> QED BY <2>1, <2>2 DEF FamilyHook
<1>4. Typed'
  BY <1>2, <1>3 DEF IInv, Typed, FamilyHook
<1>5. OnTrack' /\ NoneYet'
  BY <1>1, <1>2, <1>3 DEF IInv, OnTrack, NoneYet, At
<1>6. Summed'
  BY <1>2 DEF IInv, Summed, At
<1>7. RowLagsByHooks'
  BY <1>1, <1>2, <1>3 DEF IInv, RowLagsByHooks
<1> QED BY <1>4, <1>5, <1>6, <1>7 DEF IInv

LEMMA CreateKeeps ==
  ASSUME NEW r \in Requests
  PROVE  IInv /\ CreateTransaction(r) => IInv'
<1> SUFFICES ASSUME IInv, CreateTransaction(r)
             PROVE  IInv'
  OBVIOUS
<1>1. PICK t \in Ids, record \in Record :
        /\ transactions[t] = NotYet
        /\ transactions' = [transactions EXCEPT ![t] = record]
        /\ Change(r, [AtRest("created") EXCEPT !.id = t, !.record = record])
  BY DEF CreateTransaction
<1>2. UNCHANGED <<balances, hookPending, missed, raced>> /\ request[r].pc = "new"
  BY DEF CreateTransaction, At
<1> DEFINE job == [AtRest("created") EXCEPT !.id = t, !.record = record]
<1>3. job \in Job /\ job.pc = "created" /\ job.record = record
  <2>1. record \in Entry /\ "created" \in PCs
    BY DEF Entry, PCs
  <2>2. job = Loaded("created", t, record)
    BY DEF Loaded
  <2> HIDE DEF job
  <2> QED BY <2>1, <2>2, LoadedIsTyped
<1>4. Change(r, job)
  BY <1>1
<1> HIDE DEF job
<1>5. Typed /\ OnTrack /\ NoneYet
  BY DEF IInv
<1>6. /\ request' \in [Requests -> Job] /\ OnTrack' /\ Summed'
      /\ TotalOwed(request') = TotalOwed(request) + Owes(job) - Owes(request[r])
  BY <1>3, <1>4, <1>5, JobCrosses
<1>7. Owes(job) = Value(record) /\ Owes(request[r]) = 0
  BY <1>2, <1>3 DEF Owes
<1>8. transactions \in [Ids -> Entry] /\ transactions' \in [Ids -> Entry] /\ record \in Entry
  BY <1>1, <1>5 DEF Typed, Entry
<1>9. /\ transactions'[t] = record /\ transactions[t] = NotYet
      /\ \A u \in Ids \ {t} : transactions'[u] = transactions[u]
  BY <1>1, <1>8
<1>10. Totals(transactions').balance
         = Totals(transactions).balance + Value(record) - Value(NotYet)
  BY <1>8, <1>9, TotalsMove
<1>11. Value(NotYet) = 0 /\ Value(record) \in Int
  <2>1. NotYet.type = "none" /\ NotYet.amount = 0
    BY DEF NotYet
  <2>2. Part("income", NotYet) = 0 /\ Part("expense", NotYet) = 0
    BY <2>1 DEF Part
  <2>3. NotYet \in Entry
    BY DEF Entry
  <2>4. Value(NotYet) = 0
    BY <2>2, <2>3, EntryTyped
  <2> QED BY <1>8, <2>4, EntryTyped
<1>12. Typed' /\ NoneYet'
  BY <1>2, <1>5, <1>6, <1>8 DEF Typed, NoneYet
<1>13. RowLagsByHooks'
  BY <1>2, <1>5, <1>6, <1>7, <1>10, <1>11, Whole DEF IInv, RowLagsByHooks
<1> QED BY <1>6, <1>12, <1>13 DEF IInv

\* A hook that adds to the row what its request owes.
LEMMA HookAdds ==
  ASSUME NEW r \in Requests, IInv, NEW sign \in {1, -1}, AddToRow(request[r].record, sign),
         Owed(r) = sign * Value(request[r].record), Finish(r),
         UNCHANGED <<transactions, hookPending, raced>>
  PROVE  IInv'
<1>1. Typed /\ OnTrack /\ NoneYet /\ Summed
  BY DEF IInv
<1>2. request[r].record \in Entry
  BY <1>1 DEF Typed, Job
<1>3. /\ balances' \in Figures /\ missed' \in Int
      /\ balances'.present = balances.present
      /\ balances'.balance + missed'
           = balances.balance + missed + sign * Value(request[r].record)
      /\ ~balances.present => balances' = balances
  BY <1>1, <1>2, RowAdds
<1> DEFINE job == AtRest("done")
<1>4. job \in Job /\ job.pc = "done" /\ request' = [request EXCEPT ![r] = job]
  BY RestIsTyped DEF PCs, Finish
<1> HIDE DEF job
<1>5. /\ request' \in [Requests -> Job] /\ OnTrack'
      /\ \A q \in Requests : request'[q] = IF q = r THEN job ELSE request[q]
      /\ TotalOwed(request') = TotalOwed(request) + Owes(job) - Owes(request[r])
  BY <1>1, <1>4, JobMoves
<1>6. Summed'
  BY <1>1, <1>4, <1>5, SumStays
<1>7. Typed' /\ NoneYet'
  BY <1>1, <1>3, <1>5 DEF Typed, NoneYet
<1>8. Owes(job) = 0 /\ Owes(request[r]) = sign * Value(request[r].record)
  BY <1>4 DEF Owes, Owed
<1>9. balances'.balance \in Int
  BY <1>3 DEF Figures
<1> DEFINE gain == sign * Value(request[r].record)
<1>10. gain = Owes(request[r]) /\ Owes(request[r]) \in Int
  BY <1>1, <1>8, Whole
<1>11. balances'.balance + missed' = balances.balance + missed + gain
  BY <1>3
<1> HIDE DEF gain
<1>12. RowLagsByHooks'
  BY <1>1, <1>3, <1>5, <1>8, <1>9, <1>10, <1>11, Whole DEF IInv, RowLagsByHooks
<1> QED BY <1>5, <1>6, <1>7, <1>12 DEF IInv

LEMMA CreateHookKeeps ==
  ASSUME NEW r \in Requests
  PROVE  IInv /\ CreateHook(r) => IInv'
<1> SUFFICES ASSUME IInv, CreateHook(r)
             PROVE  IInv'
  OBVIOUS
<1>1. /\ AddToRow(request[r].record, 1) /\ Finish(r)
      /\ UNCHANGED <<transactions, hookPending, raced>>
  BY DEF CreateHook
<1>2. Owed(r) = 1 * Value(request[r].record)
  <2>1. Value(request[r].record) \in Int
    BY EntryTyped DEF IInv, Typed, Job
  <2> QED BY <2>1 DEF CreateHook, At, Owed, Owes
<1>3. 1 \in {1, -1}
  OBVIOUS
<1> QED BY <1>1, <1>2, <1>3, HookAdds

LEMMA DeleteHookKeeps ==
  ASSUME NEW r \in Requests
  PROVE  IInv /\ DeleteHook(r) => IInv'
<1> SUFFICES ASSUME IInv, DeleteHook(r)
             PROVE  IInv'
  OBVIOUS
<1>1. /\ AddToRow(request[r].record, -1) /\ Finish(r)
      /\ UNCHANGED <<transactions, hookPending, raced>>
  BY DEF DeleteHook
<1>2. Owed(r) = (-1) * Value(request[r].record)
  <2>1. Value(request[r].record) \in Int
    BY EntryTyped DEF IInv, Typed, Job
  <2> QED BY <2>1 DEF DeleteHook, At, Owed, Owes
<1>3. -1 \in {1, -1}
  OBVIOUS
<1> QED BY <1>1, <1>2, <1>3, HookAdds

\* A request that goes on without touching anything.
LEMMA OnlyJobMoves ==
  ASSUME IInv, NEW r \in Requests, NEW job \in Job,
         job.pc \in {"save", "delete"} => job.id \in Ids,
         job.pc = "set" => job.totals = Totals(transactions),
         Owes(job) = Owes(request[r]), request' = [request EXCEPT ![r] = job],
         UNCHANGED <<transactions, balances, hookPending, missed, raced>>
  PROVE  IInv'
<1>1. Typed /\ OnTrack /\ NoneYet /\ Summed
  BY DEF IInv
<1>2. /\ request' \in [Requests -> Job] /\ OnTrack'
      /\ \A q \in Requests : request'[q] = IF q = r THEN job ELSE request[q]
      /\ TotalOwed(request') = TotalOwed(request) + Owes(job) - Owes(request[r])
  <2>1. job.pc = "set" => job.totals.present
    BY DEF Totals, Row
  <2> QED BY <1>1, <2>1, JobMoves
<1>3. Summed'
  BY <1>1, <1>2, SumStays
<1>4. Typed' /\ NoneYet'
  BY <1>1, <1>2 DEF Typed, NoneYet
<1>5. TotalOwed(request') = TotalOwed(request)
  BY <1>1, <1>2, Whole
<1>6. RowLagsByHooks'
  BY <1>5 DEF IInv, RowLagsByHooks
<1> QED BY <1>2, <1>3, <1>4, <1>6 DEF IInv

LEMMA LoadKeeps ==
  ASSUME NEW r \in Requests
  PROVE  IInv /\ (LoadForUpdate(r) \/ LoadForDelete(r)) => IInv'
<1> SUFFICES ASSUME IInv, LoadForUpdate(r) \/ LoadForDelete(r)
             PROVE  IInv'
  OBVIOUS
<1>1. PICK pc \in {"save", "delete"}, t \in Ids :
        request' = [request EXCEPT ![r] = Loaded(pc, t, transactions[t])]
  BY DEF LoadForUpdate, LoadForDelete, Loaded
<1>2. /\ UNCHANGED <<transactions, balances, hookPending, missed, raced>>
      /\ request[r].pc = "new"
  BY DEF LoadForUpdate, LoadForDelete, At
<1> DEFINE job == Loaded(pc, t, transactions[t])
<1>3. job \in Job /\ job.pc = pc /\ job.id = t
  <2>1. pc \in PCs /\ transactions[t] \in Entry
    BY DEF PCs, IInv, Typed
  <2> HIDE DEF job
  <2> QED BY <2>1, LoadedIsTyped DEF job
<1> HIDE DEF job
<1>4. Owes(job) = Owes(request[r])
  BY <1>2, <1>3 DEF Owes
<1>5. request' = [request EXCEPT ![r] = job]
  BY <1>1 DEF job
<1>6. job.id \in Ids /\ job.pc # "set"
  BY <1>3
<1> QED BY <1>2, <1>3, <1>4, <1>5, <1>6, OnlyJobMoves

LEMMA SumKeeps ==
  ASSUME NEW r \in Requests
  PROVE  IInv /\ SumForUpdate(r) => IInv'
<1> SUFFICES ASSUME IInv, SumForUpdate(r)
             PROVE  IInv'
  OBVIOUS
<1> DEFINE now == Totals(transactions)
           moved == [request[r] EXCEPT !.pc = "set"]
           job == [moved EXCEPT !.totals = now]
<1>1. /\ UNCHANGED <<transactions, balances, hookPending, missed, raced>>
      /\ request[r].pc = "sum"
      /\ request' = [request EXCEPT ![r].pc = "set", ![r].totals = now]
  BY DEF SumForUpdate, At
<1>2. now \in Figures /\ request[r] \in Job /\ request \in [Requests -> Job]
  BY TotalsTyped DEF IInv, Typed
<1> HIDE DEF now
<1>3. moved \in Job /\ moved.pc = "set" /\ moved.gain = request[r].gain
  BY <1>2 DEF Job, PCs
<1>4. request' = [request EXCEPT ![r] = job]
  BY <1>1, <1>2
<1> HIDE DEF moved
<1>5. job \in Job /\ job.pc = "set" /\ job.gain = request[r].gain /\ job.totals = now
  BY <1>2, <1>3 DEF Job
<1> HIDE DEF job
<1>6. Owes(job) = Owes(request[r])
  BY <1>1, <1>5 DEF Owes
<1>7. job.totals = Totals(transactions) /\ job.pc \notin {"save", "delete"}
  BY <1>5 DEF now
<1> QED BY <1>1, <1>4, <1>5, <1>6, <1>7, OnlyJobMoves

LEMMA HookFailsKeeps ==
  ASSUME NEW r \in Requests
  PROVE  IInv /\ HookFails(r) => IInv'
<1> SUFFICES ASSUME IInv, HookFails(r)
             PROVE  IInv'
  OBVIOUS
<1>1. Typed /\ OnTrack /\ NoneYet /\ Summed
  BY DEF IInv
<1> DEFINE job == AtRest("done")
<1>2. job \in Job /\ job.pc = "done" /\ request' = [request EXCEPT ![r] = job]
  BY RestIsTyped DEF PCs, HookFails, Finish
<1> HIDE DEF job
<1>3. /\ request' \in [Requests -> Job] /\ OnTrack'
      /\ \A q \in Requests : request'[q] = IF q = r THEN job ELSE request[q]
      /\ TotalOwed(request') = TotalOwed(request) + Owes(job) - Owes(request[r])
  BY <1>1, <1>2, JobMoves
<1>4. /\ missed' = missed + Owes(request[r])
      /\ UNCHANGED <<transactions, balances, hookPending, raced>>
  BY DEF HookFails, Owed
<1>5. Owes(job) = 0 /\ Owes(request[r]) \in Int /\ missed \in Int
  BY <1>1, <1>2, Whole DEF Owes
<1>6. Summed'
  BY <1>1, <1>2, <1>3, <1>4, SumStays
<1>7. missed' \in Int
  BY <1>4, <1>5
<1>8. Typed' /\ NoneYet'
  BY <1>1, <1>3, <1>4, <1>7 DEF Typed, NoneYet
<1>9. RowLagsByHooks'
  BY <1>1, <1>3, <1>4, <1>5, Whole DEF IInv, RowLagsByHooks
<1> QED BY <1>3, <1>6, <1>8, <1>9 DEF IInv

LEMMA UpdateHookKeeps ==
  ASSUME NEW r \in Requests
  PROVE  IInv /\ UpdateHook(r) => IInv'
<1> SUFFICES ASSUME IInv, UpdateHook(r)
             PROVE  IInv'
  OBVIOUS
<1>1. Typed /\ OnTrack /\ NoneYet /\ Summed
  BY DEF IInv
<1> DEFINE job == AtRest("done")
<1>2. job \in Job /\ job.pc = "done" /\ request' = [request EXCEPT ![r] = job]
  BY RestIsTyped DEF PCs, UpdateHook, Finish
<1> HIDE DEF job
<1>3. /\ request' \in [Requests -> Job] /\ OnTrack'
      /\ \A q \in Requests : request'[q] = IF q = r THEN job ELSE request[q]
      /\ TotalOwed(request') = TotalOwed(request) + Owes(job) - Owes(request[r])
  BY <1>1, <1>2, JobMoves
<1>4. transactions' = transactions /\ hookPending' = hookPending
  BY DEF UpdateHook
<1>5. Owes(job) = 0 /\ Owes(request[r]) \in Int /\ missed \in Int
  BY <1>1, <1>2, Whole DEF Owes
<1>6. Summed'
  BY <1>1, <1>2, <1>3, <1>4, SumStays
<1>7. CASE balances.present
  <2>1. /\ balances' = request[r].totals /\ missed' = 0
        /\ raced' = (request[r].crossed \/ \E q \in Requests \ {r} : Owed(q) # 0)
    BY <1>7 DEF UpdateHook
  <2>2. balances' \in Figures /\ missed' \in Int /\ raced' \in BOOLEAN
    <3>1. request[r] \in Job
      BY <1>1 DEF Typed
    <3>2. balances' \in Figures /\ missed' \in Int
      BY <2>1, <3>1 DEF Job
    <3>3. raced' \in BOOLEAN
      <4>1. request[r].crossed \in BOOLEAN
        BY <3>1 DEF Job
      <4> QED BY <2>1, <4>1, Zenon
    <3> QED BY <3>2, <3>3
  <2>3. ~hookPending
    BY <1>1, <1>7 DEF NoneYet
  <2>4. ASSUME ~request[r].crossed
        PROVE  balances' = Totals(transactions)
    BY <1>1, <2>1, <2>4 DEF Summed, UpdateHook, At
  <2>5. RowLagsByHooks'
    <3> SUFFICES ASSUME ~raced'
                 PROVE  balances'.balance + TotalOwed(request') + missed'
                          = Totals(transactions').balance
      BY DEF RowLagsByHooks
    <3>1. ~request[r].crossed /\ \A q \in Requests \ {r} : Owes(request[q]) = 0
      BY <2>1 DEF Owed
    <3>2. \A q \in Requests : Owes(request'[q]) = 0
      BY <1>3, <1>5, <3>1
    <3>3. TotalOwed(request') = 0
      BY <1>3, <3>2, NothingOwed
    <3>4. balances'.balance = Totals(transactions).balance
      BY <2>4, <3>1
    <3>5. Totals(transactions).balance \in Int
      BY <1>1, Whole
    <3> QED BY <1>4, <2>1, <3>3, <3>4, <3>5
  <2>6. Typed' /\ NoneYet'
    <3>1. balances'.present
      BY <1>1, <2>1 DEF OnTrack, UpdateHook
    <3> QED BY <1>1, <1>3, <1>4, <2>2, <2>3, <3>1 DEF Typed, NoneYet
  <2> QED BY <1>3, <1>6, <2>5, <2>6 DEF IInv
<1>8. CASE ~balances.present
  <2>1. balances' = balances /\ missed' = missed + Owes(request[r]) /\ raced' = raced
    BY <1>8 DEF UpdateHook, Owed
  <2>2. Typed' /\ NoneYet'
    BY <1>1, <1>3, <1>4, <1>5, <2>1 DEF Typed, NoneYet
  <2>3. RowLagsByHooks'
    BY <1>1, <1>3, <1>4, <1>5, <2>1, Whole DEF IInv, RowLagsByHooks
  <2> QED BY <1>3, <1>6, <2>2, <2>3 DEF IInv
<1> QED BY <1>7, <1>8

\* Request r has changed the table at t, from old to new, and owes the difference, as
\* far as it is not missed.
LEMMA TableMoves ==
  ASSUME IInv, NEW r \in Requests, NEW t \in Ids, NEW e \in Entry, NEW job \in Job,
         transactions' = [transactions EXCEPT ![t] = e], Change(r, job),
         job.pc \notin {"save", "delete", "set"}, missed' \in Int,
         Owes(job) + missed' = Owes(request[r]) + missed + Value(e) - Value(transactions[t]),
         UNCHANGED <<balances, hookPending, raced>>
  PROVE  IInv'
<1>1. Typed /\ OnTrack /\ NoneYet
  BY DEF IInv
<1>2. /\ request' \in [Requests -> Job] /\ OnTrack' /\ Summed'
      /\ TotalOwed(request') = TotalOwed(request) + Owes(job) - Owes(request[r])
  BY <1>1, JobCrosses
<1>3. transactions \in [Ids -> Entry] /\ transactions' \in [Ids -> Entry]
  BY <1>1 DEF Typed
<1>4. transactions'[t] = e /\ \A u \in Ids \ {t} : transactions'[u] = transactions[u]
  BY <1>3
<1>5. Totals(transactions').balance
        = Totals(transactions).balance + Value(e) - Value(transactions[t])
  BY <1>3, <1>4, TotalsMove
<1>6. /\ Value(e) \in Int /\ Value(transactions[t]) \in Int
      /\ Owes(job) \in Int /\ Owes(request[r]) \in Int
  BY <1>1, EntryTyped, OwesInt, Whole
<1>7. Typed' /\ NoneYet'
  BY <1>1, <1>2, <1>3 DEF Typed, NoneYet
<1>8. RowLagsByHooks'
  <2> SUFFICES ASSUME ~raced'
               PROVE  balances'.balance + TotalOwed(request') + missed'
                        = Totals(transactions').balance
    BY DEF RowLagsByHooks
  <2>1. balances.balance + TotalOwed(request) + missed = Totals(transactions).balance
    BY DEF IInv, RowLagsByHooks
  <2>2. /\ balances.balance \in Int /\ missed \in Int /\ TotalOwed(request) \in Int
        /\ Totals(transactions).balance \in Int /\ balances' = balances
    BY <1>1, Whole
  <2> DEFINE o == TotalOwed(request)  s == Totals(transactions).balance
             v == Value(transactions[t])
  <2>3. /\ TotalOwed(request') = o + Owes(job) - Owes(request[r])
        /\ Totals(transactions').balance = s + Value(e) - v
        /\ Owes(job) + missed' = Owes(request[r]) + missed + Value(e) - v
        /\ balances.balance + o + missed = s
        /\ o \in Int /\ s \in Int /\ v \in Int
    BY <1>2, <1>5, <1>6, <2>1, <2>2
  <2> HIDE DEF o, s, v
  <2> QED BY <1>6, <2>2, <2>3
<1> QED BY <1>2, <1>7, <1>8 DEF IInv

LEMMA SaveKeeps ==
  ASSUME NEW r \in Requests
  PROVE  IInv /\ SaveUpdate(r) => IInv'
<1> SUFFICES ASSUME IInv, SaveUpdate(r)
             PROVE  IInv'
  OBVIOUS
<1> DEFINE old == request[r].record
           t == request[r].id
           type(new) == IF new.type = old.type THEN transactions[t].type ELSE new.type
           amount(new) == IF new.amount = old.amount THEN transactions[t].amount
                          ELSE new.amount
<1>1. PICK new \in Record :
        /\ transactions' = IF ~IsRecord(t) THEN transactions
                           ELSE [transactions EXCEPT
                                   ![t].type   = IF new.type = old.type THEN @ ELSE new.type,
                                   ![t].amount = IF new.amount = old.amount THEN @
                                                 ELSE new.amount]
        /\ Change(r, [request[r] EXCEPT !.pc = "sum",
                        !.gain = Value(transactions'[t]) - Value(transactions[t])])
  BY DEF SaveUpdate
<1>2. UNCHANGED <<balances, hookPending, missed, raced>> /\ request[r].pc = "save"
  BY DEF SaveUpdate, At
<1>3. /\ Typed /\ transactions \in [Ids -> Entry] /\ request[r] \in Job /\ t \in Ids
      /\ transactions[t] \in Entry
  BY <1>2 DEF IInv, Typed, OnTrack
<1>4. PICK e \in Entry : transactions' = [transactions EXCEPT ![t] = e]
  <2>1. CASE ~IsRecord(t)
    <3>1. transactions' = [transactions EXCEPT ![t] = transactions[t]]
      BY <1>1, <1>3, <2>1
    <3> QED BY <1>3, <3>1
  <2>2. CASE IsRecord(t)
    <3>1. transactions[t] \in Record
      BY <1>3, <2>2, RecordIsTyped DEF IsRecord
    <3> DEFINE e == [type |-> type(new), amount |-> amount(new)]
    <3>2. e \in Record
      BY <3>1 DEF Record
    <3>3. transactions[t] = [type |-> transactions[t].type, amount |-> transactions[t].amount]
      BY <3>1 DEF Record
    <3> DEFINE a == type(new)  b == amount(new)
               half == [type |-> a, amount |-> transactions[t].amount]
               mid == [transactions EXCEPT ![t].type = a]
    <3>4. transactions' = [mid EXCEPT ![t].amount = b]
      BY <1>1, <2>2
    <3> HIDE DEF a, b
    <3>5. [transactions[t] EXCEPT !.type = a] = half
      BY <3>3
    <3>6. mid = [transactions EXCEPT ![t] = half] /\ mid[t] = half
      BY <1>3, <3>5
    <3>7. [half EXCEPT !.amount = b] = [type |-> a, amount |-> b]
      OBVIOUS
    <3> HIDE DEF mid, half
    <3>8. transactions' = [mid EXCEPT ![t] = [half EXCEPT !.amount = b]]
      BY <3>4, <3>6
    <3>9. transactions' = [mid EXCEPT ![t] = [type |-> a, amount |-> b]]
      BY <3>7, <3>8
    <3>10. transactions' = [transactions EXCEPT ![t] = e]
      BY <1>3, <3>6, <3>9 DEF a, b
    <3> QED BY <3>2, <3>10 DEF Entry
  <2> QED BY <2>1, <2>2
<1>5. transactions'[t] = e
  BY <1>3, <1>4
<1> DEFINE gain == Value(e) - Value(transactions[t])
           moved == [request[r] EXCEPT !.pc = "sum"]
           job == [moved EXCEPT !.gain = gain]
<1>6. gain \in Int /\ Value(e) \in Int /\ Value(transactions[t]) \in Int
  BY <1>3, EntryTyped
<1>7. Change(r, job)
  BY <1>1, <1>5
<1> HIDE DEF gain
<1>8. moved \in Job /\ moved.pc = "sum"
  BY <1>3 DEF Job, PCs
<1> HIDE DEF moved
<1>9. job \in Job /\ job.pc = "sum" /\ job.gain = gain
  BY <1>6, <1>8 DEF Job
<1> HIDE DEF job, t
<1>10. Owes(job) = gain /\ Owes(request[r]) = 0
  BY <1>2, <1>9 DEF Owes
<1>11. missed \in Int /\ missed' = missed
  BY <1>2, <1>3 DEF Typed
<1>12. Owes(job) + missed' = Owes(request[r]) + missed + Value(e) - Value(transactions[t])
  BY <1>6, <1>10, <1>11 DEF gain
<1>13. job.pc \notin {"save", "delete", "set"} /\ missed' \in Int
  BY <1>9, <1>11
<1> QED BY <1>2, <1>3, <1>4, <1>7, <1>9, <1>12, <1>13, TableMoves

LEMMA DeleteKeeps ==
  ASSUME NEW r \in Requests
  PROVE  IInv /\ DeleteRecord(r) => IInv'
<1> SUFFICES ASSUME IInv, DeleteRecord(r)
             PROVE  IInv'
  OBVIOUS
<1> DEFINE t == request[r].id
           job == [request[r] EXCEPT !.pc = "deleted"]
<1>1. /\ transactions' = [transactions EXCEPT ![t] = Deleted]
      /\ missed' = missed + Value(request[r].record) - Value(transactions[t])
      /\ Change(r, job)
      /\ UNCHANGED <<balances, hookPending, raced>>
      /\ request[r].pc = "delete"
  BY DEF DeleteRecord, At
<1>2. /\ Typed /\ transactions \in [Ids -> Entry] /\ request[r] \in Job /\ t \in Ids
      /\ request[r].record \in Entry /\ transactions[t] \in Entry /\ missed \in Int
  BY <1>1 DEF IInv, Typed, OnTrack, Job
<1>3. job \in Job /\ job.pc = "deleted" /\ job.record = request[r].record
  BY <1>2 DEF Job, PCs
<1> HIDE DEF job, t
<1>4. Owes(job) = -Value(request[r].record) /\ Owes(request[r]) = 0
  BY <1>1, <1>3 DEF Owes
<1>5. Value(request[r].record) \in Int /\ Value(transactions[t]) \in Int
  BY <1>2, EntryTyped
<1>6. Deleted \in Entry /\ Value(Deleted) = 0
  <2>1. Deleted.type = "deleted" /\ Deleted.amount = 0 /\ Deleted \in Entry
    BY DEF Deleted, Entry
  <2>2. Part("income", Deleted) = 0 /\ Part("expense", Deleted) = 0
    BY <2>1 DEF Part
  <2> QED BY <2>1, <2>2, EntryTyped
<1>7. /\ missed' \in Int
      /\ Owes(job) + missed'
           = Owes(request[r]) + missed + Value(Deleted) - Value(transactions[t])
  BY <1>1, <1>2, <1>4, <1>5, <1>6
<1>8. job.pc \notin {"save", "delete", "set"}
  BY <1>3
<1> QED BY <1>1, <1>2, <1>3, <1>6, <1>7, <1>8, TableMoves

LEMMA NextKeeps == IInv /\ [Next]_vars => IInv'
<1> SUFFICES ASSUME IInv, [Next]_vars
             PROVE  IInv'
  OBVIOUS
<1>1. CASE FamilyHook
  BY <1>1, FamilyHookKeeps
<1>2. ASSUME NEW r \in Requests,
             \/ CreateTransaction(r) \/ CreateHook(r)
             \/ LoadForUpdate(r) \/ SaveUpdate(r) \/ SumForUpdate(r) \/ UpdateHook(r)
             \/ LoadForDelete(r) \/ DeleteRecord(r) \/ DeleteHook(r)
             \/ HookFails(r)
      PROVE  IInv'
  BY <1>2, CreateKeeps, CreateHookKeeps, LoadKeeps, SaveKeeps, SumKeeps, UpdateHookKeeps,
     DeleteKeeps, DeleteHookKeeps, HookFailsKeeps
<1>3. CASE UNCHANGED vars
  <2>1. UNCHANGED <<transactions, balances, hookPending, request, missed, raced>>
    BY <1>3 DEF vars
  <2>2. Typed' /\ OnTrack' /\ NoneYet'
    BY <2>1 DEF IInv, Typed, OnTrack, NoneYet, At
  <2>3. Summed'
    BY <2>1 DEF IInv, Summed, At
  <2>4. RowLagsByHooks'
    BY <2>1 DEF IInv, RowLagsByHooks
  <2> QED BY <2>2, <2>3, <2>4 DEF IInv
<1> QED BY <1>1, <1>2, <1>3 DEF Next

-------------------------------------------------------------------------------
(***************************************************************************)
(* Theorems.                                                               *)
(***************************************************************************)

\* The inductive invariant, for any number of requests, transactions and amounts.
THEOREM Invariance == Spec => []IInv
BY InitEstablishes, NextKeeps, PTL DEF Spec

\* The row of balances differs from the table by what the hooks have still to add and
\* what they missed, however many requests create, update and delete transactions at
\* once, unless the last update that set the row ran into another request.
THEOREM RowLagsByHooksAlways == Spec => []RowLagsByHooks
<1>1. IInv => RowLagsByHooks
  BY DEF IInv
<1> QED BY <1>1, Invariance, PTL

\* When no request is under way, and no hook was missed or raced, the balance shown is
\* the sum of the family's transactions; so it is while the family has no row.
THEOREM BalanceIsTotalAlways == Spec => []BalanceIsTotal
<1>1. IInv => BalanceIsTotal
  <2> SUFFICES ASSUME IInv, Quiet, balances.present, ~raced, missed = 0
               PROVE  balances.balance = Totals(transactions).balance
    BY DEF BalanceIsTotal, Balance
  <2>1. Typed
    BY DEF IInv
  <2>2. request \in [Requests -> Job] /\ \A r \in Requests : Owes(request[r]) = 0
    BY <2>1 DEF Quiet, Typed, Owes
  <2>3. TotalOwed(request) = 0
    BY <2>2, NothingOwed
  <2> QED BY <2>1, <2>3, Whole DEF IInv, RowLagsByHooks
<1> QED BY <1>1, Invariance, PTL

\* An update nobody ran in between leaves the row at the sums of the table, whatever
\* hooks have failed or were raced before it.
THEOREM UpdateRepairsAlways == Spec => UpdateRepairs
<1> DEFINE Repairs == \A r \in Requests :
             UpdateHook(r) /\ balances.present /\ ~request[r].crossed
               => balances' = Totals(transactions')
<1>1. IInv => Repairs
  <2> SUFFICES ASSUME IInv, NEW r \in Requests,
                      UpdateHook(r), balances.present, ~request[r].crossed
               PROVE  balances' = Totals(transactions')
    OBVIOUS
  <2>1. balances' = request[r].totals /\ transactions' = transactions /\ At(r, "set")
    BY DEF UpdateHook
  <2>2. request[r].totals = Totals(transactions)
    BY <2>1 DEF IInv, Summed
  <2> QED BY <2>1, <2>2
<1>2. IInv /\ [Next]_vars => [Repairs]_vars
  BY <1>1
<1> QED BY <1>2, Invariance, PTL DEF Spec, UpdateRepairs

===============================================================================
