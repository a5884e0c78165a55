--------------------------- MODULE FamilyReportProofs ---------------------------
(***************************************************************************)
(* Proofs about FamilyReport: what a report, the dashboard and a listing   *)
(* show is what the dates of the transactions say, for any table, any      *)
(* month and range, and any size of the pages.                             *)
(*                                                                         *)
(* What a query returns is first restated as a function of the table, so   *)
(* that the invariant can say what an answer given earlier has to do with  *)
(* the table of now.                                                       *)
(***************************************************************************)
EXTENDS FamilyReport, Sums

Tables == [Ids -> Entries \cup {NotYet, Deleted}]

LiveIn(tbl) == {t \in Ids : tbl[t] \notin {NotYet, Deleted}}

MonthIn(tbl, ym, type) ==
  {t \in LiveIn(tbl) : <<tbl[t].date[1], tbl[t].date[2]>> = ym /\ tbl[t].type = type}

Sizes(tbl) == [t \in Ids |-> tbl[t].amount]
SumIn(tbl, ids) == Sum(Sizes(tbl), ids)

CategoryOf(tbl) == [t \in Ids |-> tbl[t].category]

Stats(tbl, ym) == [income |-> SumIn(tbl, MonthIn(tbl, ym, "income")),
                   expense |-> SumIn(tbl, MonthIn(tbl, ym, "expense"))]

Parts(tbl, ym, type) ==
  LET ids == MonthIn(tbl, ym, type)
  IN  FibreSums(Sizes(tbl), ids, CategoryOf(tbl), {CategoryOf(tbl)[t] : t \in ids})

RowsIn(tbl, range) ==
  {t \in LiveIn(tbl) : /\ ~Before(tbl[t].date, range[1])
                       /\ Before(tbl[t].date, NextDay(range[2]))}

Newer(tbl, t, u) ==
  Before(tbl[u].date, tbl[t].date) \/ (tbl[t].date = tbl[u].date /\ t > u)

Ahead(tbl, t, rows) == {u \in rows : Newer(tbl, u, t)}
RankIn(tbl, t, rows) == Cardinality(Ahead(tbl, t, rows))

Fields == [pc |-> call.pc, month |-> call.month, totals |-> call.totals,
           expenses |-> call.expenses, incomes |-> call.incomes, range |-> call.range,
           perPage |-> call.perPage, page |-> call.page, count |-> call.count,
           seen |-> call.seen, pool |-> call.pool, changed |-> call.changed]

Reading == {"expenses", "incomes", "report"}
Listing == {"count", "fetch", "listed"}

Typed ==
  /\ table \in Tables
  /\ call = Fields
  /\ call.pc \in Reading => call.month \in Months
  /\ call.pc \in Listing => /\ call.range \in Ranges /\ call.perPage \in Nat \ {0}
                            /\ call.page \in Nat \ {0} /\ call.seen \in Seq(Ids)

\* Every transaction has its category.
Filed == \A t \in LiveIn(table) : table[t].category \in categories

\* What a report has read nobody has changed.
Fresh ==
  call.changed = "nothing" =>
    /\ call.pc \in Reading => call.totals = Stats(table, call.month)
    /\ call.pc \in Reading \ {"expenses"} => call.expenses = Parts(table, call.month, "expense")
    /\ call.pc = "report" => call.incomes = Parts(table, call.month, "income")

\* What was there when the listing began is on a page that was read, or on one to come.
Kept ==
  LET rows == RowsIn(table, call.range) IN
  call.changed # "more" =>
    /\ call.pc = "fetch" => call.count = Cardinality(rows)
    /\ call.pc \in {"count", "fetch"} =>
         /\ call.pool \subseteq rows
         /\ \A t \in call.pool : \/ t \in ToSet(call.seen)
                                 \/ RankIn(table, t, rows) >= Offset(call.page, call.perPage)
    /\ call.pc = "listed" => call.pool \subseteq ToSet(call.seen)

\* Without a write the pages hold the rows in their order.
InOrder ==
  LET rows == RowsIn(table, call.range) IN
  call.changed = "nothing" /\ call.pc \in Listing =>
    /\ call.pool = rows
    /\ \A i \in DOMAIN call.seen : /\ call.seen[i] \in rows
                                   /\ RankIn(table, call.seen[i], rows) = i - 1
    /\ call.pc # "listed" /\ Cardinality(rows) > Offset(call.page, call.perPage)
         => Len(call.seen) = Offset(call.page, call.perPage)

IInv == Typed /\ Filed /\ Fresh /\ Kept /\ InOrder

-------------------------------------------------------------------------------
(***************************************************************************)
(* Dates.                                                                  *)
(***************************************************************************)

LEMMA DateIs ==
  ASSUME NEW d \in Int \X (1 .. 12) \X (1 .. 31), NEW year \in Int, NEW month \in 1 .. 12
  PROVE  /\ ~Before(d, DateRange(year, month)[1]) /\ Before(d, DateRange(year, month)[2])
              <=> d[1] = year /\ d[2] = month
<1>1. d[1] \in Int /\ d[2] \in 1 .. 12 /\ d[3] \in 1 .. 31
  OBVIOUS
<1>2. CASE month = 12
  <2>1. DateRange(year, month) = <<<<year, month, 1>>, <<year + 1, 1, 1>>>>
    BY <1>2 DEF DateRange
  <2> QED BY <1>1, <1>2, <2>1 DEF Before
<1>3. CASE month # 12
  <2>1. DateRange(year, month) = <<<<year, month, 1>>, <<year, month + 1, 1>>>>
    BY <1>3 DEF DateRange
  <2> QED BY <1>1, <1>3, <2>1 DEF Before
<1> QED BY <1>2, <1>3

LEMMA EntryIs ==
  ASSUME NEW tbl \in Tables, NEW t \in LiveIn(tbl)
  PROVE  /\ t \in Ids /\ tbl[t] \in Entries
         /\ tbl[t].amount \in Int /\ IsDate(tbl[t].date)
         /\ tbl[t].date \in Int \X (1 .. 12) \X (1 .. 31)
<1>1. t \in Ids /\ tbl[t] \in Entries
  BY DEF Tables, LiveIn
<1>2. tbl[t].amount \in Nat /\ IsDate(tbl[t].date)
  BY <1>1, ReportAssumption
<1> QED BY <1>1, <1>2 DEF IsDate

LEMMA LiveIsFinite ==
  ASSUME NEW tbl \in Tables, NEW ids \in SUBSET LiveIn(tbl)
  PROVE  IsFiniteSet(ids) /\ IntOn(Sizes(tbl), ids)
<1>1. ids \in SUBSET Ids
  BY DEF LiveIn
<1> QED BY <1>1, ReportAssumption, FS_Subset, EntryIs DEF IntOn, Sizes

\* The sum of the model is Sum.
LEMMA AmountIs ==
  ASSUME table \in Tables, NEW ids \in SUBSET LiveIn(table)
  PROVE  AmountOf(ids) = SumIn(table, ids)
<1> DEFINE f == Sizes(table)
           iter == CHOOSE h : h = [s \in SUBSET ids |->
                     IF s = {} THEN 0
                     ELSE table[CHOOSE x \in s : TRUE].amount
                            + h[s \ {CHOOSE x \in s : TRUE}]]
<1>1. AmountOf(ids) = iter[ids]
  BY DEF AmountOf, MapThenSumSet, MapThenFoldSet
<1>2. IsFiniteSet(ids) /\ IntOn(f, ids) /\ ids \subseteq Ids
  BY LiveIsFinite DEF LiveIn
<1>3. \A s \in SUBSET ids : s # {} => f[Pick(s)] = table[CHOOSE x \in s : TRUE].amount
  BY <1>2, PickIn DEF Sizes, Pick
<1> HIDE DEF f
<1>4. PICK g : IsSum(g, f, ids)
  BY <1>2, SumExists
<1>5. g = [s \in SUBSET ids |->
             IF s = {} THEN 0
             ELSE table[CHOOSE x \in s : TRUE].amount + g[s \ {CHOOSE x \in s : TRUE}]]
  BY <1>3, <1>4 DEF IsSum, Recurses, Pick
<1>6. iter = [s \in SUBSET ids |->
                IF s = {} THEN 0
                ELSE table[CHOOSE x \in s : TRUE].amount + iter[s \ {CHOOSE x \in s : TRUE}]]
  BY <1>5
<1> HIDE DEF iter
<1>7. Recurses(iter, f, ids)
  BY <1>3, <1>6 DEF Recurses, Pick
<1>8. iter[ids] = g[ids]
  BY <1>2, <1>4, <1>7, SameRecursion DEF IsSum
<1> QED BY <1>1, <1>2, <1>4, <1>8, SumIs DEF f, SumIn

-------------------------------------------------------------------------------
(***************************************************************************)
(* The queries.                                                            *)
(***************************************************************************)

LEMMA LiveIs == Live = LiveIn(table)
BY DEF Live, LiveIn

LEMMA MonthIs ==
  ASSUME table \in Tables, NEW year \in Int, NEW month \in 1 .. 12, NEW type
  PROVE  /\ OfType(InMonth(<<year, month>>), type) = MonthIn(table, <<year, month>>, type)
         /\ MonthIn(table, <<year, month>>, type) \in SUBSET LiveIn(table)
<1> DEFINE range == DateRange(year, month)
<1>1. InMonth(<<year, month>>) = From(range[1], range[2])
  BY DEF InMonth
<1>2. ASSUME NEW t \in LiveIn(table)
      PROVE  ~Before(table[t].date, range[1]) /\ Before(table[t].date, range[2])
               <=> <<table[t].date[1], table[t].date[2]>> = <<year, month>>
  <2>1. table[t].date \in Int \X (1 .. 12) \X (1 .. 31)
    BY EntryIs
  <2> DEFINE d == table[t].date
  <2> HIDE DEF d, range
  <2>2. ~Before(d, range[1]) /\ Before(d, range[2]) <=> d[1] = year /\ d[2] = month
    BY <2>1, DateIs DEF d, range
  <2>3. d[1] = year /\ d[2] = month <=> <<d[1], d[2]>> = <<year, month>>
    OBVIOUS
  <2>4. ~Before(d, range[1]) /\ Before(d, range[2]) <=> <<d[1], d[2]>> = <<year, month>>
    BY <2>2, <2>3
  <2> QED BY <2>4 DEF d
<1> HIDE DEF range
<1> QED BY <1>1, <1>2, LiveIs DEF OfType, From, MonthIn

LEMMA StatsAre ==
  ASSUME table \in Tables, NEW ym \in Months
  PROVE  MonthlyStats(ym) = Stats(table, ym)
<1>1. PICK year \in Int, month \in 1 .. 12 : ym = <<year, month>>
  BY ReportAssumption
<1>2. \A type : /\ OfType(InMonth(ym), type) = MonthIn(table, ym, type)
                /\ MonthIn(table, ym, type) \in SUBSET LiveIn(table)
  BY <1>1, MonthIs
<1>3. \A type : AmountOf(OfType(InMonth(ym), type)) = SumIn(table, MonthIn(table, ym, type))
  BY <1>2, AmountIs
<1> QED BY <1>3 DEF MonthlyStats, Stats

LEMMA PartsAre ==
  ASSUME table \in Tables, \A t \in LiveIn(table) : table[t].category \in categories,
         NEW ym \in Months, NEW type
  PROVE  Breakdown(ym, type) = Parts(table, ym, type)
<1> DEFINE ids == {t \in OfType(InMonth(ym), type) : table[t].category \in categories}
           of(c) == {t \in ids : table[t].category = c}
           C == {table[t].category : t \in ids}
<1>1. PICK year \in Int, month \in 1 .. 12 : ym = <<year, month>>
  BY ReportAssumption
<1>2. /\ OfType(InMonth(ym), type) = MonthIn(table, ym, type)
      /\ MonthIn(table, ym, type) \in SUBSET LiveIn(table)
  BY <1>1, MonthIs
<1>3. ids = MonthIn(table, ym, type) /\ ids \in SUBSET LiveIn(table) /\ ids \subseteq Ids
  BY <1>2 DEF LiveIn
<1>4. Breakdown(ym, type) = [c \in C |-> AmountOf(of(c))]
  BY DEF Breakdown
<1> HIDE DEF ids
<1>5. ASSUME NEW c
      PROVE  AmountOf(of(c)) = Sum(Sizes(table), Fibre(ids, CategoryOf(table), c))
  <2>1. of(c) = Fibre(ids, CategoryOf(table), c)
    BY <1>3 DEF Fibre, CategoryOf
  <2>2. of(c) \in SUBSET LiveIn(table)
    BY <1>3
  <2>3. AmountOf(of(c)) = SumIn(table, of(c))
    BY <2>2, AmountIs
  <2> QED BY <2>1, <2>3 DEF SumIn
<1>6. C = {CategoryOf(table)[t] : t \in ids}
  BY <1>3 DEF CategoryOf
<1>7. Breakdown(ym, type)
        = [c \in C |-> Sum(Sizes(table), Fibre(ids, CategoryOf(table), c))]
  BY <1>4, <1>5
<1> QED BY <1>3, <1>6, <1>7 DEF Parts, FibreSums

\* The totals per category add up to the total.
LEMMA PartsAddUp ==
  ASSUME NEW tbl \in Tables, NEW ym, NEW type
  PROVE  SumOf(Parts(tbl, ym, type)) = SumIn(tbl, MonthIn(tbl, ym, type))
<1> DEFINE ids == MonthIn(tbl, ym, type)
           f == Sizes(tbl)
           k == CategoryOf(tbl)
           C == {k[t] : t \in ids}
<1>1. ids \in SUBSET LiveIn(tbl)
  BY DEF MonthIn
<1>2. IsFiniteSet(ids) /\ IntOn(f, ids)
  BY <1>1, LiveIsFinite
<1>3. Parts(tbl, ym, type) = FibreSums(f, ids, k, C)
  BY DEF Parts
<1> HIDE DEF ids, f, k
<1>4. IsFiniteSet(C) /\ \A t \in ids : k[t] \in C
  BY <1>2, ImageFinite
<1> HIDE DEF C
<1>5. Sum(FibreSums(f, ids, k, C), C) = Sum(f, ids)
  BY <1>2, <1>4, SumOfFibres
<1>6. DOMAIN FibreSums(f, ids, k, C) = C
  BY DEF FibreSums
<1>7. SumOf(FibreSums(f, ids, k, C)) = Sum(FibreSums(f, ids, k, C), C)
  BY <1>6 DEF SumOf, Sum
<1> QED BY <1>3, <1>5, <1>7 DEF SumIn, ids, f

-------------------------------------------------------------------------------
(***************************************************************************)
(* The dashboard.                                                          *)
(***************************************************************************)

\* before is the month that ends where the month of year begins.
Precedes(before, year, month) ==
  /\ before = <<before[1], before[2]>> /\ before[1] \in Int /\ before[2] \in 1 .. 12
  /\ \A y \in Int, m \in 1 .. 12 :
       12 * y + m = 12 * year + month - 1 <=> y = before[1] /\ m = before[2]
  /\ \A d \in Int \X (1 .. 12) \X (1 .. 31) :
       ~Before(d, DateRange(year, month)[1]) => ~Before(d, DateRange(before[1], before[2])[1])
  /\ Before(DateRange(before[1], before[2])[1], DateRange(year, month)[1])

LEMMA MonthsAre ==
  ASSUME NEW year \in Int, NEW month \in 1 .. 12
  PROVE  Precedes(PreviousMonth(<<year, month>>), year, month)
<1> DEFINE before == PreviousMonth(<<year, month>>)
<1>1. CASE month = 1
  <2>1. before = <<year - 1, 12>>
    BY <1>1 DEF PreviousMonth
  <2>2. DateRange(year, month)[1] = <<year, 1, 1>>
    BY <1>1 DEF DateRange
  <2>3. DateRange(before[1], before[2])[1] = <<year - 1, 12, 1>>
    BY <2>1 DEF DateRange
  <2> HIDE DEF before
  <2>4. Precedes(before, year, month)
    BY <1>1, <2>1, <2>2, <2>3 DEF Before, Precedes
  <2> QED BY <2>4 DEF before
<1>2. CASE month # 1
  <2>1. before = <<year, month - 1>>
    BY <1>2 DEF PreviousMonth
  <2>2. DateRange(year, month)[1] = <<year, month, 1>>
    BY DEF DateRange
  <2>3. DateRange(before[1], before[2])[1] = <<year, month - 1, 1>>
    BY <2>1 DEF DateRange
  <2> HIDE DEF before
  <2>4. Precedes(before, year, month)
    BY <1>2, <2>1, <2>2, <2>3 DEF Before, Precedes
  <2> QED BY <2>4 DEF before
<1> QED BY <1>1, <1>2

\* What the dashboard sums, by the fields of the dates.
LEMMA DashboardIs ==
  ASSUME table \in Tables, NEW ym \in Months
  PROVE  LET stats == DashboardStats(ym)
             before == PreviousMonth(ym)
         IN  /\ stats.prevExpense = AmountOf(MonthIn(table, before, "expense"))
             /\ stats.prevIncome = AmountOf(MonthIn(table, before, "income"))
             /\ stats.expense = AmountOf(MonthIn(table, ym, "expense"))
<1>1. PICK year \in Int, month \in 1 .. 12 : ym = <<year, month>>
  BY ReportAssumption
<1> DEFINE before == PreviousMonth(ym)
           this == DateRange(ym[1], ym[2])
           prev == DateRange(before[1], before[2])
           min == IF Before(prev[1], this[1]) THEN prev[1] ELSE this[1]
           within(range) == {t \in From(range[1], range[2]) : ~Before(table[t].date, min)}
<1>2. /\ before = <<before[1], before[2]>> /\ before[1] \in Int /\ before[2] \in 1 .. 12
      /\ \A d \in Int \X (1 .. 12) \X (1 .. 31) : ~Before(d, this[1]) => ~Before(d, prev[1])
      /\ Before(prev[1], this[1])
  <2>1. Precedes(before, year, month) /\ this = DateRange(year, month)
    BY <1>1, MonthsAre
  <2> HIDE DEF before, this
  <2> QED BY <2>1 DEF Precedes
<1>3. ym[1] = year /\ ym[2] = month
  BY <1>1
<1>4. From(this[1], this[2]) = InMonth(ym) /\ From(prev[1], prev[2]) = InMonth(before)
  BY DEF InMonth
<1>5. /\ DashboardStats(ym).prevExpense = AmountOf(OfType(within(prev), "expense"))
      /\ DashboardStats(ym).prevIncome = AmountOf(OfType(within(prev), "income"))
      /\ DashboardStats(ym).expense = AmountOf(OfType(within(this), "expense"))
  BY DEF DashboardStats
<1> HIDE DEF this, prev, before
<1>6. min = prev[1]
  BY <1>2
<1> HIDE DEF min
<1>7. within(prev) = InMonth(before)
  BY <1>4, <1>6 DEF From
<1>8. within(this) = InMonth(ym)
  <2>1. ASSUME NEW t \in From(this[1], this[2])
        PROVE  ~Before(table[t].date, prev[1])
    <3>1. t \in LiveIn(table) /\ ~Before(table[t].date, this[1])
      BY LiveIs DEF From
    <3>2. table[t].date \in Int \X (1 .. 12) \X (1 .. 31)
      BY <3>1, EntryIs
    <3> QED BY <1>2, <3>1, <3>2
  <2> QED BY <1>4, <1>6, <2>1
<1>9. \A type : /\ OfType(InMonth(before), type) = MonthIn(table, before, type)
                /\ OfType(InMonth(ym), type) = MonthIn(table, ym, type)
  <2>1. \A type : OfType(InMonth(ym), type) = MonthIn(table, ym, type)
    BY <1>1, MonthIs
  <2>2. PICK y \in Int, m \in 1 .. 12 : before = <<y, m>>
    BY <1>2
  <2>3. \A type : OfType(InMonth(before), type) = MonthIn(table, before, type)
    BY <2>2, MonthIs
  <2> QED BY <2>1, <2>3
<1> HIDE DEF within
<1>10. /\ DashboardStats(ym).prevExpense = AmountOf(MonthIn(table, before, "expense"))
       /\ DashboardStats(ym).prevIncome = AmountOf(MonthIn(table, before, "income"))
       /\ DashboardStats(ym).expense = AmountOf(MonthIn(table, ym, "expense"))
  BY <1>5, <1>7, <1>8, <1>9
<1> QED BY <1>10 DEF before

LEMMA TableGivesMonthBefore ==
  ASSUME table \in Tables
  PROVE  MonthBefore
<1> DEFINE number(ym) == 12 * ym[1] + ym[2]
           earlier(ym) == {t \in Live : number(table[t].date) = number(ym) - 1}
<1> SUFFICES ASSUME NEW ym \in Months
             PROVE  /\ DashboardStats(ym).prevExpense = AmountOf(OfType(earlier(ym), "expense"))
                    /\ DashboardStats(ym).prevIncome = AmountOf(OfType(earlier(ym), "income"))
                    /\ DashboardStats(ym).expense = AmountOf(OfMonth(ym, "expense"))
  BY DEF MonthBefore
<1>1. PICK year \in Int, month \in 1 .. 12 : ym = <<year, month>>
  BY ReportAssumption
<1> DEFINE before == PreviousMonth(ym)
<1>2. /\ before = <<before[1], before[2]>> /\ before[1] \in Int /\ before[2] \in 1 .. 12
      /\ \A y \in Int, m \in 1 .. 12 :
           12 * y + m = 12 * year + month - 1 <=> y = before[1] /\ m = before[2]
  <2>1. Precedes(before, year, month)
    BY <1>1, MonthsAre
  <2> HIDE DEF before
  <2> QED BY <2>1 DEF Precedes
<1> HIDE DEF before
<1>3. ASSUME NEW t \in LiveIn(table)
      PROVE  number(table[t].date) = number(ym) - 1
               <=> <<table[t].date[1], table[t].date[2]>> = before
  <2> DEFINE d == table[t].date
  <2>1. d[1] \in Int /\ d[2] \in 1 .. 12
    BY EntryIs
  <2> HIDE DEF d
  <2>2. 12 * d[1] + d[2] = 12 * year + month - 1 <=> d[1] = before[1] /\ d[2] = before[2]
    BY <1>2, <2>1
  <2>3. <<d[1], d[2]>> = <<before[1], before[2]>> <=> d[1] = before[1] /\ d[2] = before[2]
    OBVIOUS
  <2>4. number(d) = number(ym) - 1 <=> <<d[1], d[2]>> = before
    BY <1>1, <1>2, <2>2, <2>3
  <2> QED BY <2>4 DEF d
<1> HIDE DEF number
<1>4. \A type : OfType(earlier(ym), type) = MonthIn(table, before, type)
  BY <1>3, LiveIs DEF OfType, MonthIn
<1>5. OfMonth(ym, "expense") = MonthIn(table, ym, "expense")
  BY LiveIs DEF OfMonth, MonthIn
<1> HIDE DEF earlier
<1>6. /\ DashboardStats(ym).prevExpense = AmountOf(MonthIn(table, before, "expense"))
      /\ DashboardStats(ym).prevIncome = AmountOf(MonthIn(table, before, "income"))
      /\ DashboardStats(ym).expense = AmountOf(MonthIn(table, ym, "expense"))
  BY DashboardIs DEF before
<1> QED BY <1>4, <1>5, <1>6

-------------------------------------------------------------------------------
(***************************************************************************)
(* The order of the listing.                                               *)
(***************************************************************************)

LEMMA DatesAreOrdered ==
  \A d, e, f \in Int \X (1 .. 12) \X (1 .. 31) :
    /\ ~Before(d, d)
    /\ Before(d, e) \/ d = e \/ Before(e, d)
    /\ Before(d, e) /\ Before(e, f) => Before(d, f)
<1> SUFFICES ASSUME NEW d \in Int \X (1 .. 12) \X (1 .. 31),
                    NEW e \in Int \X (1 .. 12) \X (1 .. 31),
                    NEW f \in Int \X (1 .. 12) \X (1 .. 31)
             PROVE  /\ ~Before(d, d)
                    /\ Before(d, e) \/ d = e \/ Before(e, d)
                    /\ Before(d, e) /\ Before(e, f) => Before(d, f)
  OBVIOUS
<1>1. /\ d[1] \in Int /\ d[2] \in Int /\ d[3] \in Int
      /\ e[1] \in Int /\ e[2] \in Int /\ e[3] \in Int
      /\ f[1] \in Int /\ f[2] \in Int /\ f[3] \in Int
  OBVIOUS
<1>2. d = <<d[1], d[2], d[3]>> /\ e = <<e[1], e[2], e[3]>>
  OBVIOUS
<1>3. d[1] = e[1] /\ d[2] = e[2] /\ d[3] = e[3] => d = e
  BY <1>2
<1> QED BY <1>1, <1>3 DEF Before

LEMMA NewerIsAnOrder ==
  ASSUME NEW tbl \in Tables
  PROVE  \A t, u, v \in LiveIn(tbl) :
           /\ ~Newer(tbl, t, t)
           /\ t # u => Newer(tbl, t, u) \/ Newer(tbl, u, t)
           /\ Newer(tbl, t, u) /\ Newer(tbl, u, v) => Newer(tbl, t, v)
<1> SUFFICES ASSUME NEW t \in LiveIn(tbl), NEW u \in LiveIn(tbl), NEW v \in LiveIn(tbl)
             PROVE  /\ ~Newer(tbl, t, t)
                    /\ t # u => Newer(tbl, t, u) \/ Newer(tbl, u, t)
                    /\ Newer(tbl, t, u) /\ Newer(tbl, u, v) => Newer(tbl, t, v)
  OBVIOUS
<1> DEFINE d == tbl[t].date  e == tbl[u].date  f == tbl[v].date
<1>1. /\ d \in Int \X (1 .. 12) \X (1 .. 31)
      /\ e \in Int \X (1 .. 12) \X (1 .. 31)
      /\ f \in Int \X (1 .. 12) \X (1 .. 31)
  BY EntryIs
<1>2. t \in Nat /\ u \in Nat /\ v \in Nat
  BY ReportAssumption DEF LiveIn
<1>3. /\ Newer(tbl, t, t) <=> Before(d, d) \/ t > t
      /\ Newer(tbl, t, u) <=> Before(e, d) \/ (d = e /\ t > u)
      /\ Newer(tbl, u, t) <=> Before(d, e) \/ (e = d /\ u > t)
      /\ Newer(tbl, u, v) <=> Before(f, e) \/ (e = f /\ u > v)
      /\ Newer(tbl, t, v) <=> Before(f, d) \/ (d = f /\ t > v)
  BY DEF Newer
<1> HIDE DEF d, e, f
<1>4. /\ ~Before(d, d) /\ (Before(d, e) \/ d = e \/ Before(e, d))
      /\ Before(f, e) /\ Before(e, d) => Before(f, d)
  BY <1>1, DatesAreOrdered
<1> QED BY <1>2, <1>3, <1>4

LEMMA RankIsBounded ==
  ASSUME NEW tbl \in Tables, NEW rows \in SUBSET LiveIn(tbl), NEW t \in rows
  PROVE  /\ RankIn(tbl, t, rows) \in 0 .. (Cardinality(rows) - 1)
         /\ IsFiniteSet(Ahead(tbl, t, rows))
<1>1. IsFiniteSet(rows) /\ Ahead(tbl, t, rows) \in SUBSET rows
  BY LiveIsFinite DEF Ahead
<1>2. t \notin Ahead(tbl, t, rows)
  BY NewerIsAnOrder DEF Ahead
<1>3. /\ IsFiniteSet(Ahead(tbl, t, rows))
      /\ Cardinality(Ahead(tbl, t, rows)) <= Cardinality(rows)
      /\ Cardinality(rows) # Cardinality(Ahead(tbl, t, rows))
  BY <1>1, <1>2, FS_Subset
<1>4. Cardinality(Ahead(tbl, t, rows)) \in Nat /\ Cardinality(rows) \in Nat
  BY <1>1, <1>3, FS_CardinalityType
<1> QED BY <1>3, <1>4 DEF RankIn

LEMMA RankIsStrict ==
  ASSUME NEW tbl \in Tables, NEW rows \in SUBSET LiveIn(tbl), NEW t \in rows, NEW u \in rows,
         Newer(tbl, t, u)
  PROVE  RankIn(tbl, t, rows) < RankIn(tbl, u, rows)
<1>1. t \in Ahead(tbl, u, rows) /\ t \notin Ahead(tbl, t, rows)
  BY NewerIsAnOrder DEF Ahead
<1>2. Ahead(tbl, t, rows) \in SUBSET Ahead(tbl, u, rows)
  <2>1. \A v \in rows : Newer(tbl, v, t) => Newer(tbl, v, u)
    BY NewerIsAnOrder
  <2> QED BY <2>1 DEF Ahead
<1>3. IsFiniteSet(Ahead(tbl, u, rows))
  BY RankIsBounded
<1>4. RankIn(tbl, t, rows) <= RankIn(tbl, u, rows) /\ RankIn(tbl, u, rows) # RankIn(tbl, t, rows)
  BY <1>1, <1>2, <1>3, FS_Subset DEF RankIn
<1>5. RankIn(tbl, t, rows) \in Int /\ RankIn(tbl, u, rows) \in Int
  <2>1. /\ RankIn(tbl, t, rows) \in 0 .. (Cardinality(rows) - 1)
        /\ RankIn(tbl, u, rows) \in 0 .. (Cardinality(rows) - 1)
    BY RankIsBounded
  <2>2. Cardinality(rows) \in Nat
    BY LiveIsFinite, FS_CardinalityType
  <2> QED BY <2>1, <2>2
<1> QED BY <1>4, <1>5

\* No two rows have a place in common.
LEMMA RanksDiffer ==
  ASSUME NEW tbl \in Tables, NEW rows \in SUBSET LiveIn(tbl), NEW t \in rows, NEW u \in rows,
         RankIn(tbl, t, rows) = RankIn(tbl, u, rows)
  PROVE  t = u
<1>1. Cardinality(rows) \in Nat
  BY LiveIsFinite, FS_CardinalityType
<1>2. RankIn(tbl, t, rows) \in Int
  BY <1>1, RankIsBounded
<1>3. Newer(tbl, t, u) => FALSE
  BY <1>2, RankIsStrict
<1>4. Newer(tbl, u, t) => FALSE
  BY <1>2, RankIsStrict
<1> QED BY <1>3, <1>4, NewerIsAnOrder

\* Every place is taken.
LEMMA RanksAreTaken ==
  ASSUME NEW tbl \in Tables, NEW rows \in SUBSET LiveIn(tbl),
         NEW k \in 0 .. (Cardinality(rows) - 1)
  PROVE  \E t \in rows : RankIn(tbl, t, rows) = k
<1> DEFINE n == Cardinality(rows)
           places == 0 .. (n - 1)
           f == [t \in rows |-> RankIn(tbl, t, rows)]
<1>1. IsFiniteSet(rows) /\ n \in Nat
  BY LiveIsFinite, FS_CardinalityType
<1>2. f \in [rows -> places]
  BY RankIsBounded
<1>3. \A t, u \in rows : f[t] = f[u] => t = u
  BY RanksDiffer
<1> HIDE DEF f
<1>4. f \in Injection(rows, places)
  BY <1>2, <1>3 DEF Injection, IsInjective
<1>5. IsFiniteSet(places) /\ Cardinality(places) = n
  <2>1. 0 \in Int /\ n - 1 \in Int
    BY <1>1
  <2>2. IsFiniteSet(places) /\ Cardinality(places) = IF 0 > n - 1 THEN 0 ELSE (n - 1) - 0 + 1
    BY <2>1, FS_Interval
  <2> HIDE DEF n
  <2> QED BY <1>1, <2>2
<1> HIDE DEF places
<1>6. f \in Surjection(rows, places)
  BY <1>4, <1>5, FS_Injection
<1>7. k \in places
  BY DEF places
<1>8. PICK t \in rows : f[t] = k
  BY <1>6, <1>7 DEF Surjection
<1> QED BY <1>8 DEF f

\* Rows that join in put the others back, never forward.
LEMMA RankGrows ==
  ASSUME NEW old \in Tables, NEW new \in Tables, NEW rows \in SUBSET LiveIn(old),
         NEW more \in SUBSET LiveIn(new), rows \subseteq more,
         \A u \in rows : new[u] = old[u], NEW t \in rows
  PROVE  /\ RankIn(old, t, rows) <= RankIn(new, t, more)
         /\ RankIn(old, t, rows) \in Nat /\ RankIn(new, t, more) \in Nat
<1>1. Ahead(old, t, rows) \in SUBSET Ahead(new, t, more)
  BY DEF Ahead, Newer
<1>2. IsFiniteSet(Ahead(new, t, more)) /\ IsFiniteSet(Ahead(old, t, rows))
  BY RankIsBounded
<1> QED BY <1>1, <1>2, FS_Subset, FS_CardinalityType DEF RankIn

LEMMA RankIs ==
  /\ \A t, rows : Rank(t, rows) = RankIn(table, t, rows)
  /\ \A range : InRange(range) = RowsIn(table, range)
  /\ \A range : RowsIn(table, range) \in SUBSET LiveIn(table)
<1>1. \A t, rows : Rank(t, rows) = RankIn(table, t, rows)
  BY DEF Rank, RankIn, Ahead, Newest, Newer
<1>2. \A range : InRange(range) = RowsIn(table, range)
  BY LiveIs DEF InRange, From, RowsIn
<1> QED BY <1>1, <1>2 DEF RowsIn

LEMMA NthIs ==
  ASSUME table \in Tables, NEW rows \in SUBSET LiveIn(table), NEW i \in 1 .. Cardinality(rows)
  PROVE  Nth(i, rows) \in rows /\ RankIn(table, Nth(i, rows), rows) = i - 1
<1>1. Cardinality(rows) \in Nat
  BY LiveIsFinite, FS_CardinalityType
<1>2. i - 1 \in 0 .. (Cardinality(rows) - 1)
  BY <1>1
<1>3. \E t \in rows : Rank(t, rows) = i - 1
  BY <1>2, RanksAreTaken, RankIs
<1>4. Nth(i, rows) \in rows /\ Rank(Nth(i, rows), rows) = i - 1
  BY <1>3 DEF Nth
<1> QED BY <1>4, RankIs

\* The places a page shows.
PageSize(page, perPage, rows) ==
  IF Cardinality(rows) - Offset(page, perPage) < perPage
  THEN Cardinality(rows) - Offset(page, perPage) ELSE perPage

LEMMA OffsetIs ==
  ASSUME NEW page \in Nat \ {0}, NEW perPage \in Nat \ {0}
  PROVE  /\ Offset(page, perPage) \in Nat
         /\ Offset(page + 1, perPage) = Offset(page, perPage) + perPage
         /\ Offset(page + 1, perPage) = page * perPage
         /\ Offset(1, perPage) = 0
BY DEF Offset

IsPage(items, page, perPage, rows, tbl) ==
  LET skipped == Offset(page, perPage) IN
  /\ items \in Seq(Ids)
  /\ Len(items) <= perPage
  /\ Len(items) > 0 => Len(items) = PageSize(page, perPage, rows)
  /\ Len(items) > 0 => skipped < Cardinality(rows)
  /\ \A i \in 1 .. Len(items) : /\ items[i] \in rows
                                /\ RankIn(tbl, items[i], rows) = skipped + i - 1
  /\ \A t \in rows : RankIn(tbl, t, rows) >= skipped
                       => t \in ToSet(items) \/ RankIn(tbl, t, rows) >= skipped + perPage

LEMMA PageIs ==
  ASSUME table \in Tables, NEW rows \in SUBSET LiveIn(table),
         NEW page \in Nat \ {0}, NEW perPage \in Nat \ {0}
  PROVE  IsPage(Page(page, perPage, rows), page, perPage, rows, table)
<1> DEFINE items == Page(page, perPage, rows)
           skipped == Offset(page, perPage)
           n == PageSize(page, perPage, rows)
           c == Cardinality(rows)
<1>1. c \in Nat /\ skipped \in Nat
  BY LiveIsFinite, FS_CardinalityType, OffsetIs
<1>2. items = [i \in 1 .. n |-> Nth(skipped + i, rows)]
  BY DEF Page, PageSize
<1>3. n = IF c - skipped < perPage THEN c - skipped ELSE perPage
  BY DEF PageSize
<1> HIDE DEF skipped, n, c, items
<1>4. n \in Int /\ n <= perPage /\ skipped + n <= c
  BY <1>1, <1>3
<1>5. ASSUME NEW i \in 1 .. n
      PROVE  Nth(skipped + i, rows) \in rows
             /\ RankIn(table, Nth(skipped + i, rows), rows) = skipped + i - 1
  <2> DEFINE j == skipped + i
  <2>1. j \in 1 .. Cardinality(rows) /\ j - 1 = skipped + i - 1
    BY <1>1, <1>4 DEF c
  <2> HIDE DEF j
  <2>2. Nth(j, rows) \in rows /\ RankIn(table, Nth(j, rows), rows) = j - 1
    BY <2>1, NthIs
  <2>3. Nth(j, rows) \in rows /\ RankIn(table, Nth(j, rows), rows) = skipped + i - 1
    BY <2>1, <2>2
  <2> QED BY <2>3 DEF j
<1>6. rows \subseteq Ids
  BY DEF LiveIn
<1> DEFINE len == IF n > 0 THEN n ELSE 0
<1>7. 1 .. n = 1 .. len /\ len \in Nat
  BY <1>4
<1>8. items \in Seq(Ids) /\ Len(items) = len
  <2>1. items \in [1 .. len -> Ids]
    BY <1>2, <1>5, <1>6, <1>7
  <2> HIDE DEF len
  <2> QED BY <1>7, <2>1
<1>9. \A i \in 1 .. len : items[i] \in rows /\ RankIn(table, items[i], rows) = skipped + i - 1
  BY <1>2, <1>5, <1>7
<1>10. ASSUME NEW t \in rows, RankIn(table, t, rows) >= skipped,
              RankIn(table, t, rows) < skipped + perPage
       PROVE  t \in ToSet(items)
  <2> DEFINE k == RankIn(table, t, rows)
             i == k - skipped + 1
  <2>1. k \in 0 .. (c - 1)
    BY RankIsBounded DEF c
  <2>2. k \in Int /\ k < c /\ k >= skipped /\ k < skipped + perPage
    BY <1>1, <1>10, <2>1
  <2> HIDE DEF k
  <2>3. i \in 1 .. n
    BY <1>1, <1>3, <2>2
  <2>4. skipped + i - 1 = k
    BY <1>1, <2>2
  <2> HIDE DEF i
  <2>5. items[i] \in rows /\ RankIn(table, items[i], rows) = RankIn(table, t, rows)
    BY <1>7, <1>9, <2>3, <2>4 DEF k
  <2>6. items[i] = t
    BY <2>5, RanksDiffer
  <2>7. i \in DOMAIN items
    BY <1>2, <2>3
  <2> QED BY <2>6, <2>7 DEF ToSet
<1>11. \A t \in rows : RankIn(table, t, rows) >= skipped
                         => \/ t \in ToSet(items)
                            \/ RankIn(table, t, rows) >= skipped + perPage
  <2>1. \A t \in rows : RankIn(table, t, rows) \in Int
    BY <1>1, RankIsBounded DEF c
  <2> QED BY <1>1, <1>10, <2>1
<1>12. /\ Len(items) <= perPage
       /\ Len(items) > 0 => Len(items) = n
       /\ Len(items) > 0 => skipped < c
  BY <1>1, <1>4, <1>8
<1> HIDE DEF len
<1>13. IsPage(items, page, perPage, rows, table)
  BY <1>8, <1>9, <1>11, <1>12 DEF IsPage, skipped, n, c
<1> QED BY <1>13 DEF items

\* The number of pages is large enough for the rows counted.
LEMMA PagesAreEnough ==
  ASSUME NEW count \in Nat, NEW page \in Nat \ {0}, NEW perPage \in Nat \ {0},
         ~(page < TotalPages(count, perPage))
  PROVE  count <= page * perPage
<1>1. CASE count = 0
  <2>1. page * perPage \in Nat
    OBVIOUS
  <2> QED BY <1>1, <2>1
<1>2. CASE count > 0
  <2> DEFINE q == (count + perPage - 1) \div perPage
  <2>1. q \in Int /\ count + perPage - 1 < (q + 1) * perPage
    OBVIOUS
  <2>2. q <= page
    BY <1>2, <2>1 DEF TotalPages
  <2> HIDE DEF q
  <2>3. (q + 1) * perPage = q * perPage + perPage /\ q * perPage \in Int
    BY <2>1
  <2>4. q * perPage <= page * perPage
    BY <2>1, <2>2
  <2> QED BY <2>1, <2>3, <2>4
<1> QED BY <1>1, <1>2

-------------------------------------------------------------------------------
(***************************************************************************)
(* The end of a range.                                                     *)
(***************************************************************************)

LEMMA NextDayIs ==
  ASSUME NEW d, IsDate(d), NEW e, IsDate(e)
  PROVE  Before(d, NextDay(e)) <=> ~Before(e, d)
<1>1. /\ d[1] \in Int /\ d[2] \in 1 .. 12 /\ d[3] \in 1 .. 31
      /\ e[1] \in Int /\ e[2] \in 1 .. 12 /\ e[3] \in 1 .. 31
      /\ d[3] <= DaysIn(d[1], d[2]) /\ e[3] <= DaysIn(e[1], e[2])
  BY DEF IsDate
<1>2. DaysIn(e[1], e[2]) \in Int /\ DaysIn(d[1], d[2]) \in Int
  BY <1>1 DEF DaysIn
<1>3. d[1] = e[1] /\ d[2] = e[2] => DaysIn(d[1], d[2]) = DaysIn(e[1], e[2])
  OBVIOUS
<1> DEFINE days == DaysIn(e[1], e[2])
<1> HIDE DEF days
<1>4. /\ d[1] = e[1] /\ d[2] = e[2] => d[3] <= days
      /\ e[3] <= days /\ days \in Int
  BY <1>1, <1>2, <1>3 DEF days
<1>5. CASE e[3] < days
  <2>1. NextDay(e) = <<e[1], e[2], e[3] + 1>>
    BY <1>5 DEF NextDay, days
  <2> QED BY <1>1, <2>1 DEF Before
<1>6. CASE ~(e[3] < days) /\ e[2] = 12
  <2>1. NextDay(e) = <<e[1] + 1, 1, 1>>
    BY <1>6 DEF NextDay, DateRange, days
  <2> QED BY <1>1, <1>4, <1>6, <2>1 DEF Before
<1>7. CASE ~(e[3] < days) /\ e[2] # 12
  <2>1. NextDay(e) = <<e[1], e[2] + 1, 1>>
    BY <1>7 DEF NextDay, DateRange, days
  <2> QED BY <1>1, <1>4, <1>7, <2>1 DEF Before
<1> QED BY <1>5, <1>6, <1>7

-------------------------------------------------------------------------------
(***************************************************************************)
(* The steps.                                                              *)
(***************************************************************************)

\* What Fields says of a call that starts from rest.
LEMMA RestIs ==
  /\ AtRest.pc = "idle" /\ AtRest.changed = "nothing" /\ AtRest.seen = <<>> /\ AtRest.page = 1
  /\ AtRest = [pc |-> "idle", month |-> AtRest.month, totals |-> <<>>, expenses |-> <<>>,
               incomes |-> <<>>, range |-> <<>>, perPage |-> 0, page |-> 1, count |-> 0,
               seen |-> <<>>, pool |-> {}, changed |-> "nothing"]
BY DEF AtRest

LEMMA InitEstablishes == Init => IInv
<1> SUFFICES ASSUME Init
             PROVE  IInv
  OBVIOUS
<1>1. call.pc = "idle" /\ call = Fields
  BY RestIs DEF Init, Fields
<1>2. table \in Tables /\ LiveIn(table) = {}
  BY DEF Init, Tables, LiveIn
<1> QED BY <1>1, <1>2 DEF IInv, Typed, Filed, Fresh, Kept, InOrder, Reading, Listing

\* A call at rest keeps nothing.
LEMMA RestKeeps ==
  ASSUME table' \in Tables, Filed', call'.pc = "idle", call' = Fields'
  PROVE  IInv'
BY DEF IInv, Typed, Fresh, Kept, InOrder, Reading, Listing

LEMMA AnswerKeeps == IInv /\ Answer => IInv'
<1> SUFFICES ASSUME IInv, Answer
             PROVE  IInv'
  OBVIOUS
<1>1. call'.pc = "idle" /\ call' = Fields'
  BY RestIs DEF Answer, Fields
<1>2. table' \in Tables /\ Filed'
  BY DEF IInv, Answer, Typed, Filed
<1> QED BY <1>1, <1>2, RestKeeps

LEMMA AskKeeps ==
  ASSUME NEW ym \in Months
  PROVE  IInv /\ AskReport(ym) => IInv'
<1> SUFFICES ASSUME IInv, AskReport(ym)
             PROVE  IInv'
  OBVIOUS
<1>1. table' = table /\ categories' = categories
  BY DEF AskReport
<1>2. table \in Tables /\ MonthlyStats(ym) = Stats(table, ym)
  BY StatsAre DEF IInv, Typed
<1>3. /\ call'.pc = "expenses" /\ call'.month = ym /\ call'.totals = Stats(table, ym)
      /\ call' = Fields'
  BY <1>2, RestIs DEF AskReport, Fields
<1>4. Typed' /\ Filed'
  BY <1>1, <1>2, <1>3 DEF IInv, Typed, Filed, Reading, Listing
<1>5. Fresh'
  BY <1>1, <1>3 DEF Fresh, Reading
<1>6. Kept' /\ InOrder'
  BY <1>3 DEF Kept, InOrder, Listing
<1> QED BY <1>4, <1>5, <1>6 DEF IInv

LEMMA ExpensesKeep == IInv /\ QueryExpenses => IInv'
<1> SUFFICES ASSUME IInv, QueryExpenses
             PROVE  IInv'
  OBVIOUS
<1>1. table' = table /\ categories' = categories /\ call.pc = "expenses"
  BY DEF QueryExpenses, At
<1>2. /\ table \in Tables /\ call = Fields /\ call.month \in Months
      /\ \A t \in LiveIn(table) : table[t].category \in categories
  BY <1>1 DEF IInv, Typed, Filed, Reading
<1>3. Breakdown(call.month, "expense") = Parts(table, call.month, "expense")
  BY <1>2, PartsAre
<1>4. /\ call'.pc = "incomes" /\ call'.month = call.month /\ call'.totals = call.totals
      /\ call'.expenses = Parts(table, call.month, "expense")
      /\ call'.changed = call.changed /\ call' = Fields'
  BY <1>2, <1>3 DEF QueryExpenses, Fields
<1>5. Typed' /\ Filed'
  BY <1>1, <1>2, <1>4 DEF IInv, Typed, Filed, Reading, Listing
<1>6. Fresh'
  BY <1>1, <1>4 DEF IInv, Fresh, Reading
<1>7. Kept' /\ InOrder'
  BY <1>4 DEF Kept, InOrder, Listing
<1> QED BY <1>5, <1>6, <1>7 DEF IInv

LEMMA IncomesKeep == IInv /\ QueryIncomes => IInv'
<1> SUFFICES ASSUME IInv, QueryIncomes
             PROVE  IInv'
  OBVIOUS
<1>1. table' = table /\ categories' = categories /\ call.pc = "incomes"
  BY DEF QueryIncomes, At
<1>2. /\ table \in Tables /\ call = Fields /\ call.month \in Months
      /\ \A t \in LiveIn(table) : table[t].category \in categories
  BY <1>1 DEF IInv, Typed, Filed, Reading
<1>3. Breakdown(call.month, "income") = Parts(table, call.month, "income")
  BY <1>2, PartsAre
<1>4. /\ call'.pc = "report" /\ call'.month = call.month /\ call'.totals = call.totals
      /\ call'.expenses = call.expenses
      /\ call'.incomes = Parts(table, call.month, "income")
      /\ call'.changed = call.changed /\ call' = Fields'
  BY <1>2, <1>3 DEF QueryIncomes, Fields
<1>5. Typed' /\ Filed'
  BY <1>1, <1>2, <1>4 DEF IInv, Typed, Filed, Reading, Listing
<1>6. Fresh'
  BY <1>1, <1>4 DEF IInv, Fresh, Reading
<1>7. Kept' /\ InOrder'
  BY <1>4 DEF Kept, InOrder, Listing
<1> QED BY <1>5, <1>6, <1>7 DEF IInv

LEMMA OpenKeeps ==
  ASSUME NEW range \in Ranges, NEW asked \in PageSizes
  PROVE  IInv /\ OpenList(range, asked) => IInv'
<1> SUFFICES ASSUME IInv, OpenList(range, asked)
             PROVE  IInv'
  OBVIOUS
<1>1. table' = table /\ categories' = categories /\ table \in Tables
  BY DEF OpenList, IInv, Typed
<1>2. PerPage(asked) \in Nat \ {0}
  BY ReportAssumption DEF PerPage
<1> DEFINE rows == RowsIn(table, range)
           perPage == PerPage(asked)
<1>3. InRange(range) = rows
  BY RankIs
<1> HIDE DEF rows, perPage
<1>4. /\ call'.pc = "count" /\ call'.range = range /\ call'.perPage = perPage
      /\ call'.page = 1 /\ call'.seen = <<>> /\ call'.pool = rows
      /\ call'.changed = "nothing" /\ call' = Fields'
  BY <1>3, RestIs DEF OpenList, Fields, perPage
<1>5. Offset(1, perPage) = 0
  BY <1>2, OffsetIs DEF perPage
<1>6. Typed' /\ Filed'
  BY <1>1, <1>2, <1>4 DEF IInv, Typed, Filed, Reading, Listing, perPage
<1>7. Fresh'
  BY <1>4 DEF Fresh, Reading
<1>8. RowsIn(table', call'.range) = rows
  BY <1>1, <1>4 DEF rows
<1>9. \A t \in rows : RankIn(table, t, rows) >= 0
  BY <1>1, LiveIsFinite, FS_CardinalityType, RankIsBounded, RankIs DEF rows
<1>10. Kept'
  BY <1>1, <1>4, <1>5, <1>8, <1>9 DEF Kept
<1>11. InOrder'
  BY <1>1, <1>4, <1>5, <1>8 DEF InOrder
<1> QED BY <1>6, <1>7, <1>10, <1>11 DEF IInv

LEMMA CountKeeps == IInv /\ CountItems => IInv'
<1> SUFFICES ASSUME IInv, CountItems
             PROVE  IInv'
  OBVIOUS
<1>1. table' = table /\ categories' = categories /\ call.pc = "count" /\ call = Fields
  BY DEF CountItems, At, IInv, Typed
<1> DEFINE rows == RowsIn(table, call.range)
<1>2. InRange(call.range) = rows
  BY RankIs
<1> HIDE DEF rows
<1>3. /\ call'.pc = "fetch" /\ call'.range = call.range /\ call'.perPage = call.perPage
      /\ call'.page = call.page /\ call'.seen = call.seen /\ call'.pool = call.pool
      /\ call'.count = Cardinality(rows)
      /\ call'.changed = call.changed /\ call' = Fields'
  BY <1>1, <1>2 DEF CountItems, Fields
<1>4. Typed' /\ Filed'
  BY <1>1, <1>3 DEF IInv, Typed, Filed, Reading, Listing
<1>5. Fresh'
  BY <1>3 DEF Fresh, Reading
<1>6. RowsIn(table', call'.range) = rows
  BY <1>1, <1>3 DEF rows
<1>7. Kept'
  BY <1>1, <1>3, <1>6 DEF IInv, Kept, rows
<1>8. InOrder'
  BY <1>1, <1>3, <1>6 DEF IInv, InOrder, Listing, rows
<1> QED BY <1>4, <1>5, <1>7, <1>8 DEF IInv

LEMMA FetchKeeps == IInv /\ FetchPage => IInv'
<1> SUFFICES ASSUME IInv, FetchPage
             PROVE  IInv'
  OBVIOUS
<1>1. /\ table' = table /\ categories' = categories /\ call.pc = "fetch" /\ call = Fields
      /\ table \in Tables
      /\ call.range \in Ranges /\ call.perPage \in Nat \ {0}
      /\ call.page \in Nat \ {0} /\ call.seen \in Seq(Ids)
  BY DEF FetchPage, At, IInv, Typed, Listing
<1> DEFINE rows == RowsIn(table, call.range)
           items == Page(call.page, call.perPage, rows)
           skipped == Offset(call.page, call.perPage)
           next == Offset(call.page + 1, call.perPage)
           more == call.page < TotalPages(call.count, call.perPage)
           pc == IF more THEN "count" ELSE "listed"
           page == IF more THEN call.page + 1 ELSE call.page
           c == Cardinality(rows)
<1>2. InRange(call.range) = rows /\ rows \in SUBSET LiveIn(table)
  BY RankIs
<1>3. call' = [call EXCEPT !.pc = pc, !.page = page, !.seen = @ \o items]
  BY <1>2 DEF FetchPage
<1>4. /\ items \in Seq(Ids)
      /\ Len(items) <= call.perPage
      /\ Len(items) > 0 => Len(items) = PageSize(call.page, call.perPage, rows)
      /\ Len(items) > 0 => skipped < c
      /\ \A i \in 1 .. Len(items) : /\ items[i] \in rows
                                    /\ RankIn(table, items[i], rows) = skipped + i - 1
      /\ \A t \in rows : RankIn(table, t, rows) >= skipped
                           => \/ t \in ToSet(items)
                              \/ RankIn(table, t, rows) >= skipped + call.perPage
  <2>1. IsPage(items, call.page, call.perPage, rows, table)
    <3> HIDE DEF rows
    <3> QED BY <1>1, <1>2, PageIs
  <2> HIDE DEF items, rows
  <2> QED BY <2>1 DEF IsPage
<1>5. PageSize(call.page, call.perPage, rows)
        = IF c - skipped < call.perPage THEN c - skipped ELSE call.perPage
  BY DEF PageSize
<1>6. /\ skipped \in Nat /\ next = skipped + call.perPage /\ next = call.page * call.perPage
  BY <1>1, OffsetIs
<1>7. c \in Nat
  BY <1>1, <1>2, LiveIsFinite, FS_CardinalityType
<1>8. ~more /\ call.count \in Nat => call.count <= call.page * call.perPage
  BY <1>1, PagesAreEnough
<1>9. page \in Nat \ {0} /\ (more => Offset(page, call.perPage) = next)
  BY <1>1
<1> HIDE DEF rows, items, skipped, next, more, page, c
<1>10. /\ call'.pc = pc /\ call'.range = call.range /\ call'.perPage = call.perPage
       /\ call'.page = page /\ call'.seen = call.seen \o items /\ call'.pool = call.pool
       /\ call'.changed = call.changed /\ call' = Fields'
  BY <1>1, <1>3 DEF Fields
<1>11. pc \in {"count", "listed"} /\ (pc = "count" <=> more)
  OBVIOUS
<1> HIDE DEF pc
<1>12. call'.seen \in Seq(Ids)
  BY <1>1, <1>4, <1>10
<1>13. Typed' /\ Filed'
  BY <1>1, <1>9, <1>10, <1>11, <1>12 DEF IInv, Typed, Filed, Reading, Listing
<1>14. Fresh'
  BY <1>10, <1>11 DEF Fresh, Reading
<1>15. RowsIn(table', call'.range) = rows
  BY <1>1, <1>10 DEF rows
<1>16. ToSet(call.seen) \cup ToSet(items) \subseteq ToSet(call'.seen)
  <2>1. ASSUME NEW i \in DOMAIN call.seen
        PROVE  call.seen[i] \in ToSet(call'.seen)
    <3>1. i \in DOMAIN call'.seen /\ call'.seen[i] = call.seen[i]
      BY <1>1, <1>4, <1>10
    <3> QED BY <3>1 DEF ToSet
  <2>2. ASSUME NEW i \in DOMAIN items
        PROVE  items[i] \in ToSet(call'.seen)
    <3> DEFINE k == Len(call.seen) + i
    <3>1. k \in DOMAIN call'.seen /\ call'.seen[k] = items[i]
      BY <1>1, <1>4, <1>10
    <3> HIDE DEF k
    <3> QED BY <3>1 DEF ToSet
  <2> QED BY <2>1, <2>2 DEF ToSet
<1>17. Kept'
  <2> SUFFICES ASSUME call.changed # "more"
               PROVE  /\ pc = "count" =>
                           /\ call.pool \subseteq rows
                           /\ \A t \in call.pool :
                                \/ t \in ToSet(call'.seen)
                                \/ RankIn(table, t, rows) >= Offset(page, call.perPage)
                      /\ pc = "listed" => call.pool \subseteq ToSet(call'.seen)
    BY <1>1, <1>10, <1>11, <1>15 DEF Kept
  <2>1. /\ call.count = c /\ call.pool \subseteq rows
        /\ \A t \in call.pool : t \in ToSet(call.seen) \/ RankIn(table, t, rows) >= skipped
    BY <1>1 DEF IInv, Kept, rows, c, skipped
  <2>2. \A t \in call.pool : t \in ToSet(call'.seen) \/ RankIn(table, t, rows) >= next
    BY <1>4, <1>6, <1>16, <2>1
  <2>3. ASSUME pc = "listed", NEW t \in call.pool
        PROVE  t \in ToSet(call'.seen)
    <3>1. RankIn(table, t, rows) \in 0 .. (c - 1)
      BY <1>1, <1>2, <2>1, RankIsBounded DEF c
    <3>2. c <= next
      BY <1>6, <1>7, <1>8, <1>11, <2>1, <2>3
    <3> QED BY <1>6, <1>7, <2>2, <3>1, <3>2
  <2> QED BY <1>9, <1>11, <2>1, <2>2, <2>3
<1>18. InOrder'
  <2> SUFFICES ASSUME call.changed = "nothing"
               PROVE  /\ call.pool = rows
                      /\ \A i \in DOMAIN call'.seen :
                           /\ call'.seen[i] \in rows
                           /\ RankIn(table, call'.seen[i], rows) = i - 1
                      /\ pc # "listed" /\ c > Offset(page, call.perPage)
                           => Len(call'.seen) = Offset(page, call.perPage)
    BY <1>1, <1>10, <1>15 DEF InOrder, c
  <2>1. /\ call.pool = rows
        /\ \A i \in DOMAIN call.seen : /\ call.seen[i] \in rows
                                       /\ RankIn(table, call.seen[i], rows) = i - 1
        /\ c > skipped => Len(call.seen) = skipped
    BY <1>1 DEF IInv, InOrder, Listing, rows, c, skipped
  <2>2. ASSUME NEW i \in DOMAIN call'.seen
        PROVE  call'.seen[i] \in rows /\ RankIn(table, call'.seen[i], rows) = i - 1
    <3>1. CASE i \in DOMAIN call.seen
      <4>1. call'.seen[i] = call.seen[i]
        BY <1>1, <1>4, <1>10, <3>1
      <4> QED BY <2>1, <3>1, <4>1
    <3>2. CASE i \notin DOMAIN call.seen
      <4> DEFINE k == i - Len(call.seen)
      <4>1. k \in 1 .. Len(items) /\ call'.seen[i] = items[k]
        BY <1>1, <1>4, <1>10, <2>2, <3>2
      <4>2. Len(items) > 0 /\ Len(call.seen) = skipped
        BY <1>4, <1>6, <1>7, <2>1, <4>1
      <4>3. skipped + k - 1 = i - 1
        BY <1>1, <1>4, <1>6, <1>10, <2>2, <4>2
      <4> HIDE DEF k
      <4> QED BY <1>4, <4>1, <4>3
    <3> QED BY <3>1, <3>2
  <2>3. ASSUME pc # "listed", c > Offset(page, call.perPage)
        PROVE  Len(call'.seen) = Offset(page, call.perPage)
    <3>1. Offset(page, call.perPage) = next
      BY <1>9, <1>11, <2>3
    <3>2. Len(items) = call.perPage
      <4>1. c - skipped > call.perPage
        BY <1>1, <1>6, <1>7, <2>3, <3>1
      <4>2. Len(items) \in Nat /\ Len(items) > 0 => Len(items) = call.perPage
        BY <1>1, <1>4, <1>5, <1>6, <1>7, <4>1
      <4>3. \E t \in rows : RankIn(table, t, rows) = skipped
        <5>1. skipped \in 0 .. (Cardinality(rows) - 1)
          BY <1>1, <1>6, <1>7, <4>1 DEF c
        <5> QED BY <1>1, <1>2, <5>1, RanksAreTaken
      <4>4. ToSet(items) # {}
        BY <1>1, <1>4, <1>6, <4>3
      <4>5. Len(items) \in Nat /\ Len(items) > 0
        BY <1>4, <4>4 DEF ToSet
      <4> QED BY <4>2, <4>5
    <3>3. Len(call.seen) = skipped
      BY <1>1, <1>6, <1>7, <2>1, <2>3, <3>1
    <3>4. Len(call'.seen) = Len(call.seen) + Len(items)
      BY <1>1, <1>4, <1>10
    <3> QED BY <1>6, <3>1, <3>2, <3>3, <3>4
  <2> QED BY <2>1, <2>2, <2>3
<1> QED BY <1>13, <1>14, <1>17, <1>18 DEF IInv

LEMMA OverlapIs ==
  ASSUME call = Fields, NEW creation \in BOOLEAN, Overlaps(creation)
  PROVE  /\ call.pc \notin {"report", "listed"} /\ call' = Fields'
         /\ call'.pc = call.pc /\ call'.month = call.month /\ call'.range = call.range
         /\ call'.perPage = call.perPage /\ call'.page = call.page
         /\ call'.seen = call.seen /\ call'.pool = call.pool
         /\ call.pc # "idle" => /\ call'.changed # "nothing"
                                /\ call'.changed # "more" => /\ creation /\ call.pc # "fetch"
                                                             /\ call.changed # "more"
<1> DEFINE harmless == creation /\ call.pc # "fetch" /\ call.changed # "more"
           changed == IF harmless THEN "created" ELSE "more"
<1>1. /\ call.pc \notin {"report", "listed"}
      /\ call' = IF call.pc = "idle" THEN call ELSE [call EXCEPT !.changed = changed]
  BY DEF Overlaps, At
<1>2. changed # "nothing" /\ (changed # "more" => harmless)
  OBVIOUS
<1> HIDE DEF changed
<1>3. CASE call.pc = "idle"
  BY <1>1, <1>3 DEF Fields
<1>4. CASE call.pc # "idle"
  <2>1. call' = [call EXCEPT !.changed = changed]
    BY <1>1, <1>4
  <2>2. /\ call'.changed = changed /\ call' = Fields'
        /\ call'.pc = call.pc /\ call'.month = call.month /\ call'.range = call.range
        /\ call'.perPage = call.perPage /\ call'.page = call.page
        /\ call'.seen = call.seen /\ call'.pool = call.pool
    BY <2>1 DEF Fields
  <2> QED BY <1>1, <1>2, <2>2
<1> QED BY <1>3, <1>4

\* A write, one that adds a row when it is a creation.
LEMMA WriteKeeps ==
  ASSUME IInv, NEW creation \in BOOLEAN, Overlaps(creation), table' \in Tables, Filed',
         creation => \A t \in LiveIn(table) : t \in LiveIn(table') /\ table'[t] = table[t]
  PROVE  IInv'
<1>1. table \in Tables /\ call = Fields
  BY DEF IInv, Typed
<1>2. /\ call.pc \notin {"report", "listed"} /\ call' = Fields'
      /\ call'.pc = call.pc /\ call'.month = call.month /\ call'.range = call.range
      /\ call'.perPage = call.perPage /\ call'.page = call.page
      /\ call'.seen = call.seen /\ call'.pool = call.pool
      /\ call.pc # "idle" => /\ call'.changed # "nothing"
                             /\ call'.changed # "more" => /\ creation /\ call.pc # "fetch"
                                                          /\ call.changed # "more"
  BY <1>1, OverlapIs
<1>3. Typed'
  BY <1>2 DEF IInv, Typed, Reading, Listing
<1>4. Fresh' /\ InOrder'
  BY <1>2 DEF Fresh, InOrder, Reading, Listing
<1>5. Kept'
  <2> DEFINE rows == RowsIn(table, call.range)
             more == RowsIn(table', call.range)
             skipped == Offset(call.page, call.perPage)
  <2> SUFFICES ASSUME call'.changed # "more", call.pc = "count"
               PROVE  /\ call.pool \subseteq more
                      /\ \A t \in call.pool : \/ t \in ToSet(call.seen)
                                              \/ RankIn(table', t, more) >= skipped
    BY <1>2 DEF Kept
  <2>1. creation /\ call.changed # "more"
    BY <1>2
  <2>2. \A t \in LiveIn(table) : t \in LiveIn(table') /\ table'[t] = table[t]
    BY <2>1
  <2>3. rows \subseteq more /\ rows \in SUBSET LiveIn(table) /\ more \in SUBSET LiveIn(table')
        /\ \A t \in rows : table'[t] = table[t]
    BY <2>2 DEF RowsIn
  <2>4. /\ call.pool \subseteq rows
        /\ \A t \in call.pool : t \in ToSet(call.seen) \/ RankIn(table, t, rows) >= skipped
    BY <2>1 DEF IInv, Kept
  <2>5. skipped \in Nat
    BY OffsetIs DEF IInv, Typed, Listing
  <2> HIDE DEF rows, more, skipped
  <2>6. \A t \in rows : /\ RankIn(table, t, rows) <= RankIn(table', t, more)
                        /\ RankIn(table, t, rows) \in Nat /\ RankIn(table', t, more) \in Nat
    BY <1>1, <2>3, RankGrows
  <2> QED BY <2>3, <2>4, <2>5, <2>6
<1> QED BY <1>3, <1>4, <1>5 DEF IInv

LEMMA CreateKeeps ==
  ASSUME NEW t \in Ids, NEW entry \in Entries
  PROVE  IInv /\ CreateTransaction(t, entry) => IInv'
<1> SUFFICES ASSUME IInv, CreateTransaction(t, entry)
             PROVE  IInv'
  OBVIOUS
<1>1. /\ table[t] = NotYet /\ entry.category \in categories /\ categories' = categories
      /\ table' = [table EXCEPT ![t] = entry] /\ Overlaps(TRUE)
  BY DEF CreateTransaction
<1>2. table \in Tables /\ Filed
  BY DEF IInv, Typed
<1>3. table' \in Tables /\ \A u \in Ids : table'[u] = IF u = t THEN entry ELSE table[u]
  BY <1>1, <1>2 DEF Tables
<1>4. Filed'
  BY <1>1, <1>2, <1>3 DEF Filed, LiveIn
<1>5. \A u \in LiveIn(table) : u \in LiveIn(table') /\ table'[u] = table[u]
  BY <1>1, <1>3 DEF LiveIn
<1> QED BY <1>1, <1>3, <1>4, <1>5, WriteKeeps

LEMMA UpdateKeeps ==
  ASSUME NEW t \in Ids, NEW entry \in Entries
  PROVE  IInv /\ UpdateTransaction(t, entry) => IInv'
<1> SUFFICES ASSUME IInv, UpdateTransaction(t, entry)
             PROVE  IInv'
  OBVIOUS
<1>1. /\ entry.category \in categories /\ categories' = categories
      /\ table' = [table EXCEPT ![t] = entry] /\ Overlaps(FALSE)
  BY DEF UpdateTransaction
<1>2. table \in Tables /\ Filed
  BY DEF IInv, Typed
<1>3. table' \in Tables /\ \A u \in Ids : table'[u] = IF u = t THEN entry ELSE table[u]
  BY <1>1, <1>2 DEF Tables
<1>4. Filed'
  BY <1>1, <1>2, <1>3 DEF Filed, LiveIn
<1> QED BY <1>1, <1>3, <1>4, WriteKeeps

LEMMA DeleteKeeps ==
  ASSUME NEW t \in Ids
  PROVE  IInv /\ DeleteTransaction(t) => IInv'
<1> SUFFICES ASSUME IInv, DeleteTransaction(t)
             PROVE  IInv'
  OBVIOUS
<1>1. /\ categories' = categories
      /\ table' = [table EXCEPT ![t] = Deleted] /\ Overlaps(FALSE)
  BY DEF DeleteTransaction
<1>2. table \in Tables /\ Filed
  BY DEF IInv, Typed
<1>3. table' \in Tables /\ \A u \in Ids : table'[u] = IF u = t THEN Deleted ELSE table[u]
  BY <1>1, <1>2 DEF Tables
<1>4. Filed'
  BY <1>1, <1>2, <1>3 DEF Filed, LiveIn
<1> QED BY <1>1, <1>3, <1>4, WriteKeeps

LEMMA CascadeKeeps ==
  ASSUME NEW c \in Categories
  PROVE  IInv /\ DeleteCategory(c) => IInv'
<1> SUFFICES ASSUME IInv, DeleteCategory(c)
             PROVE  IInv'
  OBVIOUS
<1>1. /\ categories' = categories \ {c} /\ Overlaps(FALSE)
      /\ table' = [t \in Ids |-> IF t \in Live /\ table[t].category = c THEN Deleted
                                 ELSE table[t]]
  BY DEF DeleteCategory
<1>2. table \in Tables /\ Filed
  BY DEF IInv, Typed
<1>3. /\ table' \in Tables
      /\ \A u \in Ids : table'[u] = IF u \in LiveIn(table) /\ table[u].category = c
                                    THEN Deleted ELSE table[u]
  BY <1>1, <1>2, LiveIs DEF Tables
<1>4. Filed'
  BY <1>1, <1>2, <1>3 DEF Filed, LiveIn
<1> QED BY <1>1, <1>3, <1>4, WriteKeeps

LEMMA NextKeeps == IInv /\ [Next]_vars => IInv'
<1> SUFFICES ASSUME IInv, [Next]_vars
             PROVE  IInv'
  OBVIOUS
<1>1. CASE UNCHANGED vars
  <2>1. UNCHANGED <<table, categories, call>>
    BY <1>1 DEF vars
  <2>2. Typed' /\ Filed'
    BY <2>1 DEF IInv, Typed, Filed, Fields
  <2>3. Fresh' /\ Kept' /\ InOrder'
    BY <2>1 DEF IInv, Fresh, Kept, InOrder
  <2> QED BY <2>2, <2>3 DEF IInv
<1>2. CASE \E ym \in Months : AskReport(ym)
  BY <1>2, AskKeeps
<1>3. CASE QueryExpenses \/ QueryIncomes \/ CountItems \/ FetchPage \/ Answer
  BY <1>3, ExpensesKeep, IncomesKeep, CountKeeps, FetchKeeps, AnswerKeeps
<1>4. CASE \E range \in Ranges, asked \in PageSizes : OpenList(range, asked)
  BY <1>4, OpenKeeps
<1>5. CASE \E t \in Ids, entry \in Entries :
             CreateTransaction(t, entry) \/ UpdateTransaction(t, entry)
  BY <1>5, CreateKeeps, UpdateKeeps
<1>6. CASE \E t \in Ids : DeleteTransaction(t)
  BY <1>6, DeleteKeeps
<1>7. CASE \E c \in Categories : DeleteCategory(c)
  BY <1>7, CascadeKeeps
<1> QED BY <1>1, <1>2, <1>3, <1>4, <1>5, <1>6, <1>7 DEF Next

-------------------------------------------------------------------------------
(***************************************************************************)
(* Theorems.                                                               *)
(***************************************************************************)

\* What a read has answered so far has to do with the table of now, for any table,
\* month, range and size of the pages.
THEOREM Invariance == Spec => []IInv
BY InitEstablishes, NextKeeps, PTL DEF Spec

\* A report during which nothing was written counts every transaction of its month and
\* no other, and its parts add up to its totals, for any table and any month.
THEOREM ReportAddsUpAlways == Spec => []ReportAddsUp
<1>1. IInv => ReportAddsUp
  <2> SUFFICES ASSUME IInv, call.pc = "report", call.changed = "nothing"
               PROVE  /\ call.totals.expense = AmountOf(OfMonth(call.month, "expense"))
                      /\ call.totals.income = AmountOf(OfMonth(call.month, "income"))
                      /\ call.totals.expense = SumOf(call.expenses)
                      /\ call.totals.income = SumOf(call.incomes)
    BY DEF ReportAddsUp, At
  <2>1. table \in Tables /\ call.month \in Months
    BY DEF IInv, Typed, Reading
  <2>2. /\ call.totals = Stats(table, call.month)
        /\ call.expenses = Parts(table, call.month, "expense")
        /\ call.incomes = Parts(table, call.month, "income")
    BY DEF IInv, Fresh, Reading
  <2>3. \A type : AmountOf(OfMonth(call.month, type))
                    = SumIn(table, MonthIn(table, call.month, type))
    <3>1. \A type : /\ OfMonth(call.month, type) = MonthIn(table, call.month, type)
                    /\ MonthIn(table, call.month, type) \in SUBSET LiveIn(table)
      BY LiveIs DEF OfMonth, MonthIn
    <3> QED BY <2>1, <3>1, AmountIs
  <2>4. \A type : SumOf(Parts(table, call.month, type))
                    = SumIn(table, MonthIn(table, call.month, type))
    BY <2>1, PartsAddUp
  <2> QED BY <2>2, <2>3, <2>4 DEF Stats
<1> QED BY <1>1, Invariance, PTL

\* The dashboard compares a month with the one before it in the calendar, also over the
\* turn of a year.
THEOREM MonthBeforeAlways == Spec => []MonthBefore
<1>1. IInv => MonthBefore
  BY TableGivesMonthBefore DEF IInv, Typed
<1> QED BY <1>1, Invariance, PTL

\* However creations mix with the pages of a listing, what was there when it began is on
\* one of them, unless one fell between the count and the query of a page.
THEOREM NothingSkippedAlways == Spec => []NothingSkipped
<1>1. IInv => NothingSkipped
  BY DEF IInv, Kept, NothingSkipped, At
<1> QED BY <1>1, Invariance, PTL

\* The pages of a listing during which nothing was written hold every transaction from
\* the first to the last day asked for, and none twice, for any size of the pages.
THEOREM ListIsWholeAlways == Spec => []ListIsWhole
<1>1. IInv => ListIsWhole
  <2> DEFINE rows == RowsIn(table, call.range)
             asked == {t \in Live : /\ ~Before(table[t].date, call.range[1])
                                    /\ ~Before(call.range[2], table[t].date)}
  <2> SUFFICES ASSUME IInv, call.pc = "listed", call.changed = "nothing"
               PROVE  ToSet(call.seen) = asked /\ IsInjective(call.seen)
    BY DEF ListIsWhole, At
  <2>1. table \in Tables /\ call.range \in Ranges
    BY DEF IInv, Typed, Listing
  <2>2. IsDate(call.range[2])
    BY <2>1, ReportAssumption
  <2>3. rows = asked
    <3>1. ASSUME NEW t \in LiveIn(table)
          PROVE  Before(table[t].date, NextDay(call.range[2]))
                   <=> ~Before(call.range[2], table[t].date)
      BY <2>1, <2>2, EntryIs, NextDayIs
    <3> QED BY <3>1, LiveIs DEF RowsIn
  <2>4. /\ call.pool = rows /\ call.pool \subseteq ToSet(call.seen)
        /\ \A i \in DOMAIN call.seen : /\ call.seen[i] \in rows
                                       /\ RankIn(table, call.seen[i], rows) = i - 1
    BY DEF IInv, Kept, InOrder, Listing
  <2> HIDE DEF asked, rows
  <2>5. ToSet(call.seen) = asked
    BY <2>3, <2>4 DEF ToSet
  <2>6. IsInjective(call.seen)
    <3>1. DOMAIN call.seen \subseteq Int
      BY DEF IInv, Typed, Listing
    <3> QED BY <2>4, <3>1 DEF IsInjective
  <2> QED BY <2>5, <2>6
<1> QED BY <1>1, Invariance, PTL

===============================================================================
