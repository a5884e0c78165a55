------------------------------ MODULE FamilyReport ------------------------------
(***************************************************************************)
(* What a family reads of its transactions: the monthly report, the        *)
(* figures of the dashboard and the paged listing of a date range, while   *)
(* other requests create, update and delete.  No read is one transaction:  *)
(* a report is three queries, a page of a listing a count and a query, and *)
(* every page a request of its own.                                        *)
(*                                                                         *)
(* A date is <<year, month, day>>.  The code compares dates as text of     *)
(* fixed width, which is the order of these triples.                       *)
(***************************************************************************)
EXTENDS Integers, FiniteSetsExt, SequencesExt

CONSTANTS
  Ids,             \* 1 .. n, record ids of transactions in the order of their creation
  Entries,         \* what users enter: type, amount, date and category
  Categories,      \* the categories of the family at the beginning
  Months,          \* <<year, month>> a report or dashboard is asked for
  Ranges,          \* <<start, end>> a listing is asked for
  PageSizes,       \* perPage as asked for
  MaxPerPage,      \* 100
  DefaultPerPage,  \* 20
  NotYet, Deleted  \* rows of the table before and after their life

LeapYear(year) == year % 4 = 0 /\ (year % 100 # 0 \/ year % 400 = 0)
DaysIn(year, month) ==
  CASE month \in {4, 6, 9, 11} -> 30
    [] month = 2               -> IF LeapYear(year) THEN 29 ELSE 28
    [] OTHER                   -> 31

\* What time.Parse accepts.
IsDate(d) == d \in Int \X (1 .. 12) \X (1 .. 31) /\ d[3] <= DaysIn(d[1], d[2])

ASSUME ReportAssumption ==
  /\ Ids \subseteq Nat /\ IsFiniteSet(Ids)
  /\ \A e \in Entries : /\ e.type \in {"income", "expense"} /\ e.category \in Categories
                        /\ e.amount \in Nat /\ IsDate(e.date)
  /\ {NotYet, Deleted} \cap Entries = {}
  /\ Months \subseteq Int \X (1 .. 12)
  /\ \A range \in Ranges : IsDate(range[1]) /\ IsDate(range[2])
  /\ DefaultPerPage \in 1 .. MaxPerPage
  /\ PageSizes \subseteq Int

VARIABLES
  table,        \* table[t]: the transaction with id t
  categories,   \* the rows of the table categories
  call          \* the read under way

vars == <<table, categories, call>>

Live == {t \in Ids : table[t] \notin {NotYet, Deleted}}

\* changed is history: whether the read has overlapped creations only, or other writes.
AtRest == [pc |-> "idle", month |-> <<0, 0>>, totals |-> <<>>, expenses |-> <<>>,
           incomes |-> <<>>, range |-> <<>>, perPage |-> 0, page |-> 1, count |-> 0,
           seen |-> <<>>, pool |-> {}, changed |-> "nothing"]
At(pc) == call.pc = pc

Init ==
  /\ table = [t \in Ids |-> NotYet]
  /\ categories = Categories
  /\ call = AtRest

-------------------------------------------------------------------------------
(***************************************************************************)
(* Dates.                                                                  *)
(***************************************************************************)

Before(d, e) ==
  \/ d[1] < e[1]
  \/ d[1] = e[1] /\ d[2] < e[2]
  \/ d[1] = e[1] /\ d[2] = e[2] /\ d[3] < e[3]

From(d, e) == {t \in Live : ~Before(table[t].date, d) /\ Before(table[t].date, e)}

\* dateRange: the first day of a month and of the next one.
DateRange(year, month) ==
  <<<<year, month, 1>>,
    IF month = 12 THEN <<year + 1, 1, 1>> ELSE <<year, month + 1, 1>>>>

InMonth(ym) == LET range == DateRange(ym[1], ym[2]) IN From(range[1], range[2])

\* The day after d, as time.AddDate gives it.
NextDay(d) ==
  IF d[3] < DaysIn(d[1], d[2]) THEN <<d[1], d[2], d[3] + 1>>
  ELSE DateRange(d[1], d[2])[2]

-------------------------------------------------------------------------------
(***************************************************************************)
(* The queries.                                                            *)
(***************************************************************************)

AmountOf(ids) == MapThenSumSet(LAMBDA t : table[t].amount, ids)
OfType(ids, type) == {t \in ids : table[t].type = type}

\* SELECT SUM(income), SUM(expense) ... WHERE date >= start AND date < end.
MonthlyStats(ym) ==
  [income |-> AmountOf(OfType(InMonth(ym), "income")),
   expense |-> AmountOf(OfType(InMonth(ym), "expense"))]

\* The totals per category; the JOIN drops a transaction without its category.
Breakdown(ym, type) ==
  LET ids == {t \in OfType(InMonth(ym), type) : table[t].category \in categories}
      of(c) == {t \in ids : table[t].category = c}
  IN  [c \in {table[t].category : t \in ids} |-> AmountOf(of(c))]

StaysInYear(ym) == IF ym[2] = 1 THEN <<ym[1], 12>> ELSE <<ym[1], ym[2] - 1>>

PreviousMonth(ym) == IF ym[2] = 1 THEN <<ym[1] - 1, 12>> ELSE <<ym[1], ym[2] - 1>>

\* The second query of GetDashboardData: both months in one SELECT that starts at
\* the earlier of the two.
DashboardStats(ym) ==
  LET this == DateRange(ym[1], ym[2])
      prev == LET before == PreviousMonth(ym) IN DateRange(before[1], before[2])
      min == IF Before(prev[1], this[1]) THEN prev[1] ELSE this[1]
      within(range) == {t \in From(range[1], range[2]) : ~Before(table[t].date, min)}
      sum(range, type) == AmountOf(OfType(within(range), type))
  IN  [income |-> sum(this, "income"), expense |-> sum(this, "expense"),
       prevIncome |-> sum(prev, "income"), prevExpense |-> sum(prev, "expense")]

InRange(range) == From(range[1], NextDay(range[2]))

\* ORDER BY date DESC, created DESC.
Newest(t, u) ==
  \/ Before(table[u].date, table[t].date)
  \/ table[t].date = table[u].date /\ t > u

\* How many of rows come before t, and the i-th of them.
Rank(t, rows) == Cardinality({u \in rows : Newest(u, t)})
Nth(i, rows) == CHOOSE t \in rows : Rank(t, rows) = i - 1

FloorPages(total, perPage) == total \div perPage

TotalPages(total, perPage) ==
  IF total > 0 THEN (total + perPage - 1) \div perPage ELSE 0

SkipsAPage(page, perPage) == page * perPage

Offset(page, perPage) == (page - 1) * perPage

\* LIMIT perPage OFFSET ...
Page(page, perPage, rows) ==
  LET skipped == Offset(page, perPage)
      rest == Cardinality(rows) - skipped
  IN  [i \in 1 .. (IF rest < perPage THEN rest ELSE perPage) |-> Nth(skipped + i, rows)]

PerPage(asked) == IF asked < 1 \/ asked > MaxPerPage THEN DefaultPerPage ELSE asked

-------------------------------------------------------------------------------
(***************************************************************************)
(* GetMonthlyReport: three queries, one after the other.                   *)
(***************************************************************************)

AskReport(ym) ==
  /\ At("idle")
  /\ call' = [AtRest EXCEPT !.pc = "expenses", !.month = ym, !.totals = MonthlyStats(ym)]
  /\ UNCHANGED <<table, categories>>

QueryExpenses ==
  /\ At("expenses")
  /\ call' = [call EXCEPT !.pc = "incomes", !.expenses = Breakdown(call.month, "expense")]
  /\ UNCHANGED <<table, categories>>

QueryIncomes ==
  /\ At("incomes")
  /\ call' = [call EXCEPT !.pc = "report", !.incomes = Breakdown(call.month, "income")]
  /\ UNCHANGED <<table, categories>>

(***************************************************************************)
(* GetTransactionsByDateRange, called for page 1, 2, ... until the number  *)
(* of pages of the last answer.                                            *)
(***************************************************************************)

OpenList(range, asked) ==
  /\ At("idle")
  /\ ~Before(range[2], range[1])
  /\ call' = [AtRest EXCEPT !.pc = "count", !.range = range, !.perPage = PerPage(asked),
                            !.pool = InRange(range)]
  /\ UNCHANGED <<table, categories>>

CountItems ==
  /\ At("count")
  /\ call' = [call EXCEPT !.pc = "fetch", !.count = Cardinality(InRange(call.range))]
  /\ UNCHANGED <<table, categories>>

FetchPage ==
  LET more == call.page < TotalPages(call.count, call.perPage) IN
  /\ At("fetch")
  /\ call' = [call EXCEPT !.pc = IF more THEN "count" ELSE "listed",
                          !.page = IF more THEN @ + 1 ELSE @,
                          !.seen = @ \o Page(call.page, call.perPage, InRange(call.range))]
  /\ UNCHANGED <<table, categories>>

Answer ==
  /\ call.pc \in {"report", "listed"}
  /\ call' = AtRest
  /\ UNCHANGED <<table, categories>>

-------------------------------------------------------------------------------
(***************************************************************************)
(* Other requests.                                                         *)
(***************************************************************************)

\* An answer is sent right after the last query: nothing comes between the two.
Overlaps(creation) ==
  LET harmless == creation /\ ~At("fetch") /\ call.changed # "more"
  IN  /\ call.pc \notin {"report", "listed"}
      /\ call' = IF At("idle") THEN call
                  ELSE [call EXCEPT !.changed = IF harmless THEN "created" ELSE "more"]

CreateTransaction(t, entry) ==
  /\ table[t] = NotYet /\ \A u \in Ids : u < t => table[u] # NotYet
  /\ entry.category \in categories
  /\ table' = [table EXCEPT ![t] = entry]
  /\ Overlaps(TRUE)
  /\ UNCHANGED categories

UpdateTransaction(t, entry) ==
  /\ t \in Live /\ table[t] # entry
  /\ entry.category \in categories
  /\ table' = [table EXCEPT ![t] = entry]
  /\ Overlaps(FALSE)
  /\ UNCHANGED categories

DeleteTransaction(t) ==
  /\ t \in Live
  /\ table' = [table EXCEPT ![t] = Deleted]
  /\ Overlaps(FALSE)
  /\ UNCHANGED categories

LeavesTransactions(c) ==
  /\ c \in categories
  /\ categories' = categories \ {c}
  /\ UNCHANGED <<table, call>>

\* The relation category_id cascades.
DeleteCategory(c) ==
  /\ c \in categories
  /\ categories' = categories \ {c}
  /\ table' = [t \in Ids |-> IF t \in Live /\ table[t].category = c THEN Deleted ELSE table[t]]
  /\ Overlaps(FALSE)

Next ==
  \/ \E ym \in Months : AskReport(ym)
  \/ QueryExpenses \/ QueryIncomes
  \/ \E range \in Ranges, asked \in PageSizes : OpenList(range, asked)
  \/ CountItems \/ FetchPage \/ Answer
  \/ \E t \in Ids, entry \in Entries : CreateTransaction(t, entry) \/ UpdateTransaction(t, entry)
  \/ \E t \in Ids : DeleteTransaction(t)
  \/ \E c \in Categories : DeleteCategory(c)

Spec == Init /\ [][Next]_vars

-------------------------------------------------------------------------------
(***************************************************************************)
(* Properties.  The references look at the fields of a date, never at an   *)
(* order of dates.                                                         *)
(***************************************************************************)

OfMonth(ym, type) ==
  {t \in Live : /\ <<table[t].date[1], table[t].date[2]>> = ym
                /\ table[t].type = type}

SumOf(parts) == MapThenSumSet(LAMBDA c : parts[c], DOMAIN parts)

\* A report during which nothing was written counts every transaction of its month,
\* the last of December and the first of January included, and its parts add up to
\* its totals: the three queries see the same transactions.
ReportAddsUp ==
  At("report") /\ call.changed = "nothing" =>
    /\ call.totals.expense = AmountOf(OfMonth(call.month, "expense"))
    /\ call.totals.income = AmountOf(OfMonth(call.month, "income"))
    /\ call.totals.expense = SumOf(call.expenses)
    /\ call.totals.income = SumOf(call.incomes)

\* The dashboard compares a month with the one before it in the calendar.
MonthBefore ==
  LET number(ym) == 12 * ym[1] + ym[2]
      before(ym) == {t \in Live : number(table[t].date) = number(ym) - 1}
  IN  \A ym \in Months :
        /\ DashboardStats(ym).prevExpense = AmountOf(OfType(before(ym), "expense"))
        /\ DashboardStats(ym).prevIncome = AmountOf(OfType(before(ym), "income"))
        /\ DashboardStats(ym).expense = AmountOf(OfMonth(ym, "expense"))

\* The pages of a listing during which nothing was written hold every transaction
\* from the first to the last day asked for, both included, and none of them twice.
ListIsWhole ==
  At("listed") /\ call.changed = "nothing" =>
    /\ ToSet(call.seen) = {t \in Live : /\ ~Before(table[t].date, call.range[1])
                                        /\ ~Before(call.range[2], table[t].date)}
    /\ IsInjective(call.seen)

\* Creations while a listing is read make it repeat entries, but what was there from
\* the beginning is not skipped, unless one fell between the count and the query of a
\* page: then the last page can be missed.
NothingSkipped ==
  At("listed") /\ call.changed # "more" => call.pool \subseteq ToSet(call.seen)

===============================================================================
