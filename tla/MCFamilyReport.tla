---------------------------- MODULE MCFamilyReport -----------------------------
(***************************************************************************)
(* Instances of FamilyReport for TLC: dates on both sides of the turn of   *)
(* a year and of the end of February in a leap year.                       *)
(***************************************************************************)
EXTENDS FamilyReport, TLC

CONSTANTS c1, c2

Entry(type, amount, date, category) ==
  [type |-> type, amount |-> amount, date |-> date, category |-> category]

MCEntries == {
  Entry("expense", 1, <<2027, 12, 31>>, c1),
  Entry("expense", 2, <<2028, 1, 1>>, c2),
  Entry("income", 4, <<2028, 2, 29>>, c1)}

MCMonths == {<<2027, 12>>, <<2028, 1>>, <<2028, 2>>}

MCRanges == {
  <<<<2027, 12, 31>>, <<2028, 1, 1>>>>,
  <<<<2028, 1, 1>>, <<2028, 2, 28>>>>}

===============================================================================
