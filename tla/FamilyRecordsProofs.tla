-------------------------- MODULE FamilyRecordsProofs --------------------------
(***************************************************************************)
(* Proofs about FamilyRecords: that the relations of the records hold,     *)
(* whatever is deleted between the steps of a request, and that the        *)
(* deletion of a family stays inside the family but for the two ways out   *)
(* that the code leaves.                                                   *)
(*                                                                         *)
(* RelationsHold is inductive only with what a deletion relies on: records *)
(* have the rows of their collection (Typed), a product belongs to the     *)
(* family of its credential and a transaction to the family of its         *)
(* category, be they stored (Matched) or about to be saved (JobsFit).      *)
(***************************************************************************)
EXTENDS FamilyRecords, TLAPS

\* The collection a relation of that name leads to.
Target(field) ==
  CASE field = "family_id"     -> "families"
    [] field = "user_id"       -> "users"
    [] field = "created_by"    -> "users"
    [] field = "category_id"   -> "categories"
    [] field = "credential_id" -> "digiflazz_credentials"
    [] field = "order_id"      -> "digiflazz_orders"

\* About to save a record of collection c; only a transaction is saved for an order.
Saves(c) ==
  [pc : {"save"}, collection : {c}, row : Rows[c],
   for : {None} \cup (IF c = "transactions" THEN Ids["digiflazz_orders"] ELSE {})]

\* Between the steps of CreateFamily, and of finalizeSuccessOrder.
Setups == [pc : {"seed", "balance"}, family : Ids["families"]]
Links == [pc : {"link"}, for : Ids["digiflazz_orders"], txn : Ids["transactions"]]

SaveJobs == UNION {Saves(c) : c \in Collections}

Jobs == {Idle} \cup Setups \cup SaveJobs \cup Links

Typed ==
  /\ record = [x \in AllIds |-> record[x]]
  /\ \A c \in Collections : \A x \in Ids[c] : record[x] \in Rows[c] \cup {NotYet, Gone}

\* A product belongs to the family of its credential, and a transaction to the family of
\* its category unless that is a default one or another than at its creation.
Fits(c, row) ==
  /\ c = "digiflazz_products" /\ row.credential_id # None =>
       /\ record[row.credential_id] # NotYet
       /\ Exists(row.credential_id) => record[row.credential_id].family_id = row.family_id
  /\ c = "transactions" /\ ~row.moved =>
       /\ record[row.category_id] # NotYet
       /\ Exists(row.category_id) => \/ record[row.category_id].is_default
                                     \/ record[row.category_id].family_id = row.family_id

Matched == \A c \in Collections : \A x \in All(c) : Fits(c, record[x])

JobsFit ==
  /\ job \in [Requests -> Jobs]
  /\ \A r \in Requests : job[r].pc = "save" => Fits(job[r].collection, job[r].row)

RInv == Typed /\ RelationsHold /\ Matched

IInv == RInv /\ JobsFit

\* Credentials and categories are never changed, only deleted, and never come back.
Ages ==
  \A k \in Ids["digiflazz_credentials"] \cup Ids["categories"] :
    record[k] # NotYet => record'[k] = record[k] \/ record'[k] = Gone

-------------------------------------------------------------------------------
(***************************************************************************)
(* The schema.                                                             *)
(***************************************************************************)

LEMMA CollectionsAre ==
  Collections = {"users", "families", "family_members", "categories", "transactions",
                 "digiflazz_credentials", "digiflazz_products", "digiflazz_orders",
                 "digiflazz_events", "family_balances"}
BY DEF Collections, Schema

\* The relations of the collections, and that they lead no further than two steps.
LEMMA FieldsAre ==
  /\ DOMAIN Schema["users"] = {} /\ DOMAIN Schema["families"] = {}
  /\ DOMAIN Schema["family_members"] = {"family_id", "user_id"}
  /\ DOMAIN Schema["categories"] = {"family_id"}
  /\ DOMAIN Schema["transactions"] = {"family_id", "created_by", "category_id"}
  /\ DOMAIN Schema["digiflazz_credentials"] = {"family_id"}
  /\ DOMAIN Schema["digiflazz_products"] = {"family_id", "credential_id"}
  /\ DOMAIN Schema["digiflazz_orders"] = {"family_id", "created_by"}
  /\ DOMAIN Schema["digiflazz_events"] = {"order_id"}
  /\ DOMAIN Schema["family_balances"] = {"family_id"}
BY DEF Schema, NoRelation, family_members, categories, transactions, digiflazz_credentials,
       digiflazz_products, digiflazz_orders, digiflazz_events, family_balances

LEMMA RulesAre ==
  \A c \in Collections : \A g \in DOMAIN Schema[c] :
    Schema[c][g] = IF g = "credential_id" THEN "unset" ELSE "cascade"
BY CollectionsAre, FieldsAre
   DEF Schema, family_members, categories, transactions, digiflazz_credentials,
       digiflazz_products, digiflazz_orders, digiflazz_events, family_balances

LEMMA TargetsAre ==
  \A c \in Collections : \A g \in DOMAIN Schema[c] :
    /\ Target(g) \in Collections \ {"family_balances"}
    /\ g # "credential_id" =>
         \A h \in DOMAIN Schema[Target(g)] : DOMAIN Schema[Target(h)] = {}
BY CollectionsAre, FieldsAre DEF Target

LEMMA RowsAre ==
  ASSUME NEW c \in Collections, NEW row \in Rows[c], NEW g \in DOMAIN Schema[c]
  PROVE  /\ row[g] \in Ids[Target(g)] \cup {None}
         /\ g # "credential_id" => row[g] \in Ids[Target(g)]
<1>1. Target("family_id") = "families" /\ Target("user_id") = "users"
      /\ Target("created_by") = "users" /\ Target("category_id") = "categories"
      /\ Target("credential_id") = "digiflazz_credentials"
      /\ Target("order_id") = "digiflazz_orders"
  BY DEF Target
<1>2. CASE c = "users"
  BY <1>1, <1>2, FieldsAre DEF Rows
<1>3. CASE c = "families"
  BY <1>1, <1>3, FieldsAre DEF Rows
<1>4. CASE c = "family_members"
  BY <1>1, <1>4, FieldsAre DEF Rows
<1>5. CASE c = "categories"
  BY <1>1, <1>5, FieldsAre DEF Rows
<1>6. CASE c = "transactions"
  BY <1>1, <1>6, FieldsAre DEF Rows
<1>7. CASE c = "digiflazz_credentials"
  BY <1>1, <1>7, FieldsAre DEF Rows
<1>8. CASE c = "digiflazz_products"
  BY <1>1, <1>8, FieldsAre DEF Rows
<1>9. CASE c = "digiflazz_orders"
  BY <1>1, <1>9, FieldsAre DEF Rows
<1>10. CASE c = "digiflazz_events"
  BY <1>1, <1>10, FieldsAre DEF Rows
<1>11. CASE c = "family_balances"
  BY <1>1, <1>11, FieldsAre DEF Rows
<1> QED BY CollectionsAre, <1>2, <1>3, <1>4, <1>5, <1>6, <1>7, <1>8, <1>9, <1>10, <1>11

LEMMA CollectionIs ==
  ASSUME NEW c \in Collections, NEW x \in Ids[c]
  PROVE  x \in AllIds /\ CollectionOf[x] = c /\ x # None
<1>1. x \in AllIds
  BY DEF AllIds
<1>2. \A d \in Collections : x \in Ids[d] => d = c
  BY IdsAssumption
<1> QED BY <1>1, <1>2, IdsAssumption DEF CollectionOf

-------------------------------------------------------------------------------
(***************************************************************************)
(* Deletion.                                                               *)
(***************************************************************************)

LEMMA ParentsAre ==
  ASSUME Typed, NEW c \in Collections, NEW y \in All(c)
  PROVE  /\ y \in AllIds /\ record[y] \in Rows[c]
         /\ Parents(y) = {record[y][g] : g \in DOMAIN Schema[c] \ {"credential_id"}}
         /\ Under("unset", y) = DOMAIN Schema[c] \cap {"credential_id"}
<1>1. y \in Ids[c] /\ Exists(y)
  BY DEF All
<1>2. record[y] \in Rows[c]
  BY <1>1 DEF Typed, Exists
<1>3. CollectionOf[y] = c /\ y \in AllIds
  BY <1>1, CollectionIs
<1>4. \A rule : Under(rule, y) = {g \in DOMAIN Schema[c] : Schema[c][g] = rule}
  BY <1>1, <1>3 DEF Under
<1>5. Under("cascade", y) = DOMAIN Schema[c] \ {"credential_id"}
  BY <1>4, RulesAre
<1>6. Under("unset", y) = DOMAIN Schema[c] \cap {"credential_id"}
  BY <1>4, RulesAre
<1> QED BY <1>2, <1>3, <1>5, <1>6 DEF Parents

\* What does not exist belongs to nothing.
LEMMA NoParents ==
  ASSUME NEW y, ~Exists(y)
  PROVE  Parents(y) = {} /\ \A rule : Under(rule, y) = {}
BY DEF Parents, Under

\* A record that refers to a doomed one, other than as a product to its credential, is
\* doomed with it.
LEMMA DoomSpreads ==
  ASSUME Typed, NEW c \in Collections, NEW y \in All(c), NEW x,
         NEW g \in DOMAIN Schema[c] \ {"credential_id"}, Doomed(record[y][g], x)
  PROVE  Doomed(y, x)
<1> DEFINE v == record[y][g]  d == Target(g)
<1>1. v \in Parents(y) /\ v \in Ids[d] /\ d \in Collections
  BY ParentsAre, RowsAre, TargetsAre
<1>2. CASE v = x
  BY <1>1, <1>2 DEF Doomed
<1>3. ASSUME NEW z \in Parents(v), z = x \/ x \in Parents(z)
      PROVE  Doomed(y, x)
  <2>1. v \in All(d) /\ Exists(v)
    BY <1>1, <1>3, NoParents DEF All
  <2>2. PICK h \in DOMAIN Schema[d] \ {"credential_id"} : z = record[v][h]
    BY <1>1, <1>3, <2>1, ParentsAre
  <2>3. DOMAIN Schema[Target(h)] = {} /\ Target(h) \in Collections
    BY <1>1, TargetsAre
  <2>4. z \in Ids[Target(h)]
    BY <1>1, <2>1, <2>2, ParentsAre, RowsAre
  <2>5. Parents(z) = {}
    <3>1. CASE Exists(z)
      BY <2>3, <2>4, <3>1, ParentsAre DEF All
    <3> QED BY <3>1, NoParents
  <2>6. z = x /\ x \in Parents(v)
    BY <1>3, <2>5
  <2> QED BY <1>1, <2>6 DEF Doomed
<1> QED BY <1>2, <1>3 DEF Doomed

\* Only a product can lose a relation.
LEMMA ClearedIs ==
  ASSUME Typed, NEW c \in Collections, NEW y \in Ids[c], NEW x
  PROVE  /\ Cleared(y, x) # record[y] =>
              /\ c = "digiflazz_products" /\ Exists(y)
              /\ record[y].credential_id # None
              /\ Cleared(y, x) = [record[y] EXCEPT !.credential_id = None]
         /\ c = "digiflazz_products" /\ Exists(y) /\ record[y].credential_id # None =>
              (Doomed(record[y].credential_id, x) => Cleared(y, x).credential_id = None)
<1>1. CASE ~Exists(y)
  BY <1>1, NoParents DEF Cleared
<1>2. CASE Exists(y) /\ c # "digiflazz_products"
  <2>1. Under("unset", y) = {}
    BY <1>2, ParentsAre, CollectionsAre, FieldsAre DEF All
  <2> QED BY <1>2, <2>1 DEF Cleared
<1>3. CASE Exists(y) /\ c = "digiflazz_products"
  <2>1. Under("unset", y) = {"credential_id"} /\ record[y] \in Rows[c]
    BY <1>3, ParentsAre, FieldsAre DEF All
  <2>2. record[y] \in [family_id : Ids["families"],
                       credential_id : Ids["digiflazz_credentials"] \cup {None}]
    BY <1>3, <2>1 DEF Rows
  <2> DEFINE lost == {field \in Under("unset", y) :
                        record[y][field] # None /\ Doomed(record[y][field], x)}
  <2>3. lost = IF record[y].credential_id # None /\ Doomed(record[y].credential_id, x)
               THEN {"credential_id"} ELSE {}
    BY <2>1
  <2>4. Cleared(y, x) = IF lost = {} THEN record[y]
          ELSE [field \in DOMAIN record[y] |-> IF field \in lost THEN None ELSE record[y][field]]
    BY DEF Cleared
  <2>5. DOMAIN record[y] = {"family_id", "credential_id"}
    BY <2>2
  <2> HIDE DEF lost
  <2>6. CASE lost = {}
    BY <2>3, <2>4, <2>6
  <2>7. CASE lost = {"credential_id"}
    <3>1. record[y].credential_id # None
      BY <2>3, <2>7
    <3>2. Cleared(y, x) = [field \in DOMAIN record[y] |->
                             IF field = "credential_id" THEN None ELSE record[y][field]]
      BY <2>4, <2>7
    <3>3. [record[y] EXCEPT !.credential_id = None]
            = [field \in DOMAIN record[y] |->
                 IF field = "credential_id" THEN None ELSE record[y][field]]
      BY <2>2, <2>5
    <3> QED BY <1>3, <2>5, <3>1, <3>2, <3>3
  <2> QED BY <2>3, <2>6, <2>7
<1> QED BY <1>1, <1>2, <1>3

-------------------------------------------------------------------------------
(***************************************************************************)
(* The records.                                                            *)
(***************************************************************************)

\* What fits goes on fitting.
LEMMA FitsStays ==
  ASSUME Ages, NEW c \in Collections, NEW row \in Rows[c], Fits(c, row)
  PROVE  Fits(c, row)'
<1>1. CASE c = "digiflazz_products"
  <2>1. row.credential_id \in Ids["digiflazz_credentials"] \cup {None}
    BY <1>1 DEF Rows
  <2> QED BY <1>1, <2>1, IdsAssumption DEF Fits, Ages, Exists
<1>2. CASE c = "transactions"
  <2>1. row.category_id \in Ids["categories"]
    BY <1>2 DEF Rows
  <2> QED BY <1>2, <2>1, IdsAssumption DEF Fits, Ages, Exists
<1> QED BY <1>1, <1>2 DEF Fits

LEMMA DeleteKeeps ==
  ASSUME RInv, NEW x, Delete(x)
  PROVE  RInv' /\ Ages
<1>1. \A c \in Collections : \A y \in Ids[c] :
        record'[y] = IF Doomed(y, x) THEN Gone ELSE Cleared(y, x)
  BY CollectionIs DEF Delete
<1>2. ASSUME NEW c \in Collections, NEW y \in Ids[c], Exists(y)'
      PROVE  y \in All(c) /\ ~Doomed(y, x) /\ record'[y] = Cleared(y, x)
  BY <1>1, <1>2, ClearedIs DEF RInv, All, Exists
<1>3. ASSUME NEW c \in Collections, NEW y \in All(c), ~Doomed(y, x)
      PROVE  Cleared(y, x) \in Rows[c] /\ Exists(y)'
  <2>1. y \in Ids[c] /\ record[y] \in Rows[c]
    BY ParentsAre DEF RInv, All
  <2>2. Cleared(y, x) \in Rows[c]
    <3>1. CASE Cleared(y, x) = record[y]
      BY <2>1, <3>1
    <3>2. CASE /\ c = "digiflazz_products"
               /\ Cleared(y, x) = [record[y] EXCEPT !.credential_id = None]
      BY <2>1, <3>2 DEF Rows
    <3> QED BY <2>1, <3>1, <3>2, ClearedIs DEF RInv
  <2>3. record'[y] = Cleared(y, x)
    BY <1>1, <1>3, <2>1
  <2>4. NotYet \notin Rows[c] /\ Gone \notin Rows[c]
    BY IdsAssumption
  <2> QED BY <2>2, <2>3, <2>4 DEF Exists
<1>4. Typed'
  <2>1. record' = [y \in AllIds |-> record'[y]]
    BY DEF Delete
  <2>2. ASSUME NEW c \in Collections, NEW y \in Ids[c]
        PROVE  record'[y] \in Rows[c] \cup {NotYet, Gone}
    <3>1. CASE Exists(y) /\ ~Doomed(y, x)
      BY <1>1, <1>3, <3>1 DEF All
    <3>2. CASE ~Exists(y) /\ ~Doomed(y, x)
      BY <1>1, <3>2, ClearedIs DEF RInv, Exists
    <3> QED BY <1>1, <3>1, <3>2
  <2> QED BY <2>1, <2>2 DEF Typed
<1>5. Ages
  <2> SUFFICES ASSUME NEW c \in {"digiflazz_credentials", "categories"}, NEW k \in Ids[c]
               PROVE  record'[k] = record[k] \/ record'[k] = Gone
    BY DEF Ages
  <2>1. c \in Collections
    BY CollectionsAre
  <2> QED BY <1>1, <2>1, ClearedIs DEF RInv
<1>6. ASSUME NEW c \in Collections \ {"family_balances"}, NEW y \in All(c)',
             NEW g \in DOMAIN Schema[c]
      PROVE  (record[y][g] = None \/ Exists(record[y][g]))'
  <2>1. y \in Ids[c] /\ Exists(y)'
    BY <1>6 DEF All
  <2>2. y \in All(c) /\ ~Doomed(y, x) /\ record'[y] = Cleared(y, x)
    BY <1>2, <2>1
  <2>3. record[y] \in Rows[c] /\ record[y][g] \in Ids[Target(g)] \cup {None}
        /\ Target(g) \in Collections
    BY <2>2, ParentsAre, RowsAre, TargetsAre DEF RInv
  <2>4. record[y][g] = None \/ Exists(record[y][g])
    BY <2>2 DEF RInv, RelationsHold, Resolves
  <2>5. CASE g # "credential_id"
    <3>1. record'[y][g] = record[y][g]
      <4>1. CASE Cleared(y, x) = record[y]
        BY <2>2, <4>1
      <4>2. CASE /\ c = "digiflazz_products"
                 /\ Cleared(y, x) = [record[y] EXCEPT !.credential_id = None]
        BY <2>2, <2>3, <2>5, <4>2, FieldsAre DEF Rows
      <4> QED BY <2>1, <4>1, <4>2, ClearedIs DEF RInv
    <3>2. ~Doomed(record[y][g], x)
      BY <2>2, <2>5, DoomSpreads DEF RInv
    <3> QED BY <1>3, <2>3, <2>4, <3>1, <3>2 DEF All
  <2>6. CASE g = "credential_id"
    <3>1. c = "digiflazz_products"
      BY <2>6, CollectionsAre, FieldsAre
    <3>2. CASE record'[y][g] = record[y][g] /\ record[y][g] # None
      <4>1. ~Doomed(record[y][g], x)
        BY <2>1, <2>2, <2>6, <3>1, <3>2, ClearedIs DEF RInv, All
      <4> QED BY <1>3, <2>3, <2>4, <3>2, <4>1 DEF All
    <3>3. CASE Cleared(y, x) = [record[y] EXCEPT !.credential_id = None]
      BY <2>2, <2>3, <2>6, <3>1, <3>3 DEF Rows
    <3> QED BY <2>1, <2>2, <3>2, <3>3, ClearedIs DEF RInv
  <2> QED BY <2>5, <2>6
<1>7. RelationsHold'
  BY <1>6 DEF RelationsHold, Resolves
<1>8. ASSUME NEW c \in Collections, NEW y \in All(c)'
      PROVE  Fits(c, record[y])'
  <2>1. y \in Ids[c] /\ Exists(y)'
    BY <1>8 DEF All
  <2>2. y \in All(c) /\ record'[y] = Cleared(y, x) /\ record[y] \in Rows[c]
    BY <1>2, <2>1, ParentsAre DEF RInv
  <2>3. CASE Cleared(y, x) = record[y]
    <3>1. \A row \in Rows[c] : Fits(c, row) => Fits(c, row)'
      BY <1>5, FitsStays
    <3>2. Fits(c, record[y])
      BY <2>2 DEF RInv, Matched
    <3> QED BY <2>2, <2>3, <3>1, <3>2 DEF Fits, Exists
  <2>4. CASE /\ c = "digiflazz_products"
             /\ Cleared(y, x) = [record[y] EXCEPT !.credential_id = None]
    BY <2>2, <2>4 DEF Fits, Rows
  <2> QED BY <2>1, <2>3, <2>4, ClearedIs DEF RInv
<1> QED BY <1>4, <1>5, <1>7, <1>8 DEF RInv, Matched

\* Records are written whose relations resolve and which fit.
LEMMA WritesKeep ==
  ASSUME RInv, record' = [y \in AllIds |-> record'[y]],
         \A d \in Collections : \A y \in Ids[d] :
           \/ record'[y] = record[y]
           \/ /\ record[y] = NotYet \/ d \notin {"digiflazz_credentials", "categories"}
              /\ record'[y] \in Rows[d]
              /\ d # "family_balances" => Resolves(d, record[y])'
              /\ Fits(d, record[y])'
  PROVE  RInv' /\ Ages
<1>1. Typed'
  BY DEF RInv, Typed
<1>2. \A d \in Collections : \A y \in Ids[d] : Exists(y) => Exists(y)'
  BY IdsAssumption DEF Exists
<1>3. Ages
  <2> SUFFICES ASSUME NEW c \in {"digiflazz_credentials", "categories"}, NEW k \in Ids[c],
                      record[k] # NotYet
               PROVE  record'[k] = record[k]
    BY DEF Ages
  <2> QED BY CollectionsAre
<1>4. ASSUME NEW c \in Collections, NEW y \in All(c)', record'[y] = record[y]
      PROVE  y \in All(c) /\ record[y] \in Rows[c]
  <2>1. y \in All(c)
    BY <1>4 DEF All, Exists
  <2> QED BY <2>1, ParentsAre DEF RInv
<1>5. RelationsHold'
  <2> SUFFICES ASSUME NEW c \in Collections \ {"family_balances"}, NEW y \in All(c)'
               PROVE  Resolves(c, record[y])'
    BY DEF RelationsHold
  <2>1. y \in Ids[c]
    BY DEF All
  <2>2. CASE record'[y] = record[y]
    <3>1. y \in All(c) /\ record[y] \in Rows[c]
      BY <1>4, <2>2
    <3>2. ASSUME NEW g \in DOMAIN Schema[c]
          PROVE  record'[y][g] = None \/ Exists(record[y][g])'
      <4>1. record[y][g] = None \/ Exists(record[y][g])
        BY <3>1 DEF RInv, RelationsHold, Resolves
      <4>2. record[y][g] = None \/ (record[y][g] \in Ids[Target(g)] /\ Target(g) \in Collections)
        BY <3>1, RowsAre, TargetsAre
      <4>3. record[y][g] # None => record'[record[y][g]] \notin {NotYet, Gone}
        BY <1>2, <4>1, <4>2 DEF Exists
      <4> QED BY <2>2, <4>3 DEF Exists
    <3> QED BY <3>2 DEF Resolves
  <2> QED BY <2>1, <2>2
<1>6. Matched'
  <2> SUFFICES ASSUME NEW c \in Collections, NEW y \in All(c)'
               PROVE  Fits(c, record[y])'
    BY DEF Matched
  <2>1. y \in Ids[c]
    BY DEF All
  <2>2. CASE record'[y] = record[y]
    <3>1. \A row \in Rows[c] : Fits(c, row) => Fits(c, row)'
      BY <1>3, FitsStays
    <3>2. y \in All(c) /\ record[y] \in Rows[c]
      BY <1>4, <2>2
    <3>3. Fits(c, record[y])
      BY <3>2 DEF RInv, Matched
    <3> QED BY <2>2, <3>1, <3>2, <3>3 DEF Fits, Exists
  <2> QED BY <2>1, <2>2
<1> QED BY <1>1, <1>3, <1>5, <1>6 DEF RInv

\* One record is written.
LEMMA WriteKeeps ==
  ASSUME RInv, NEW c \in Collections, NEW x \in Ids[c], NEW row \in Rows[c],
         record[x] = NotYet \/ c \notin {"digiflazz_credentials", "categories"},
         c # "family_balances" => Resolves(c, row), Fits(c, row),
         record' = [record EXCEPT ![x] = row]
  PROVE  RInv' /\ Ages
<1>1. /\ record' = [y \in AllIds |-> record'[y]] /\ record'[x] = row
      /\ \A y : y # x => record'[y] = record[y]
  BY CollectionIs DEF RInv, Typed
<1>2. Ages
  <2> SUFFICES ASSUME NEW d \in {"digiflazz_credentials", "categories"}, NEW k \in Ids[d],
                      record[k] # NotYet
               PROVE  record'[k] = record[k]
    BY DEF Ages
  <2>1. k # x
    BY CollectionsAre, CollectionIs
  <2> QED BY <1>1, <2>1
<1>3. Fits(c, row)'
  BY <1>2, FitsStays
<1>4. c # "family_balances" => Resolves(c, row)'
  <2>1. \A y : Exists(y) => Exists(y)'
    BY <1>1, IdsAssumption DEF Exists
  <2> QED BY <2>1 DEF Resolves
<1>5. Fits(c, record[x])'
  BY <1>1, <1>3 DEF Fits, Exists
<1>6. c # "family_balances" => Resolves(c, record[x])'
  BY <1>1, <1>4 DEF Resolves, Exists
<1>7. \A d \in Collections : \A y \in Ids[d] : y = x => d = c
  BY CollectionIs
<1> QED BY <1>1, <1>5, <1>6, <1>7, WritesKeep

\* A credential goes with the products of its family, which are all that refer to it.
LEMMA DeleteCredentialKeeps ==
  ASSUME RInv, NEW k \in Ids["digiflazz_credentials"], DeleteCredential(k)
  PROVE  RInv' /\ Ages
<1> DEFINE products == {p \in All("digiflazz_products") :
                          record[p].family_id = record[k].family_id}
           lost == products \cup {k}
<1>1. /\ Exists(k)
      /\ record' = [x \in AllIds |-> IF x \in lost THEN Gone ELSE record[x]]
  BY DEF DeleteCredential, All
<1> HIDE DEF lost
<1>2. ASSUME NEW c \in Collections, NEW y \in Ids[c]
      PROVE  /\ record'[y] = IF y \in lost THEN Gone ELSE record[y]
             /\ y \in lost => c = "digiflazz_products" \/ (y = k /\ c = "digiflazz_credentials")
  <2>1. y \in AllIds /\ \A d \in Collections : y \in Ids[d] => d = c
    BY CollectionIs
  <2>2. y \in lost => y \in Ids["digiflazz_products"] \/ y = k
    BY DEF All, lost
  <2>3. y = k => c = "digiflazz_credentials"
    BY <2>1, CollectionsAre
  <2>4. y \in lost => c = "digiflazz_products" \/ y = k
    BY <2>1, <2>2, CollectionsAre
  <2>5. record' = [x \in AllIds |-> IF x \in lost THEN Gone ELSE record[x]]
    BY <1>1
  <2>6. record'[y] = IF y \in lost THEN Gone ELSE record[y]
    BY <2>1, <2>5
  <2> QED BY <2>3, <2>4, <2>6
<1>3. Typed' /\ Ages
  <2>1. Typed'
    BY <1>1, <1>2 DEF RInv, Typed
  <2>2. Ages
    BY <1>2, CollectionsAre DEF Ages
  <2> QED BY <2>1, <2>2
<1>4. ASSUME NEW c \in Collections, NEW y \in All(c)'
      PROVE  y \in Ids[c] /\ y \in All(c) /\ y \notin lost /\ record'[y] = record[y]
             /\ record[y] \in Rows[c]
  <2>1. y \in Ids[c] /\ record'[y] \notin {NotYet, Gone}
    BY DEF All, Exists
  <2>2. y \notin lost /\ record'[y] = record[y] /\ y \in All(c)
    BY <1>2, <2>1 DEF All, Exists
  <2> QED BY <2>1, <2>2, ParentsAre DEF RInv
<1>5. RelationsHold'
  <2> SUFFICES ASSUME NEW c \in Collections \ {"family_balances"}, NEW y \in All(c)',
                      NEW g \in DOMAIN Schema[c]
               PROVE  record'[y][g] = None \/ Exists(record[y][g])'
    BY DEF RelationsHold, Resolves
  <2> DEFINE v == record[y][g]  d == Target(g)
  <2>1. y \in All(c) /\ y \notin lost /\ record'[y] = record[y] /\ record[y] \in Rows[c]
    BY <1>4
  <2>2. v = None \/ Exists(v)
    BY <2>1 DEF RInv, RelationsHold, Resolves
  <2>3. v = None \/ (v \in Ids[d] /\ d \in Collections)
    BY <2>1, RowsAre, TargetsAre
  <2>4. d # "digiflazz_products"
    BY CollectionsAre, FieldsAre DEF Target
  <2>5. ASSUME v = k
        PROVE  FALSE
    <3>1. d = "digiflazz_credentials" /\ v # None
      BY <2>3, <2>5, CollectionIs, CollectionsAre
    <3>2. c = "digiflazz_products" /\ g = "credential_id"
      BY <3>1, CollectionsAre, FieldsAre DEF Target
    <3>3. Fits(c, record[y])
      BY <2>1 DEF RInv, Matched
    <3>4. record[k].family_id = record[y].family_id
      BY <1>1, <2>5, <3>1, <3>2, <3>3 DEF Fits
    <3> QED BY <2>1, <3>2, <3>4 DEF lost
  <2>6. v # None => record'[v] = record[v]
    <3> HIDE DEF v, d
    <3> QED BY <1>2, <2>3, <2>4, <2>5
  <2>7. v # None => record'[v] \notin {NotYet, Gone}
    BY <2>2, <2>6 DEF Exists
  <2> QED BY <2>1, <2>7 DEF Exists
<1>6. Matched'
  <2> SUFFICES ASSUME NEW c \in Collections, NEW y \in All(c)'
               PROVE  Fits(c, record[y])'
    BY DEF Matched
  <2>1. y \in All(c) /\ record'[y] = record[y] /\ record[y] \in Rows[c]
    BY <1>4
  <2>2. \A row \in Rows[c] : Fits(c, row) => Fits(c, row)'
    BY <1>3, FitsStays
  <2>3. Fits(c, record[y])
    BY <2>1 DEF RInv, Matched
  <2> QED BY <2>1, <2>2, <2>3 DEF Fits, Exists
<1> QED BY <1>3, <1>5, <1>6 DEF RInv

LEMMA RecordsStay ==
  ASSUME RInv, UNCHANGED record
  PROVE  RInv' /\ Ages
<1>1. record' = [y \in AllIds |-> record'[y]]
  BY DEF RInv, Typed
<1> QED BY <1>1, WritesKeep

-------------------------------------------------------------------------------
(***************************************************************************)
(* The jobs.                                                               *)
(***************************************************************************)

LEMMA JobShape ==
  ASSUME NEW j \in Jobs
  PROVE  /\ j.pc \in {"idle", "seed", "balance", "save", "link"}
         /\ j.pc \in {"seed", "balance"} => j.family \in Ids["families"]
         /\ j.pc = "save" =>
              /\ j.collection \in Collections /\ j.row \in Rows[j.collection]
              /\ j.for # None => j.collection = "transactions" /\ j.for \in Ids["digiflazz_orders"]
         /\ j.pc = "link" => j.for \in Ids["digiflazz_orders"] /\ j.txn \in Ids["transactions"]
<1>1. CASE j = Idle
  BY <1>1 DEF Idle
<1>2. CASE j \in Setups
  BY <1>2 DEF Setups
<1>3. CASE \E c \in Collections : j \in Saves(c)
  <2>1. PICK c \in Collections : j \in Saves(c)
    BY <1>3
  <2>2. /\ j.pc = "save" /\ j.collection = c /\ j.row \in Rows[c]
        /\ j.for # None => c = "transactions" /\ j.for \in Ids["digiflazz_orders"]
    BY <2>1 DEF Saves
  <2> QED BY <2>2
<1>4. CASE j \in Links
  BY <1>4 DEF Links
<1>5. j = Idle \/ j \in Setups \/ (\E c \in Collections : j \in Saves(c)) \/ j \in Links
  <2>1. j \in SaveJobs => \E c \in Collections : j \in Saves(c)
    BY DEF SaveJobs
  <2> QED BY <2>1 DEF Jobs
<1> QED BY <1>1, <1>2, <1>3, <1>4, <1>5

LEMMA JobsAre ==
  ASSUME NEW j \in Jobs
  PROVE  j.pc \in {"seed", "balance"} => j \in Setups
<1>1. j = Idle => j.pc = "idle"
  BY DEF Idle
<1>2. j \in SaveJobs => j.pc = "save"
  BY DEF SaveJobs, Saves
<1>3. j \in Links => j.pc = "link"
  BY DEF Links
<1> QED BY <1>1, <1>2, <1>3 DEF Jobs

LEMMA SavingFits ==
  ASSUME NEW c \in Collections, NEW row \in Rows[c],
         NEW for \in {None} \cup
                     (IF c = "transactions" THEN Ids["digiflazz_orders"] ELSE {})
  PROVE  /\ Saving(c, row, for) \in Jobs
         /\ Saving(c, row, for).collection = c /\ Saving(c, row, for).row = row
<1>1. Saving(c, row, for) \in Saves(c)
  BY DEF Saving, Saves
<1> QED BY <1>1 DEF Saving, SaveJobs, Jobs

LEMMA JobsStay ==
  ASSUME IInv, RInv', Ages, UNCHANGED job
  PROVE  IInv'
<1>1. ASSUME NEW r \in Requests, job[r].pc = "save"
      PROVE  Fits(job[r].collection, job[r].row)'
  <2>1. job[r].collection \in Collections /\ job[r].row \in Rows[job[r].collection]
    BY <1>1, JobShape DEF IInv, JobsFit
  <2>2. Fits(job[r].collection, job[r].row)
    BY <1>1 DEF IInv, JobsFit
  <2>3. \A c \in Collections : \A row \in Rows[c] : Fits(c, row) => Fits(c, row)'
    BY FitsStays
  <2> QED BY <2>1, <2>2, <2>3 DEF Fits, Exists
<1> QED BY <1>1 DEF IInv, JobsFit

\* One request goes on.
LEMMA JobMoves ==
  ASSUME IInv, RInv', Ages, NEW r \in Requests, NEW j \in Jobs,
         j.pc = "save" => Fits(j.collection, j.row)',
         job' = [job EXCEPT ![r] = j]
  PROVE  IInv'
<1>1. job' \in [Requests -> Jobs] /\ job'[r] = j
      /\ \A p \in Requests : p # r => job'[p] = job[p]
  BY DEF IInv, JobsFit
<1>2. ASSUME NEW p \in Requests, job'[p].pc = "save"
      PROVE  Fits(job[p].collection, job[p].row)'
  <2>1. CASE p = r
    BY <1>1, <1>2, <2>1 DEF Fits, Exists
  <2>2. CASE p # r
    <3>1. job'[p] = job[p] /\ job[p].pc = "save"
      BY <1>1, <1>2, <2>2
    <3>2. job[p].collection \in Collections /\ job[p].row \in Rows[job[p].collection]
      BY <3>1, JobShape DEF IInv, JobsFit
    <3>3. Fits(job[p].collection, job[p].row)
      BY <3>1 DEF IInv, JobsFit
    <3>4. \A c \in Collections : \A row \in Rows[c] : Fits(c, row) => Fits(c, row)'
      BY FitsStays
    <3> QED BY <3>1, <3>2, <3>3, <3>4 DEF Fits, Exists
  <2> QED BY <2>1, <2>2
<1> QED BY <1>1, <1>2 DEF IInv, JobsFit

\* A request has read what it is going to save.
LEMMA BeginKeeps ==
  ASSUME IInv, NEW r \in Requests, NEW c \in Collections, NEW row \in Rows[c],
         NEW for \in {None} \cup
                     (IF c = "transactions" THEN Ids["digiflazz_orders"] ELSE {}),
         Fits(c, row), Begin(r, Saving(c, row, for))
  PROVE  IInv'
<1> DEFINE j == Saving(c, row, for)
<1>1. UNCHANGED record /\ job' = [job EXCEPT ![r] = j]
  BY DEF Begin
<1>2. j \in Jobs /\ j.collection = c /\ j.row = row
  BY SavingFits
<1> HIDE DEF j
<1>3. RInv' /\ Ages
  BY <1>1, RecordsStay DEF IInv
<1>4. Fits(c, row)'
  BY <1>1 DEF Fits, Exists
<1>5. Fits(j.collection, j.row)'
  BY <1>2, <1>4
<1> QED BY <1>1, <1>2, <1>3, <1>5, JobMoves

\* A request is over.
LEMMA IdleKeeps ==
  ASSUME IInv, RInv', Ages, NEW r \in Requests, job' = [job EXCEPT ![r] = Idle]
  PROVE  IInv'
<1>1. Idle \in Jobs /\ Idle.pc # "save"
  BY DEF Idle, Jobs
<1> QED BY <1>1, JobMoves

-------------------------------------------------------------------------------
(***************************************************************************)
(* The steps.                                                              *)
(***************************************************************************)

LEMMA AddKeeps ==
  ASSUME RInv, NEW c \in Collections, NEW x, NEW row \in Rows[c],
         c # "family_balances" => Resolves(c, row), Fits(c, row), Add(x, c, row)
  PROVE  RInv' /\ Ages /\ x \in Ids[c]
<1>1. x \in Ids[c] /\ record[x] = NotYet /\ record' = [record EXCEPT ![x] = row]
  BY DEF Add, IsNew
<1> QED BY <1>1, WriteKeeps

LEMMA SignUpKeeps ==
  ASSUME IInv, NEW u, SignUp(u)
  PROVE  IInv'
<1>1. User \in Rows["users"] /\ "users" \in Collections
  BY CollectionsAre DEF Rows
<1>2. Resolves("users", User) /\ Fits("users", User)
  BY FieldsAre DEF Resolves, Fits
<1>3. Add(u, "users", User) /\ UNCHANGED job
  BY DEF SignUp
<1> QED BY <1>1, <1>2, <1>3, AddKeeps, JobsStay DEF IInv

LEMMA CreateFamilyKeeps ==
  ASSUME IInv, NEW r \in Requests, NEW u \in Ids["users"], NEW f \in Ids["families"],
         NEW m \in Ids["family_members"], CreateFamily(r, u, f, m)
  PROVE  IInv'
<1>1. /\ Exists(u) /\ record[f] = NotYet /\ record[m] = NotYet
      /\ record' = [record EXCEPT ![f] = Family, ![m] = Member(f, u)]
      /\ job' = [job EXCEPT ![r] = [pc |-> "seed", family |-> f]]
  BY DEF CreateFamily, IsNew, All
<1>2. /\ {u, f, m} \subseteq AllIds
      /\ \A d \in Collections : /\ u \in Ids[d] => d = "users"
                                /\ f \in Ids[d] => d = "families"
                                /\ m \in Ids[d] => d = "family_members"
  BY CollectionIs, CollectionsAre
<1>3. /\ Family \in Rows["families"] /\ Member(f, u) \in Rows["family_members"]
      /\ {"users", "families", "family_members"} \subseteq Collections
  BY CollectionsAre DEF Rows, Member
<1>4. f # m /\ u # m /\ u # f
  BY <1>2, <1>3
<1>5. /\ record' = [y \in AllIds |-> record'[y]]
      /\ record'[f] = Family /\ record'[m] = Member(f, u)
      /\ \A y \in AllIds \ {f, m} : record'[y] = record[y]
  <2>1. record = [y \in AllIds |-> record[y]]
    BY DEF IInv, RInv, Typed
  <2>2. f \in AllIds /\ m \in AllIds
    BY <1>2
  <2>3. record' = [y \in AllIds |-> CASE y = m -> Member(f, u) [] y = f -> Family
                                      [] OTHER -> record[y]]
    BY <1>1, <1>4, <2>1, <2>2
  <2> QED BY <1>4, <2>2, <2>3
<1>6. Exists(u)' /\ Exists(f)'
  <2>1. Family \notin {NotYet, Gone}
    BY <1>3, IdsAssumption
  <2>2. record'[u] = record[u]
    BY <1>2, <1>4, <1>5
  <2> QED BY <1>1, <1>5, <2>1, <2>2 DEF Exists
<1>7. Resolves("families", record[f])' /\ Resolves("family_members", record[m])'
  BY <1>5, <1>6, FieldsAre DEF Resolves, Exists, Member
<1>8. Fits("families", record[f])' /\ Fits("family_members", record[m])'
  BY DEF Fits
<1>9. RInv' /\ Ages
  <2>1. ASSUME NEW d \in Collections, NEW y \in Ids[d]
        PROVE  \/ record'[y] = record[y]
               \/ /\ record[y] = NotYet
                  /\ record'[y] \in Rows[d]
                  /\ Resolves(d, record[y])' /\ Fits(d, record[y])'
    <3>1. CASE y = f
      BY <1>1, <1>2, <1>3, <1>5, <1>7, <1>8, <3>1
    <3>2. CASE y = m
      BY <1>1, <1>2, <1>3, <1>5, <1>7, <1>8, <3>2
    <3> QED BY <1>5, <3>1, <3>2, CollectionIs
  <2> QED BY <1>5, <2>1, WritesKeep DEF IInv
<1>10. [pc |-> "seed", family |-> f] \in Jobs
  BY DEF Jobs, Setups
<1> QED BY <1>1, <1>9, <1>10, JobMoves

LEMMA SeedKeeps ==
  ASSUME IInv, NEW r \in Requests, NEW c, SeedMasterCategories(r, c)
  PROVE  IInv'
<1> DEFINE row == Category(job[r].family, TRUE)  j == [job[r] EXCEPT !.pc = "balance"]
<1>1. job[r] \in Setups /\ job[r].pc = "seed" /\ job[r].family \in Ids["families"]
  <2>1. job[r] \in Jobs /\ job[r].pc = "seed"
    BY DEF SeedMasterCategories, IInv, JobsFit
  <2> QED BY <2>1, JobsAre, JobShape
<1>2. j \in Jobs /\ j.pc # "save"
  BY <1>1 DEF Setups, Jobs
<1>3. job' = [job EXCEPT ![r] = j]
  BY DEF SeedMasterCategories
<1>4. RInv' /\ Ages
  <2>1. row \in Rows["categories"] /\ "categories" \in Collections /\ Fits("categories", row)
    BY <1>1, CollectionsAre DEF Rows, Category, Fits
  <2>2. CASE Resolves("categories", row)
    BY <2>1, <2>2, AddKeeps DEF SeedMasterCategories, IInv
  <2>3. CASE ~Resolves("categories", row)
    BY <2>3, RecordsStay DEF SeedMasterCategories, IInv
  <2> QED BY <2>2, <2>3
<1> HIDE DEF j
<1> QED BY <1>2, <1>3, <1>4, JobMoves

LEMMA InsertBalanceKeeps ==
  ASSUME IInv, NEW r \in Requests, NEW b, InsertBalance(r, b)
  PROVE  IInv'
<1> DEFINE row == Balance(job[r].family)
<1>1. job[r].family \in Ids["families"]
  BY JobShape DEF InsertBalance, IInv, JobsFit
<1>2. row \in Rows["family_balances"] /\ "family_balances" \in Collections
      /\ Fits("family_balances", row)
  BY <1>1, CollectionsAre DEF Rows, Balance, Fits
<1>3. Add(b, "family_balances", row) /\ job' = [job EXCEPT ![r] = Idle]
  BY DEF InsertBalance
<1> HIDE DEF row
<1>4. RInv' /\ Ages
  BY <1>2, <1>3, AddKeeps DEF IInv
<1> QED BY <1>3, <1>4, IdleKeeps

\* What a member and their family, and the row of a record, are.
LEMMA MemberFound ==
  ASSUME RInv, NEW u, NEW f, IsMember(u, f)
  PROVE  Exists(u) /\ Exists(f)
<1>1. PICK m \in All("family_members") : record[m] = Member(f, u)
  BY DEF IsMember
<1>2. "family_members" \in Collections \ {"family_balances"}
  BY CollectionsAre
<1>3. record[m] \in Rows["family_members"] /\ Resolves("family_members", record[m])
  BY <1>2, ParentsAre DEF RInv, RelationsHold
<1>4. record[m].family_id = f /\ record[m].user_id = u
  BY <1>1 DEF Member
<1>5. f \in Ids["families"] /\ u \in Ids["users"]
  BY <1>3, <1>4 DEF Rows
<1>6. f # None /\ u # None
  BY <1>5, CollectionIs, CollectionsAre
<1> QED BY <1>3, <1>4, <1>6, FieldsAre DEF Resolves

LEMMA JoinFamilyKeeps ==
  ASSUME IInv, NEW u \in Ids["users"], NEW f \in Ids["families"], NEW m, JoinFamily(u, f, m)
  PROVE  IInv'
<1>1. Member(f, u) \in Rows["family_members"] /\ "family_members" \in Collections
  BY CollectionsAre DEF Rows, Member
<1>2. Resolves("family_members", Member(f, u)) /\ Fits("family_members", Member(f, u))
  BY FieldsAre DEF JoinFamily, All, Resolves, Member, Fits
<1>3. Add(m, "family_members", Member(f, u)) /\ UNCHANGED job
  BY DEF JoinFamily
<1> QED BY <1>1, <1>2, <1>3, AddKeeps, JobsStay DEF IInv

LEMMA CreateCategoryKeeps ==
  ASSUME IInv, NEW u, NEW f \in Ids["families"], NEW c, CreateCategory(u, f, c)
  PROVE  IInv'
<1> DEFINE row == Category(f, FALSE)
<1>1. row \in Rows["categories"] /\ "categories" \in Collections
  BY CollectionsAre DEF Rows, Category
<1>2. Exists(f)
  BY MemberFound DEF CreateCategory, IInv
<1>3. Resolves("categories", row) /\ Fits("categories", row)
  BY <1>2, FieldsAre DEF Resolves, Category, Fits
<1>4. Add(c, "categories", row) /\ UNCHANGED job
  BY DEF CreateCategory
<1> HIDE DEF row
<1> QED BY <1>1, <1>3, <1>4, AddKeeps, JobsStay DEF IInv

LEMMA StoreCredentialKeeps ==
  ASSUME IInv, NEW u, NEW f \in Ids["families"], NEW k, StoreCredential(u, f, k)
  PROVE  IInv'
<1> DEFINE row == Credential(f)  c == "digiflazz_credentials"
<1>1. row \in Rows[c] /\ c \in Collections
  BY CollectionsAre DEF Rows, Credential
<1>2. Exists(f)
  BY MemberFound DEF StoreCredential, IInv
<1>3. Resolves(c, row) /\ Fits(c, row)
  BY <1>2, FieldsAre DEF Resolves, Credential, Fits
<1>4. Add(k, c, row) /\ UNCHANGED job
  BY DEF StoreCredential
<1> HIDE DEF row
<1> QED BY <1>1, <1>3, <1>4, AddKeeps, JobsStay DEF IInv

LEMMA CheckCategoryKeeps ==
  ASSUME IInv, NEW r \in Requests, NEW u \in Ids["users"], NEW f \in Ids["families"],
         NEW c \in Ids["categories"], CheckCategory(r, u, f, c)
  PROVE  IInv'
<1> DEFINE row == Transaction(f, u, c)
<1>1. row \in Rows["transactions"] /\ "transactions" \in Collections
  BY CollectionsAre DEF Rows, Transaction
<1>2. Fits("transactions", row)
  BY DEF CheckCategory, All, Exists, Fits, Transaction
<1>3. Begin(r, Saving("transactions", row, None))
  BY DEF CheckCategory
<1> HIDE DEF row
<1> QED BY <1>1, <1>2, <1>3, BeginKeeps

LEMMA UpdateCategoryKeeps ==
  ASSUME IInv, NEW t \in Ids["transactions"], NEW c \in Ids["categories"],
         UpdateCategory(t, c)
  PROVE  IInv'
<1> DEFINE row == [record[t] EXCEPT !.category_id = c, !.moved = TRUE]
<1>1. "transactions" \in Collections
  BY CollectionsAre
<1>2. t \in All("transactions") /\ Exists(c) /\ UNCHANGED job
      /\ record' = [record EXCEPT ![t] = row]
  BY DEF UpdateCategory, All
<1>3. record[t] \in Rows["transactions"] /\ Resolves("transactions", record[t])
  BY <1>1, <1>2, ParentsAre DEF IInv, RInv, RelationsHold
<1>4. row \in Rows["transactions"] /\ row.moved = TRUE
  BY <1>3 DEF Rows
<1>5. Resolves("transactions", row)
  BY <1>2, <1>3, FieldsAre DEF Resolves, Rows
<1>6. Fits("transactions", row)
  BY <1>4 DEF Fits
<1> HIDE DEF row
<1>7. RInv' /\ Ages
  BY <1>1, <1>2, <1>4, <1>5, <1>6, WriteKeeps DEF IInv
<1> QED BY <1>2, <1>7, JobsStay

LEMMA SyncProductKeeps ==
  ASSUME IInv, NEW r \in Requests, NEW k \in Ids["digiflazz_credentials"], SyncProduct(r, k)
  PROVE  IInv'
<1> DEFINE row == Product(record[k].family_id, k)
<1>1. record[k] \in Rows["digiflazz_credentials"]
  BY CollectionsAre, ParentsAre DEF SyncProduct, IInv, RInv
<1>2. row \in Rows["digiflazz_products"] /\ "digiflazz_products" \in Collections
  BY <1>1, CollectionsAre DEF Rows, Product
<1>3. Fits("digiflazz_products", row)
  BY DEF SyncProduct, All, Exists, Fits, Product
<1>4. Begin(r, Saving("digiflazz_products", row, None))
  BY DEF SyncProduct
<1> HIDE DEF row
<1> QED BY <1>2, <1>3, <1>4, BeginKeeps

LEMMA PlaceOrderKeeps ==
  ASSUME IInv, NEW r \in Requests, NEW u \in Ids["users"], NEW f \in Ids["families"],
         PlaceOrder(r, u, f)
  PROVE  IInv'
<1> DEFINE row == Order(f, u)
<1>1. row \in Rows["digiflazz_orders"] /\ "digiflazz_orders" \in Collections
      /\ Fits("digiflazz_orders", row)
  BY CollectionsAre DEF Rows, Order, Fits
<1>2. Begin(r, Saving("digiflazz_orders", row, None))
  BY DEF PlaceOrder
<1> HIDE DEF row
<1> QED BY <1>1, <1>2, BeginKeeps

LEMMA RecordEventKeeps ==
  ASSUME IInv, NEW r \in Requests, NEW o \in Ids["digiflazz_orders"], RecordEvent(r, o)
  PROVE  IInv'
<1> DEFINE row == Event(o)
<1>1. row \in Rows["digiflazz_events"] /\ "digiflazz_events" \in Collections
      /\ Fits("digiflazz_events", row)
  BY CollectionsAre DEF Rows, Event, Fits
<1>2. Begin(r, Saving("digiflazz_events", row, None))
  BY DEF RecordEvent
<1> HIDE DEF row
<1> QED BY <1>1, <1>2, BeginKeeps

LEMMA FindExpenseCategoryKeeps ==
  ASSUME IInv, NEW r \in Requests, NEW o \in Ids["digiflazz_orders"],
         NEW c \in Ids["categories"], FindExpenseCategory(r, o, c)
  PROVE  IInv'
<1> DEFINE row == Transaction(record[o].family_id, record[o].created_by, c)
<1>1. record[o] \in Rows["digiflazz_orders"]
  BY CollectionsAre, ParentsAre DEF FindExpenseCategory, IInv, RInv
<1>2. row \in Rows["transactions"] /\ "transactions" \in Collections
  BY <1>1, CollectionsAre DEF Rows, Transaction
<1>3. Fits("transactions", row)
  BY DEF FindExpenseCategory, All, Exists, Fits, Transaction
<1>4. Begin(r, Saving("transactions", row, o))
  BY DEF FindExpenseCategory
<1> HIDE DEF row
<1> QED BY <1>2, <1>3, <1>4, BeginKeeps

LEMMA SaveKeeps ==
  ASSUME IInv, NEW r \in Requests, NEW x, Save(r, x)
  PROVE  IInv'
<1> DEFINE c == job[r].collection  row == job[r].row  o == job[r].for
<1>1. /\ c \in Collections /\ row \in Rows[c]
      /\ o # None => c = "transactions" /\ o \in Ids["digiflazz_orders"]
  BY JobShape DEF Save, IInv, JobsFit
<1>2. /\ Fits(c, row) /\ Resolves(c, row) /\ Add(x, c, row)
      /\ job' = [job EXCEPT ![r] = IF o = None THEN Idle
                                   ELSE [pc |-> "link", for |-> o, txn |-> x]]
  BY DEF Save, IInv, JobsFit
<1> HIDE DEF c, row, o
<1>3. RInv' /\ Ages /\ x \in Ids[c]
  BY <1>1, <1>2, AddKeeps DEF IInv
<1>4. CASE o = None
  BY <1>2, <1>3, <1>4, IdleKeeps
<1>5. CASE o # None
  <2> DEFINE j == [pc |-> "link", for |-> o, txn |-> x]
  <2>1. j \in Jobs /\ j.pc # "save"
    BY <1>1, <1>3, <1>5 DEF Jobs, Links
  <2>2. job' = [job EXCEPT ![r] = j]
    BY <1>2, <1>5
  <2> HIDE DEF j
  <2> QED BY <1>3, <2>1, <2>2, JobMoves
<1> QED BY <1>4, <1>5

LEMMA LinkKeeps ==
  ASSUME IInv, NEW r \in Requests, LinkTransactionIfEmpty(r)
  PROVE  IInv'
<1> DEFINE o == job[r].for  row == [record[o] EXCEPT !.transaction_id = job[r].txn]
<1>1. o \in Ids["digiflazz_orders"] /\ job[r].txn \in Ids["transactions"]
  BY JobShape DEF LinkTransactionIfEmpty, IInv, JobsFit
<1>2. "digiflazz_orders" \in Collections
  BY CollectionsAre
<1>3. CASE Exists(o) /\ record[o].transaction_id = None
  <2>1. record' = [record EXCEPT ![o] = row]
    BY <1>3 DEF LinkTransactionIfEmpty
  <2>2. o \in All("digiflazz_orders")
    BY <1>1, <1>3 DEF All
  <2>3. record[o] \in Rows["digiflazz_orders"] /\ Resolves("digiflazz_orders", record[o])
    BY <1>2, <2>2, ParentsAre DEF IInv, RInv, RelationsHold
  <2>4. row \in Rows["digiflazz_orders"]
    BY <1>1, <2>3 DEF Rows
  <2>5. Resolves("digiflazz_orders", row) /\ Fits("digiflazz_orders", row)
    BY <2>3, FieldsAre DEF Resolves, Rows, Fits
  <2> HIDE DEF o, row
  <2>6. RInv' /\ Ages
    BY <1>1, <1>2, <2>1, <2>4, <2>5, WriteKeeps DEF IInv
  <2> QED BY <2>6, IdleKeeps DEF LinkTransactionIfEmpty
<1>4. CASE ~(Exists(o) /\ record[o].transaction_id = None)
  BY <1>4, RecordsStay, IdleKeeps DEF LinkTransactionIfEmpty, IInv
<1> QED BY <1>3, <1>4

-------------------------------------------------------------------------------

LEMMA InitEstablishes ==
  ASSUME Init
  PROVE  IInv
<1>1. /\ \A x \in AllIds : record[x] = IF x \in DOMAIN Established THEN Established[x]
                                       ELSE NotYet
      /\ record = [x \in AllIds |-> record[x]]
      /\ job = [r \in Requests |-> Idle]
  BY DEF Init
<1>2. ASSUME NEW c \in Collections, NEW x \in Ids[c] \cap DOMAIN Established
      PROVE  /\ record[x] = Established[x] /\ record[x] \in Rows[c] /\ Exists(x)
             /\ \A g \in DOMAIN Schema[c] :
                  record[x][g] = None \/ record[x][g] \in DOMAIN Established
  BY <1>1, CollectionIs, EstablishedAssumption, IdsAssumption DEF Exists
<1>3. ASSUME NEW c \in Collections, NEW x \in Ids[c]
      PROVE  Exists(x) <=> x \in DOMAIN Established
  BY <1>1, <1>2, <1>3, CollectionIs DEF Exists
<1>4. Typed
  <2>1. ASSUME NEW c \in Collections, NEW x \in Ids[c]
        PROVE  record[x] \in Rows[c] \cup {NotYet, Gone}
    BY <1>1, <1>2, CollectionIs
  <2> QED BY <1>1, <2>1 DEF Typed
<1>5. RelationsHold
  <2> SUFFICES ASSUME NEW c \in Collections, NEW x \in All(c), NEW g \in DOMAIN Schema[c],
                      record[x][g] # None
               PROVE  Exists(record[x][g])
    BY DEF RelationsHold, Resolves
  <2>1. x \in Ids[c] \cap DOMAIN Established
    BY <1>3 DEF All
  <2>2. record[x][g] \in DOMAIN Established /\ record[x] \in Rows[c]
    BY <1>2, <2>1
  <2>3. record[x][g] \in Ids[Target(g)] /\ Target(g) \in Collections
    BY <2>2, RowsAre, TargetsAre
  <2> QED BY <1>3, <2>2, <2>3
<1>6. Matched
  <2> SUFFICES ASSUME NEW c \in Collections, NEW x \in All(c)
               PROVE  Fits(c, record[x])
    BY DEF Matched
  <2>1. x \in Ids[c] \cap DOMAIN Established
    BY <1>3 DEF All
  <2> DEFINE row == Established[x]
  <2>2. record[x] = row /\ row \in Rows[c]
    BY <1>2, <2>1
  <2>3. \A g \in DOMAIN Schema[c] : row[g] = None \/ row[g] \in DOMAIN Established
    BY <2>1, EstablishedAssumption
  <2>4. CASE c = "digiflazz_products"
    <3>1. /\ row.credential_id \in Ids["digiflazz_credentials"] \cup {None}
          /\ row.credential_id # None => row.credential_id \in DOMAIN Established
      BY <2>2, <2>3, <2>4, FieldsAre DEF Rows
    <3>2. row.credential_id # None =>
            /\ Established[row.credential_id].family_id = row.family_id
            /\ record[row.credential_id] = Established[row.credential_id]
            /\ Exists(row.credential_id)
      <4>1. "digiflazz_credentials" \in Collections
        BY CollectionsAre
      <4>2. x \in Ids["digiflazz_products"] \cap DOMAIN Established
        BY <2>1, <2>4
      <4>3. row.credential_id # None =>
              Established[row.credential_id].family_id = row.family_id
        BY <4>2, EstablishedAssumption
      <4> QED BY <1>2, <3>1, <4>1, <4>3
    <3> QED BY <2>2, <2>4, <3>2 DEF Fits, Exists
  <2>5. CASE c = "transactions"
    <3> DEFINE k == row.category_id
    <3>1. k \in Ids["categories"] /\ "categories" \in Collections
      BY <2>2, <2>5, CollectionsAre DEF Rows
    <3>2. k \in DOMAIN Established
      BY <2>3, <2>5, <3>1, FieldsAre, CollectionIs
    <3>3. record[k] = Established[k] /\ Exists(k)
      BY <1>2, <3>1, <3>2
    <3>4. row.moved \/ Established[k].is_default \/ Established[k].family_id = row.family_id
      BY <2>1, <2>5, EstablishedAssumption
    <3> QED BY <2>2, <2>5, <3>3, <3>4 DEF Fits, Exists
  <2> QED BY <2>4, <2>5 DEF Fits
<1>7. JobsFit
  <2>1. Idle \in Jobs /\ Idle.pc # "save"
    BY DEF Idle, Jobs
  <2> QED BY <1>1, <2>1 DEF JobsFit
<1> QED BY <1>4, <1>5, <1>6, <1>7 DEF IInv, RInv

LEMMA NextKeeps == IInv /\ [Next]_vars => IInv'
<1> SUFFICES ASSUME IInv, [Next]_vars
             PROVE  IInv'
  OBVIOUS
<1>1. ASSUME NEW u \in Ids["users"],
             SignUp(u) \/ DeleteUser(u)
      PROVE  IInv'
  BY <1>1, SignUpKeeps, DeleteKeeps, JobsStay DEF DeleteUser, IInv
<1>2. ASSUME NEW u \in Ids["users"], NEW f \in Ids["families"],
             NEW m \in Ids["family_members"],
             JoinFamily(u, f, m) \/ \E r \in Requests : CreateFamily(r, u, f, m)
      PROVE  IInv'
  BY <1>2, JoinFamilyKeeps, CreateFamilyKeeps
<1>3. ASSUME NEW u \in Ids["users"], NEW f \in Ids["families"], NEW c \in Ids["categories"],
             CreateCategory(u, f, c) \/ \E r \in Requests : CheckCategory(r, u, f, c)
      PROVE  IInv'
  BY <1>3, CreateCategoryKeeps, CheckCategoryKeeps
<1>4. ASSUME NEW u \in Ids["users"], NEW f \in Ids["families"],
             \/ \E k \in Ids["digiflazz_credentials"] : StoreCredential(u, f, k)
             \/ \E r \in Requests : PlaceOrder(r, u, f)
      PROVE  IInv'
  BY <1>4, StoreCredentialKeeps, PlaceOrderKeeps
<1>5. ASSUME NEW x, DeleteFamily(x) \/ LeaveFamily(x) \/ DeleteCategory(x)
                      \/ DeleteTransaction(x) \/ DeleteOrder(x)
      PROVE  IInv'
  BY <1>5, DeleteKeeps, JobsStay
     DEF DeleteFamily, LeaveFamily, DeleteCategory, DeleteTransaction, DeleteOrder, IInv
<1>6. ASSUME NEW t \in Ids["transactions"],
             \E c \in Ids["categories"] : UpdateCategory(t, c)
      PROVE  IInv'
  BY <1>6, UpdateCategoryKeeps
<1>7. ASSUME NEW k \in Ids["digiflazz_credentials"],
             DeleteCredential(k) \/ \E r \in Requests : SyncProduct(r, k)
      PROVE  IInv'
  <2>1. CASE DeleteCredential(k)
    BY <2>1, DeleteCredentialKeeps, JobsStay DEF DeleteCredential, IInv
  <2> QED BY <1>7, <2>1, SyncProductKeeps
<1>8. ASSUME NEW o \in Ids["digiflazz_orders"], NEW r \in Requests,
             \/ RecordEvent(r, o)
             \/ \E c \in Ids["categories"] : FindExpenseCategory(r, o, c)
      PROVE  IInv'
  BY <1>8, RecordEventKeeps, FindExpenseCategoryKeeps
<1>9. ASSUME NEW r \in Requests,
             \/ SaveFails(r) \/ LinkTransactionIfEmpty(r)
             \/ \E c \in Ids["categories"] : SeedMasterCategories(r, c)
             \/ \E b \in Ids["family_balances"] : InsertBalance(r, b)
             \/ \E x \in AllIds : Save(r, x)
      PROVE  IInv'
  <2>1. CASE SaveFails(r)
    BY <2>1, RecordsStay, IdleKeeps DEF SaveFails, IInv
  <2> QED BY <1>9, <2>1, LinkKeeps, SeedKeeps, InsertBalanceKeeps, SaveKeeps
<1>10. CASE UNCHANGED vars
  BY <1>10, RecordsStay, JobsStay DEF vars, IInv
<1> QED BY <1>1, <1>2, <1>3, <1>4, <1>5, <1>6, <1>7, <1>8, <1>9, <1>10 DEF Next

\* The inductive invariant.
THEOREM Invariance == Spec => []IInv
<1>1. Init => IInv
  BY InitEstablishes
<1> QED BY <1>1, NextKeeps, PTL DEF Spec

\* Every relation of a record that was saved leads to a record, whatever is deleted
\* between the checks of a request and its save, for any number of records and requests.
THEOREM RelationsHoldAlways == Spec => []RelationsHold
<1>1. IInv => RelationsHold
  BY DEF IInv, RInv
<1> QED BY <1>1, Invariance, PTL

\* A family changes only by a deletion, and goes by its own.
LEMMA FamilyGoes ==
  ASSUME IInv, Next, NEW f \in All("families"), record'[f] # record[f]
  PROVE  Delete(f)
<1>1. /\ f \in Ids["families"] /\ f \in AllIds /\ Exists(f)
      /\ record = [y \in AllIds |-> record[y]]
      /\ \A c \in Collections : f \in Ids[c] => c = "families"
      /\ {"families", "transactions", "digiflazz_orders", "digiflazz_products",
          "digiflazz_credentials"} \subseteq Collections
  BY CollectionsAre, CollectionIs DEF All, IInv, RInv, Typed
<1>2. ASSUME NEW x, NEW row, record[x] = NotYet, record' = [record EXCEPT ![x] = row]
      PROVE  FALSE
  BY <1>1, <1>2 DEF Exists
<1>3. ASSUME NEW x, NEW c, NEW row, Add(x, c, row)
      PROVE  FALSE
  BY <1>2, <1>3 DEF Add, IsNew
<1>4. ASSUME NEW x, Delete(x)
      PROVE  Delete(f)
  <2>1. record'[f] = IF Doomed(f, x) THEN Gone ELSE Cleared(f, x)
    BY <1>1, <1>4 DEF Delete
  <2>2. Cleared(f, x) = record[f]
    BY <1>1, ClearedIs DEF IInv, RInv
  <2>3. Parents(f) = {}
    BY <1>1, ParentsAre, FieldsAre DEF IInv, RInv
  <2>4. f = x
    BY <2>1, <2>2, <2>3 DEF Doomed
  <2> QED BY <1>4, <2>4
<1>5. ASSUME NEW k \in Ids["digiflazz_credentials"], DeleteCredential(k)
      PROVE  FALSE
  <2>1. f # k /\ f \notin All("digiflazz_products")
    BY <1>1 DEF All
  <2> QED BY <1>1, <1>5, <2>1 DEF DeleteCredential
<1>6. ASSUME NEW t \in Ids["transactions"], NEW c, UpdateCategory(t, c)
      PROVE  FALSE
  <2>1. f # t
    BY <1>1
  <2> QED BY <1>1, <1>6, <2>1 DEF UpdateCategory
<1>7. ASSUME NEW r \in Requests, LinkTransactionIfEmpty(r)
      PROVE  FALSE
  <2>1. job[r].for \in Ids["digiflazz_orders"]
    BY <1>7, JobShape DEF LinkTransactionIfEmpty, IInv, JobsFit
  <2>2. f # job[r].for
    BY <1>1, <2>1
  <2> QED BY <1>1, <1>7, <2>2 DEF LinkTransactionIfEmpty
<1>8. ASSUME NEW r, NEW u, NEW g \in Ids["families"], NEW m, CreateFamily(r, u, g, m)
      PROVE  FALSE
  <2>1. f # g /\ f # m
    BY <1>1, <1>8 DEF CreateFamily, IsNew, Exists
  <2> QED BY <1>1, <1>8, <2>1 DEF CreateFamily
<1>9. ~(UNCHANGED record)
  OBVIOUS
<1>10. ASSUME NEW u \in Ids["users"], SignUp(u) \/ DeleteUser(u)
       PROVE  Delete(f)
  BY <1>3, <1>4, <1>10 DEF SignUp, DeleteUser
<1>11. ASSUME NEW u, NEW g \in Ids["families"], NEW m,
              JoinFamily(u, g, m) \/ \E r \in Requests : CreateFamily(r, u, g, m)
       PROVE  Delete(f)
  BY <1>3, <1>8, <1>11 DEF JoinFamily
<1>12. ASSUME NEW u, NEW g, NEW c,
              CreateCategory(u, g, c) \/ \E r \in Requests : CheckCategory(r, u, g, c)
       PROVE  Delete(f)
  BY <1>3, <1>9, <1>12 DEF CreateCategory, CheckCategory, Begin
<1>13. ASSUME NEW u, NEW g,
              \/ \E k \in Ids["digiflazz_credentials"] : StoreCredential(u, g, k)
              \/ \E r \in Requests : PlaceOrder(r, u, g)
       PROVE  Delete(f)
  BY <1>3, <1>9, <1>13 DEF StoreCredential, PlaceOrder, Begin
<1>14. ASSUME NEW x, DeleteFamily(x) \/ LeaveFamily(x) \/ DeleteCategory(x)
                       \/ DeleteTransaction(x) \/ DeleteOrder(x)
       PROVE  Delete(f)
  BY <1>4, <1>14 DEF DeleteFamily, LeaveFamily, DeleteCategory, DeleteTransaction, DeleteOrder
<1>15. ASSUME NEW k \in Ids["digiflazz_credentials"],
              DeleteCredential(k) \/ \E r \in Requests : SyncProduct(r, k)
       PROVE  Delete(f)
  BY <1>5, <1>9, <1>15 DEF SyncProduct, Begin
<1>16. ASSUME NEW o, NEW r,
              \/ RecordEvent(r, o)
              \/ \E c \in Ids["categories"] : FindExpenseCategory(r, o, c)
       PROVE  Delete(f)
  BY <1>9, <1>16 DEF RecordEvent, FindExpenseCategory, Begin
<1>17. ASSUME NEW r \in Requests,
              \/ SaveFails(r) \/ LinkTransactionIfEmpty(r)
              \/ \E c \in Ids["categories"] : SeedMasterCategories(r, c)
              \/ \E b \in Ids["family_balances"] : InsertBalance(r, b)
              \/ \E x \in AllIds : Save(r, x)
       PROVE  Delete(f)
  <2>1. CASE \E c \in Ids["categories"] : SeedMasterCategories(r, c)
    BY <1>3, <1>9, <2>1 DEF SeedMasterCategories
  <2> QED BY <1>3, <1>7, <1>9, <1>17, <2>1 DEF SaveFails, InsertBalance, Save
<1> QED BY <1>6, <1>10, <1>11, <1>12, <1>13, <1>14, <1>15, <1>16, <1>17 DEF Next

\* The deletion of a family takes a transaction of another with it only through a default
\* category, or a category that an update has given it.
THEOREM DeletionStaysInsideAlways == Spec => DeletionStaysInside
<1>1. ASSUME IInv, Next, NEW f \in All("families"), NEW t \in All("transactions"),
             record'[f] = Gone, record'[t] = Gone, record[t].family_id # f
      PROVE  record[t].moved \/ record[record[t].category_id].is_default
  <2> DEFINE k == record[t].category_id
  <2>1. /\ f \in Ids["families"] /\ Exists(f) /\ t \in Ids["transactions"] /\ t \in AllIds
        /\ Exists(t)
        /\ {"families", "users", "categories", "transactions"} \subseteq Collections
    BY CollectionsAre, CollectionIs DEF All
  <2>2. Delete(f)
    BY <1>1, <2>1, FamilyGoes DEF Exists
  <2>3. /\ record[t] \in [family_id : Ids["families"], created_by : Ids["users"],
                          category_id : Ids["categories"], moved : BOOLEAN]
        /\ Parents(t) = {record[t].family_id, record[t].created_by, k}
    <3>1. record[t] \in Rows["transactions"]
          /\ Parents(t) = {record[t][g] : g \in {"family_id", "created_by", "category_id"}}
      BY <1>1, <2>1, ParentsAre, FieldsAre DEF IInv, RInv
    <3> QED BY <3>1 DEF Rows
  <2>4. \A d \in Collections : /\ f \in Ids[d] => d = "families"
                               /\ t \in Ids[d] => d = "transactions"
    BY <2>1, CollectionIs
  <2>5. Doomed(t, f)
    <3>1. record'[t] = IF Doomed(t, f) THEN Gone ELSE Cleared(t, f)
      BY <2>1, <2>2 DEF Delete
    <3>2. Cleared(t, f) = record[t]
      BY <1>1, <2>1, ClearedIs DEF IInv, RInv
    <3> QED BY <1>1, <2>1, <3>1, <3>2 DEF Exists
  <2>6. t # f /\ record[t].created_by # f /\ k # f
    BY <2>1, <2>3, <2>4
  <2>7. f \in Parents(k)
    <3>1. Parents(record[t].family_id) = {} /\ Parents(record[t].created_by) = {}
      <4>1. ASSUME NEW y, y \in Ids["families"] \cup Ids["users"]
            PROVE  Parents(y) = {}
        <5>1. CASE Exists(y)
          BY <1>1, <2>1, <4>1, <5>1, ParentsAre, FieldsAre DEF IInv, RInv, All
        <5> QED BY <5>1, NoParents
      <4> QED BY <2>3, <4>1
    <3> QED BY <1>1, <2>3, <2>5, <2>6, <3>1 DEF Doomed
  <2>8. k \in All("categories") /\ record[k].family_id = f
    <3>1. k \in Ids["categories"] /\ Exists(k)
      BY <2>3, <2>7, NoParents
    <3>2. Parents(k) = {record[k][g] : g \in {"family_id"}}
      BY <1>1, <2>1, <3>1, ParentsAre, FieldsAre DEF IInv, RInv, All
    <3> QED BY <2>7, <3>1, <3>2 DEF All
  <2>9. Fits("transactions", record[t])
    BY <1>1, <2>1 DEF IInv, RInv, Matched
  <2> QED BY <1>1, <2>8, <2>9 DEF Fits, All
<1>2. IInv /\ [Next]_vars =>
        [\A f \in All("families"), t \in All("transactions") :
           record'[f] = Gone /\ record'[t] = Gone /\ record[t].family_id # f =>
             record[t].moved \/ record[record[t].category_id].is_default]_vars
  BY <1>1
<1> QED BY <1>2, Invariance, PTL DEF Spec, DeletionStaysInside

===============================================================================
