----------------------------- MODULE FamilyRecords -----------------------------
(***************************************************************************)
(* The records of the collections and the relations between them: what the *)
(* schema makes of the deletion of a user, a family, a category, ... while *)
(* requests that have read a record are about to save another one that     *)
(* refers to it.                                                           *)
(*                                                                         *)
(* PocketBase (external) saves a record only if every record it refers to  *)
(* exists, and deletes in one transaction a record, all that refer to it   *)
(* through a cascading relation and what refers to those; a relation that  *)
(* does not cascade is cleared.  Raw SQL is not validated.                 *)
(*                                                                         *)
(* The master categories a migration stores, which belong to no family and *)
(* go with none, are not records of the model, only the copies made of     *)
(* them for each family.                                                   *)
(***************************************************************************)
EXTENDS Integers, FiniteSets

CONSTANTS
  Ids,          \* Ids[c]: the record ids of collection c, none ever used twice
  Requests,     \* requests served concurrently
  Established,  \* the records there are at the beginning, a function from ids
  MaxRecords,   \* bound on the records ever created
  None,         \* an empty relation
  NotYet, Gone  \* records before and after their life

VARIABLES
  record,   \* record[x]: the record with id x
  job       \* job[r]: what request r is about to save

vars == <<record, job>>

-------------------------------------------------------------------------------
(***************************************************************************)
(* The schema: the relations of each collection.                           *)
(***************************************************************************)

family_members == [family_id |-> "cascade", user_id |-> "cascade"]

categories == [family_id |-> "cascade"]

transactions ==
  [family_id |-> "cascade", created_by |-> "cascade", category_id |-> "cascade"]

digiflazz_credentials == [family_id |-> "cascade"]

digiflazz_products == [family_id |-> "cascade", credential_id |-> "unset"]

digiflazz_orders == [family_id |-> "cascade", created_by |-> "cascade"]

digiflazz_events == [order_id |-> "cascade"]

family_balances == [family_id |-> "cascade"]

NoRelation == [x \in {} |-> "unset"]

Schema ==
  [users |-> NoRelation, families |-> NoRelation, family_members |-> family_members,
   categories |-> categories, transactions |-> transactions,
   digiflazz_credentials |-> digiflazz_credentials,
   digiflazz_products |-> digiflazz_products, digiflazz_orders |-> digiflazz_orders,
   digiflazz_events |-> digiflazz_events, family_balances |-> family_balances]

Collections == DOMAIN Schema
AllIds == UNION {Ids[c] : c \in Collections}
CollectionOf == [x \in AllIds |-> CHOOSE c \in Collections : x \in Ids[c]]
Exists(x) == record[x] \notin {NotYet, Gone}
All(c) == {x \in Ids[c] : Exists(x)}

(***************************************************************************)
(* The records, reduced to their relations and what decides about them.    *)
(***************************************************************************)

User == [name |-> "user"]

Family == [name |-> "family"]

Member(f, u) == [family_id |-> f, user_id |-> u]

Category(f, is_default) == [family_id |-> f, is_default |-> is_default]

\* moved is history: an update has given it another category.
Transaction(f, u, c) ==
  [family_id |-> f, created_by |-> u, category_id |-> c, moved |-> FALSE]

Credential(f) == [family_id |-> f]

Product(f, k) == [family_id |-> f, credential_id |-> k]

Order(f, u) == [family_id |-> f, created_by |-> u, transaction_id |-> None]

Event(o) == [order_id |-> o]

Balance(f) == [family_id |-> f]

\* Rows[c]: what the schema lets a record of collection c be; a required relation is an id.
Rows ==
  LET families == Ids["families"]  users == Ids["users"] IN
  [users |-> {User}, families |-> {Family},
   family_members |-> [family_id : families, user_id : users],
   categories |-> [family_id : families, is_default : BOOLEAN],
   transactions |-> [family_id : families, created_by : users,
                     category_id : Ids["categories"], moved : BOOLEAN],
   digiflazz_credentials |-> [family_id : families],
   digiflazz_products |-> [family_id : families,
                           credential_id : Ids["digiflazz_credentials"] \cup {None}],
   digiflazz_orders |-> [family_id : families, created_by : users,
                         transaction_id : Ids["transactions"] \cup {None}],
   digiflazz_events |-> [order_id : Ids["digiflazz_orders"]],
   family_balances |-> [family_id : families]]

ASSUME IdsAssumption ==
  /\ \A c, d \in Collections : c # d => Ids[c] \cap Ids[d] = {}
  /\ None \notin AllIds /\ NotYet # Gone
  /\ \A c \in Collections : NotYet \notin Rows[c] /\ Gone \notin Rows[c]

\* The records there are at the beginning have been saved by requests like those below.
ASSUME EstablishedAssumption ==
  LET there(c) == Ids[c] \cap DOMAIN Established IN
  /\ DOMAIN Established \subseteq AllIds
  /\ \A c \in Collections : \A x \in there(c) :
       /\ Established[x] \in Rows[c]
       /\ \A field \in DOMAIN Schema[c] :
            Established[x][field] = None \/ Established[x][field] \in DOMAIN Established
  /\ \A p \in there("digiflazz_products") :
       LET row == Established[p] IN
       row.credential_id # None => Established[row.credential_id].family_id = row.family_id
  /\ \A t \in there("transactions") :
       LET row == Established[t]  category == Established[row.category_id] IN
       row.moved \/ category.is_default \/ category.family_id = row.family_id

IsMember(u, f) == \E m \in All("family_members") : record[m] = Member(f, u)

-------------------------------------------------------------------------------

Idle == [pc |-> "idle"]

\* About to save row as a new record of collection c; for is the order it is about.
Saving(c, row, for) == [pc |-> "save", collection |-> c, row |-> row, for |-> for]

Begin(r, next) ==
  /\ job[r] = Idle
  /\ job' = [job EXCEPT ![r] = next]
  /\ UNCHANGED record

Used == {x \in AllIds : record[x] # NotYet}
IsNew(x, c) ==
  /\ x \in Ids[c] /\ record[x] = NotYet
  /\ Cardinality(Used) < MaxRecords

Add(x, c, row) == IsNew(x, c) /\ record' = [record EXCEPT ![x] = row]

Init ==
  /\ record = [x \in AllIds |-> IF x \in DOMAIN Established THEN Established[x] ELSE NotYet]
  /\ job = [r \in Requests |-> Idle]

\* What the validation of a record asks of its relations.
Resolves(c, row) ==
  \A field \in DOMAIN Schema[c] : row[field] = None \/ Exists(row[field])

\* The relations of record y with that rule, "cascade" or "unset".
Under(rule, y) ==
  LET schema == Schema[CollectionOf[y]]
  IN  {field \in DOMAIN schema : Exists(y) /\ schema[field] = rule}

Parents(y) == {record[y][field] : field \in Under("cascade", y)}

\* Whether y goes when x goes; no chain of relations is longer than event, order, family.
Doomed(y, x) == y = x \/ \E z \in Parents(y) : z = x \/ x \in Parents(z)

\* The record y without its relations to what goes when x goes.
Cleared(y, x) ==
  LET lost == {field \in Under("unset", y) :
                 record[y][field] # None /\ Doomed(record[y][field], x)}
  IN  IF lost = {} THEN record[y]
      ELSE [field \in DOMAIN record[y] |-> IF field \in lost THEN None ELSE record[y][field]]

Delete(x) == record' = [y \in AllIds |-> IF Doomed(y, x) THEN Gone ELSE Cleared(y, x)]

-------------------------------------------------------------------------------
(***************************************************************************)
(* Users and families.                                                     *)
(***************************************************************************)

SignUp(u) == Add(u, "users", User) /\ UNCHANGED job

\* CreateFamily: the family and its owner in one transaction, then the hook.
CreateFamily(r, u, f, m) ==
  /\ job[r] = Idle
  /\ u \in All("users")
  /\ IsNew(f, "families") /\ IsNew(m, "family_members")
  /\ record' = [record EXCEPT ![f] = Family, ![m] = Member(f, u)]
  /\ job' = [job EXCEPT ![r] = [pc |-> "seed", family |-> f]]

\* SeedMasterCategories, one category standing for the copies of all masters; when
\* it fails this is logged.
SeedMasterCategories(r, c) ==
  /\ job[r].pc = "seed"
  /\ LET row == Category(job[r].family, TRUE) IN
       IF Resolves("categories", row)
       THEN Add(c, "categories", row)
       ELSE UNCHANGED record
  /\ job' = [job EXCEPT ![r].pc = "balance"]

\* INSERT INTO family_balances: raw SQL.
InsertBalance(r, b) ==
  /\ job[r].pc = "balance"
  /\ Add(b, "family_balances", Balance(job[r].family))
  /\ job' = [job EXCEPT ![r] = Idle]

JoinFamily(u, f, m) ==
  /\ u \in All("users") /\ f \in All("families") /\ ~IsMember(u, f)
  /\ Add(m, "family_members", Member(f, u))
  /\ UNCHANGED job

LeaveFamily(m) == m \in All("family_members") /\ Delete(m) /\ UNCHANGED job

DeleteUser(u) == u \in All("users") /\ Delete(u) /\ UNCHANGED job

DeleteFamily(f) == f \in All("families") /\ Delete(f) /\ UNCHANGED job

-------------------------------------------------------------------------------
(***************************************************************************)
(* Categories, transactions, credentials, products and orders.  What a     *)
(* request finds when it begins, and what it saves later, after the call   *)
(* of another service, are two steps.                                      *)
(***************************************************************************)

CreateCategory(u, f, c) ==
  /\ IsMember(u, f)
  /\ Add(c, "categories", Category(f, FALSE))
  /\ UNCHANGED job

\* The rule of the collection keeps the default categories.
DeleteCategory(c) ==
  /\ c \in All("categories") /\ ~record[c].is_default
  /\ Delete(c)
  /\ UNCHANGED job

ChecksExistence(r, u, f, c) ==
  /\ IsMember(u, f)
  /\ c \in All("categories")
  /\ Begin(r, Saving("transactions", Transaction(f, u, c), None))

\* CreateTransaction: the category is the family's own, or a default one.
CheckCategory(r, u, f, c) ==
  /\ IsMember(u, f)
  /\ c \in All("categories") /\ (record[c].is_default \/ record[c].family_id = f)
  /\ Begin(r, Saving("transactions", Transaction(f, u, c), None))

\* UpdateTransaction: the category exists.
UpdateCategory(t, c) ==
  /\ t \in All("transactions") /\ c \in All("categories")
  /\ record' = [record EXCEPT ![t].category_id = c, ![t].moved = TRUE]
  /\ UNCHANGED job

DeleteTransaction(t) == t \in All("transactions") /\ Delete(t) /\ UNCHANGED job

StoreCredential(u, f, k) ==
  /\ IsMember(u, f)
  /\ \A other \in All("digiflazz_credentials") : record[other].family_id # f
  /\ Add(k, "digiflazz_credentials", Credential(f))
  /\ UNCHANGED job

\* DeleteByFamilyID for the products, then the credential.
DeleteCredential(k) ==
  LET products == {p \in All("digiflazz_products") : record[p].family_id = record[k].family_id}
  IN  /\ k \in All("digiflazz_credentials")
      /\ record' = [x \in AllIds |-> IF x \in products \cup {k} THEN Gone ELSE record[x]]
      /\ UNCHANGED job

SyncProduct(r, k) ==
  /\ k \in All("digiflazz_credentials")
  /\ Begin(r, Saving("digiflazz_products", Product(record[k].family_id, k), None))

\* executePrepaidOrder: the product and the credential are looked up, then Digiflazz
\* is called, then the order is saved.
PlaceOrder(r, u, f) ==
  /\ IsMember(u, f)
  /\ \E p \in All("digiflazz_products") : record[p].family_id = f
  /\ \E k \in All("digiflazz_credentials") : record[k].family_id = f
  /\ Begin(r, Saving("digiflazz_orders", Order(f, u), None))

DeleteOrder(o) == o \in All("digiflazz_orders") /\ Delete(o) /\ UNCHANGED job

\* A webhook or a poll about to store an event.
RecordEvent(r, o) ==
  /\ o \in All("digiflazz_orders")
  /\ Begin(r, Saving("digiflazz_events", Event(o), None))

\* finalizeSuccessOrder: an order without expense, and the category for it.
FindExpenseCategory(r, o, c) ==
  /\ o \in All("digiflazz_orders") /\ record[o].transaction_id = None
  /\ c \in All("categories") /\ record[c].family_id = record[o].family_id
  /\ Begin(r, Saving("transactions",
                     Transaction(record[o].family_id, record[o].created_by, c), o))

SavesUnchecked(r, x) ==
  /\ job[r].pc = "save"
  /\ Add(x, job[r].collection, job[r].row)
  /\ job' = [job EXCEPT ![r] = Idle]

\* app.Save: an error ends the request.
Save(r, x) ==
  /\ job[r].pc = "save" /\ x \in Ids[job[r].collection]
  /\ Resolves(job[r].collection, job[r].row)
  /\ Add(x, job[r].collection, job[r].row)
  /\ job' = [job EXCEPT ![r] = IF job[r].for = None THEN Idle
                               ELSE [pc |-> "link", for |-> job[r].for, txn |-> x]]

SaveFails(r) ==
  /\ job[r].pc = "save"
  /\ ~Resolves(job[r].collection, job[r].row)
  /\ job' = [job EXCEPT ![r] = Idle]
  /\ UNCHANGED record

\* LinkTransactionIfEmpty: transaction_id is a text, nothing validates it.
LinkTransactionIfEmpty(r) ==
  LET o == job[r].for IN
  /\ job[r].pc = "link"
  /\ record' = IF Exists(o) /\ record[o].transaction_id = None
               THEN [record EXCEPT ![o].transaction_id = job[r].txn] ELSE record
  /\ job' = [job EXCEPT ![r] = Idle]

Next ==
  \/ \E u \in Ids["users"] :
       \/ SignUp(u) \/ DeleteUser(u)
       \/ \E f \in Ids["families"] :
            \/ \E m \in Ids["family_members"] :
                 JoinFamily(u, f, m) \/ \E r \in Requests : CreateFamily(r, u, f, m)
            \/ \E c \in Ids["categories"] :
                 CreateCategory(u, f, c) \/ \E r \in Requests : CheckCategory(r, u, f, c)
            \/ \E k \in Ids["digiflazz_credentials"] : StoreCredential(u, f, k)
            \/ \E r \in Requests : PlaceOrder(r, u, f)
  \/ \E f \in Ids["families"] : DeleteFamily(f)
  \/ \E m \in Ids["family_members"] : LeaveFamily(m)
  \/ \E c \in Ids["categories"] : DeleteCategory(c)
  \/ \E t \in Ids["transactions"] :
       DeleteTransaction(t) \/ \E c \in Ids["categories"] : UpdateCategory(t, c)
  \/ \E k \in Ids["digiflazz_credentials"] :
       DeleteCredential(k) \/ \E r \in Requests : SyncProduct(r, k)
  \/ \E o \in Ids["digiflazz_orders"] :
       \/ DeleteOrder(o)
       \/ \E r \in Requests : RecordEvent(r, o)
       \/ \E r \in Requests, c \in Ids["categories"] : FindExpenseCategory(r, o, c)
  \/ \E r \in Requests :
       \/ SaveFails(r) \/ LinkTransactionIfEmpty(r)
       \/ \E c \in Ids["categories"] : SeedMasterCategories(r, c)
       \/ \E b \in Ids["family_balances"] : InsertBalance(r, b)
       \/ \E x \in AllIds : Save(r, x)

Spec == Init /\ [][Next]_vars

-------------------------------------------------------------------------------
(***************************************************************************)
(* Properties.                                                             *)
(***************************************************************************)

\* Every relation of a record that PocketBase has saved leads to a record, whatever
\* was deleted between the checks of the request that saved it and its save.  (The row
\* of family_balances is inserted by SQL and may be left to a family already deleted.)
RelationsHold ==
  \A c \in Collections \ {"family_balances"} :
    \A x \in All(c) : Resolves(c, record[x])

\* The deletion of a family takes a transaction of another family with it only when
\* that transaction was created with a default category of the deleted family, which
\* CreateTransaction lets pass, or was given its category by UpdateTransaction, which
\* does not ask whose category it is.
DeletionStaysInside ==
  [][\A f \in All("families"), t \in All("transactions") :
       record'[f] = Gone /\ record'[t] = Gone /\ record[t].family_id # f =>
         record[t].moved \/ record[record[t].category_id].is_default]_vars

===============================================================================
