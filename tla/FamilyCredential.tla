---------------------------- MODULE FamilyCredential ----------------------------
(***************************************************************************)
(* The Digiflazz credential of one family, its webhook token, and the      *)
(* catalogue of products synchronized with it.                             *)
(*                                                                         *)
(* Each request runs one operation of the credential service; each         *)
(* statement of the database is one step.  Saving a loaded record writes   *)
(* the columns that differ from what was loaded (PocketBase, external);    *)
(* key and token are parts of one column, api_key, which is written whole. *)
(***************************************************************************)
EXTENDS Naturals, FiniteSets

CONSTANTS
  Requests,    \* requests of the owner, one operation each
  Syncs,       \* runs of the product sync other than Background: cron, manual
  Background,  \* the sync an upsert spawns
  Accounts,    \* accounts at Digiflazz: a username with its api key
  Ids,         \* ids of credential records; never used twice, bound the records created
  Tokens,      \* webhook tokens; never used twice, bound the tokens issued
  Skus,        \* product codes
  Offers,      \* Offers[a]: what the price lists of account a hold
  Bills,       \* the postpaid products; they have a price list of their own
  Unpriced,    \* products whose price, a required column, is 0
  MaxFaults,   \* bound on fetches that fail and on restarts
  NoAccount, NoId, NoToken

ASSUME CredentialAssumption ==
  /\ Background \notin Syncs
  /\ Offers \in [Accounts -> SUBSET Skus]
  /\ Bills \subseteq Skus /\ Unpriced \subseteq Skus
  /\ MaxFaults \in Nat
  /\ NoAccount \notin Accounts /\ NoId \notin Ids /\ NoToken \notin Tokens
  /\ Ids # {} /\ Tokens # {}

VARIABLES
  credentials,  \* credentials[i]: the record with id i, or NoRecord
  usedIds,      \* ids given so far
  issued,       \* tokens handed out so far
  latest,       \* history: the token stored last
  products,     \* products[s]: the row of digiflazz_products, or NoProduct
  request,      \* request[r]: where request r stands, and its locals
  sync,         \* sync[w]: where sync w stands, the credential it was given, what is left
                \* of which list
  faults,
  mixed         \* history: a sync was under way while the credential changed, and the
                \* products have not been cleared since

vars == <<credentials, usedIds, issued, latest, products, request, sync, faults, mixed>>

Workers == Syncs \cup {Background}

NoRecord == [username |-> NoAccount, key |-> NoAccount, token |-> NoToken, payload |-> NoToken]
NoProduct == [account |-> NoAccount, credential |-> NoId]
Stored == {i \in Ids : credentials[i] # NoRecord}

\* Mutation of TokenOf: the token kept with the key wins over the column.
PayloadFirst(record) == IF record.payload # NoToken THEN record.payload ELSE record.token

\* recordToRecord: the column, and for a record older than the column the token that was
\* kept with the key.
TokenOf(record) == IF record.token # NoToken THEN record.token ELSE record.payload

\* GetSecretByWebhookTokenHash: the credential a webhook's token opens.
Lookup(t) == {i \in Stored : TokenOf(credentials[i]) = t}

Fresh == [pc |-> "new", op |-> "none", account |-> NoAccount, id |-> NoId, loaded |-> NoRecord]
Resting == [pc |-> "off", given |-> NoRecord, id |-> NoId, requester |-> NoId,
            bills |-> FALSE, left |-> {}, sku |-> {}, found |-> FALSE]

At(r, pc) == request[r].pc = pc
Goto(r, pc) == request' = [request EXCEPT ![r].pc = pc]
End(r) == request' = [request EXCEPT ![r] = [Fresh EXCEPT !.pc = "done"]]
Runs(w, pc) == sync[w].pc = pc

\* A family without credential, or with one stored before tokens had their column.
Init ==
  /\ LET i == CHOOSE j \in Ids : TRUE  t == CHOOSE j \in Tokens : TRUE IN
       \/ /\ credentials = [j \in Ids |-> NoRecord]
          /\ usedIds = {} /\ issued = {} /\ latest = NoToken
       \/ /\ \E a \in Accounts : credentials = [j \in Ids |-> IF j = i
               THEN [username |-> a, key |-> a, token |-> NoToken, payload |-> t]
               ELSE NoRecord]
          /\ usedIds = {i} /\ issued = {t} /\ latest = t
  /\ products = [s \in Skus |-> NoProduct]
  /\ request = [r \in Requests |-> Fresh]
  /\ sync = [w \in Workers |-> Resting]
  /\ faults = 0
  /\ mixed = FALSE

\* A sync that has been given a credential and may still write products.
Syncing == \E w \in Workers : sync[w].pc # "off"

\* A request has cleared the products and not yet changed the credential.
Changing == \E r \in Requests :
  request[r].op # "rotate" /\ request[r].pc \in {"find", "save", "delete"}

\* Ids and tokens are random; one that is free stands for all.
NewId == CHOOSE i \in Ids \ usedIds : TRUE
NewToken == CHOOSE t \in Tokens \ issued : TRUE

\* A record is inserted and its first token handed out.
Insert(a) ==
  /\ usedIds # Ids /\ issued # Tokens
  /\ credentials' = [credentials EXCEPT ![NewId] =
       [username |-> a, key |-> a, token |-> NewToken, payload |-> NewToken]]
  /\ usedIds' = usedIds \cup {NewId}
  /\ issued' = issued \cup {NewToken}
  /\ latest' = NewToken

-------------------------------------------------------------------------------
(***************************************************************************)
(* Mutations of the steps below.                                           *)
(***************************************************************************)

\* There is no unique index on family_id.
CreatesAnyway(r) ==
  /\ At(r, "create")
  /\ Insert(request[r].account)
  /\ Goto(r, "refetch")
  /\ mixed' = (mixed \/ Syncing)
  /\ UNCHANGED <<products, sync, faults>>

\* The products of the previous account stay.
ClearsNothing(r) ==
  /\ At(r, "clear")
  /\ Goto(r, IF request[r].op = "delete" THEN "delete" ELSE "find")
  /\ UNCHANGED <<credentials, usedIds, issued, latest, products, sync, faults, mixed>>

\* A sync that is over keeps its lock.
KeepsLock(w) ==
  /\ Runs(w, "upsert") /\ sync[w].left = {} /\ sync[w].bills
  /\ sync' = [sync EXCEPT ![w].pc = "stuck"]
  /\ UNCHANGED <<credentials, usedIds, issued, latest, products, request, faults, mixed>>

-------------------------------------------------------------------------------
(***************************************************************************)
(* UpsertCredential, RotateWebhookToken, DeleteCredential.                 *)
(***************************************************************************)

\* The owner's role is checked, and the username and key of an upsert by asking for the
\* account's balance.
Begin(r) ==
  /\ At(r, "new")
  /\ \/ \E a \in Accounts :
          request' = [request EXCEPT ![r] =
            [Fresh EXCEPT !.pc = "count", !.op = "upsert", !.account = a]]
     \/ \E op \in {"rotate", "delete"} :
          request' = [request EXCEPT ![r] = [Fresh EXCEPT !.pc = "load", !.op = op]]
  /\ UNCHANGED <<credentials, usedIds, issued, latest, products, sync, faults, mixed>>

\* More than one credential is an error of its own.
CountByFamilyID(r) ==
  /\ At(r, "count")
  /\ Goto(r, CASE Cardinality(Stored) = 0 -> "create"
               [] Cardinality(Stored) = 1 -> "load"
               [] OTHER                   -> "done")
  /\ UNCHANGED <<credentials, usedIds, issued, latest, products, sync, faults, mixed>>

\* The unique index on family_id refuses a second credential.
Create(r) ==
  /\ At(r, "create")
  /\ \/ /\ Stored = {}
        /\ Insert(request[r].account)
        /\ Goto(r, "refetch")
        /\ mixed' = (mixed \/ Syncing)
     \/ /\ Stored # {}
        /\ End(r)
        /\ UNCHANGED <<credentials, usedIds, issued, latest, mixed>>
  /\ UNCHANGED <<products, sync, faults>>

GetSecretByFamilyID(r) ==
  /\ At(r, "load")
  /\ \/ \E i \in Stored :
          request' = [request EXCEPT ![r].id = i,
                        ![r].pc = IF request[r].op = "rotate" THEN "find" ELSE "clear"]
     \/ Stored = {} /\ End(r)
  /\ UNCHANGED <<credentials, usedIds, issued, latest, products, sync, faults, mixed>>

\* The products of the family are listed and deleted.
DeleteProducts(r) ==
  /\ At(r, "clear")
  /\ products' = [s \in Skus |-> NoProduct]
  /\ mixed' = Syncing
  /\ Goto(r, IF request[r].op = "delete" THEN "delete" ELSE "find")
  /\ UNCHANGED <<credentials, usedIds, issued, latest, sync, faults>>

\* Update loads the record it is going to save.
FindRecord(r) ==
  LET i == request[r].id IN
  /\ At(r, "find")
  /\ request' = [request EXCEPT ![r].loaded = credentials[i],
                                ![r].pc = IF i \in Stored THEN "save" ELSE "done"]
  /\ UNCHANGED <<credentials, usedIds, issued, latest, products, sync, faults, mixed>>

\* An UPDATE of a record that is gone changes nothing and is no error.
SaveUpsert(r) ==
  LET i == request[r].id  a == request[r].account  old == request[r].loaded IN
  /\ At(r, "save") /\ request[r].op = "upsert"
  /\ credentials' = IF i \notin Stored THEN credentials
       ELSE [credentials EXCEPT ![i].username = IF a = old.username THEN @ ELSE a,
                                ![i].key = a,
                                ![i].payload = old.payload]
  /\ request' = [request EXCEPT ![r] = [Fresh EXCEPT !.pc = "refetch"]]
  /\ mixed' = (mixed \/ Syncing)
  /\ UNCHANGED <<usedIds, issued, latest, products, sync, faults>>

\* The new token goes with the key that was loaded.
SaveToken(r) ==
  LET i == request[r].id  old == request[r].loaded IN
  /\ At(r, "save") /\ request[r].op = "rotate"
  /\ issued # Tokens
  /\ issued' = issued \cup {NewToken}
  /\ IF i \notin Stored THEN UNCHANGED <<credentials, latest>>
     ELSE /\ credentials' = [credentials EXCEPT ![i].token = NewToken, ![i].payload = NewToken,
                                                ![i].key = old.key]
          /\ latest' = NewToken
  /\ End(r)
  /\ UNCHANGED <<usedIds, products, sync, faults, mixed>>

\* The products that are left lose their reference to the credential.
DeleteRecord(r) ==
  LET i == request[r].id IN
  /\ At(r, "delete")
  /\ credentials' = [credentials EXCEPT ![i] = NoRecord]
  /\ products' = [s \in Skus |->
       IF products[s].credential = i THEN [products[s] EXCEPT !.credential = NoId]
       ELSE products[s]]
  /\ End(r)
  /\ mixed' = (mixed \/ Syncing)
  /\ UNCHANGED <<usedIds, issued, latest, sync, faults>>

\* The credential is loaded once more and handed to a sync, unless one is in flight; the
\* sync lives in the context of the request.
SpawnProductSync(r) ==
  /\ At(r, "refetch")
  /\ \/ \E i \in Stored :
          /\ Runs(Background, "off")
          /\ sync' = [sync EXCEPT ![Background] = [Resting EXCEPT !.pc = "fetch",
                        !.given = credentials[i], !.id = i, !.requester = r]]
     \/ (Stored = {} \/ ~Runs(Background, "off")) /\ UNCHANGED sync
  /\ Goto(r, "answer")
  /\ UNCHANGED <<credentials, usedIds, issued, latest, products, faults, mixed>>

Answer(r) ==
  /\ At(r, "answer")
  /\ End(r)
  /\ UNCHANGED <<credentials, usedIds, issued, latest, products, sync, faults, mixed>>

(***************************************************************************)
(* The product sync.                                                       *)
(***************************************************************************)

\* The cron lists the active credentials, a manual sync reads the family's.
StartSync(w) ==
  /\ w \in Syncs /\ Runs(w, "off")
  /\ \E i \in Stored :
       sync' = [sync EXCEPT ![w] = [Resting EXCEPT !.pc = "fetch",
                  !.given = credentials[i], !.id = i]]
  /\ UNCHANGED <<credentials, usedIds, issued, latest, products, request, faults, mixed>>

\* The context of a request is cancelled when it has been answered.
Cancelled(w) == w = Background /\ \A r \in Requests : sync[w].requester = r => At(r, "done")

\* DaftarHargaPrabayar, and when its products are done DaftarHargaPascabayar, whatever
\* became of the first.  Digiflazz refuses a username with the key of another account.
FetchPriceList(w) ==
  LET given == sync[w].given
      list == IF sync[w].bills THEN Bills ELSE Skus \ Bills
  IN  /\ Runs(w, "fetch")
      /\ \/ /\ ~Cancelled(w) /\ given.username = given.key
            /\ sync' = [sync EXCEPT ![w].pc = "upsert",
                                    ![w].left = Offers[given.username] \cap list]
            /\ UNCHANGED faults
         \/ /\ Cancelled(w) \/ given.username # given.key
            /\ sync' = [sync EXCEPT ![w].pc = "upsert"]
            /\ UNCHANGED faults
         \/ /\ faults < MaxFaults
            /\ faults' = faults + 1
            /\ sync' = [sync EXCEPT ![w].pc = "upsert"]
      /\ UNCHANGED <<credentials, usedIds, issued, latest, products, request, mixed>>

FindProduct(w) ==
  /\ Runs(w, "upsert")
  /\ \E s \in sync[w].left :
       sync' = [sync EXCEPT ![w].pc = "save", ![w].sku = {s},
                            ![w].found = products[s] # NoProduct]
  /\ UNCHANGED <<credentials, usedIds, issued, latest, products, request, faults, mixed>>

\* What PocketBase validates: a postpaid product has is_prepaid FALSE, and that column is
\* required, as the price is; a required column that is FALSE or 0 is refused.
Storable(s) == s \notin Bills \cup Unpriced

\* Refused when a column is not valid, when the credential is gone (the relation is
\* validated) or another sync has inserted the product (unique index on family and sku); an
\* update of a product deleted in the meantime changes nothing.
SaveProduct(w) ==
  LET saved(s) == /\ Storable(s)
                  /\ sync[w].id \in Stored
                  /\ sync[w].found <=> products[s] # NoProduct
  IN  /\ Runs(w, "save")
      /\ products' = [s \in Skus |-> IF s \in sync[w].sku /\ saved(s)
           THEN [account |-> sync[w].given.username, credential |-> sync[w].id]
           ELSE products[s]]
      /\ sync' = [sync EXCEPT ![w].pc = "upsert", ![w].left = @ \ sync[w].sku,
                              ![w].sku = {}, ![w].found = FALSE]
      /\ mixed' = (mixed \/ Changing)
      /\ UNCHANGED <<credentials, usedIds, issued, latest, request, faults>>

\* The prepaid products are done.
NextPriceList(w) ==
  /\ Runs(w, "upsert") /\ sync[w].left = {} /\ ~sync[w].bills
  /\ sync' = [sync EXCEPT ![w].pc = "fetch", ![w].bills = TRUE]
  /\ UNCHANGED <<credentials, usedIds, issued, latest, products, request, faults, mixed>>

EndSync(w) ==
  /\ Runs(w, "upsert") /\ sync[w].left = {} /\ sync[w].bills
  /\ sync' = [sync EXCEPT ![w] = Resting]
  /\ UNCHANGED <<credentials, usedIds, issued, latest, products, request, faults, mixed>>

\* The process stops between two statements and starts again.
Restart ==
  /\ faults < MaxFaults
  /\ faults' = faults + 1
  /\ request' = [r \in Requests |-> IF At(r, "new") THEN request[r]
                                    ELSE [Fresh EXCEPT !.pc = "done"]]
  /\ sync' = [w \in Workers |-> Resting]
  /\ UNCHANGED <<credentials, usedIds, issued, latest, products, mixed>>

Continue(r) ==
  \/ CountByFamilyID(r) \/ Create(r) \/ GetSecretByFamilyID(r) \/ DeleteProducts(r)
  \/ FindRecord(r) \/ SaveUpsert(r) \/ SaveToken(r) \/ DeleteRecord(r)
  \/ SpawnProductSync(r) \/ Answer(r)

SyncStep(w) ==
  \/ StartSync(w) \/ FetchPriceList(w) \/ FindProduct(w) \/ SaveProduct(w)
  \/ NextPriceList(w) \/ EndSync(w)

Next ==
  \/ \E r \in Requests : Begin(r) \/ Continue(r)
  \/ \E w \in Workers : SyncStep(w)
  \/ Restart

Spec == Init /\ [][Next]_vars

\* Requests come to an end, and the scheduler starts the sync again and again.
FairSpec ==
  /\ Spec
  /\ \A r \in Requests : WF_vars(Continue(r))
  /\ \A w \in Workers : WF_vars(SyncStep(w))

-------------------------------------------------------------------------------
(***************************************************************************)
(* Properties.                                                             *)
(***************************************************************************)

\* However many requests find no credential and create one, the family has one.
OneCredential == Cardinality(Stored) <= 1

\* The token handed out last opens the credential and no other does: neither a token
\* that was rotated away, nor one that an upsert, having loaded the record before the
\* rotation, stores again with its key.
OnlyLatestTokenOpens ==
  /\ \A t \in issued : Lookup(t) # {} => t = latest
  /\ Stored # {} => Lookup(latest) # {}

Quiet == ~Syncing /\ \A r \in Requests : request[r].pc \in {"new", "done"}

\* When nothing is under way the catalogue holds only products of the account that will
\* be charged, unless a sync was under way while the credential changed: such a sync goes
\* on with what it was given and writes after the products were cleared.
CatalogueOfAccount ==
  Quiet /\ ~mixed =>
    \A s \in Skus : products[s] # NoProduct =>
      \E i \in Stored : products[s].credential = i /\ products[s].account = credentials[i].username

\* Once the credential stays, every product its account offers and the schema can store
\* is for sale in the end, even if the sync of the upsert was skipped or cancelled with the
\* request it belonged to, and whatever the products the schema refuses do to a sync.
EventuallyOffered ==
  \A a \in Accounts :
    <>[](\E i \in Stored : credentials[i].username = a /\ credentials[i].key = a) =>
      <>[](\A s \in Offers[a] : Storable(s) => products[s].account = a)

===============================================================================
