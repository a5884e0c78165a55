------------------------ MODULE FamilyCredentialProofs ------------------------
(***************************************************************************)
(* Proofs about FamilyCredential: that a family has one credential, that   *)
(* the token handed out last and no other opens it, and that a catalogue   *)
(* nobody has disturbed is the one of the account that will be charged.    *)
(*                                                                         *)
(* The invariant has six parts besides the types:                         *)
(*   Single   no two records are stored                                    *)
(*   Opening  the stored record answers to the token handed out last, and  *)
(*            what an upsert has loaded of an old record is still in it    *)
(*   OnTrack  where a request can be with which operation                  *)
(*   Named    records and syncs under way have a username                  *)
(*   Clean    while nothing has been mixed, the products belong to the     *)
(*            stored record, are gone while the record is about to change, *)
(*            and every sync works with the stored account                 *)
(***************************************************************************)
EXTENDS FamilyCredential, FiniteSetTheorems, TLAPS

Secret == [username : Accounts \cup {NoAccount}, key : Accounts \cup {NoAccount},
           token : Tokens \cup {NoToken}, payload : Tokens \cup {NoToken}]

Product == [account : Accounts \cup {NoAccount}, credential : Ids \cup {NoId}]

RequestPCs == {"new", "count", "create", "load", "clear", "find", "save", "delete", "refetch",
               "answer", "done"}

Request == [pc : RequestPCs, op : {"none", "upsert", "rotate", "delete"},
            account : Accounts \cup {NoAccount}, id : Ids \cup {NoId}, loaded : Secret]

Sync == [pc : {"off", "fetch", "upsert", "save"}, given : Secret, id : Ids \cup {NoId},
         requester : Requests \cup {NoId}, bills : BOOLEAN, left : SUBSET Skus,
         sku : SUBSET Skus, found : BOOLEAN]

Typed ==
  /\ credentials \in [Ids -> Secret]
  /\ usedIds \subseteq Ids
  /\ issued \subseteq Tokens
  /\ latest \in Tokens \cup {NoToken}
  /\ products \in [Skus -> Product]
  /\ request \in [Requests -> Request]
  /\ sync \in [Workers -> Sync]
  /\ mixed \in BOOLEAN

Single == \A i, k \in Stored : i = k

\* An upsert stores the token it has loaded again: it does no harm where the column has a
\* token, and elsewhere nobody has changed what was loaded.
Opening ==
  /\ \A i \in Stored : TokenOf(credentials[i]) = latest
  /\ \A r \in Requests :
       LET i == request[r].id IN
       request[r].pc = "save" /\ i \in Stored /\ credentials[i].token = NoToken =>
         request[r].loaded.payload = credentials[i].payload

OnTrack ==
  \A r \in Requests :
    /\ request[r].pc \in {"find", "save", "delete", "clear"} => request[r].id \in Ids
    /\ request[r].pc = "delete" => request[r].op = "delete"
    /\ request[r].pc = "clear" => request[r].op # "rotate"
    /\ request[r].pc \in {"count", "create"} => request[r].op = "upsert"
    /\ request[r].op = "upsert" => request[r].account \in Accounts

\* Whatever is stored, and whatever a sync fetches with, has a username.
Named ==
  /\ \A i \in Stored : credentials[i].username \in Accounts
  /\ \A w \in Workers : sync[w].pc # "off" => sync[w].given.username \in Accounts

\* A product of the stored record, under the account it has.
Belongs(p) ==
  \E i \in Stored : p.credential = i /\ p.account = credentials[i].username

\* What a sync was given is what is stored.
Current(s) ==
  s.pc # "off" => s.id \in Stored /\ s.given.username = credentials[s.id].username

Clean ==
  ~mixed =>
    /\ \A s \in Skus : products[s] # NoProduct => Belongs(products[s])
    /\ Changing => \A s \in Skus : products[s] = NoProduct
    /\ \A w \in Workers : Current(sync[w])

IInv == Typed /\ Single /\ Opening /\ OnTrack /\ Named /\ Clean

-------------------------------------------------------------------------------
(***************************************************************************)
(* The constants of the model.                                             *)
(***************************************************************************)

LEMMA NoRecordTyped == NoRecord \in Secret /\ NoProduct \in Product
BY DEF NoRecord, NoProduct, Secret, Product

LEMMA FreshTyped ==
  /\ Fresh \in Request
  /\ \A pc \in RequestPCs : [Fresh EXCEPT !.pc = pc] \in Request
BY NoRecordTyped DEF Fresh, Request, RequestPCs

LEMMA RestingTyped == Resting \in Sync
BY NoRecordTyped DEF Resting, Sync

\* Ids and tokens are new.
LEMMA NewIsNew ==
  /\ Typed /\ usedIds # Ids => NewId \in Ids \ usedIds
  /\ Typed /\ issued # Tokens => NewToken \in Tokens \ issued
<1>1. Typed /\ usedIds # Ids => Ids \ usedIds # {}
  BY DEF Typed
<1>2. Typed /\ issued # Tokens => Tokens \ issued # {}
  BY DEF Typed
<1> QED BY <1>1, <1>2 DEF NewId, NewToken

-------------------------------------------------------------------------------
(***************************************************************************)
(* The initial states.                                                     *)
(***************************************************************************)

LEMMA InitEstablishes ==
  ASSUME Init
  PROVE  IInv
<1>1. /\ products = [s \in Skus |-> NoProduct]
      /\ request = [r \in Requests |-> Fresh]
      /\ sync = [w \in Workers |-> Resting]
      /\ mixed = FALSE
  BY DEF Init
<1>2. OnTrack /\ Clean /\ \A r \in Requests : request[r].pc = "new"
  BY <1>1 DEF OnTrack, Clean, Changing, Current, Fresh, Resting
<1>3. \A w \in Workers : sync[w].pc = "off"
  BY <1>1 DEF Resting
<1>4. products \in [Skus -> Product] /\ request \in [Requests -> Request]
      /\ sync \in [Workers -> Sync]
  BY <1>1, NoRecordTyped, FreshTyped, RestingTyped
<1>5. CASE /\ credentials = [j \in Ids |-> NoRecord]
           /\ usedIds = {} /\ issued = {} /\ latest = NoToken
  <2>1. Typed
    BY <1>1, <1>4, <1>5, NoRecordTyped DEF Typed
  <2>2. Stored = {}
    BY <1>5 DEF Stored
  <2> QED BY <1>2, <1>3, <2>1, <2>2 DEF IInv, Single, Opening, Named
<1>6. ASSUME NEW i \in Ids, NEW t \in Tokens, NEW a \in Accounts,
             credentials = [j \in Ids |-> IF j = i
               THEN [username |-> a, key |-> a, token |-> NoToken, payload |-> t]
               ELSE NoRecord],
             usedIds = {i}, issued = {t}, latest = t
      PROVE  IInv
  <2>1. [username |-> a, key |-> a, token |-> NoToken, payload |-> t] \in Secret
    BY DEF Secret
  <2>2. Typed
    BY <1>1, <1>4, <1>6, <2>1, NoRecordTyped DEF Typed
  <2>3. Stored \subseteq {i}
    BY <1>6 DEF Stored
  <2>4. TokenOf(credentials[i]) = latest
    BY <1>6 DEF TokenOf
  <2>5. credentials[i].username = a
    BY <1>6
  <2> QED BY <1>2, <1>3, <2>2, <2>3, <2>4, <2>5 DEF IInv, Single, Opening, Named
<1> DEFINE i0 == CHOOSE j \in Ids : TRUE
           t0 == CHOOSE j \in Tokens : TRUE
<1>7. i0 \in Ids /\ t0 \in Tokens
  BY CredentialAssumption
<1>8. \/ /\ credentials = [j \in Ids |-> NoRecord]
         /\ usedIds = {} /\ issued = {} /\ latest = NoToken
      \/ \E a \in Accounts :
           /\ credentials = [j \in Ids |-> IF j = i0
                THEN [username |-> a, key |-> a, token |-> NoToken, payload |-> t0]
                ELSE NoRecord]
           /\ usedIds = {i0} /\ issued = {t0} /\ latest = t0
  BY DEF Init
<1> HIDE DEF i0, t0
<1> QED BY <1>5, <1>6, <1>7, <1>8

-------------------------------------------------------------------------------
(***************************************************************************)
(* Steps that change no credential.                                        *)
(***************************************************************************)

\* A request takes a step that leaves the tables alone: its new locals must fit.
LEMMA RequestMoves ==
  ASSUME IInv, NEW r \in Requests, NEW q \in Request, request' = [request EXCEPT ![r] = q],
         UNCHANGED <<credentials, usedIds, issued, latest, products, sync, mixed>>,
         q.pc \in {"find", "save", "delete", "clear"} => q.id \in Ids,
         q.pc = "delete" => q.op = "delete",
         q.pc = "clear" => q.op # "rotate",
         q.pc \in {"count", "create"} => q.op = "upsert",
         q.op = "upsert" => q.account \in Accounts,
         q.pc = "save" /\ q.id \in Stored => q.loaded.payload = credentials[q.id].payload,
         q.op # "rotate" /\ q.pc \in {"find", "save", "delete"} => Changing
  PROVE  IInv'
<1>1. \A p \in Requests : request'[p] = IF p = r THEN q ELSE request[p]
  BY DEF IInv, Typed
<1>2. Typed'
  BY DEF IInv, Typed
<1>3. Stored' = Stored
  BY DEF Stored
<1>4. Single'
  BY <1>3 DEF IInv, Single
<1>5. Opening'
  BY <1>1, <1>3 DEF IInv, Opening, TokenOf
<1>6. OnTrack' /\ Named'
  BY <1>1, <1>3 DEF IInv, OnTrack, Named
<1>7. Changing' => Changing
  BY <1>1 DEF Changing
<1>8. Clean'
  BY <1>3, <1>7 DEF IInv, Clean, Belongs, Current
<1> QED BY <1>2, <1>4, <1>5, <1>6, <1>8 DEF IInv

LEMMA BeginKeeps ==
  ASSUME IInv, NEW r \in Requests, Begin(r)
  PROVE  IInv'
<1>1. CASE \E a \in Accounts :
             request' = [request EXCEPT ![r] =
               [Fresh EXCEPT !.pc = "count", !.op = "upsert", !.account = a]]
  <2>1. PICK a \in Accounts :
          request' = [request EXCEPT ![r] =
            [Fresh EXCEPT !.pc = "count", !.op = "upsert", !.account = a]]
    BY <1>1
  <2> DEFINE q == [Fresh EXCEPT !.pc = "count", !.op = "upsert", !.account = a]
  <2>2. q \in Request /\ q.pc = "count" /\ q.op = "upsert" /\ q.account = a
    BY NoRecordTyped DEF Fresh, Request, RequestPCs
  <2>3. request' = [request EXCEPT ![r] = q]
    BY <2>1
  <2> HIDE DEF q
  <2> QED BY <2>2, <2>3, RequestMoves DEF Begin
<1>2. CASE \E op \in {"rotate", "delete"} :
             request' = [request EXCEPT ![r] = [Fresh EXCEPT !.pc = "load", !.op = op]]
  <2>1. PICK op \in {"rotate", "delete"} :
          request' = [request EXCEPT ![r] = [Fresh EXCEPT !.pc = "load", !.op = op]]
    BY <1>2
  <2> DEFINE q == [Fresh EXCEPT !.pc = "load", !.op = op]
  <2>2. q \in Request /\ q.pc = "load" /\ q.op = op
    BY NoRecordTyped DEF Fresh, Request, RequestPCs
  <2>3. request' = [request EXCEPT ![r] = q]
    BY <2>1
  <2> HIDE DEF q
  <2> QED BY <2>2, <2>3, RequestMoves DEF Begin
<1> QED BY <1>1, <1>2 DEF Begin

\* The locals after Goto and End.
LEMMA GotoFits ==
  ASSUME Typed, NEW r \in Requests, NEW pc \in RequestPCs, Goto(r, pc)
  PROVE  \E q \in Request :
           /\ request' = [request EXCEPT ![r] = q]
           /\ q.pc = pc /\ q.op = request[r].op /\ q.id = request[r].id
           /\ q.account = request[r].account
<1> DEFINE q == [request[r] EXCEPT !.pc = pc]
<1>1. request[r] \in Request
  BY DEF Typed
<1>2. /\ q \in Request /\ q.pc = pc /\ q.op = request[r].op /\ q.id = request[r].id
      /\ q.account = request[r].account
  BY <1>1 DEF Request
<1>3. request' = [request EXCEPT ![r] = q]
  BY DEF Goto
<1> HIDE DEF q
<1> QED BY <1>2, <1>3

LEMMA EndFits ==
  ASSUME NEW r \in Requests, End(r)
  PROVE  \E q \in Request :
           /\ request' = [request EXCEPT ![r] = q]
           /\ q.pc = "done" /\ q.op = "none"
<1> DEFINE q == [Fresh EXCEPT !.pc = "done"]
<1>1. q \in Request /\ q.pc = "done" /\ q.op = "none"
  BY FreshTyped DEF Fresh, RequestPCs
<1>2. request' = [request EXCEPT ![r] = q]
  BY DEF End
<1> HIDE DEF q
<1> QED BY <1>1, <1>2

LEMMA EndKeeps ==
  ASSUME IInv, NEW r \in Requests, End(r),
         UNCHANGED <<credentials, usedIds, issued, latest, products, sync, mixed>>
  PROVE  IInv'
<1>1. PICK q \in Request : request' = [request EXCEPT ![r] = q] /\ q.pc = "done" /\ q.op = "none"
  BY EndFits
<1> QED BY <1>1, RequestMoves

LEMMA CountKeeps ==
  ASSUME IInv, NEW r \in Requests, CountByFamilyID(r)
  PROVE  IInv'
<1>1. PICK pc \in {"create", "load", "done"} : Goto(r, pc)
  BY DEF CountByFamilyID
<1>2. PICK q \in Request : /\ request' = [request EXCEPT ![r] = q]
                           /\ q.pc = pc /\ q.op = request[r].op
                           /\ q.account = request[r].account
  BY <1>1, GotoFits DEF IInv, RequestPCs
<1>3. request[r].op = "upsert" /\ request[r].account \in Accounts
  BY DEF CountByFamilyID, At, IInv, OnTrack
<1> QED BY <1>2, <1>3, RequestMoves DEF CountByFamilyID

LEMMA GetSecretKeeps ==
  ASSUME IInv, NEW r \in Requests, GetSecretByFamilyID(r)
  PROVE  IInv'
<1>1. ASSUME NEW i \in Stored,
             request' = [request EXCEPT ![r].id = i,
                           ![r].pc = IF request[r].op = "rotate" THEN "find" ELSE "clear"]
      PROVE  IInv'
  <2> DEFINE pc == IF request[r].op = "rotate" THEN "find" ELSE "clear"
             q == [request[r] EXCEPT !.id = i, !.pc = pc]
  <2>1. request[r] \in Request /\ i \in Ids
    BY DEF IInv, Typed, Stored
  <2>2. pc \in {"find", "clear"} /\ (pc = "find" <=> request[r].op = "rotate")
    OBVIOUS
  <2>3. request' = [request EXCEPT ![r] = q]
    BY <1>1 DEF IInv, Typed
  <2> HIDE DEF pc
  <2>4. /\ q \in Request /\ q.pc = pc /\ q.op = request[r].op /\ q.id = i
        /\ q.account = request[r].account
    BY <2>1, <2>2 DEF Request, RequestPCs
  <2> HIDE DEF q
  <2>5. UNCHANGED <<credentials, usedIds, issued, latest, products, sync, mixed>>
    BY DEF GetSecretByFamilyID
  <2>6. request[r].op = "upsert" => request[r].account \in Accounts
    BY DEF IInv, OnTrack
  <2> QED BY <2>1, <2>2, <2>3, <2>4, <2>5, <2>6, RequestMoves
<1>2. CASE End(r)
  BY <1>2, EndKeeps DEF GetSecretByFamilyID
<1> QED BY <1>1, <1>2 DEF GetSecretByFamilyID

LEMMA FindRecordKeeps ==
  ASSUME IInv, NEW r \in Requests, FindRecord(r)
  PROVE  IInv'
<1> DEFINE i == request[r].id
           pc == IF i \in Stored THEN "save" ELSE "done"
           q == [request[r] EXCEPT !.loaded = credentials[i], !.pc = pc]
<1>1. request[r] \in Request /\ i \in Ids /\ credentials[i] \in Secret /\ request[r].pc = "find"
  BY DEF FindRecord, At, IInv, Typed, OnTrack
<1>2. pc \in {"save", "done"}
  OBVIOUS
<1>3. request' = [request EXCEPT ![r] = q]
  BY DEF FindRecord, IInv, Typed
<1> HIDE DEF pc
<1>4. /\ q \in Request /\ q.pc = pc /\ q.op = request[r].op /\ q.id = i
      /\ q.loaded = credentials[i] /\ q.account = request[r].account
  BY <1>1, <1>2 DEF Request, RequestPCs
<1> HIDE DEF q
<1>5. q.op # "rotate" => Changing
  BY <1>1, <1>4 DEF Changing
<1>6. UNCHANGED <<credentials, usedIds, issued, latest, products, sync, mixed>>
  BY DEF FindRecord
<1>7. /\ q.pc \in {"find", "save", "delete", "clear"} => q.id \in Ids
      /\ q.pc \notin {"delete", "clear", "count", "create"}
      /\ q.op = "upsert" => q.account \in Accounts
      /\ q.pc = "save" /\ q.id \in Stored => q.loaded.payload = credentials[q.id].payload
  BY <1>1, <1>2, <1>4 DEF IInv, OnTrack
<1> HIDE DEF i
<1> QED BY <1>3, <1>4, <1>5, <1>6, <1>7, RequestMoves

LEMMA AnswerKeeps ==
  ASSUME IInv, NEW r \in Requests, Answer(r)
  PROVE  IInv'
BY EndKeeps DEF Answer

-------------------------------------------------------------------------------
(***************************************************************************)
(* Steps that change the credential or clear the products.                 *)
(***************************************************************************)

\* The part that is the same for all of them: the request is over, or is about to find
\* the record it has cleared the products for.
LEMMA RequestFits ==
  ASSUME Typed, OnTrack, NEW r \in Requests, NEW q \in Request,
         request' = [request EXCEPT ![r] = q],
         q.pc \in {"find", "delete"} => q.id \in Ids,
         q.pc = "delete" => q.op = "delete",
         q.pc \notin {"save", "clear", "count", "create"},
         q.op = "upsert" => q.account \in Accounts
  PROVE  /\ request' \in [Requests -> Request] /\ OnTrack'
         /\ \A p \in Requests : request'[p].pc = "save" => p # r /\ request'[p] = request[p]
         /\ \A p \in Requests \ {r} : request'[p] = request[p]
<1>1. \A p \in Requests : request'[p] = IF p = r THEN q ELSE request[p]
  BY DEF Typed
<1> QED BY <1>1 DEF Typed, OnTrack

LEMMA CreateKeeps ==
  ASSUME IInv, NEW r \in Requests, Create(r)
  PROVE  IInv'
<1>1. CASE End(r) /\ UNCHANGED <<credentials, usedIds, issued, latest, mixed>>
  BY <1>1, EndKeeps DEF Create
<1>2. CASE /\ Stored = {} /\ Insert(request[r].account)
           /\ Goto(r, "refetch") /\ mixed' = (mixed \/ Syncing)
  <2> DEFINE a == request[r].account
             row == [username |-> a, key |-> a, token |-> NewToken, payload |-> NewToken]
  <2>1. NewId \in Ids \ usedIds /\ NewToken \in Tokens \ issued /\ NewToken # NoToken
    BY <1>2, NewIsNew, CredentialAssumption DEF IInv, Insert
  <2>2. row \in Secret /\ TokenOf(row) = NewToken /\ row.token = NewToken /\ row.username = a
    BY <2>1 DEF IInv, Typed, Request, Secret, TokenOf
  <2>3. /\ credentials' = [credentials EXCEPT ![NewId] = row]
        /\ usedIds' = usedIds \cup {NewId} /\ issued' = issued \cup {NewToken}
        /\ latest' = NewToken /\ UNCHANGED <<products, sync>>
    BY <1>2 DEF Insert, Create
  <2> HIDE DEF row
  <2>4. Stored' \subseteq {NewId} /\ credentials'[NewId] = row
    BY <1>2, <2>1, <2>3 DEF Stored, IInv, Typed
  <2>5. PICK q \in Request : /\ request' = [request EXCEPT ![r] = q]
                             /\ q.pc = "refetch" /\ q.op = request[r].op /\ q.account = a
    BY <1>2, GotoFits DEF IInv, RequestPCs
  <2>6. request' \in [Requests -> Request] /\ OnTrack' /\ a \in Accounts
    <3>1. request[r].op = "upsert" /\ a \in Accounts
      BY DEF Create, At, IInv, OnTrack
    <3> QED BY <2>5, <3>1, RequestFits DEF IInv
  <2>7. Typed'
    BY <1>2, <2>1, <2>2, <2>3, <2>6 DEF IInv, Typed
  <2>8. Single'
    BY <2>4 DEF Single
  <2>9. Opening'
    BY <2>1, <2>2, <2>3, <2>4 DEF Opening
  <2>10. Clean'
    <3> SUFFICES ASSUME ~mixed'
                 PROVE  /\ \A s \in Skus : products[s] = NoProduct
                        /\ \A w \in Workers : sync[w].pc = "off"
      BY <2>3 DEF Clean, Current
    <3> QED BY <1>2 DEF Syncing, IInv, Clean, Belongs
  <2>11. Named'
    BY <2>2, <2>3, <2>4, <2>6 DEF IInv, Named
  <2> QED BY <2>6, <2>7, <2>8, <2>9, <2>10, <2>11 DEF IInv
<1> QED BY <1>1, <1>2 DEF Create

LEMMA DeleteProductsKeeps ==
  ASSUME IInv, NEW r \in Requests, DeleteProducts(r)
  PROVE  IInv'
<1> DEFINE pc == IF request[r].op = "delete" THEN "delete" ELSE "find"
<1>1. request[r].pc = "clear" /\ request[r].id \in Ids
  BY DEF DeleteProducts, At, IInv, OnTrack
<1>2. pc \in RequestPCs /\ Goto(r, pc)
  BY DEF DeleteProducts, RequestPCs
<1>3. pc \in {"delete", "find"} /\ (pc = "delete" => request[r].op = "delete")
  OBVIOUS
<1> HIDE DEF pc
<1>4. PICK q \in Request : /\ request' = [request EXCEPT ![r] = q]
                           /\ q.pc = pc /\ q.op = request[r].op /\ q.id = request[r].id
                           /\ q.account = request[r].account
  BY <1>2, GotoFits DEF IInv
<1>5. /\ request' \in [Requests -> Request] /\ OnTrack'
      /\ \A p \in Requests : request'[p].pc = "save" => request'[p] = request[p]
  <2>1. /\ q.pc \in {"find", "delete"} => q.id \in Ids
        /\ q.pc = "delete" => q.op = "delete"
        /\ q.pc \notin {"save", "clear", "count", "create"}
        /\ q.op = "upsert" => q.account \in Accounts
    BY <1>1, <1>3, <1>4 DEF IInv, OnTrack
  <2> QED BY <1>4, <2>1, RequestFits DEF IInv
<1>6. /\ products' = [s \in Skus |-> NoProduct] /\ mixed' = Syncing
      /\ UNCHANGED <<credentials, usedIds, issued, latest, sync>>
  BY DEF DeleteProducts
<1>7. Typed'
  BY <1>5, <1>6, NoRecordTyped DEF IInv, Typed, Syncing
<1>8. Stored' = Stored
  BY <1>6 DEF Stored
<1>9. Single' /\ Opening' /\ Named'
  BY <1>5, <1>6, <1>8 DEF IInv, Single, Opening, Named, TokenOf
<1>10. Clean'
  BY <1>6 DEF Clean, Syncing, Current
<1> QED BY <1>5, <1>7, <1>9, <1>10 DEF IInv

\* An upsert that has cleared the products stores the account; the token stays.
LEMMA SaveUpsertKeeps ==
  ASSUME IInv, NEW r \in Requests, SaveUpsert(r)
  PROVE  IInv'
<1> DEFINE i == request[r].id
           a == request[r].account
           old == request[r].loaded
           name == IF a = old.username THEN credentials[i].username ELSE a
           row == [credentials[i] EXCEPT !.username = name, !.key = a, !.payload = old.payload]
           q == [Fresh EXCEPT !.pc = "refetch"]
<1>1. /\ request[r] \in Request /\ i \in Ids /\ request[r].pc = "save"
      /\ request[r].op = "upsert" /\ credentials[i] \in Secret /\ a \in Accounts
  BY DEF SaveUpsert, At, IInv, Typed, OnTrack
<1>2. /\ request' = [request EXCEPT ![r] = q] /\ mixed' = (mixed \/ Syncing)
      /\ UNCHANGED <<usedIds, issued, latest, products, sync>>
  BY DEF SaveUpsert
<1>3. q \in Request /\ q.pc = "refetch" /\ q.op = "none"
  BY FreshTyped DEF Fresh, RequestPCs
<1> HIDE DEF q
<1>4. /\ request' \in [Requests -> Request] /\ OnTrack'
      /\ \A p \in Requests : request'[p].pc = "save" => request'[p] = request[p]
  BY <1>2, <1>3, RequestFits DEF IInv
<1>5. Changing
  BY <1>1 DEF Changing
<1>6. Clean'
  <2> SUFFICES ASSUME ~mixed'
               PROVE  /\ \A s \in Skus : products[s] = NoProduct
                      /\ \A w \in Workers : sync[w].pc = "off"
    BY <1>2 DEF Clean, Current
  <2> QED BY <1>2, <1>5 DEF Syncing, IInv, Clean
<1>7. CASE i \notin Stored
  <2>1. UNCHANGED credentials
    BY <1>7 DEF SaveUpsert
  <2>2. Stored' = Stored
    BY <2>1 DEF Stored
  <2>3. Typed'
    BY <1>2, <1>4, <2>1 DEF IInv, Typed, Syncing
  <2>4. Single' /\ Opening' /\ Named'
    BY <1>2, <1>4, <2>1, <2>2 DEF IInv, Single, Opening, Named, TokenOf
  <2> QED BY <1>4, <1>6, <2>3, <2>4 DEF IInv
<1>8. CASE i \in Stored
  <2>1. /\ row \in Secret /\ row.token = credentials[i].token /\ row.payload = old.payload
        /\ row.username \in Accounts
    BY <1>1, <1>8 DEF Request, Secret, IInv, Named
  <2>2. credentials' = [credentials EXCEPT ![i] = row]
    BY <1>8 DEF SaveUpsert, IInv, Typed
  <2>3. \A k \in Ids : credentials'[k] = IF k = i THEN row ELSE credentials[k]
    BY <2>2 DEF IInv, Typed
  <2>4. Stored' \subseteq Stored
    BY <1>8, <2>3 DEF Stored
  <2>5. credentials[i].token = NoToken => old.payload = credentials[i].payload
    BY <1>1, <1>8 DEF IInv, Opening
  <2> HIDE DEF row
  <2>6. \A k \in Stored' : /\ TokenOf(credentials'[k]) = TokenOf(credentials[k])
                           /\ credentials'[k].token = credentials[k].token
                           /\ credentials[k].token = NoToken =>
                                credentials'[k].payload = credentials[k].payload
    BY <1>8, <2>1, <2>3, <2>5 DEF TokenOf, Stored
  <2>7. Typed'
    BY <1>2, <1>4, <2>1, <2>2 DEF IInv, Typed, Syncing
  <2>8. Single'
    BY <2>4 DEF IInv, Single
  <2>9. Opening'
    <3>1. \A k \in Stored' : TokenOf(credentials'[k]) = latest'
      BY <1>2, <2>4, <2>6 DEF IInv, Opening
    <3>2. ASSUME NEW p \in Requests, request'[p].pc = "save", request'[p].id \in Stored',
                 credentials'[request'[p].id].token = NoToken
          PROVE  request'[p].loaded.payload = credentials'[request'[p].id].payload
      <4>1. request'[p] = request[p]
        BY <1>4, <3>2
      <4> QED BY <2>4, <2>6, <3>2, <4>1 DEF IInv, Opening
    <3> QED BY <3>1, <3>2 DEF Opening
  <2>10. Named'
    BY <1>2, <2>1, <2>3, <2>4 DEF IInv, Named, Stored
  <2> QED BY <1>4, <1>6, <2>7, <2>8, <2>9, <2>10 DEF IInv
<1> QED BY <1>7, <1>8

\* A rotation writes the new token in both places.
LEMMA SaveTokenKeeps ==
  ASSUME IInv, NEW r \in Requests, SaveToken(r)
  PROVE  IInv'
<1> DEFINE i == request[r].id
           old == request[r].loaded
           row == [credentials[i] EXCEPT !.token = NewToken, !.payload = NewToken,
                                         !.key = old.key]
<1>1. /\ request[r] \in Request /\ i \in Ids /\ request[r].pc = "save"
      /\ credentials[i] \in Secret
  BY DEF SaveToken, At, IInv, Typed, OnTrack
<1>2. NewToken \in Tokens \ issued /\ NewToken # NoToken
  BY NewIsNew, CredentialAssumption DEF SaveToken, IInv
<1>3. PICK q \in Request : request' = [request EXCEPT ![r] = q] /\ q.pc = "done" /\ q.op = "none"
  BY EndFits DEF SaveToken
<1>4. /\ request' \in [Requests -> Request] /\ OnTrack'
      /\ \A p \in Requests : request'[p].pc = "save" => request'[p] = request[p]
      /\ \A p \in Requests \ {r} : request'[p] = request[p]
  BY <1>3, RequestFits DEF IInv
<1>5. /\ UNCHANGED <<usedIds, products, sync, mixed>> /\ issued' = issued \cup {NewToken}
  BY DEF SaveToken
<1>6. request'[r] = q
  BY <1>3 DEF IInv, Typed
<1>7. Changing' => Changing
  BY <1>3, <1>4, <1>6 DEF Changing
<1>8. CASE i \notin Stored
  <2>1. UNCHANGED <<credentials, latest>>
    BY <1>8 DEF SaveToken
  <2>2. Stored' = Stored
    BY <2>1 DEF Stored
  <2>3. Typed'
    BY <1>2, <1>4, <1>5, <2>1 DEF IInv, Typed
  <2>4. Single' /\ Opening' /\ Named'
    BY <1>4, <1>5, <2>1, <2>2 DEF IInv, Single, Opening, Named, TokenOf
  <2>5. Clean'
    BY <1>5, <1>7, <2>1, <2>2 DEF IInv, Clean, Belongs, Current
  <2> QED BY <1>4, <2>3, <2>4, <2>5 DEF IInv
<1>9. CASE i \in Stored
  <2>1. /\ row \in Secret /\ row.token = NewToken /\ row.username = credentials[i].username
        /\ row # NoRecord
    BY <1>1, <1>2 DEF Request, Secret, NoRecord
  <2>2. credentials' = [credentials EXCEPT ![i] = row] /\ latest' = NewToken
    BY <1>9 DEF SaveToken, IInv, Typed
  <2> HIDE DEF row
  <2>3. \A k \in Ids : credentials'[k] = IF k = i THEN row ELSE credentials[k]
    BY <2>2 DEF IInv, Typed
  <2>4. Stored' = Stored
    BY <1>9, <2>1, <2>3 DEF Stored
  <2>5. \A k \in Ids : credentials'[k].username = credentials[k].username
    BY <2>1, <2>3
  <2>6. \A k \in Stored : k = i
    BY <1>9 DEF IInv, Single
  <2>7. Typed'
    BY <1>2, <1>4, <1>5, <2>1, <2>2 DEF IInv, Typed
  <2>8. Single' /\ Opening'
    BY <1>1, <1>2, <2>1, <2>2, <2>3, <2>4, <2>6 DEF IInv, Single, Opening, TokenOf
  <2>9. Clean' /\ Named'
    BY <1>5, <1>7, <2>4, <2>5 DEF IInv, Clean, Belongs, Current, Named, Stored
  <2> QED BY <1>4, <2>7, <2>8, <2>9 DEF IInv
<1> QED BY <1>8, <1>9

LEMMA DeleteRecordKeeps ==
  ASSUME IInv, NEW r \in Requests, DeleteRecord(r)
  PROVE  IInv'
<1> DEFINE i == request[r].id
<1>1. /\ i \in Ids /\ request[r].pc = "delete" /\ request[r].op = "delete"
  BY DEF DeleteRecord, At, IInv, OnTrack
<1>2. PICK q \in Request : request' = [request EXCEPT ![r] = q] /\ q.pc = "done" /\ q.op = "none"
  BY EndFits DEF DeleteRecord
<1>3. /\ request' \in [Requests -> Request] /\ OnTrack'
      /\ \A p \in Requests : request'[p].pc = "save" => request'[p] = request[p]
  BY <1>2, RequestFits DEF IInv
<1>4. /\ UNCHANGED <<usedIds, issued, latest, sync>> /\ mixed' = (mixed \/ Syncing)
      /\ credentials' = [credentials EXCEPT ![i] = NoRecord]
  BY DEF DeleteRecord
<1>5. /\ products' \in [Skus -> Product]
      /\ \A s \in Skus : products[s] = NoProduct => products'[s] = NoProduct
  <2>1. products' = [s \in Skus |->
          IF products[s].credential = i THEN [products[s] EXCEPT !.credential = NoId]
          ELSE products[s]]
    BY DEF DeleteRecord
  <2>2. \A s \in Skus : products[s] \in Product
    BY DEF IInv, Typed
  <2> QED BY <1>1, <2>1, <2>2, CredentialAssumption DEF Product, NoProduct
<1>6. \A k \in Ids : credentials'[k] = IF k = i THEN NoRecord ELSE credentials[k]
  BY <1>4 DEF IInv, Typed
<1>7. Stored' = Stored \ {i}
  BY <1>1, <1>6 DEF Stored
<1>8. Typed'
  BY <1>3, <1>4, <1>5, NoRecordTyped DEF IInv, Typed, Syncing
<1>9. Single' /\ Opening' /\ Named'
  BY <1>3, <1>4, <1>6, <1>7 DEF IInv, Single, Opening, Named, TokenOf, Stored
<1>10. Clean'
  <2> SUFFICES ASSUME ~mixed'
               PROVE  /\ \A s \in Skus : products'[s] = NoProduct
                      /\ \A w \in Workers : sync[w].pc = "off"
    BY <1>4 DEF Clean, Current
  <2>1. Changing
    BY <1>1 DEF Changing
  <2> QED BY <1>4, <1>5, <2>1 DEF Syncing, IInv, Clean
<1> QED BY <1>3, <1>8, <1>9, <1>10 DEF IInv

-------------------------------------------------------------------------------
(***************************************************************************)
(* The product sync.                                                       *)
(***************************************************************************)

\* A sync takes a step that leaves the tables alone.
LEMMA SyncMoves ==
  ASSUME IInv, NEW w \in Workers, NEW s \in Sync, sync' = [sync EXCEPT ![w] = s],
         UNCHANGED <<credentials, usedIds, issued, latest, products, request, mixed>>,
         ~mixed => Current(s),
         s.pc # "off" => s.given.username \in Accounts
  PROVE  IInv'
<1>1. \A v \in Workers : sync'[v] = IF v = w THEN s ELSE sync[v]
  BY DEF IInv, Typed
<1>2. Typed' /\ Stored' = Stored
  BY DEF IInv, Typed, Stored
<1>3. Single' /\ Opening' /\ OnTrack' /\ Named'
  BY <1>1, <1>2 DEF IInv, Single, Opening, OnTrack, Named, TokenOf
<1>4. Clean'
  BY <1>1, <1>2 DEF IInv, Clean, Changing, Belongs, Current
<1> QED BY <1>2, <1>3, <1>4 DEF IInv

\* A sync begins with the record that is stored.
LEMMA GivenFits ==
  ASSUME IInv, NEW i \in Stored
  PROVE  /\ i \in Ids /\ credentials[i] \in Secret /\ credentials[i].username \in Accounts
         /\ \A s \in Sync : s.id = i /\ s.given = credentials[i] => Current(s)
BY DEF IInv, Typed, Named, Stored, Current

LEMMA SpawnKeeps ==
  ASSUME IInv, NEW r \in Requests, SpawnProductSync(r)
  PROVE  IInv'
<1>1. Goto(r, "answer") /\ (request[r].op = "upsert" => request[r].account \in Accounts)
  BY DEF SpawnProductSync, IInv, OnTrack
<1>2. PICK q \in Request : /\ request' = [request EXCEPT ![r] = q]
                           /\ q.pc = "answer" /\ (q.op = "upsert" => q.account \in Accounts)
  BY <1>1, GotoFits DEF IInv, RequestPCs
<1>3. /\ request' \in [Requests -> Request] /\ OnTrack'
      /\ \A p \in Requests : request'[p].pc = "save" => request'[p] = request[p]
      /\ \A p \in Requests \ {r} : request'[p] = request[p]
  BY <1>2, RequestFits DEF IInv
<1>4. /\ UNCHANGED <<credentials, usedIds, issued, latest, products, mixed>>
  BY DEF SpawnProductSync
<1>5. Changing' => Changing
  BY <1>2, <1>3 DEF Changing, IInv, Typed
<1>6. Stored' = Stored
  BY <1>4 DEF Stored
<1>7. Single' /\ Opening'
  BY <1>3, <1>4, <1>6 DEF IInv, Single, Opening, TokenOf
<1>8. \E N \in SUBSET Sync :
        /\ sync' \in [Workers -> Sync]
        /\ \A s \in N : Current(s) /\ s.given.username \in Accounts
        /\ \A w \in Workers : sync'[w] = sync[w] \/ sync'[w] \in N
  <2>0. sync \in [Workers -> Sync]
    BY DEF IInv, Typed
  <2>1. ASSUME UNCHANGED sync
        PROVE  <1>8!:
    <3> WITNESS {} \in SUBSET Sync
    <3> QED BY <2>0, <2>1
  <2>2. ASSUME NEW i \in Stored,
               sync' = [sync EXCEPT ![Background] = [Resting EXCEPT !.pc = "fetch",
                          !.given = credentials[i], !.id = i, !.requester = r]]
        PROVE  <1>8!:
    <3> DEFINE s == [Resting EXCEPT !.pc = "fetch", !.given = credentials[i], !.id = i,
                                    !.requester = r]
    <3>1. i \in Ids /\ credentials[i] \in Secret /\ credentials[i].username \in Accounts
      BY GivenFits
    <3>2. s \in Sync /\ s.id = i /\ s.given = credentials[i]
      BY <3>1 DEF Resting, Sync
    <3>3. sync' = [sync EXCEPT ![Background] = s]
      BY <2>2
    <3> HIDE DEF s
    <3>4. Current(s) /\ s.given.username \in Accounts
      BY <3>1, <3>2, GivenFits
    <3>5. \A w \in Workers : sync'[w] = sync[w] \/ sync'[w] = s
      BY <2>0, <3>3
    <3>6. sync' \in [Workers -> Sync]
      BY <2>0, <3>2, <3>3
    <3>7. {s} \in SUBSET Sync
      BY <3>2
    <3> QED BY <3>4, <3>5, <3>6, <3>7
  <2> QED BY <2>1, <2>2 DEF SpawnProductSync
<1>9. PICK N \in SUBSET Sync :
        /\ sync' \in [Workers -> Sync]
        /\ \A s \in N : Current(s) /\ s.given.username \in Accounts
        /\ \A w \in Workers : sync'[w] = sync[w] \/ sync'[w] \in N
  BY <1>8
<1>10. Clean'
  BY <1>4, <1>5, <1>6, <1>9 DEF IInv, Clean, Belongs, Current
<1>11. Typed' /\ Named'
  BY <1>3, <1>4, <1>6, <1>9 DEF IInv, Typed, Named
<1> QED BY <1>3, <1>7, <1>10, <1>11 DEF IInv

LEMMA StartSyncKeeps ==
  ASSUME IInv, NEW w \in Workers, StartSync(w)
  PROVE  IInv'
<1>1. PICK i \in Stored :
        sync' = [sync EXCEPT ![w] = [Resting EXCEPT !.pc = "fetch",
                   !.given = credentials[i], !.id = i]]
  BY DEF StartSync
<1> DEFINE s == [Resting EXCEPT !.pc = "fetch", !.given = credentials[i], !.id = i]
<1>2. i \in Ids /\ credentials[i] \in Secret /\ credentials[i].username \in Accounts
  BY GivenFits
<1>3. s \in Sync /\ s.id = i /\ s.given = credentials[i]
  BY <1>2 DEF Resting, Sync
<1>4. sync' = [sync EXCEPT ![w] = s]
  BY <1>1
<1> HIDE DEF s
<1>5. Current(s)
  BY <1>3, GivenFits
<1> QED BY <1>2, <1>3, <1>4, <1>5, SyncMoves DEF StartSync

LEMMA RestsKeeps ==
  ASSUME IInv, NEW w \in Workers, sync' = [sync EXCEPT ![w] = Resting],
         UNCHANGED <<credentials, usedIds, issued, latest, products, request, mixed>>
  PROVE  IInv'
<1>1. Current(Resting) /\ Resting.pc = "off"
  BY DEF Current, Resting
<1> QED BY <1>1, RestingTyped, SyncMoves

\* A sync goes on with what it was given.
LEMMA SyncGoesOn ==
  ASSUME IInv, NEW w \in Workers, sync[w].pc # "off",
         NEW s \in Sync, s.id = sync[w].id, s.given = sync[w].given
  PROVE  (~mixed => Current(s)) /\ s.given.username \in Accounts
BY DEF IInv, Named, Clean, Current

LEMMA FetchPriceListKeeps ==
  ASSUME IInv, NEW w \in Workers, FetchPriceList(w)
  PROVE  IInv'
<1>1. /\ sync[w] \in Sync /\ sync[w].pc = "fetch"
      /\ UNCHANGED <<credentials, usedIds, issued, latest, products, request, mixed>>
  BY DEF FetchPriceList, Runs, IInv, Typed
<1>2. \E left \in SUBSET Skus : sync' = [sync EXCEPT ![w].pc = "upsert", ![w].left = left]
  <2>1. CASE sync' = [sync EXCEPT ![w].pc = "upsert"]
    <3>1. sync' = [sync EXCEPT ![w].pc = "upsert", ![w].left = sync[w].left]
      BY <1>1, <2>1 DEF IInv, Typed, Sync
    <3> QED BY <1>1, <3>1 DEF Sync
  <2>2. ASSUME NEW list \in SUBSET Skus,
               sync' = [sync EXCEPT ![w].pc = "upsert",
                                    ![w].left = Offers[sync[w].given.username] \cap list]
        PROVE  <1>2!:
    BY <2>2
  <2> DEFINE list == IF sync[w].bills THEN Bills ELSE Skus \ Bills
  <2>3. list \in SUBSET Skus
    BY CredentialAssumption
  <2>4. \/ sync' = [sync EXCEPT ![w].pc = "upsert"]
        \/ sync' = [sync EXCEPT ![w].pc = "upsert",
                                ![w].left = Offers[sync[w].given.username] \cap list]
    BY DEF FetchPriceList
  <2> HIDE DEF list
  <2> QED BY <2>1, <2>2, <2>3, <2>4
<1>3. PICK left \in SUBSET Skus : sync' = [sync EXCEPT ![w].pc = "upsert", ![w].left = left]
  BY <1>2
<1> DEFINE s == [sync[w] EXCEPT !.pc = "upsert", !.left = left]
<1>4. sync' = [sync EXCEPT ![w] = s]
  BY <1>3 DEF IInv, Typed
<1>5. s \in Sync /\ s.id = sync[w].id /\ s.given = sync[w].given
  BY <1>1 DEF Sync
<1> HIDE DEF s
<1> QED BY <1>1, <1>4, <1>5, SyncGoesOn, SyncMoves

LEMMA NextPriceListKeeps ==
  ASSUME IInv, NEW w \in Workers, NextPriceList(w)
  PROVE  IInv'
<1> DEFINE s == [sync[w] EXCEPT !.pc = "fetch", !.bills = TRUE]
<1>1. sync[w] \in Sync /\ sync[w].pc = "upsert"
  BY DEF NextPriceList, Runs, IInv, Typed
<1>2. sync' = [sync EXCEPT ![w] = s]
  BY DEF NextPriceList, IInv, Typed
<1>3. s \in Sync /\ s.id = sync[w].id /\ s.given = sync[w].given
  BY <1>1 DEF Sync
<1> HIDE DEF s
<1> QED BY <1>1, <1>2, <1>3, SyncGoesOn, SyncMoves DEF NextPriceList

LEMMA FindProductKeeps ==
  ASSUME IInv, NEW w \in Workers, FindProduct(w)
  PROVE  IInv'
<1>1. PICK s \in sync[w].left :
        sync' = [sync EXCEPT ![w].pc = "save", ![w].sku = {s},
                             ![w].found = products[s] # NoProduct]
  BY DEF FindProduct
<1> DEFINE found == products[s] # NoProduct
           t == [sync[w] EXCEPT !.pc = "save", !.sku = {s}, !.found = found]
<1>2. sync[w] \in Sync /\ sync[w].pc = "upsert" /\ found \in BOOLEAN
  BY DEF FindProduct, Runs, IInv, Typed
<1>3. sync' = [sync EXCEPT ![w] = t]
  BY <1>1 DEF IInv, Typed
<1> HIDE DEF found
<1>4. t \in Sync /\ t.pc = "save" /\ t.id = sync[w].id /\ t.given = sync[w].given
  BY <1>1, <1>2 DEF Sync
<1> HIDE DEF t
<1> QED BY <1>2, <1>3, <1>4, SyncGoesOn, SyncMoves DEF FindProduct

\* What is saved belongs to the stored record: that nothing has been mixed says that the
\* sync was given it.
LEMMA SaveProductKeeps ==
  ASSUME IInv, NEW w \in Workers, SaveProduct(w)
  PROVE  IInv'
<1> DEFINE row == [account |-> sync[w].given.username, credential |-> sync[w].id]
           t == [sync[w] EXCEPT !.pc = "upsert", !.left = sync[w].left \ sync[w].sku,
                                !.sku = {}, !.found = FALSE]
<1>1. /\ sync[w] \in Sync /\ sync[w].pc = "save" /\ mixed' = (mixed \/ Changing)
      /\ UNCHANGED <<credentials, usedIds, issued, latest, request>>
  BY DEF SaveProduct, Runs, IInv, Typed
<1>2. sync' = [sync EXCEPT ![w] = t]
  BY DEF SaveProduct, IInv, Typed
<1>3. t \in Sync /\ t.pc = "upsert" /\ t.id = sync[w].id /\ t.given = sync[w].given
  BY <1>1 DEF Sync
<1> HIDE DEF t
<1>4. row \in Product
  BY <1>1 DEF Sync, Product, Secret
<1> HIDE DEF row
<1>5. /\ products' \in [Skus -> Product]
      /\ \A s \in Skus : \/ products'[s] = products[s]
                         \/ sync[w].id \in Stored /\ products'[s] = row
  <2>1. products' = [s \in Skus |->
          IF /\ s \in sync[w].sku
             /\ Storable(s) /\ sync[w].id \in Stored
             /\ (sync[w].found <=> products[s] # NoProduct)
          THEN row ELSE products[s]]
    BY DEF SaveProduct, row
  <2> QED BY <1>4, <2>1 DEF IInv, Typed
<1>6. Typed'
  BY <1>1, <1>2, <1>3, <1>5 DEF IInv, Typed, Changing
<1>7. Stored' = Stored /\ (Changing' <=> Changing)
  BY <1>1 DEF Stored, Changing
<1>8. Single' /\ Opening' /\ OnTrack'
  BY <1>1, <1>7 DEF IInv, Single, Opening, OnTrack, TokenOf
<1>9. Named'
  BY <1>1, <1>2, <1>3, <1>7, SyncGoesOn DEF IInv, Typed, Named
<1>10. \A v \in Workers : sync'[v] = IF v = w THEN t ELSE sync[v]
  BY <1>2 DEF IInv, Typed
<1>11. Clean'
  <2> SUFFICES ASSUME ~mixed, ~Changing
               PROVE  /\ \A s \in Skus : products'[s] # NoProduct => Belongs(products'[s])
                      /\ \A v \in Workers : Current(sync'[v])
    BY <1>1, <1>7 DEF Clean, Belongs, Current
  <2>1. Current(sync[w]) /\ \A v \in Workers : Current(sync[v])
    BY DEF IInv, Clean
  <2>2. sync[w].id \in Stored => Belongs(row)
    BY <1>1, <2>1 DEF Belongs, Current, row
  <2>3. \A s \in Skus : products[s] # NoProduct => Belongs(products[s])
    BY DEF IInv, Clean
  <2>4. Current(t)
    BY <1>1, <1>3, <2>1 DEF Current
  <2> QED BY <1>5, <1>10, <2>1, <2>2, <2>3, <2>4
<1> QED BY <1>6, <1>8, <1>11, <1>9 DEF IInv

LEMMA RestartKeeps ==
  ASSUME IInv, Restart
  PROVE  IInv'
<1>1. /\ request' = [r \in Requests |-> IF At(r, "new") THEN request[r]
                                        ELSE [Fresh EXCEPT !.pc = "done"]]
      /\ sync' = [w \in Workers |-> Resting]
      /\ UNCHANGED <<credentials, usedIds, issued, latest, products, mixed>>
  BY DEF Restart
<1>2. [Fresh EXCEPT !.pc = "done"] \in Request /\ [Fresh EXCEPT !.pc = "done"].pc = "done"
      /\ [Fresh EXCEPT !.pc = "done"].op = "none"
  BY FreshTyped DEF Fresh, RequestPCs
<1>3. \A r \in Requests : /\ request'[r].pc \in {"new", "done"}
                          /\ request'[r].op = "none" \/ request'[r] = request[r]
  BY <1>1, <1>2 DEF At
<1>4. Typed'
  BY <1>1, <1>2, RestingTyped DEF IInv, Typed
<1>5. Stored' = Stored
  BY <1>1 DEF Stored
<1>6. Single' /\ Opening' /\ OnTrack'
  BY <1>1, <1>3, <1>5 DEF IInv, Single, Opening, OnTrack, TokenOf
<1>7. Named'
  BY <1>1, <1>5 DEF IInv, Named, Resting
<1>8. Clean'
  <2>1. ~Changing' /\ \A w \in Workers : sync'[w].pc = "off"
    BY <1>1, <1>3 DEF Changing, Resting
  <2> QED BY <1>1, <1>5, <2>1 DEF IInv, Clean, Belongs, Current
<1> QED BY <1>4, <1>6, <1>8, <1>7 DEF IInv

-------------------------------------------------------------------------------
(***************************************************************************)
(* The theorems.                                                           *)
(***************************************************************************)

LEMMA NextKeeps ==
  ASSUME IInv, [Next]_vars
  PROVE  IInv'
<1>1. ASSUME NEW r \in Requests, Begin(r) \/ Continue(r)
      PROVE  IInv'
  BY <1>1, BeginKeeps, CountKeeps, CreateKeeps, GetSecretKeeps, DeleteProductsKeeps,
     FindRecordKeeps, SaveUpsertKeeps, SaveTokenKeeps, DeleteRecordKeeps, SpawnKeeps,
     AnswerKeeps DEF Continue
<1>2. ASSUME NEW w \in Workers, SyncStep(w)
      PROVE  IInv'
  BY <1>2, StartSyncKeeps, FetchPriceListKeeps, FindProductKeeps, SaveProductKeeps,
     NextPriceListKeeps, RestsKeeps DEF SyncStep, EndSync
<1>3. CASE Restart
  BY <1>3, RestartKeeps
<1>4. CASE UNCHANGED vars
  BY <1>4 DEF vars, IInv, Typed, Single, Opening, OnTrack, Named, Clean, Stored, TokenOf, Changing,
              Belongs, Current
<1> QED BY <1>1, <1>2, <1>3, <1>4 DEF Next

\* The inductive invariant.
THEOREM Invariance == Spec => []IInv
<1>1. Init => IInv
  BY InitEstablishes
<1> QED BY <1>1, NextKeeps, PTL DEF Spec

\* However many requests find no credential and create one, the family has one.
THEOREM OneCredentialAlways == Spec => []OneCredential
<1>1. ASSUME IInv
      PROVE  OneCredential
  <2>1. CASE Stored = {}
    BY <2>1, FS_EmptySet DEF OneCredential
  <2>2. ASSUME NEW i \in Stored
        PROVE  OneCredential
    <3>1. Stored = {i}
      BY <1>1 DEF IInv, Single
    <3> QED BY <3>1, FS_Singleton DEF OneCredential
  <2> QED BY <2>1, <2>2
<1> QED BY <1>1, Invariance, PTL

\* The token handed out last opens the credential and no other does, although an upsert
\* that has loaded the record before a rotation stores the old token again.
THEOREM OnlyLatestTokenOpensAlways == Spec => []OnlyLatestTokenOpens
<1>1. IInv => OnlyLatestTokenOpens
  BY DEF IInv, Opening, OnlyLatestTokenOpens, Lookup
<1> QED BY <1>1, Invariance, PTL

\* When nothing is under way the catalogue holds only products of the account that will be
\* charged, for any number of requests, syncs and products, unless a sync was under way
\* while the credential changed.
THEOREM CatalogueOfAccountAlways == Spec => []CatalogueOfAccount
<1>1. IInv => CatalogueOfAccount
  BY DEF IInv, Clean, Belongs, CatalogueOfAccount
<1> QED BY <1>1, Invariance, PTL

===============================================================================
