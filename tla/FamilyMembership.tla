---------------------------- MODULE FamilyMembership ----------------------------
(***************************************************************************)
(* Families, their members and the cache of memberships every family       *)
(* route consults.                                                         *)
(*                                                                         *)
(* A request of a user is a goroutine; each database call and each access  *)
(* to the cache under its mutex is one step.  An entry of the cache lives  *)
(* TTL ticks of the clock from when it was set.                            *)
(*                                                                         *)
(* Rows are created by the service, and deleted by the service or through  *)
(* the collection API of PocketBase.  That API also lets whoever is        *)
(* authenticated create and update rows unchecked; this is not modelled,   *)
(* and the properties are about families and rows the service has stored.  *)
(***************************************************************************)
EXTENDS Integers, FiniteSets

CONSTANTS
  Users,      \* the users the program ever has
  Families,   \* ids of families, each with its invite code; never used twice
  Requests,   \* the goroutines that serve requests
  TTL,        \* familyCacheTTL, in ticks
  NoUser, NoFamily

ASSUME MembershipAssumption ==
  TTL \in Nat \ {0} /\ NoUser \notin Users /\ NoFamily \notin Families

VARIABLES
  accounts,    \* the users whose account exists
  families,    \* families[f]: "free", "stored" or "deleted"
  members,     \* the rows of family_members
  cache,       \* cache[u]: the entry of user u, or NoEntry
  request,     \* request[r]: where request r stands, its user and the family it read
  raced,       \* history: users who had two requests to create or join at once
  abandoned    \* history: families whose owner's row was deleted

vars == <<accounts, families, members, cache, request, raced, abandoned>>
history == <<raced, abandoned>>

Roles == {"owner", "member"}
Row == [user : Users, family : Families, role : Roles]

\* outrun is history: the row was deleted, and not by a request that clears the entry
\* after it: between its being read and the cache being set, or through the collection API.
NoEntry == [family |-> NoFamily, age |-> TTL, outrun |-> FALSE]
Idle == [pc |-> "idle", user |-> NoUser, family |-> NoFamily, outrun |-> FALSE]

FamiliesOf(u) == {m.family : m \in {row \in members : row.user = u}}

\* The entry get returns: there is one and it has not expired.
Valid(u) == cache[u].age < TTL

At(r, pc) == request[r].pc = pc
Goto(r, pc, u, f) ==
  request' = [request EXCEPT ![r] = [pc |-> pc, user |-> u, family |-> f, outrun |-> FALSE]]
End(r) == request' = [request EXCEPT ![r] = Idle]

\* Between the check that the user has no family and the insertion of the row.
Entering(r, u) == request[r].pc \in {"create", "find", "join"} /\ request[r].user = u

\* The families that lose their owner with these rows.
OwnedBy(rows) == {m.family : m \in {row \in rows : row.role = "owner"}}

Init ==
  /\ accounts = Users
  /\ families = [f \in Families |-> "free"]
  /\ members = {}
  /\ cache = [u \in Users |-> NoEntry]
  /\ request = [r \in Requests |-> Idle]
  /\ raced = {} /\ abandoned = {}

-------------------------------------------------------------------------------
(***************************************************************************)
(* Mutations of the steps below.                                           *)
(***************************************************************************)

\* The family is committed by itself; its owner never follows.
CommitsFamilyOnly(r) ==
  /\ At(r, "create")
  /\ \E f \in Families : families[f] = "free" /\ families' = [families EXCEPT ![f] = "stored"]
  /\ End(r)
  /\ UNCHANGED <<accounts, members, cache, history>>

\* Whoever asks to join or create is let through, member or not.
ChecksNothing(r, u) ==
  /\ At(r, "idle")
  /\ \E pc \in {"create", "find"} : Goto(r, pc, u, NoFamily)
  /\ raced' = IF \E q \in Requests : Entering(q, u) THEN raced \cup {u} ELSE raced
  /\ UNCHANGED <<accounts, families, members, cache, abandoned>>

\* A member is stored without role: the column is not required.
StoresNoRole(r) ==
  LET u == request[r].user  f == request[r].family IN
  /\ At(r, "join")
  /\ families[f] = "stored" /\ f \notin FamiliesOf(u)
  /\ members' = members \cup {[user |-> u, family |-> f, role |-> ""]}
  /\ Goto(r, "invalidate", u, f)
  /\ UNCHANGED <<accounts, families, cache, history>>

\* The cached family is not cleared after the change.
KeepsEntry(r) ==
  /\ At(r, "invalidate")
  /\ End(r)
  /\ UNCHANGED <<accounts, families, members, cache, history>>

\* Each use prolongs the life of an entry.
ProlongsEntry(r, u) ==
  /\ At(r, "idle") /\ Valid(u)
  /\ Goto(r, "serve", u, cache[u].family)
  /\ cache' = [cache EXCEPT ![u].age = 0]
  /\ UNCHANGED <<accounts, families, members, history>>

-------------------------------------------------------------------------------
(***************************************************************************)
(* CreateFamily and JoinFamily.                                            *)
(***************************************************************************)

\* GetByUserID finds no row: the request goes on.
CheckNoFamily(r, u) ==
  /\ At(r, "idle")
  /\ FamiliesOf(u) = {}
  /\ \E pc \in {"create", "find"} : Goto(r, pc, u, NoFamily)
  /\ raced' = IF \E q \in Requests : Entering(q, u) THEN raced \cup {u} ELSE raced
  /\ UNCHANGED <<accounts, families, members, cache, abandoned>>

\* One SQL transaction stores the family and its owner; the save of the owner's row
\* validates that the account still exists.
CommitFamily(r) ==
  LET u == request[r].user IN
  /\ At(r, "create")
  /\ u \in accounts
  /\ \E f \in Families :
       /\ families[f] = "free"
       /\ families' = [families EXCEPT ![f] = "stored"]
       /\ members' = members \cup {[user |-> u, family |-> f, role |-> "owner"]}
       /\ Goto(r, "invalidate", u, f)
  /\ UNCHANGED <<accounts, cache, history>>

FindByInviteCode(r) ==
  /\ At(r, "find")
  /\ \E f \in Families :
       /\ families[f] = "stored"
       /\ Goto(r, "join", request[r].user, f)
  /\ UNCHANGED <<accounts, families, members, cache, history>>

\* The save validates that the family and the account still exist, and the unique index
\* admits one row per family and user.
CreateMember(r) ==
  LET u == request[r].user  f == request[r].family IN
  /\ At(r, "join")
  /\ u \in accounts
  /\ families[f] = "stored" /\ f \notin FamiliesOf(u)
  /\ members' = members \cup {[user |-> u, family |-> f, role |-> "member"]}
  /\ Goto(r, "invalidate", u, f)
  /\ UNCHANGED <<accounts, families, cache, history>>

\* An unknown code, a row the database refuses, a failing statement: the transaction is
\* rolled back and the request ends.
Refuse(r) ==
  /\ request[r].pc \in {"create", "find", "join", "delete", "query"}
  /\ End(r)
  /\ UNCHANGED <<accounts, families, members, cache, history>>

(***************************************************************************)
(* LeaveFamily: the first row of the user is found, then deleted.          *)
(***************************************************************************)

FindMember(r, u) ==
  /\ At(r, "idle")
  /\ \E f \in FamiliesOf(u) : Goto(r, "delete", u, f)
  /\ UNCHANGED <<accounts, families, members, cache, history>>

\* The requests once the rows are deleted: some have read one of them and will still put
\* its family into the cache.
Outrun(requests, rows) ==
  [q \in Requests |->
     IF /\ requests[q].pc = "fill"
        /\ \E m \in rows : m.user = requests[q].user /\ m.family = requests[q].family
     THEN [requests[q] EXCEPT !.outrun = TRUE] ELSE requests[q]]

DeleteMember(r) ==
  LET u == request[r].user
      rows == {m \in members : m.user = u /\ m.family = request[r].family}
  IN  /\ At(r, "delete")
      /\ members' = members \ rows
      /\ abandoned' = abandoned \cup OwnedBy(rows)
      /\ request' = [Outrun(request, rows) EXCEPT ![r].pc = "invalidate"]
      /\ UNCHANGED <<accounts, families, cache, raced>>

InvalidateFamily(r) ==
  /\ At(r, "invalidate")
  /\ cache' = [cache EXCEPT ![request[r].user] = NoEntry]
  /\ End(r)
  /\ UNCHANGED <<accounts, families, members, history>>

(***************************************************************************)
(* RequireFamily and RequireFamilyOwner.                                   *)
(***************************************************************************)

CacheHit(r, u) ==
  /\ At(r, "idle") /\ Valid(u)
  /\ Goto(r, "serve", u, cache[u].family)
  /\ UNCHANGED <<accounts, families, members, cache, history>>

\* get deletes an expired entry.
CacheMiss(r, u) ==
  /\ At(r, "idle") /\ ~Valid(u)
  /\ cache' = [cache EXCEPT ![u] = NoEntry]
  /\ Goto(r, "query", u, NoFamily)
  /\ UNCHANGED <<accounts, families, members, history>>

\* GetByUserID returns a row; without one the request is refused.
QueryMembership(r) ==
  /\ At(r, "query")
  /\ \E f \in FamiliesOf(request[r].user) : Goto(r, "fill", request[r].user, f)
  /\ UNCHANGED <<accounts, families, members, cache, history>>

FillCache(r) ==
  LET u == request[r].user  f == request[r].family IN
  /\ At(r, "fill")
  /\ cache' = [cache EXCEPT ![u] = [family |-> f, age |-> 0, outrun |-> request[r].outrun]]
  /\ Goto(r, "serve", u, f)
  /\ UNCHANGED <<accounts, families, members, history>>

\* An owner's route asks the table for the role in the family of the context.
IsFamilyOwner(r) ==
  LET u == request[r].user  f == request[r].family IN
  /\ At(r, "serve")
  /\ [user |-> u, family |-> f, role |-> "owner"] \in members
  /\ Goto(r, "manage", u, f)
  /\ UNCHANGED <<accounts, families, members, cache, history>>

Serve(r) ==
  /\ request[r].pc \in {"serve", "manage"}
  /\ End(r)
  /\ UNCHANGED <<accounts, families, members, cache, history>>

(***************************************************************************)
(* The collection API of PocketBase, whose rules allow these deletions.    *)
(* Nobody tells the cache.                                                 *)
(***************************************************************************)

\* The owner deletes the family; the rows of its members go with it.
DeleteFamily(f) ==
  LET rows == {m \in members : m.family = f} IN
  /\ families[f] = "stored"
  /\ \E m \in rows : m.role = "owner"
  /\ families' = [families EXCEPT ![f] = "deleted"]
  /\ members' = members \ rows
  /\ request' = Outrun(request, rows)
  /\ UNCHANGED <<accounts, cache, history>>

\* Whoever is authenticated deletes any member's row, an owner's too.
RemoveMember(m) ==
  /\ accounts # {}
  /\ m \in members
  /\ members' = members \ {m}
  /\ abandoned' = abandoned \cup OwnedBy({m})
  /\ request' = Outrun(request, {m})
  /\ cache' = [cache EXCEPT ![m.user].outrun = @ \/ cache[m.user].family = m.family]
  /\ UNCHANGED <<accounts, families, raced>>

\* A user deletes the own account; the user's rows go with it.
DeleteAccount(u) ==
  LET rows == {m \in members : m.user = u} IN
  /\ u \in accounts
  /\ accounts' = accounts \ {u}
  /\ members' = members \ rows
  /\ abandoned' = abandoned \cup OwnedBy(rows)
  /\ request' = Outrun(request, rows)
  /\ UNCHANGED <<families, cache, raced>>

(***************************************************************************)
(* The rest of the system.                                                 *)
(***************************************************************************)

Tick ==
  /\ cache' = [u \in Users |-> IF Valid(u) THEN [cache[u] EXCEPT !.age = @ + 1] ELSE cache[u]]
  /\ UNCHANGED <<accounts, families, members, request, history>>

\* The process stops and starts again: requests and cache are gone.
Restart ==
  /\ request' = [r \in Requests |-> Idle]
  /\ cache' = [u \in Users |-> NoEntry]
  /\ UNCHANGED <<accounts, families, members, history>>

Continue(r) ==
  \/ CommitFamily(r) \/ FindByInviteCode(r) \/ CreateMember(r) \/ Refuse(r)
  \/ DeleteMember(r) \/ InvalidateFamily(r)
  \/ QueryMembership(r) \/ FillCache(r) \/ IsFamilyOwner(r) \/ Serve(r)

Begin(r, u) == CheckNoFamily(r, u) \/ FindMember(r, u) \/ CacheHit(r, u) \/ CacheMiss(r, u)

\* Only the token of an existing account passes the authentication of a request.
Next ==
  \/ \E r \in Requests : Continue(r) \/ \E u \in accounts : Begin(r, u)
  \/ \E f \in Families : DeleteFamily(f)
  \/ \E m \in Row : RemoveMember(m)
  \/ \E u \in Users : DeleteAccount(u)
  \/ Tick
  \/ Restart

Spec == Init /\ [][Next]_vars

\* Requests that have begun come to an end, and time passes.
FairSpec ==
  /\ Spec
  /\ \A r \in Requests : WF_vars(Continue(r))
  /\ WF_vars(Tick)

-------------------------------------------------------------------------------
(***************************************************************************)
(* Properties.                                                             *)
(***************************************************************************)

\* Every variable keeps its type, and every stored member has a role.
TypeOK ==
  /\ accounts \subseteq Users
  /\ families \in [Families -> {"free", "stored", "deleted"}]
  /\ members \subseteq Row
  /\ cache \in [Users -> [family : Families \cup {NoFamily}, age : 0..TTL, outrun : BOOLEAN]]
  /\ request \in [Requests ->
       [pc : {"idle", "create", "find", "join", "delete", "invalidate", "query", "fill",
              "serve", "manage"},
        user : Users \cup {NoUser}, family : Families \cup {NoFamily}, outrun : BOOLEAN]]
  /\ raced \subseteq Users
  /\ abandoned \subseteq Families

\* A user has one membership, and the members of a family see the same family on every
\* request, unless two of the user's requests to create or join ran at the same time: the
\* check is not atomic with the insertion and the index is on family and user together.
OneFamilyUnlessRaced ==
  \A m, n \in members : m.user = n.user /\ m.user \notin raced => m = n

\* Every family that CreateFamily has stored has an owner until the owner's row is deleted:
\* by the owner leaving, through the collection API or with the account.  Whatever fails or
\* is deleted while the family is created, it is not stored without one.
OwnedUntilRemoved ==
  \A f \in Families :
    families[f] = "stored" /\ f \notin abandoned =>
      \E m \in members : m.family = f /\ m.role = "owner"

\* The cache never says of a user what the table does not, save while the request that
\* changed the table is about to clear the entry, after a request filled it with a row
\* read before the row was deleted, and for a row that the collection API deleted, by
\* itself, with its family or with the account.
CacheFollowsTable ==
  \A u \in Users :
    LET f == cache[u].family IN
    Valid(u) /\ f \notin FamiliesOf(u) =>
      \/ families[f] = "deleted" \/ u \notin accounts
      \/ cache[u].outrun
      \/ \E r \in Requests : At(r, "invalidate") /\ request[r].user = u

\* A user who has no family for good, having left or been removed, is refused for good
\* from some time on, however often the user asks and whichever requests were under way:
\* an entry is not prolonged by its use.
EventuallyRefused ==
  \A u \in Users : <>[](FamiliesOf(u) = {}) => <>[]~Valid(u)

===============================================================================
