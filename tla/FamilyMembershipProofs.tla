------------------------- MODULE FamilyMembershipProofs -------------------------
(***************************************************************************)
(* Proofs about FamilyMembership, for any number of users, families and    *)
(* requests and any lifetime of the cache.  None of the safety properties  *)
(* is inductive alone: they need what a request may rely on between two of *)
(* its steps.                                                              *)
(***************************************************************************)
EXTENDS FamilyMembership, TLAPS

PCs == {"idle", "create", "find", "join", "delete", "invalidate", "query", "fill",
        "serve", "manage"}

Job == [pc : PCs, user : Users \cup {NoUser}, family : Families \cup {NoFamily},
        outrun : BOOLEAN]

Entry == [family : Families \cup {NoFamily}, age : 0..TTL, outrun : BOOLEAN]

\* A request that runs has its user, and one that is about to store or to cache a
\* family has that.
Named(j) ==
  /\ j.pc # "idle" => j.user \in Users
  /\ j.pc \in {"join", "fill"} => j.family \in Families

\* A valid entry names a family.
Filled(entry) == entry.age < TTL => entry.family \in Families

TypeInv ==
  /\ accounts \subseteq Users
  /\ families \in [Families -> {"free", "stored", "deleted"}]
  /\ members \subseteq Row
  /\ cache \in [Users -> Entry] /\ \A u \in Users : Filled(cache[u])
  /\ request \in [Requests -> Job] /\ \A r \in Requests : Named(request[r])
  /\ raced \subseteq Users
  /\ abandoned \subseteq Families

-------------------------------------------------------------------------------
(***************************************************************************)
(* Types.                                                                  *)
(***************************************************************************)

\* One request moves.
LEMMA RequestMoves ==
  ASSUME TypeInv, NEW r \in Requests, NEW j \in Job, Named(j),
         request' = [request EXCEPT ![r] = j]
  PROVE  /\ request' \in [Requests -> Job] /\ \A q \in Requests : Named(request'[q])
         /\ request'[r] = j
         /\ \A q \in Requests \ {r} : request'[q] = request[q]
  BY DEF TypeInv

LEMMA GotoMoves ==
  ASSUME TypeInv, NEW r \in Requests, NEW pc \in PCs, NEW u \in Users,
         NEW f \in Families \cup {NoFamily}, pc \in {"join", "fill"} => f \in Families,
         Goto(r, pc, u, f)
  PROVE  /\ request' \in [Requests -> Job] /\ \A q \in Requests : Named(request'[q])
         /\ request'[r] = [pc |-> pc, user |-> u, family |-> f, outrun |-> FALSE]
         /\ \A q \in Requests \ {r} : request'[q] = request[q]
<1> DEFINE j == [pc |-> pc, user |-> u, family |-> f, outrun |-> FALSE]
<1>1. j \in Job
  BY DEF Job
<1>2. Named(j)
  BY DEF Named
<1>3. request' = [request EXCEPT ![r] = j]
  BY DEF Goto
<1> QED BY <1>1, <1>2, <1>3, RequestMoves

LEMMA GotoStep ==
  ASSUME TypeInv, NEW r \in Requests, NEW pc, NEW u, NEW f, Goto(r, pc, u, f)
  PROVE  /\ request'[r].pc = pc /\ request'[r].user = u /\ request'[r].family = f
         /\ request'[r].outrun = FALSE
         /\ \A q \in Requests \ {r} : request'[q] = request[q]
  BY DEF TypeInv, Goto

LEMMA EndMoves ==
  ASSUME TypeInv, NEW r \in Requests, End(r)
  PROVE  /\ request' \in [Requests -> Job] /\ \A q \in Requests : Named(request'[q])
         /\ request'[r] = Idle
         /\ \A q \in Requests \ {r} : request'[q] = request[q]
<1>1. Idle \in Job
  BY DEF Idle, Job, PCs
<1>2. Named(Idle)
  BY DEF Idle, Named
<1> QED BY <1>1, <1>2, RequestMoves DEF End

LEMMA OutrunTyped ==
  ASSUME TypeInv, NEW rows
  PROVE  /\ Outrun(request, rows) \in [Requests -> Job]
         /\ \A q \in Requests :
              LET j == Outrun(request, rows)[q] IN
              /\ Named(j)
              /\ j.pc = request[q].pc /\ j.user = request[q].user
              /\ j.family = request[q].family
              /\ request[q].outrun => j.outrun
              /\ ~j.outrun => \A m \in rows :
                   ~(j.pc = "fill" /\ m.user = j.user /\ m.family = j.family)
<1> SUFFICES ASSUME NEW q \in Requests
             PROVE  LET j == Outrun(request, rows)[q] IN
                    /\ j \in Job
                    /\ Named(j)
                    /\ j.pc = request[q].pc /\ j.user = request[q].user
                    /\ j.family = request[q].family
                    /\ request[q].outrun => j.outrun
                    /\ ~j.outrun => \A m \in rows :
                         ~(j.pc = "fill" /\ m.user = j.user /\ m.family = j.family)
  <2> DEFINE F == Outrun(request, rows)
  <2>1. \A q \in Requests : F[q] \in Job
    OBVIOUS
  <2>2. F = [q \in Requests |-> F[q]]
    BY DEF Outrun
  <2>3. F \in [Requests -> Job]
    BY <2>1, <2>2
  <2> QED BY <2>3
<1>1. request[q] \in Job /\ Named(request[q])
  BY DEF TypeInv
<1>2. [request[q] EXCEPT !.outrun = TRUE] \in Job
  BY <1>1 DEF Job
<1> QED BY <1>1, <1>2 DEF Outrun, Job, Named

LEMMA InitTyped == Init => TypeInv
<1> SUFFICES ASSUME Init PROVE TypeInv
  OBVIOUS
<1>1. Idle \in Job /\ Named(Idle)
  BY DEF Idle, Job, PCs, Named
<1>2. NoEntry \in Entry /\ Filled(NoEntry)
  BY MembershipAssumption DEF NoEntry, Entry, Filled
<1> QED BY <1>1, <1>2 DEF Init, TypeInv

\* The steps that leave families, rows and cache alone.
LEMMA JobTyped ==
  ASSUME TypeInv, NEW r \in Requests, NEW pc \in PCs, NEW u \in Users,
         NEW f \in Families \cup {NoFamily}, pc \in {"join", "fill"} => f \in Families,
         Goto(r, pc, u, f), UNCHANGED <<accounts, families, members, cache, abandoned>>,
         raced' \in SUBSET Users
  PROVE  TypeInv'
<1>1. request' \in [Requests -> Job] /\ \A q \in Requests : Named(request'[q])
  BY GotoMoves
<1> QED BY <1>1 DEF TypeInv

LEMMA EndTyped ==
  ASSUME TypeInv, NEW r \in Requests, End(r),
         UNCHANGED <<accounts, families, members, cache, history>>
  PROVE  TypeInv'
<1>1. request' \in [Requests -> Job] /\ \A q \in Requests : Named(request'[q])
  BY EndMoves
<1> QED BY <1>1 DEF TypeInv, history

LEMMA StoredTyped ==
  ASSUME TypeInv, NEW r \in Requests, NEW u \in Users, NEW f \in Families, NEW role \in Roles,
         families' \in [Families -> {"free", "stored", "deleted"}],
         members' = members \cup {[user |-> u, family |-> f, role |-> role]},
         Goto(r, "invalidate", u, f), UNCHANGED <<accounts, cache, history>>
  PROVE  TypeInv'
<1>1. request' \in [Requests -> Job] /\ \A q \in Requests : Named(request'[q])
  BY GotoMoves DEF PCs
<1>2. [user |-> u, family |-> f, role |-> role] \in Row
  BY DEF Row
<1> QED BY <1>1, <1>2 DEF TypeInv, history

LEMMA DeleteMemberTyped ==
  ASSUME TypeInv, NEW r \in Requests, DeleteMember(r)
  PROVE  TypeInv'
<1> DEFINE rows == {m \in members : m.user = request[r].user /\ m.family = request[r].family}
           F == Outrun(request, rows)
           j == [F[r] EXCEPT !.pc = "invalidate"]
<1>1. F \in [Requests -> Job] /\ \A q \in Requests : Named(F[q])
  BY OutrunTyped
<1>2. request[r].pc = "delete" /\ request[r].user \in Users
  BY DEF DeleteMember, At, TypeInv, Named
<1>3. F[r].user = request[r].user
  BY OutrunTyped
<1> HIDE DEF F
<1>4. F[r] \in Job
  BY <1>1
<1>5. j \in Job /\ Named(j)
  BY <1>2, <1>3, <1>4 DEF Job, PCs, Named
<1>6. request' = [F EXCEPT ![r] = j]
  BY <1>1 DEF DeleteMember, F
<1>7. request' \in [Requests -> Job] /\ \A q \in Requests : Named(request'[q])
  BY <1>1, <1>5, <1>6
<1>8. abandoned' \subseteq Families /\ members' \subseteq Row
  BY DEF DeleteMember, OwnedBy, TypeInv, Row
<1> QED BY <1>7, <1>8 DEF TypeInv, DeleteMember

LEMMA CacheTyped ==
  ASSUME TypeInv, NEW u \in Users, NEW entry \in Entry, Filled(entry),
         cache' = [cache EXCEPT ![u] = entry]
  PROVE  cache' \in [Users -> Entry] /\ \A v \in Users : Filled(cache'[v])
  BY DEF TypeInv

LEMMA NoEntryTyped == NoEntry \in Entry /\ Filled(NoEntry)
  BY MembershipAssumption DEF NoEntry, Entry, Filled

LEMMA TypeKeeps ==
  ASSUME TypeInv, [Next]_vars
  PROVE  TypeInv'
<1>1. ASSUME NEW r \in Requests, NEW u \in Users, CheckNoFamily(r, u)
      PROVE  TypeInv'
  <2>1. raced' \in SUBSET Users
    BY <1>1 DEF CheckNoFamily, TypeInv
  <2>2. PICK pc \in {"create", "find"} : Goto(r, pc, u, NoFamily)
    BY <1>1 DEF CheckNoFamily
  <2> QED BY <1>1, <2>1, <2>2, JobTyped DEF CheckNoFamily, PCs
<1>2. ASSUME NEW r \in Requests, CommitFamily(r)
      PROVE  TypeInv'
  <2>1. request[r].user \in Users
    BY <1>2 DEF CommitFamily, At, TypeInv, Named
  <2>2. PICK f \in Families :
          /\ families' = [families EXCEPT ![f] = "stored"]
          /\ members' = members \cup {[user |-> request[r].user, family |-> f, role |-> "owner"]}
          /\ Goto(r, "invalidate", request[r].user, f)
    BY <1>2 DEF CommitFamily
  <2>3. families' \in [Families -> {"free", "stored", "deleted"}]
    BY <2>2 DEF TypeInv
  <2> QED BY <1>2, <2>1, <2>2, <2>3, StoredTyped DEF CommitFamily, Roles
<1>3. ASSUME NEW r \in Requests, FindByInviteCode(r)
      PROVE  TypeInv'
  <2>1. request[r].user \in Users
    BY <1>3 DEF FindByInviteCode, At, TypeInv, Named
  <2> QED BY <1>3, <2>1, JobTyped DEF FindByInviteCode, PCs, history, TypeInv
<1>4. ASSUME NEW r \in Requests, CreateMember(r)
      PROVE  TypeInv'
  <2>1. request[r].user \in Users /\ request[r].family \in Families
    BY <1>4 DEF CreateMember, At, TypeInv, Named
  <2>2. families' \in [Families -> {"free", "stored", "deleted"}]
    BY <1>4 DEF CreateMember, TypeInv
  <2> QED BY <1>4, <2>1, <2>2, StoredTyped DEF CreateMember, Roles
<1>5. ASSUME NEW r \in Requests, Refuse(r) \/ Serve(r)
      PROVE  TypeInv'
  BY <1>5, EndTyped DEF Refuse, Serve
<1>6. ASSUME NEW r \in Requests, NEW u \in Users, FindMember(r, u)
      PROVE  TypeInv'
  <2>1. PICK f \in FamiliesOf(u) : Goto(r, "delete", u, f)
    BY <1>6 DEF FindMember
  <2>2. f \in Families
    BY DEF FamiliesOf, TypeInv, Row
  <2> QED BY <1>6, <2>1, <2>2, JobTyped DEF FindMember, PCs, history, TypeInv
<1>7. ASSUME NEW r \in Requests, DeleteMember(r)
      PROVE  TypeInv'
  BY <1>7, DeleteMemberTyped
<1>8. ASSUME NEW r \in Requests, InvalidateFamily(r)
      PROVE  TypeInv'
  <2>1. request[r].user \in Users
    BY <1>8 DEF InvalidateFamily, At, TypeInv, Named
  <2>2. cache' \in [Users -> Entry] /\ \A v \in Users : Filled(cache'[v])
    BY <1>8, <2>1, CacheTyped, NoEntryTyped DEF InvalidateFamily
  <2>3. request' \in [Requests -> Job] /\ \A q \in Requests : Named(request'[q])
    BY <1>8, EndMoves DEF InvalidateFamily
  <2> QED BY <1>8, <2>2, <2>3 DEF InvalidateFamily, TypeInv, history
<1>9. ASSUME NEW r \in Requests, NEW u \in Users, CacheHit(r, u)
      PROVE  TypeInv'
  <2>1. cache[u].family \in Families \cup {NoFamily}
    BY DEF TypeInv, Entry
  <2> QED BY <1>9, <2>1, JobTyped DEF CacheHit, PCs, history, TypeInv
<1>10. ASSUME NEW r \in Requests, NEW u \in Users, CacheMiss(r, u)
       PROVE  TypeInv'
  <2>1. cache' \in [Users -> Entry] /\ \A v \in Users : Filled(cache'[v])
    BY <1>10, CacheTyped, NoEntryTyped DEF CacheMiss
  <2>2. request' \in [Requests -> Job] /\ \A q \in Requests : Named(request'[q])
    BY <1>10, GotoMoves DEF CacheMiss, PCs
  <2> QED BY <1>10, <2>1, <2>2 DEF CacheMiss, TypeInv, history
<1>11. ASSUME NEW r \in Requests, QueryMembership(r)
       PROVE  TypeInv'
  <2>1. request[r].user \in Users
    BY <1>11 DEF QueryMembership, At, TypeInv, Named
  <2>2. PICK f \in FamiliesOf(request[r].user) : Goto(r, "fill", request[r].user, f)
    BY <1>11 DEF QueryMembership
  <2>3. f \in Families
    BY DEF FamiliesOf, TypeInv, Row
  <2> QED BY <1>11, <2>1, <2>2, <2>3, JobTyped DEF QueryMembership, PCs, history, TypeInv
<1>12. ASSUME NEW r \in Requests, FillCache(r)
       PROVE  TypeInv'
  <2> DEFINE u == request[r].user
             f == request[r].family
             entry == [family |-> f, age |-> 0, outrun |-> request[r].outrun]
  <2>1. u \in Users /\ f \in Families /\ request[r].outrun \in BOOLEAN
    BY <1>12 DEF FillCache, At, TypeInv, Named, Job
  <2>2. entry \in Entry /\ Filled(entry)
    BY <2>1, MembershipAssumption DEF Entry, Filled
  <2>3. cache' = [cache EXCEPT ![u] = entry] /\ Goto(r, "serve", u, f)
    BY <1>12 DEF FillCache
  <2>4. cache' \in [Users -> Entry] /\ \A v \in Users : Filled(cache'[v])
    BY <2>1, <2>2, <2>3, CacheTyped
  <2>5. request' \in [Requests -> Job] /\ \A q \in Requests : Named(request'[q])
    BY <2>1, <2>3, GotoMoves DEF PCs
  <2> QED BY <1>12, <2>4, <2>5 DEF FillCache, TypeInv, history
<1>13. ASSUME NEW r \in Requests, IsFamilyOwner(r)
       PROVE  TypeInv'
  <2>1. request[r].user \in Users /\ request[r].family \in Families \cup {NoFamily}
    BY <1>13 DEF IsFamilyOwner, At, TypeInv, Named, Job
  <2> QED BY <1>13, <2>1, JobTyped DEF IsFamilyOwner, PCs, history, TypeInv
<1>14. ASSUME NEW f \in Families, DeleteFamily(f)
       PROVE  TypeInv'
  <2>1. request' \in [Requests -> Job] /\ \A q \in Requests : Named(request'[q])
    BY <1>14, OutrunTyped DEF DeleteFamily
  <2> QED BY <1>14, <2>1 DEF DeleteFamily, TypeInv, history
<1>15. ASSUME NEW m \in Row, RemoveMember(m)
       PROVE  TypeInv'
  <2>1. request' \in [Requests -> Job] /\ \A q \in Requests : Named(request'[q])
    BY <1>15, OutrunTyped DEF RemoveMember
  <2> DEFINE u == m.user
             entry == [cache[u] EXCEPT !.outrun = @ \/ cache[u].family = m.family]
  <2>2. u \in Users /\ m.family \in Families
    BY DEF Row
  <2>3. cache[u] \in Entry /\ Filled(cache[u])
    BY <2>2 DEF TypeInv
  <2>4. entry \in Entry /\ Filled(entry)
    BY <2>3 DEF Entry, Filled
  <2>5. cache' = [cache EXCEPT ![u] = entry]
    BY <1>15 DEF RemoveMember
  <2> HIDE DEF entry, u
  <2>6. cache' \in [Users -> Entry] /\ \A v \in Users : Filled(cache'[v])
    BY <2>2, <2>4, <2>5, CacheTyped
  <2>7. abandoned' \subseteq Families
    BY <1>15, <2>2 DEF RemoveMember, OwnedBy, TypeInv
  <2> QED BY <1>15, <2>1, <2>6, <2>7 DEF RemoveMember, TypeInv
<1>16. ASSUME NEW u \in Users, DeleteAccount(u)
       PROVE  TypeInv'
  <2>1. request' \in [Requests -> Job] /\ \A q \in Requests : Named(request'[q])
    BY <1>16, OutrunTyped DEF DeleteAccount
  <2>2. abandoned' \subseteq Families /\ members' \subseteq Row
    BY <1>16 DEF DeleteAccount, OwnedBy, TypeInv, Row
  <2> QED BY <1>16, <2>1, <2>2 DEF DeleteAccount, TypeInv
<1>17. ASSUME Tick
       PROVE  TypeInv'
  <2>1. ASSUME NEW u \in Users
        PROVE  cache'[u] \in Entry /\ Filled(cache'[u])
    <3>1. cache[u] \in Entry /\ Filled(cache[u]) /\ TTL \in Nat
      BY MembershipAssumption DEF TypeInv
    <3>2. CASE Valid(u)
      <4>1. cache'[u] = [cache[u] EXCEPT !.age = @ + 1]
        BY <1>17, <3>2 DEF Tick
      <4>2. cache[u].age + 1 \in 0..TTL /\ cache[u].family \in Families
        BY <3>1, <3>2 DEF Valid, Entry, Filled
      <4> QED BY <3>1, <4>1, <4>2 DEF Entry, Filled
    <3>3. CASE ~Valid(u)
      BY <1>17, <3>1, <3>3 DEF Tick
    <3> QED BY <3>2, <3>3
  <2>2. cache' \in [Users -> Entry] /\ \A u \in Users : Filled(cache'[u])
    BY <1>17, <2>1 DEF Tick
  <2> QED BY <1>17, <2>2 DEF Tick, TypeInv, history
<1>18. ASSUME Restart
       PROVE  TypeInv'
  <2>1. Idle \in Job /\ Named(Idle)
    BY DEF Idle, Job, PCs, Named
  <2> QED BY <1>18, <2>1, NoEntryTyped DEF Restart, TypeInv, history
<1>19. ASSUME UNCHANGED vars
       PROVE  TypeInv'
  BY <1>19 DEF TypeInv, vars
<1> QED
  BY <1>1, <1>2, <1>3, <1>4, <1>5, <1>6, <1>7, <1>8, <1>9, <1>10, <1>11, <1>12, <1>13,
     <1>14, <1>15, <1>16, <1>17, <1>18, <1>19 DEF Next, Continue, Begin, TypeInv

-------------------------------------------------------------------------------
(***************************************************************************)
(* One family for each user.                                               *)
(***************************************************************************)

\* Of a user who never had two requests between check and insertion there is at most one,
\* and while it is there the user has no family.
EntersAlone ==
  \A r \in Requests, u \in Users \ raced :
    Entering(r, u) =>
      /\ \A q \in Requests : Entering(q, u) => q = r
      /\ \A m \in members : m.user # u

OneFamilyInv == OneFamilyUnlessRaced /\ EntersAlone

\* Who entered keeps on entering or stops, no row is added.
LEMMA NobodyEnters ==
  ASSUME OneFamilyInv, members' \subseteq members, raced \subseteq raced',
         \A r \in Requests, u \in Users : Entering(r, u)' => Entering(r, u)
  PROVE  OneFamilyInv'
<1>1. OneFamilyUnlessRaced'
  BY DEF OneFamilyInv, OneFamilyUnlessRaced
<1>2. EntersAlone'
  <2> SUFFICES ASSUME NEW r \in Requests, NEW u \in Users \ raced', Entering(r, u)'
               PROVE  /\ \A q \in Requests : Entering(q, u)' => q = r
                      /\ \A m \in members' : m.user # u
    BY DEF EntersAlone
  <2>1. u \in Users \ raced /\ Entering(r, u)
    OBVIOUS
  <2> QED BY <2>1 DEF OneFamilyInv, EntersAlone
<1> QED BY <1>1, <1>2 DEF OneFamilyInv

\* The request of user u stores the row of u and leaves.
LEMMA OneEnters ==
  ASSUME TypeInv, OneFamilyInv, NEW r \in Requests, NEW u \in Users, Entering(r, u),
         NEW row \in Row, row.user = u, members' = members \cup {row}, UNCHANGED raced,
         request'[r].pc = "invalidate",
         \A q \in Requests \ {r} : request'[q] = request[q]
  PROVE  OneFamilyInv'
<1>1. OneFamilyUnlessRaced'
  <2> SUFFICES ASSUME NEW m \in members', NEW n \in members', m.user = n.user, m.user \notin raced
               PROVE  m = n
    BY DEF OneFamilyUnlessRaced
  <2>1. CASE m.user = u
    <3>1. \A k \in members : k.user # u
      BY <2>1 DEF OneFamilyInv, EntersAlone
    <3> QED BY <2>1, <3>1
  <2>2. CASE m.user # u
    BY <2>2 DEF OneFamilyInv, OneFamilyUnlessRaced
  <2> QED BY <2>1, <2>2
<1>2. EntersAlone'
  <2> SUFFICES ASSUME NEW q \in Requests, NEW v \in Users \ raced, Entering(q, v)'
               PROVE  /\ \A p \in Requests : Entering(p, v)' => p = q
                      /\ \A m \in members' : m.user # v
    BY DEF EntersAlone
  <2>1. \A p \in Requests : Entering(p, v)' => Entering(p, v) /\ p # r
    BY DEF Entering
  <2>2. /\ \A p \in Requests : Entering(p, v) => p = q
        /\ \A m \in members : m.user # v
    BY <2>1 DEF OneFamilyInv, EntersAlone
  <2>3. v # u
    BY <2>1, <2>2
  <2> QED BY <2>1, <2>2, <2>3
<1> QED BY <1>1, <1>2 DEF OneFamilyInv

LEMMA OneFamilyKeeps ==
  ASSUME TypeInv, OneFamilyInv, [Next]_vars
  PROVE  OneFamilyInv'
<1>1. ASSUME NEW r \in Requests, NEW u \in Users, CheckNoFamily(r, u)
      PROVE  OneFamilyInv'
  <2>1. PICK pc \in {"create", "find"} : Goto(r, pc, u, NoFamily)
    BY <1>1 DEF CheckNoFamily
  <2>2. request'[r].user = u /\ \A q \in Requests \ {r} : request'[q] = request[q]
    BY <2>1, GotoStep
  <2>3. members' = members /\ raced \subseteq raced' /\ \A m \in members : m.user # u
    BY <1>1 DEF CheckNoFamily, FamiliesOf
  <2>4. u \notin raced' => \A q \in Requests : ~Entering(q, u)
    BY <1>1 DEF CheckNoFamily
  <2>5. OneFamilyUnlessRaced'
    BY <2>3 DEF OneFamilyInv, OneFamilyUnlessRaced
  <2>6. EntersAlone'
    <3> SUFFICES ASSUME NEW q \in Requests, NEW v \in Users \ raced', Entering(q, v)'
                 PROVE  /\ \A p \in Requests : Entering(p, v)' => p = q
                        /\ \A m \in members : m.user # v
      BY <2>3 DEF EntersAlone
    <3>1. \A p \in Requests : Entering(p, v)' => (p = r /\ u = v) \/ (p # r /\ Entering(p, v))
      BY <2>2 DEF Entering
    <3>2. CASE v = u
      BY <2>3, <2>4, <3>1, <3>2
    <3>3. CASE v # u
      <4>1. Entering(q, v) /\ v \in Users \ raced
        BY <2>3, <3>1, <3>3
      <4>2. /\ \A p \in Requests : Entering(p, v) => p = q
            /\ \A m \in members : m.user # v
        BY <4>1 DEF OneFamilyInv, EntersAlone
      <4> QED BY <3>1, <3>3, <4>2
    <3> QED BY <3>2, <3>3
  <2> QED BY <2>5, <2>6 DEF OneFamilyInv
<1>2. ASSUME NEW r \in Requests, CommitFamily(r)
      PROVE  OneFamilyInv'
  <2> DEFINE u == request[r].user
  <2>1. u \in Users /\ Entering(r, u)
    BY <1>2 DEF CommitFamily, At, TypeInv, Named, Entering
  <2>2. PICK f \in Families :
          /\ members' = members \cup {[user |-> u, family |-> f, role |-> "owner"]}
          /\ Goto(r, "invalidate", u, f)
    BY <1>2 DEF CommitFamily
  <2>3. request'[r].pc = "invalidate" /\ \A q \in Requests \ {r} : request'[q] = request[q]
    BY <2>1, <2>2, GotoStep
  <2>4. [user |-> u, family |-> f, role |-> "owner"] \in Row
    BY <2>1 DEF Row, Roles
  <2> HIDE DEF u
  <2> QED BY <1>2, <2>1, <2>2, <2>3, <2>4, OneEnters DEF CommitFamily, history
<1>3. ASSUME NEW r \in Requests, CreateMember(r)
      PROVE  OneFamilyInv'
  <2> DEFINE u == request[r].user
             f == request[r].family
  <2>1. u \in Users /\ f \in Families /\ Entering(r, u)
    BY <1>3 DEF CreateMember, At, TypeInv, Named, Entering
  <2>2. /\ members' = members \cup {[user |-> u, family |-> f, role |-> "member"]}
        /\ Goto(r, "invalidate", u, f)
    BY <1>3 DEF CreateMember
  <2>3. request'[r].pc = "invalidate" /\ \A q \in Requests \ {r} : request'[q] = request[q]
    BY <2>1, <2>2, GotoStep
  <2>4. [user |-> u, family |-> f, role |-> "member"] \in Row
    BY <2>1 DEF Row, Roles
  <2> HIDE DEF u, f
  <2> QED BY <1>3, <2>1, <2>2, <2>3, <2>4, OneEnters DEF CreateMember, history
<1>4. ASSUME NEW r \in Requests, FindByInviteCode(r)
      PROVE  OneFamilyInv'
  <2>1. request[r].user \in Users /\ request[r].pc = "find"
    BY <1>4 DEF FindByInviteCode, At, TypeInv, Named
  <2>2. PICK f \in Families : Goto(r, "join", request[r].user, f)
    BY <1>4 DEF FindByInviteCode
  <2>3. /\ request'[r].user = request[r].user
        /\ \A q \in Requests \ {r} : request'[q] = request[q]
    BY <2>1, <2>2, GotoStep
  <2> QED BY <1>4, <2>1, <2>3, NobodyEnters DEF FindByInviteCode, Entering, history
<1>5. ASSUME NEW r \in Requests, Refuse(r) \/ Serve(r) \/ InvalidateFamily(r)
      PROVE  OneFamilyInv'
  <2>1. End(r) /\ members' = members /\ raced' = raced
    BY <1>5 DEF Refuse, Serve, InvalidateFamily, history
  <2>2. request'[r] = Idle /\ \A q \in Requests \ {r} : request'[q] = request[q]
    BY <2>1, EndMoves
  <2> QED BY <2>1, <2>2, NobodyEnters DEF Entering, Idle
<1>6. ASSUME NEW r \in Requests, DeleteMember(r)
      PROVE  OneFamilyInv'
  <2> DEFINE rows == {m \in members : m.user = request[r].user /\ m.family = request[r].family}
             F == Outrun(request, rows)
  <2>1. \A q \in Requests : F[q].pc = request[q].pc /\ F[q].user = request[q].user
    BY OutrunTyped
  <2>2. F \in [Requests -> Job]
    BY OutrunTyped
  <2>3. request' = [F EXCEPT ![r].pc = "invalidate"]
    BY <1>6 DEF DeleteMember
  <2> HIDE DEF F
  <2>4. /\ request'[r].pc = "invalidate"
        /\ \A q \in Requests \ {r} : request'[q] = F[q]
    BY <2>2, <2>3 DEF Job
  <2> QED BY <1>6, <2>1, <2>4, NobodyEnters DEF DeleteMember, Entering
<1>7. ASSUME NEW r \in Requests, NEW u \in Users,
             FindMember(r, u) \/ CacheHit(r, u) \/ CacheMiss(r, u)
      PROVE  OneFamilyInv'
  <2>1. \E pc \in {"delete", "serve", "query"}, f \in Families \cup {NoFamily} :
          Goto(r, pc, u, f)
    BY <1>7 DEF FindMember, CacheHit, CacheMiss, FamiliesOf, TypeInv, Row, Entry
  <2>2. /\ request'[r].pc \in {"delete", "serve", "query"}
        /\ \A q \in Requests \ {r} : request'[q] = request[q]
    BY <2>1, GotoStep
  <2>3. members' = members /\ raced' = raced
    BY <1>7 DEF FindMember, CacheHit, CacheMiss, history
  <2> QED BY <2>2, <2>3, NobodyEnters DEF Entering
<1>8. ASSUME NEW r \in Requests, QueryMembership(r) \/ FillCache(r) \/ IsFamilyOwner(r)
      PROVE  OneFamilyInv'
  <2>1. request[r].user \in Users
    BY <1>8 DEF QueryMembership, FillCache, IsFamilyOwner, At, TypeInv, Named
  <2>2. \/ \E f \in Families : Goto(r, "fill", request[r].user, f)
        \/ \E pc \in {"serve", "manage"}, f \in Families \cup {NoFamily} :
             Goto(r, pc, request[r].user, f)
    BY <1>8 DEF QueryMembership, FillCache, IsFamilyOwner, FamiliesOf, TypeInv, Row, Job
  <2>3. /\ request'[r].pc \in {"fill", "serve", "manage"}
        /\ \A q \in Requests \ {r} : request'[q] = request[q]
    BY <2>1, <2>2, GotoStep
  <2>4. members' = members /\ raced' = raced
    BY <1>8 DEF QueryMembership, FillCache, IsFamilyOwner, history
  <2> QED BY <2>3, <2>4, NobodyEnters DEF Entering
<1>9. ASSUME NEW f \in Families, DeleteFamily(f)
      PROVE  OneFamilyInv'
  <2>1. \A q \in Requests : request'[q].pc = request[q].pc /\ request'[q].user = request[q].user
    BY <1>9, OutrunTyped DEF DeleteFamily
  <2> QED BY <1>9, <2>1, NobodyEnters DEF DeleteFamily, Entering, history
<1>10. ASSUME NEW m \in Row, RemoveMember(m)
       PROVE  OneFamilyInv'
  <2>1. \A q \in Requests : request'[q].pc = request[q].pc /\ request'[q].user = request[q].user
    BY <1>10, OutrunTyped DEF RemoveMember
  <2> QED BY <1>10, <2>1, NobodyEnters DEF RemoveMember, Entering
<1>11. ASSUME NEW u \in Users, DeleteAccount(u)
       PROVE  OneFamilyInv'
  <2>1. \A q \in Requests : request'[q].pc = request[q].pc /\ request'[q].user = request[q].user
    BY <1>11, OutrunTyped DEF DeleteAccount
  <2> QED BY <1>11, <2>1, NobodyEnters DEF DeleteAccount, Entering
<1>12. ASSUME Tick \/ Restart \/ UNCHANGED vars
       PROVE  OneFamilyInv'
  <2>1. members' = members /\ raced' = raced
    BY <1>12 DEF Tick, Restart, vars, history
  <2>2. \A q \in Requests : request'[q] \in {request[q], Idle}
    BY <1>12 DEF Tick, Restart, vars
  <2> QED BY <2>1, <2>2, NobodyEnters DEF Entering, Idle
<1> QED
  BY <1>1, <1>2, <1>3, <1>4, <1>5, <1>6, <1>7, <1>8, <1>9, <1>10, <1>11, <1>12
     DEF Next, Continue, Begin, TypeInv

-------------------------------------------------------------------------------
(***************************************************************************)
(* An owner for each family.                                               *)
(***************************************************************************)

LEMMA OwnedKeeps ==
  ASSUME TypeInv, OwnedUntilRemoved, [Next]_vars
  PROVE  OwnedUntilRemoved'
<1>1. ASSUME NEW r \in Requests, CommitFamily(r)
      PROVE  OwnedUntilRemoved'
  <2>1. PICK f \in Families :
          /\ families' = [families EXCEPT ![f] = "stored"]
          /\ members' = members \cup {[user |-> request[r].user, family |-> f, role |-> "owner"]}
    BY <1>1 DEF CommitFamily
  <2> SUFFICES ASSUME NEW g \in Families, families'[g] = "stored", g \notin abandoned'
               PROVE  \E m \in members' : m.family = g /\ m.role = "owner"
    BY DEF OwnedUntilRemoved
  <2>2. CASE g = f
    <3> DEFINE row == [user |-> request[r].user, family |-> f, role |-> "owner"]
    <3>1. row \in members' /\ row.family = g /\ row.role = "owner"
      BY <2>1, <2>2
    <3> QED BY <3>1
  <2>3. CASE g # f
    <3>1. families[g] = "stored" /\ g \notin abandoned
      BY <1>1, <2>1, <2>3 DEF TypeInv, CommitFamily, history
    <3> QED BY <2>1, <3>1 DEF OwnedUntilRemoved
  <2> QED BY <2>2, <2>3
<1>2. ASSUME NEW rows, members' = members \ rows, families' = families,
             abandoned' = abandoned \cup OwnedBy(rows)
      PROVE  OwnedUntilRemoved'
  <2> SUFFICES ASSUME NEW g \in Families, families'[g] = "stored", g \notin abandoned'
               PROVE  \E m \in members' : m.family = g /\ m.role = "owner"
    BY DEF OwnedUntilRemoved
  <2>1. families[g] = "stored" /\ g \notin abandoned /\ g \notin OwnedBy(rows)
    BY <1>2
  <2>2. PICK m \in members : m.family = g /\ m.role = "owner"
    BY <2>1 DEF OwnedUntilRemoved
  <2>3. m \in members'
    BY <1>2, <2>1, <2>2 DEF OwnedBy
  <2> QED BY <2>2, <2>3
<1>3. ASSUME NEW f \in Families, DeleteFamily(f)
      PROVE  OwnedUntilRemoved'
  <2> SUFFICES ASSUME NEW g \in Families, families'[g] = "stored", g \notin abandoned'
               PROVE  \E m \in members' : m.family = g /\ m.role = "owner"
    BY DEF OwnedUntilRemoved
  <2>1. g # f /\ families[g] = "stored" /\ g \notin abandoned
    BY <1>3 DEF DeleteFamily, TypeInv, history
  <2>2. PICK m \in members : m.family = g /\ m.role = "owner"
    BY <2>1 DEF OwnedUntilRemoved
  <2>3. m \in members'
    BY <1>3, <2>1, <2>2 DEF DeleteFamily
  <2> QED BY <2>2, <2>3
<1>4. ASSUME families' = families, members \subseteq members', abandoned' = abandoned
      PROVE  OwnedUntilRemoved'
  BY <1>4 DEF OwnedUntilRemoved
<1>5. ASSUME NEW r \in Requests, CreateMember(r)
      PROVE  OwnedUntilRemoved'
  BY <1>4, <1>5 DEF CreateMember, history
<1>6. ASSUME NEW r \in Requests, NEW u \in Users,
             \/ CheckNoFamily(r, u) \/ FindMember(r, u) \/ CacheHit(r, u) \/ CacheMiss(r, u)
      PROVE  OwnedUntilRemoved'
  BY <1>4, <1>6 DEF CheckNoFamily, FindMember, CacheHit, CacheMiss, history
<1>7. ASSUME NEW r \in Requests,
             \/ FindByInviteCode(r) \/ Refuse(r) \/ InvalidateFamily(r)
             \/ QueryMembership(r) \/ FillCache(r) \/ IsFamilyOwner(r) \/ Serve(r)
      PROVE  OwnedUntilRemoved'
  BY <1>4, <1>7 DEF FindByInviteCode, Refuse, InvalidateFamily, QueryMembership, FillCache,
                    IsFamilyOwner, Serve, history
<1>8. ASSUME Tick \/ Restart \/ UNCHANGED vars
      PROVE  OwnedUntilRemoved'
  BY <1>4, <1>8 DEF Tick, Restart, vars, history
<1>9. ASSUME NEW r \in Requests, DeleteMember(r)
      PROVE  OwnedUntilRemoved'
  BY <1>2, <1>9 DEF DeleteMember
<1>10. ASSUME NEW m \in Row, RemoveMember(m)
       PROVE  OwnedUntilRemoved'
  BY <1>2, <1>10 DEF RemoveMember
<1>11. ASSUME NEW u \in Users, DeleteAccount(u)
       PROVE  OwnedUntilRemoved'
  BY <1>2, <1>11 DEF DeleteAccount
<1> QED
  BY <1>1, <1>3, <1>5, <1>6, <1>7, <1>8, <1>9, <1>10, <1>11
     DEF Next, Continue, Begin, TypeInv

-------------------------------------------------------------------------------
(***************************************************************************)
(* The cache.                                                              *)
(***************************************************************************)

\* A request that is about to fill the cache with family f of user u is justified by the
\* row, or knows (history) that it was deleted since.
Known(j) == j.pc = "fill" => j.outrun \/ j.family \in FamiliesOf(j.user)

\* Why the entry of user u may be valid.
Excused(u) ==
  Valid(u) /\ u \in accounts =>
    \/ cache[u].family \in FamiliesOf(u)
    \/ families[cache[u].family] = "deleted"
    \/ cache[u].outrun
    \/ \E r \in Requests : At(r, "invalidate") /\ request[r].user = u

CacheInv == (\A u \in Users : Excused(u)) /\ \A r \in Requests : Known(request[r])

LEMMA CacheInvImplies == CacheInv => CacheFollowsTable
  BY DEF CacheInv, Excused, CacheFollowsTable

\* No row goes, no entry comes, whoever is about to clear the cache still is.
LEMMA CacheStays ==
  ASSUME TypeInv, CacheInv, accounts' \subseteq accounts,
         \A u \in Users : FamiliesOf(u) \subseteq FamiliesOf(u)',
         \A f \in Families : families[f] = "deleted" => families'[f] = "deleted",
         \A u \in Users : Valid(u)' => /\ Valid(u) /\ cache'[u].family = cache[u].family
                                       /\ cache[u].outrun => cache'[u].outrun,
         \A r \in Requests : At(r, "invalidate") =>
           At(r, "invalidate")' /\ request'[r].user = request[r].user
  PROVE  \A u \in Users : Excused(u)'
<1> SUFFICES ASSUME NEW u \in Users, Valid(u)', u \in accounts'
             PROVE  \/ cache'[u].family \in FamiliesOf(u)'
                    \/ families'[cache'[u].family] = "deleted"
                    \/ cache'[u].outrun
                    \/ \E r \in Requests : At(r, "invalidate")' /\ request'[r].user = u
  BY DEF Excused
<1>1. Valid(u) /\ cache'[u].family = cache[u].family /\ cache[u].family \in Families
  BY DEF TypeInv, Filled, Valid
<1>2. CASE cache[u].family \in FamiliesOf(u)
  BY <1>1, <1>2
<1>3. CASE families[cache[u].family] = "deleted"
  BY <1>1, <1>3
<1>4. CASE cache[u].outrun
  BY <1>1, <1>4
<1>5. CASE \E r \in Requests : At(r, "invalidate") /\ request[r].user = u
  BY <1>5
<1> QED BY <1>1, <1>2, <1>3, <1>4, <1>5 DEF CacheInv, Excused

\* The step of one request that touches neither rows nor cache.
LEMMA OneRequestMoves ==
  ASSUME TypeInv, CacheInv, NEW r \in Requests, ~At(r, "invalidate"), Known(request'[r]),
         \A q \in Requests \ {r} : request'[q] = request[q],
         accounts' = accounts, families' = families, members' = members, cache' = cache
  PROVE  CacheInv'
<1>1. \A u : FamiliesOf(u)' = FamiliesOf(u)
  BY DEF FamiliesOf
<1>2. \A u \in Users : Excused(u)'
  BY <1>1, CacheStays DEF At, Valid
<1>3. \A q \in Requests : Known(request[q])'
  BY <1>1 DEF CacheInv, Known
<1> QED BY <1>2, <1>3 DEF CacheInv

\* A request stores a row and is about to clear the cache.
LEMMA RowStored ==
  ASSUME TypeInv, CacheInv, NEW r \in Requests, ~At(r, "invalidate"),
         request'[r].pc = "invalidate",
         \A q \in Requests \ {r} : request'[q] = request[q],
         \A f \in Families : families[f] = "deleted" => families'[f] = "deleted",
         accounts' = accounts, members \subseteq members', cache' = cache
  PROVE  CacheInv'
<1>1. \A u : FamiliesOf(u) \subseteq FamiliesOf(u)'
  BY DEF FamiliesOf
<1>2. \A u \in Users : Excused(u)'
  BY <1>1, CacheStays DEF At, Valid
<1>3. \A q \in Requests : Known(request[q])'
  BY <1>1 DEF CacheInv, Known
<1> QED BY <1>2, <1>3 DEF CacheInv

LEMMA DeleteMemberCached ==
  ASSUME TypeInv, CacheInv, NEW r \in Requests, DeleteMember(r)
  PROVE  CacheInv'
<1> DEFINE u == request[r].user
           f == request[r].family
           rows == {m \in members : m.user = u /\ m.family = f}
           F == Outrun(request, rows)
<1>1. F \in [Requests -> Job]
  BY OutrunTyped
<1>2. request' = [F EXCEPT ![r].pc = "invalidate"]
  BY DEF DeleteMember
<1>3. \A q \in Requests :
        /\ F[q].pc = request[q].pc /\ F[q].user = request[q].user
        /\ F[q].family = request[q].family /\ (request[q].outrun => F[q].outrun)
        /\ ~F[q].outrun => \A m \in rows :
             ~(F[q].pc = "fill" /\ m.user = F[q].user /\ m.family = F[q].family)
  BY OutrunTyped
<1> HIDE DEF F
<1>4. /\ request'[r].pc = "invalidate" /\ request'[r].user = u
      /\ \A q \in Requests \ {r} : request'[q] = F[q]
  BY <1>1, <1>2, <1>3 DEF Job
<1>5. ASSUME NEW v, NEW g, g \in FamiliesOf(v), ~(v = u /\ g = f)
      PROVE  g \in FamiliesOf(v)'
  <2>1. PICK m \in members : m.user = v /\ m.family = g
    BY <1>5 DEF FamiliesOf
  <2>2. m \in members'
    BY <1>5, <2>1 DEF DeleteMember
  <2> QED BY <2>1, <2>2 DEF FamiliesOf
<1>6. ASSUME NEW v \in Users
      PROVE  Excused(v)'
  <2> SUFFICES ASSUME Valid(v)', v \in accounts'
               PROVE  \/ cache'[v].family \in FamiliesOf(v)'
                      \/ families'[cache'[v].family] = "deleted"
                      \/ cache'[v].outrun
                      \/ \E q \in Requests : At(q, "invalidate")' /\ request'[q].user = v
    BY DEF Excused
  <2>1. Valid(v) /\ UNCHANGED <<accounts, families, cache>>
    BY DEF DeleteMember, Valid
  <2>2. CASE cache[v].family \in FamiliesOf(v)
    BY <1>4, <1>5, <2>1, <2>2 DEF At
  <2>3. CASE families[cache[v].family] = "deleted" \/ cache[v].outrun
    BY <2>1, <2>3
  <2>4. CASE \E q \in Requests : At(q, "invalidate") /\ request[q].user = v
    BY <1>3, <1>4, <2>4 DEF At
  <2> QED BY <2>1, <2>2, <2>3, <2>4 DEF CacheInv, Excused
<1>7. ASSUME NEW q \in Requests
      PROVE  Known(request[q])'
  <2> SUFFICES ASSUME request'[q].pc = "fill", ~request'[q].outrun
               PROVE  \E m \in members' : /\ m.user = request'[q].user
                                         /\ m.family = request'[q].family
    BY DEF Known, FamiliesOf
  <2>1. q # r /\ request'[q] = F[q]
    BY <1>4
  <2>2. /\ request[q].pc = "fill" /\ ~request[q].outrun
        /\ request'[q].user = request[q].user /\ request'[q].family = request[q].family
    BY <1>3, <2>1
  <2>3. request[q].family \in FamiliesOf(request[q].user)
    BY <2>2 DEF CacheInv, Known
  <2>4. PICK m \in members : m.user = request[q].user /\ m.family = request[q].family
    BY <2>3 DEF FamiliesOf
  <2>5. m \notin rows
    BY <1>3, <2>1, <2>2, <2>4
  <2>6. m \in members'
    BY <2>5 DEF DeleteMember
  <2> QED BY <2>2, <2>4, <2>6
<1> QED BY <1>6, <1>7 DEF CacheInv

\* The collection API deletes rows and tells no request: every entry a row stood for is
\* excused from then on.
LEMMA RowsDeleted ==
  ASSUME TypeInv, CacheInv, NEW rows,
         accounts' \subseteq accounts, members' = members \ rows,
         request' = Outrun(request, rows),
         \A f \in Families : families[f] = "deleted" => families'[f] = "deleted",
         \A u \in Users : Valid(u)' => /\ Valid(u) /\ cache'[u].family = cache[u].family
                                       /\ cache[u].outrun => cache'[u].outrun,
         \A m \in members \cap rows :
           \/ m.user \notin accounts' \/ families'[m.family] = "deleted"
           \/ cache'[m.user].family = m.family => cache'[m.user].outrun
  PROVE  CacheInv'
<1>1. \A q \in Requests :
        /\ request'[q].pc = request[q].pc /\ request'[q].user = request[q].user
        /\ request'[q].family = request[q].family /\ (request[q].outrun => request'[q].outrun)
        /\ ~request'[q].outrun /\ request'[q].pc = "fill" =>
             \A m \in rows : ~(m.user = request'[q].user /\ m.family = request'[q].family)
  BY OutrunTyped
<1>2. ASSUME NEW u \in Users
      PROVE  Excused(u)'
  <2> SUFFICES ASSUME Valid(u)', u \in accounts'
               PROVE  \/ cache'[u].family \in FamiliesOf(u)'
                      \/ families'[cache'[u].family] = "deleted"
                      \/ cache'[u].outrun
                      \/ \E q \in Requests : At(q, "invalidate")' /\ request'[q].user = u
    BY DEF Excused
  <2>1. /\ Valid(u) /\ cache'[u].family = cache[u].family /\ cache[u].family \in Families
        /\ u \in accounts
    BY DEF TypeInv, Filled, Valid
  <2>2. CASE cache[u].family \in FamiliesOf(u)
    <3>1. PICK m \in members : m.user = u /\ m.family = cache[u].family
      BY <2>2 DEF FamiliesOf
    <3>2. CASE m \in rows
      BY <2>1, <3>1, <3>2
    <3>3. CASE m \notin rows
      BY <2>1, <3>1, <3>3 DEF FamiliesOf
    <3> QED BY <3>2, <3>3
  <2>3. CASE families[cache[u].family] = "deleted" \/ cache[u].outrun
    BY <2>1, <2>3
  <2>4. CASE \E q \in Requests : At(q, "invalidate") /\ request[q].user = u
    BY <1>1, <2>4 DEF At
  <2> QED BY <2>1, <2>2, <2>3, <2>4 DEF CacheInv, Excused
<1>3. ASSUME NEW q \in Requests
      PROVE  Known(request[q])'
  <2> SUFFICES ASSUME request'[q].pc = "fill", ~request'[q].outrun
               PROVE  \E m \in members' : /\ m.user = request'[q].user
                                         /\ m.family = request'[q].family
    BY DEF Known, FamiliesOf
  <2>1. request[q].pc = "fill" /\ ~request[q].outrun
    BY <1>1
  <2>2. request[q].family \in FamiliesOf(request[q].user)
    BY <2>1 DEF CacheInv, Known
  <2>3. PICK m \in members : m.user = request[q].user /\ m.family = request[q].family
    BY <2>2 DEF FamiliesOf
  <2>4. m \notin rows
    BY <1>1, <2>3
  <2> QED BY <1>1, <2>3, <2>4
<1> QED BY <1>2, <1>3 DEF CacheInv

LEMMA DeleteFamilyCached ==
  ASSUME TypeInv, CacheInv, NEW f \in Families, DeleteFamily(f)
  PROVE  CacheInv'
<1> DEFINE rows == {m \in members : m.family = f}
<1>1. /\ UNCHANGED <<accounts, cache>> /\ members' = members \ rows
      /\ request' = Outrun(request, rows)
  BY DEF DeleteFamily
<1>2. /\ families'[f] = "deleted"
      /\ \A g \in Families : families[g] = "deleted" => families'[g] = "deleted"
  BY DEF DeleteFamily, TypeInv
<1>3. \A m \in members \cap rows : families'[m.family] = "deleted"
  BY <1>2
<1> HIDE DEF rows
<1> QED BY <1>1, <1>2, <1>3, RowsDeleted DEF Valid

LEMMA RemoveMemberCached ==
  ASSUME TypeInv, CacheInv, NEW row \in Row, RemoveMember(row)
  PROVE  CacheInv'
<1>1. row.user \in Users
  BY DEF Row
<1>2. /\ UNCHANGED <<accounts, families>> /\ members' = members \ {row}
      /\ request' = Outrun(request, {row})
  BY DEF RemoveMember
<1>3. /\ cache'[row.user].family = cache[row.user].family
      /\ cache'[row.user].age = cache[row.user].age
      /\ cache[row.user].outrun => cache'[row.user].outrun
      /\ cache[row.user].family = row.family => cache'[row.user].outrun
      /\ \A u \in Users \ {row.user} : cache'[u] = cache[u]
  <2>1. cache \in [Users -> Entry] /\ cache[row.user] \in Entry
    BY <1>1 DEF TypeInv
  <2> QED BY <1>1, <2>1 DEF RemoveMember, Entry
<1>4. \A u \in Users : Valid(u)' => /\ Valid(u) /\ cache'[u].family = cache[u].family
                                    /\ cache[u].outrun => cache'[u].outrun
  BY <1>3 DEF Valid
<1> QED BY <1>2, <1>3, <1>4, RowsDeleted

LEMMA DeleteAccountCached ==
  ASSUME TypeInv, CacheInv, NEW u \in Users, DeleteAccount(u)
  PROVE  CacheInv'
<1> DEFINE rows == {m \in members : m.user = u}
<1>1. /\ UNCHANGED <<families, cache>> /\ accounts' = accounts \ {u}
      /\ members' = members \ rows /\ request' = Outrun(request, rows)
  BY DEF DeleteAccount
<1>2. \A m \in members \cap rows : m.user \notin accounts'
  BY <1>1
<1> HIDE DEF rows
<1> QED BY <1>1, <1>2, RowsDeleted DEF Valid

\* An entry is set or cleared; the rows stay.  The request that moves is not one of those
\* that keep another user's entry excused.
LEMMA EntryMoves ==
  ASSUME TypeInv, CacheInv, NEW r \in Requests, NEW u \in Users,
         request[r].user = u \/ ~At(r, "invalidate"),
         \A q \in Requests \ {r} : request'[q] = request[q],
         request'[r].pc # "fill",
         accounts' = accounts, families' = families, members' = members,
         \A v \in Users \ {u} : cache'[v] = cache[v],
         Excused(u)'
  PROVE  CacheInv'
<1>1. \A v : FamiliesOf(v)' = FamiliesOf(v)
  BY DEF FamiliesOf
<1>2. ASSUME NEW v \in Users, v # u
      PROVE  Excused(v)'
  <2> SUFFICES ASSUME Valid(v)', v \in accounts'
               PROVE  \/ cache'[v].family \in FamiliesOf(v)'
                      \/ families'[cache'[v].family] = "deleted"
                      \/ cache'[v].outrun
                      \/ \E q \in Requests : At(q, "invalidate")' /\ request'[q].user = v
    BY DEF Excused
  <2>1. Valid(v) /\ cache'[v] = cache[v]
    BY <1>2 DEF Valid
  <2>2. CASE \E q \in Requests : At(q, "invalidate") /\ request[q].user = v
    BY <1>2, <2>2 DEF At
  <2>3. CASE cache[v].family \in FamiliesOf(v)
    BY <1>1, <2>1, <2>3
  <2>4. CASE families[cache[v].family] = "deleted" \/ cache[v].outrun
    BY <2>1, <2>4
  <2> QED BY <2>1, <2>2, <2>3, <2>4 DEF CacheInv, Excused
<1>3. \A q \in Requests : Known(request[q])'
  BY <1>1 DEF CacheInv, Known
<1> QED BY <1>2, <1>3 DEF CacheInv

LEMMA CacheKeeps ==
  ASSUME TypeInv, CacheInv, [Next]_vars
  PROVE  CacheInv'
<1>1. ASSUME NEW r \in Requests, NEW u \in Users,
             CheckNoFamily(r, u) \/ FindMember(r, u) \/ CacheHit(r, u)
      PROVE  CacheInv'
  <2>1. \E pc, f : Goto(r, pc, u, f) /\ pc # "fill"
    BY <1>1 DEF CheckNoFamily, FindMember, CacheHit
  <2>2. request'[r].pc # "fill" /\ \A q \in Requests \ {r} : request'[q] = request[q]
    BY <2>1, GotoStep
  <2>3. ~At(r, "invalidate") /\ UNCHANGED <<accounts, families, members, cache>>
    BY <1>1 DEF CheckNoFamily, FindMember, CacheHit, At, history
  <2> QED BY <2>1, <2>2, <2>3, OneRequestMoves DEF Known
<1>2. ASSUME NEW r \in Requests, QueryMembership(r)
      PROVE  CacheInv'
  <2>1. PICK f \in FamiliesOf(request[r].user) : Goto(r, "fill", request[r].user, f)
    BY <1>2 DEF QueryMembership
  <2>2. /\ request'[r].user = request[r].user /\ request'[r].family = f
        /\ \A q \in Requests \ {r} : request'[q] = request[q]
    BY <2>1, GotoStep
  <2>3. Known(request'[r])
    BY <2>2 DEF Known
  <2>4. ~At(r, "invalidate") /\ UNCHANGED <<accounts, families, members, cache>>
    BY <1>2 DEF QueryMembership, At
  <2> QED BY <2>2, <2>3, <2>4, OneRequestMoves
<1>3. ASSUME NEW r \in Requests, FindByInviteCode(r) \/ IsFamilyOwner(r)
      PROVE  CacheInv'
  <2>1. \E pc, u, f : Goto(r, pc, u, f) /\ pc # "fill"
    BY <1>3 DEF FindByInviteCode, IsFamilyOwner
  <2>2. request'[r].pc # "fill" /\ \A q \in Requests \ {r} : request'[q] = request[q]
    BY <2>1, GotoStep
  <2>3. ~At(r, "invalidate") /\ UNCHANGED <<accounts, families, members, cache>>
    BY <1>3 DEF FindByInviteCode, IsFamilyOwner, At
  <2> QED BY <2>2, <2>3, OneRequestMoves DEF Known
<1>4. ASSUME NEW r \in Requests, Refuse(r) \/ Serve(r)
      PROVE  CacheInv'
  <2>1. request'[r].pc # "fill" /\ \A q \in Requests \ {r} : request'[q] = request[q]
    BY <1>4, EndMoves DEF Refuse, Serve, Idle
  <2>2. ~At(r, "invalidate") /\ UNCHANGED <<accounts, families, members, cache>>
    BY <1>4 DEF Refuse, Serve, At
  <2> QED BY <2>1, <2>2, OneRequestMoves DEF Known
<1>5. ASSUME NEW r \in Requests, CommitFamily(r)
      PROVE  CacheInv'
  <2>1. PICK f \in Families :
          /\ families[f] = "free"
          /\ families' = [families EXCEPT ![f] = "stored"]
          /\ Goto(r, "invalidate", request[r].user, f)
    BY <1>5 DEF CommitFamily
  <2>2. request'[r].pc = "invalidate" /\ \A q \in Requests \ {r} : request'[q] = request[q]
    BY <2>1, GotoStep
  <2>3. \A g \in Families : families[g] = "deleted" => families'[g] = "deleted"
    BY <2>1 DEF TypeInv
  <2>4. ~At(r, "invalidate") /\ members \subseteq members' /\ UNCHANGED <<accounts, cache>>
    BY <1>5 DEF CommitFamily, At
  <2> QED BY <2>2, <2>3, <2>4, RowStored
<1>6. ASSUME NEW r \in Requests, CreateMember(r)
      PROVE  CacheInv'
  <2>1. request'[r].pc = "invalidate" /\ \A q \in Requests \ {r} : request'[q] = request[q]
    BY <1>6, GotoStep DEF CreateMember
  <2>2. /\ ~At(r, "invalidate") /\ UNCHANGED <<accounts, families, cache>>
        /\ members \subseteq members'
    BY <1>6 DEF CreateMember, At
  <2> QED BY <2>1, <2>2, RowStored
<1>7. ASSUME NEW r \in Requests, InvalidateFamily(r)
      PROVE  CacheInv'
  <2> DEFINE u == request[r].user
  <2>1. u \in Users
    BY <1>7 DEF InvalidateFamily, At, TypeInv, Named
  <2>2. request'[r].pc # "fill" /\ \A q \in Requests \ {r} : request'[q] = request[q]
    BY <1>7, EndMoves DEF InvalidateFamily, Idle
  <2>3. UNCHANGED <<accounts, families, members>> /\ cache' = [cache EXCEPT ![u] = NoEntry]
    BY <1>7 DEF InvalidateFamily
  <2>4. cache'[u] = NoEntry /\ \A v \in Users \ {u} : cache'[v] = cache[v]
    BY <2>1, <2>3 DEF TypeInv
  <2>5. PICK w \in Users : w = u
    BY <2>1
  <2>6. Excused(w)'
    BY <2>4, <2>5, MembershipAssumption DEF Excused, Valid, NoEntry
  <2> QED BY <2>2, <2>3, <2>4, <2>5, <2>6, EntryMoves
<1>8. ASSUME NEW r \in Requests, NEW u \in Users, CacheMiss(r, u)
      PROVE  CacheInv'
  <2>1. request'[r].pc # "fill" /\ \A q \in Requests \ {r} : request'[q] = request[q]
    BY <1>8, GotoStep DEF CacheMiss
  <2>2. /\ ~At(r, "invalidate") /\ UNCHANGED <<accounts, families, members>>
        /\ cache' = [cache EXCEPT ![u] = NoEntry]
    BY <1>8 DEF CacheMiss, At
  <2>3. cache'[u] = NoEntry /\ \A v \in Users \ {u} : cache'[v] = cache[v]
    BY <2>2 DEF TypeInv
  <2>4. Excused(u)'
    BY <2>3, MembershipAssumption DEF Excused, Valid, NoEntry
  <2> QED BY <2>1, <2>2, <2>3, <2>4, EntryMoves
<1>9. ASSUME NEW r \in Requests, FillCache(r)
      PROVE  CacheInv'
  <2> DEFINE f == request[r].family
             entry == [family |-> f, age |-> 0, outrun |-> request[r].outrun]
  <2>1. request[r].user \in Users
    BY <1>9 DEF FillCache, At, TypeInv, Named
  <2>2. PICK u \in Users : u = request[r].user
    BY <2>1
  <2>3. request'[r].pc # "fill" /\ \A q \in Requests \ {r} : request'[q] = request[q]
    BY <1>9, GotoStep DEF FillCache
  <2>4. /\ At(r, "fill") /\ UNCHANGED <<accounts, families, members>>
        /\ cache' = [cache EXCEPT ![u] = entry]
    BY <1>9, <2>2 DEF FillCache
  <2>5. cache'[u] = entry /\ \A v \in Users \ {u} : cache'[v] = cache[v]
    BY <2>4 DEF TypeInv
  <2>6. request[r].outrun \/ f \in FamiliesOf(u)
    BY <2>2, <2>4 DEF CacheInv, Known, At
  <2>7. FamiliesOf(u)' = FamiliesOf(u)
    BY <2>4 DEF FamiliesOf
  <2>8. Excused(u)'
    BY <2>5, <2>6, <2>7 DEF Excused
  <2> QED BY <2>2, <2>3, <2>4, <2>5, <2>8, EntryMoves DEF At
<1>10. ASSUME Tick
       PROVE  CacheInv'
  <2>1. UNCHANGED <<accounts, families, members, request>>
    BY <1>10 DEF Tick
  <2>2. \A u : FamiliesOf(u)' = FamiliesOf(u)
    BY <2>1 DEF FamiliesOf
  <2>3. ASSUME NEW u \in Users, Valid(u)'
        PROVE  /\ Valid(u) /\ cache'[u].family = cache[u].family
               /\ cache'[u].outrun = cache[u].outrun
    <3>1. cache'[u] = IF Valid(u) THEN [cache[u] EXCEPT !.age = @ + 1] ELSE cache[u]
      BY <1>10 DEF Tick
    <3>2. cache[u] \in Entry
      BY DEF TypeInv
    <3>3. CASE Valid(u)
      BY <3>1, <3>2, <3>3 DEF Entry
    <3>4. CASE ~Valid(u)
      BY <2>3, <3>1, <3>4 DEF Valid
    <3> QED BY <3>3, <3>4
  <2>4. \A u \in Users : Excused(u)'
    BY <2>1, <2>2, <2>3, CacheStays DEF At
  <2>5. \A q \in Requests : Known(request[q])'
    BY <2>1, <2>2 DEF CacheInv, Known
  <2> QED BY <2>4, <2>5 DEF CacheInv
<1>11. ASSUME Restart
       PROVE  CacheInv'
  <2>1. \A u \in Users : ~Valid(u)'
    BY <1>11, MembershipAssumption DEF Restart, Valid, NoEntry
  <2>2. \A q \in Requests : request'[q].pc # "fill"
    BY <1>11 DEF Restart, Idle
  <2> QED BY <2>1, <2>2 DEF CacheInv, Excused, Known
<1>12. ASSUME UNCHANGED vars
       PROVE  CacheInv'
  <2>1. \A u : FamiliesOf(u)' = FamiliesOf(u)
    BY <1>12 DEF vars, FamiliesOf
  <2>2. \A u \in Users : Excused(u)'
    BY <1>12, <2>1, CacheStays DEF vars, At, Valid
  <2>3. \A q \in Requests : Known(request[q])'
    BY <1>12, <2>1 DEF vars, CacheInv, Known
  <2> QED BY <2>2, <2>3 DEF CacheInv
<1> QED
  BY <1>1, <1>2, <1>3, <1>4, <1>5, <1>6, <1>7, <1>8, <1>9, <1>10, <1>11, <1>12,
     DeleteMemberCached, DeleteFamilyCached, RemoveMemberCached, DeleteAccountCached
     DEF Next, Continue, Begin, TypeInv

-------------------------------------------------------------------------------
(***************************************************************************)
(* The theorems.                                                           *)
(***************************************************************************)

LEMMA InitCached == Init => CacheInv
  BY MembershipAssumption DEF Init, CacheInv, Excused, Valid, NoEntry, Known, Idle

LEMMA InitOne == Init => OneFamilyInv
  BY DEF Init, OneFamilyInv, OneFamilyUnlessRaced, EntersAlone, Entering, Idle

LEMMA InitOwned == Init => OwnedUntilRemoved
  BY DEF Init, OwnedUntilRemoved

LEMMA TypeInvAlways == Spec => []TypeInv
  BY InitTyped, TypeKeeps, PTL DEF Spec

\* Whatever creates, joins, leaves, deletes and restarts do in whatever order, the rows
\* have a role and the requests, the cache and the history keep their types.
THEOREM TypeCorrect == Spec => []TypeOK
<1>1. TypeInv => TypeOK
  BY DEF TypeInv, TypeOK, Job, PCs, Entry
<1> QED BY <1>1, TypeInvAlways, PTL

\* CreateFamily and JoinFamily check first and insert later, and the index does not stop
\* a second family: a user has at most one membership as long as no two requests of that
\* user were between the check and the insertion together.
THEOREM OneFamilyAlways == Spec => []OneFamilyUnlessRaced
<1>1. OneFamilyInv => OneFamilyUnlessRaced
  BY DEF OneFamilyInv
<1> QED BY <1>1, TypeInvAlways, InitOne, OneFamilyKeeps, PTL DEF Spec

\* The transaction of CreateFamily and the cascades of a deleted family leave no family
\* without an owner, unless its owner's row was deleted.
THEOREM OwnedAlways == Spec => []OwnedUntilRemoved
  BY TypeInvAlways, InitOwned, OwnedKeeps, PTL DEF Spec

\* The middleware serves a family the table does not hold only in the cases
\* CacheFollowsTable names, for any lifetime of an entry and any number of users, families
\* and requests: whatever was deleted, by the route or over the collection API.
THEOREM CacheFollowsAlways == Spec => []CacheFollowsTable
  BY TypeInvAlways, InitCached, CacheKeeps, CacheInvImplies, PTL DEF Spec

===============================================================================
