---------------------------- MODULE Accounts_proof ----------------------------
\* Proofs about UserAdmin and AuthSessions, for any number of accounts, requests and
\* refresh tokens.
EXTENDS UserAdmin, AuthSessions, TLAPS

-----------------------------------------------------------------------------
\* The administrators of an organization.
\* Admins and ActiveAdmins, after a change of one row.
LEMMA OneRow ==
    ASSUME TypeOK, NEW w \in People, NEW new \in User,
           users' = [users EXCEPT ![w] = new]
    PROVE  /\ users' \in [People -> User]
           /\ users'[w] = new
           /\ \A u \in People \ {w} : users'[u] = users[u]
           /\ Admins \ {w} \subseteq Admins'
           /\ ActiveAdmins \ {w} \subseteq ActiveAdmins'
  BY DEF TypeOK, Admins, ActiveAdmins

\* The three commits, each as the change of one row.
LEMMA CommitLemma ==
    ASSUME TypeOK, NEW r \in Requests, Insert(r) \/ Appoint(r) \/ Deactivate(r),
           calls[r].op = "create" => users[calls[r].who].role = "none"
    PROVE  LET who == calls[r].who IN
           \E new \in User :
              /\ users' = [users EXCEPT ![who] = new]
              /\ Insert(r) => new.role \in Roles /\ new.active
              /\ Appoint(r) => new.role = calls[r].to /\ new.active = users[who].active
              /\ Deactivate(r) => new.role = users[who].role /\ ~ new.active
<1> DEFINE who == calls[r].who
           to == calls[r].to
<1>1. calls[r] \in Call /\ who \in People /\ to \in Roles /\ users[who] \in User
  BY DEF TypeOK, Call
<1>2. CASE Insert(r)
  <2> DEFINE new == [role |-> to, active |-> TRUE]
  <2>1. new \in User /\ new.role = to /\ new.active
    BY <1>1 DEF User
  <2>2. users' = [users EXCEPT ![who] = new]
    BY <1>2 DEF Insert
  <2>3. ~ Appoint(r) /\ ~ Deactivate(r)
    BY <1>2 DEF Insert, Appoint, Deactivate
  <2> QED
    BY <1>1, <2>1, <2>2, <2>3
<1>3. CASE Appoint(r)
  <2> DEFINE new == [users[who] EXCEPT !.role = to]
  <2>1. new \in User /\ new.role = to /\ new.active = users[who].active
    BY <1>1 DEF User
  <2>2. users' = [users EXCEPT ![who] = new]
    BY <1>3 DEF Appoint
  <2>3. ~ Insert(r) /\ ~ Deactivate(r)
    BY <1>3 DEF Insert, Appoint, Deactivate
  <2> QED
    BY <2>1, <2>2, <2>3
<1>4. CASE Deactivate(r)
  <2> DEFINE new == [users[who] EXCEPT !.active = FALSE]
  <2>1. new \in User /\ new.role = users[who].role /\ ~ new.active
    BY <1>1 DEF User
  <2>2. users' = [users EXCEPT ![who] = new]
    BY <1>4 DEF Deactivate
  <2>3. ~ Insert(r) /\ ~ Appoint(r)
    BY <1>4 DEF Insert, Appoint, Deactivate
  <2> QED
    BY <2>1, <2>2, <2>3
<1> QED
  BY <1>2, <1>3, <1>4

\* The steps of a request that leave the accounts alone: which call it becomes.
LEMMA ReadLemma ==
    ASSUME TypeOK, NEW r \in Requests, LoadNew(r) \/ Load(r) \/ Count(r) \/ Crash(r)
    PROVE  /\ UNCHANGED users
           /\ calls' \in [Requests -> Call]
           /\ \A q \in Requests \ {r} : calls'[q] = calls[q]
           /\ \/ calls'[r] = NoCall
              \/ /\ calls'[r].pc \in {"loaded", "checked"}
                 /\ calls[r].pc \in {"admitted", "loaded"}
                 /\ calls'[r].by = calls[r].by /\ calls'[r].op = calls[r].op
                 /\ calls'[r].who = calls[r].who
                 /\ \/ /\ LoadNew(r) /\ calls'[r].pc = "checked"
                       /\ calls[r].op = "create" /\ calls'[r].role = "none"
                       /\ users[calls[r].who].role = "none"
                    \/ /\ Load(r) /\ calls[r].op # "create"
                       /\ calls'[r].role = Seen(r) /\ Seen(r) # "none"
                       /\ calls[r].op = "deactivate" => calls[r].who # calls[r].by
                       /\ calls'[r].pc = "loaded" <=> Seen(r) = "admin"
                    \/ /\ Count(r) /\ calls[r].pc = "loaded" /\ calls'[r].pc = "checked"
                       /\ calls'[r].role = "admin"
                       /\ calls'[r].others = Admins \ {calls[r].who}
                       /\ calls'[r].others # {}
<1>1. calls[r] \in Call /\ NoCall \in Call
  BY FounderAssumption DEF TypeOK, Call, NoCall, Roles
<1>2. Seen(r) \in Roles \cup {"none"}
  BY <1>1 DEF Seen, TypeOK, User, Call, Roles
<1>3. ASSUME NEW pc \in {"loaded", "checked"}, NEW role \in Roles \cup {"none"},
             NEW others \in SUBSET People, Proceed(r, pc, role, others)
      PROVE  /\ UNCHANGED users /\ calls' \in [Requests -> Call]
             /\ \A q \in Requests \ {r} : calls'[q] = calls[q]
             /\ calls'[r].pc = pc /\ calls'[r].role = role /\ calls'[r].others = others
             /\ calls'[r].by = calls[r].by /\ calls'[r].op = calls[r].op
             /\ calls'[r].who = calls[r].who
  <2> DEFINE new == [calls[r] EXCEPT !.pc = pc, !.role = role, !.others = others]
  <2>1. /\ new \in Call /\ new.pc = pc /\ new.role = role /\ new.others = others
        /\ new.by = calls[r].by /\ new.op = calls[r].op /\ new.who = calls[r].who
    BY <1>1 DEF Call
  <2>2. calls' = [calls EXCEPT ![r] = new] /\ UNCHANGED users
    BY <1>3 DEF Proceed
  <2> HIDE DEF new
  <2> QED
    BY <2>1, <2>2 DEF TypeOK
<1>4. ASSUME Resting(r)
      PROVE  /\ UNCHANGED users /\ calls' \in [Requests -> Call]
             /\ \A q \in Requests \ {r} : calls'[q] = calls[q]
             /\ calls'[r] = NoCall
  BY <1>1, <1>4 DEF Resting, TypeOK
<1>5. CASE LoadNew(r)
  BY <1>3, <1>4, <1>5 DEF LoadNew
<1>6. CASE Load(r)
  <2>1. CASE Resting(r)
    BY <1>4, <2>1
  <2>2. CASE ~ Resting(r)
    <3>1. /\ calls[r].pc = "admitted" /\ calls[r].op # "create" /\ Seen(r) # "none"
          /\ calls[r].op = "deactivate" => calls[r].who # calls[r].by
          /\ Proceed(r, IF Seen(r) = "admin" THEN "loaded" ELSE "checked", Seen(r), {})
      BY <1>6, <2>2 DEF Load
    <3>2. CASE Seen(r) = "admin"
      BY <1>2, <1>3, <1>6, <3>1, <3>2
    <3>3. CASE Seen(r) # "admin"
      BY <1>2, <1>3, <1>6, <3>1, <3>3
    <3> QED
      BY <3>2, <3>3
  <2> QED
    BY <2>1, <2>2
<1>7. CASE Count(r)
  <2>1. CASE Resting(r)
    BY <1>4, <2>1
  <2>2. CASE ~ Resting(r)
    <3>1. /\ calls[r].pc = "loaded" /\ Admins \ {calls[r].who} # {}
          /\ Proceed(r, "checked", "admin", Admins \ {calls[r].who})
          /\ Admins \ {calls[r].who} \in SUBSET People
      BY <1>7, <2>2 DEF Count, Admins
    <3> QED
      BY <1>3, <1>7, <3>1 DEF Roles
  <2> QED
    BY <2>1, <2>2
<1>8. CASE Crash(r)
  BY <1>4, <1>8 DEF Crash
<1> QED
  BY <1>5, <1>6, <1>7, <1>8

\* A commit ends its call, and keeps the types.
LEMMA CommitTypes ==
    ASSUME TypeOK, NEW r \in Requests, Insert(r) \/ Appoint(r) \/ Deactivate(r)
    PROVE  TypeOK' /\ calls' = [calls EXCEPT ![r] = NoCall]
<1>1. NoCall \in Call /\ NoCall.pc = "idle"
  BY FounderAssumption DEF Call, NoCall, Roles
<1>2. calls' = [calls EXCEPT ![r] = NoCall]
  BY DEF Insert, Appoint, Deactivate
<1>3. users' \in [People -> User]
  <2>1. CASE Insert(r) /\ users[calls[r].who].role # "none"
    BY <2>1 DEF Insert, TypeOK
  <2>2. CASE ~ (Insert(r) /\ users[calls[r].who].role # "none")
    <3>1. calls[r].op = "create" => users[calls[r].who].role = "none"
      BY <2>2 DEF Insert, Appoint, Deactivate
    <3>2. PICK new \in User : users' = [users EXCEPT ![calls[r].who] = new]
      BY <3>1, CommitLemma
    <3> QED
      BY <3>2 DEF TypeOK
  <2> QED
    BY <2>1, <2>2
<1> QED
  BY <1>1, <1>2, <1>3 DEF TypeOK

\* The types are inductive.
LEMMA TypeStep == TypeOK /\ [Next]_vars => TypeOK'
<1> SUFFICES ASSUME TypeOK, [Next]_vars PROVE TypeOK'
  OBVIOUS
<1>1. ASSUME NEW r \in Requests, NEW by \in People, NEW who \in People,
             NEW op \in {"create", "role", "deactivate"}, NEW to \in Roles,
             Admit(r, by, op, who, to)
      PROVE  TypeOK'
  <2> DEFINE new == [pc |-> "admitted", by |-> by, op |-> op, who |-> who,
                     to |-> to, role |-> "none", others |-> {}]
  <2>1. new \in Call /\ new.pc = "admitted"
    BY DEF Call
  <2>2. calls' = [calls EXCEPT ![r] = new] /\ UNCHANGED users
    BY <1>1 DEF Admit
  <2> QED
    BY <2>1, <2>2 DEF TypeOK
<1>2. ASSUME NEW r \in Requests, LoadNew(r) \/ Load(r) \/ Count(r) \/ Crash(r)
      PROVE  TypeOK'
  <2>1. /\ UNCHANGED users /\ calls' \in [Requests -> Call]
        /\ \A q \in Requests \ {r} : calls'[q] = calls[q]
    BY <1>2, ReadLemma
  <2>2. calls'[r].pc = "loaded" => calls'[r].op # "create" /\ calls'[r].role = "admin"
    BY <1>2, ReadLemma DEF NoCall
  <2> QED
    BY <2>1, <2>2 DEF TypeOK
<1>3. ASSUME NEW r \in Requests, Insert(r) \/ Appoint(r) \/ Deactivate(r)
      PROVE  TypeOK'
  BY <1>3, CommitTypes
<1>4. CASE UNCHANGED vars
  BY <1>4 DEF vars, TypeOK
<1> QED
  BY <1>1, <1>2, <1>3, <1>4 DEF Next

\* A request keeps what it read and counted until it commits.
LEMMA AdminStep ==
    ASSUME TypeOK, AdminInv, [Next]_vars
    PROVE  AdminInv'
<1> DEFINE Kept(c) ==
       c.pc \in {"loaded", "checked"} =>
          /\ (c.op = "create") = (c.role = "none")
          /\ c.op = "deactivate" => c.who # c.by
          /\ c.pc = "checked" /\ c.role = "admin" =>
                c.others # {} /\ c.who \notin c.others
<1>1. /\ AdminInv <=> \A r \in Requests : Kept(calls[r])
      /\ AdminInv' <=> \A r \in Requests : Kept(calls'[r])
  BY DEF AdminInv
<1>2. Kept(NoCall)
  BY DEF NoCall
<1>3. ASSUME NEW r \in Requests, Kept(calls'[r]),
             \A q \in Requests \ {r} : calls'[q] = calls[q]
      PROVE  AdminInv'
  <2>1. \A q \in Requests : Kept(calls'[q])
    BY <1>1, <1>3
  <2> QED
    BY <1>1, <2>1
<1>4. ASSUME NEW r \in Requests, NEW by \in People, NEW who \in People,
             NEW op \in {"create", "role", "deactivate"}, NEW to \in Roles,
             Admit(r, by, op, who, to)
      PROVE  AdminInv'
  <2>1. /\ calls'[r].pc = "admitted"
        /\ \A q \in Requests \ {r} : calls'[q] = calls[q]
    BY <1>4 DEF Admit, TypeOK
  <2> QED
    BY <1>3, <2>1
<1>5. ASSUME NEW r \in Requests, LoadNew(r) \/ Load(r) \/ Count(r) \/ Crash(r)
      PROVE  AdminInv'
  <2>1. CASE calls'[r] = NoCall
    BY <1>2, <1>3, <1>5, <2>1, ReadLemma
  <2>2. CASE calls'[r] # NoCall
    <3>1. /\ calls'[r].by = calls[r].by /\ calls'[r].op = calls[r].op
          /\ calls'[r].who = calls[r].who
          /\ \A q \in Requests \ {r} : calls'[q] = calls[q]
      BY <1>5, <2>2, ReadLemma
    <3>2. CASE /\ calls[r].op = "create" /\ calls'[r].role = "none"
      BY <1>3, <3>1, <3>2
    <3>3. CASE /\ calls[r].op # "create" /\ calls'[r].role # "none"
               /\ calls[r].op = "deactivate" => calls[r].who # calls[r].by
               /\ calls'[r].pc = "loaded" <=> calls'[r].role = "admin"
      BY <1>3, <3>1, <3>3
    <3>4. CASE /\ calls[r].pc = "loaded" /\ calls'[r].role = "admin"
               /\ calls'[r].others = Admins \ {calls[r].who}
               /\ calls'[r].others # {}
      <4>1. calls[r].role = "admin" /\ calls[r].op # "create" /\ Kept(calls[r])
        BY <1>1, <3>4 DEF TypeOK
      <4> QED
        BY <1>3, <3>1, <3>4, <4>1
    <3> QED
      BY <1>5, <2>2, <3>2, <3>3, <3>4, ReadLemma
  <2> QED
    BY <2>1, <2>2
<1>6. ASSUME NEW r \in Requests, Insert(r) \/ Appoint(r) \/ Deactivate(r)
      PROVE  AdminInv'
  <2>1. calls'[r] = NoCall /\ \A q \in Requests \ {r} : calls'[q] = calls[q]
    BY <1>6, CommitTypes DEF TypeOK
  <2> QED
    BY <1>2, <1>3, <2>1
<1>7. CASE UNCHANGED vars
  BY <1>7 DEF vars, AdminInv
<1> QED
  BY <1>4, <1>5, <1>6, <1>7 DEF Next

\* The types of the accounts and the calls, whatever is in flight.
THEOREM TypeCorrect == Spec => []TypeOK
<1>1. Init => TypeOK
  BY FounderAssumption DEF Init, TypeOK, User, Call, NoCall, Roles
<1> QED
  BY <1>1, TypeStep, PTL DEF Spec

\* What a request decided on (AdminInv): it counted somebody, and not its target.
LEMMA Decided == Spec => [](TypeOK /\ AdminInv)
<1>1. Init => AdminInv
  BY DEF Init, NoCall, AdminInv
<1> QED
  BY <1>1, AdminStep, TypeCorrect, PTL DEF Spec

\* The step that changes the accounts is one of three commits.
LEMMA OnlyCommits ==
    ASSUME TypeOK, [Next]_vars, users' # users
    PROVE  \E r \in Requests : (Insert(r) \/ Appoint(r) \/ Deactivate(r)) /\ Commits(r)
<1>1. PICK r \in Requests : Insert(r) \/ Appoint(r) \/ Deactivate(r)
  BY ReadLemma DEF Next, Admit, vars
<1>2. calls'[r].pc = "idle"
  BY <1>1, CommitTypes DEF TypeOK, NoCall
<1> QED
  BY <1>1, <1>2 DEF Commits, Insert, Appoint, Deactivate

\* A commit leaves the other rows alone, and creates nothing over a row there is.
LEMMA OneRowLemma ==
    ASSUME TypeOK, NEW r \in Requests, Insert(r) \/ Appoint(r) \/ Deactivate(r),
           users' # users
    PROVE  LET who == calls[r].who IN
           /\ who \in People
           /\ Admins \ {who} \subseteq Admins'
           /\ ActiveAdmins \ {who} \subseteq ActiveAdmins'
           /\ Insert(r) => who \notin Admins
           /\ Deactivate(r) => users'[who].role = users[who].role
           /\ Appoint(r) => users'[who].active = users[who].active
<1> DEFINE who == calls[r].who
<1>1. who \in People
  BY DEF TypeOK, Call
<1>2. calls[r].op = "create" => users[who].role = "none"
  BY DEF Insert, Appoint, Deactivate
<1>3. PICK new \in User :
         /\ users' = [users EXCEPT ![who] = new]
         /\ Insert(r) => new.role \in Roles /\ new.active
         /\ Appoint(r) => new.role = calls[r].to /\ new.active = users[who].active
         /\ Deactivate(r) => new.role = users[who].role /\ ~ new.active
  BY <1>2, CommitLemma
<1>4. /\ users'[who] = new
      /\ Admins \ {who} \subseteq Admins'
      /\ ActiveAdmins \ {who} \subseteq ActiveAdmins'
  BY <1>1, <1>3, OneRow
<1>5. Insert(r) => who \notin Admins
  BY <1>2 DEF Insert, Admins
<1> QED
  BY <1>1, <1>3, <1>4, <1>5

\* However many requests overlap, an organization loses its last administrator only
\* to one whose target, or somebody it had counted, another request changed meanwhile
\* (update_role, _require_another_admin).
THEOREM LastAdmin == Spec => LastAdminGoesInARace
<1> DEFINE Step == Admins # {} /\ Admins' = {}
                      => \E r \in Requests : Commits(r) /\ ~ Stands(r)
<1>1. TypeOK /\ AdminInv /\ [Next]_vars => [Step]_vars
  <2> SUFFICES ASSUME TypeOK, AdminInv, [Next]_vars, Admins # {}, Admins' = {}
               PROVE  \E r \in Requests : Commits(r) /\ ~ Stands(r)
    OBVIOUS
  <2>1. users' # users
    BY DEF Admins
  <2>2. PICK r \in Requests :
           (Insert(r) \/ Appoint(r) \/ Deactivate(r)) /\ Commits(r)
    BY <2>1, OnlyCommits
  <2> DEFINE who == calls[r].who
  <2>3. /\ who \in People /\ Admins \ {who} \subseteq Admins'
        /\ Insert(r) => who \notin Admins
        /\ Deactivate(r) => users'[who].role = users[who].role
    BY <2>1, <2>2, OneRowLemma
  <2>4. Admins = {who}
    BY <2>3
  <2>5. Appoint(r)
    BY <2>2, <2>3, <2>4 DEF Admins
  <2>6. ASSUME Stands(r) PROVE FALSE
    <3>1. calls[r].role = "admin" /\ calls[r].pc = "checked"
      BY <2>4, <2>5, <2>6 DEF Stands, Appoint, Admins
    <3>2. calls[r].others # {} /\ who \notin calls[r].others
      BY <3>1 DEF AdminInv
    <3> QED
      BY <2>4, <2>6, <3>2 DEF Stands
  <2> QED
    BY <2>2, <2>6
<1> QED
  BY <1>1, Decided, PTL DEF Spec, LastAdminGoesInARace

\* However many requests overlap, the last active administrator goes by giving up or
\* losing the role, or is deactivated by a caller who may not call it any more:
\* deactivate_user refuses its own caller.
THEOREM Demotion == Spec => OnlyDemotionLocksOut
<1> DEFINE Step == ActiveAdmins # {} /\ ActiveAdmins' = {} =>
                      \/ \E u \in ActiveAdmins : users'[u].role # "admin"
                      \/ \E r \in Requests : /\ Commits(r) /\ calls[r].op = "deactivate"
                                             /\ calls[r].by \notin ActiveAdmins
<1>1. TypeOK /\ AdminInv /\ [Next]_vars => [Step]_vars
  <2> SUFFICES ASSUME TypeOK, AdminInv, [Next]_vars,
                      ActiveAdmins # {}, ActiveAdmins' = {}
               PROVE  \/ \E u \in ActiveAdmins : users'[u].role # "admin"
                      \/ \E r \in Requests : /\ Commits(r) /\ calls[r].op = "deactivate"
                                             /\ calls[r].by \notin ActiveAdmins
    OBVIOUS
  <2>1. users' # users
    BY DEF ActiveAdmins, Admins
  <2>2. PICK r \in Requests :
           (Insert(r) \/ Appoint(r) \/ Deactivate(r)) /\ Commits(r)
    BY <2>1, OnlyCommits
  <2> DEFINE who == calls[r].who
  <2>3. /\ who \in People /\ ActiveAdmins \ {who} \subseteq ActiveAdmins'
        /\ Insert(r) => who \notin Admins
        /\ Appoint(r) => users'[who].active = users[who].active
    BY <2>1, <2>2, OneRowLemma
  <2>4. ActiveAdmins = {who} /\ who \in Admins /\ users[who].active
    BY <2>3 DEF ActiveAdmins
  <2>5. CASE Appoint(r)
    <3>1. users'[who].active /\ who \notin ActiveAdmins'
      BY <2>3, <2>4, <2>5
    <3> QED
      BY <2>3, <2>4, <3>1 DEF ActiveAdmins, Admins
  <2>6. CASE Deactivate(r)
    <3>1. calls[r].op = "deactivate" /\ calls[r].pc = "checked"
      BY <2>6 DEF Deactivate
    <3>2. who # calls[r].by
      BY <3>1 DEF AdminInv
    <3> QED
      BY <2>2, <2>4, <3>1, <3>2
  <2> QED
    BY <2>2, <2>3, <2>4, <2>5, <2>6
<1> QED
  BY <1>1, Decided, PTL DEF Spec, OnlyDemotionLocksOut

-----------------------------------------------------------------------------
\* Sessions and their refresh tokens.

\* Any account will do for a request at rest.
LEMMA AnyHolder == (CHOOSE h \in Holders : TRUE) \in Holders
  BY HoldersAssumption

\* A request at rest asks nothing of the rows.
LEMMA RestFits ==
    ASSUME NEW h \in Holders
    PROVE  AtRest(h) \in AuthCall /\ Fits(AtRest(h)) /\ AtRest(h).locks = {}
  BY DEF AtRest, AuthCall, Fits

\* The initial state.
LEMMA AuthBegins == AuthInit => AuthInv
<1> DEFINE a == CHOOSE h \in Holders : TRUE
<1> SUFFICES ASSUME AuthInit PROVE AuthInv
  OBVIOUS
<1>1. a \in Holders
  BY AnyHolder
<1> HIDE DEF a
<1>2. accounts = [h \in Holders |-> "none"] /\ auth = [r \in Sessions |-> AtRest(a)]
  BY DEF AuthInit, a
<1>3. tokens \in [Tokens -> Token] /\ \A t \in Tokens : tokens[t].state = "none"
  BY DEF AuthInit, Token
<1>4. AuthTypeOK
  BY <1>1, <1>2, <1>3, RestFits DEF AuthTypeOK
<1>5. \A r \in Sessions : Fits(auth[r]) /\ auth[r].locks = {}
  BY <1>1, <1>2, RestFits
<1> QED
  BY <1>3, <1>4, <1>5 DEF AuthInv, OneLivePerLogin, Live

\* A step that changes one request and no row, to a request that fits.
LEMMA CallChanges ==
    ASSUME AuthInv, NEW r \in Sessions, NEW new \in AuthCall,
           auth' = [auth EXCEPT ![r] = new], UNCHANGED <<accounts, tokens>>, Fits(new),
           \A q \in Sessions \ {r} : auth[q].locks \cap new.locks = {}
    PROVE  AuthInv'
<1>1. /\ auth' \in [Sessions -> AuthCall] /\ auth'[r] = new
      /\ \A q \in Sessions \ {r} : auth'[q] = auth[q]
  BY DEF AuthInv, AuthTypeOK
<1>2. AuthTypeOK' /\ OneLivePerLogin'
  BY <1>1 DEF AuthInv, AuthTypeOK, OneLivePerLogin, Live
<1>3. \A q \in Sessions : Fits(auth[q])'
  <2> SUFFICES ASSUME NEW q \in Sessions PROVE Fits(auth[q])'
    OBVIOUS
  <2>1. Fits(auth'[q])
    BY <1>1 DEF AuthInv
  <2> QED
    BY <2>1 DEF Fits, LiveOf, Live
<1>4. \A q, s \in Sessions : q # s => auth'[q].locks \cap auth'[s].locks = {}
  BY <1>1 DEF AuthInv
<1> QED
  BY <1>2, <1>3, <1>4 DEF AuthInv

\* A step that revokes rows, issued ones which no other transaction holds, and
\* ends the request.
LEMMA RowsRevoked ==
    ASSUME AuthInv, NEW r \in Sessions, NEW R \in SUBSET Tokens,
           tokens' = Revoked(R), auth' = Close(r), UNCHANGED accounts,
           \A t \in R : tokens[t].state # "none" /\ ~ LockedByOther(r, t)
    PROVE  AuthInv'
<1> DEFINE rest == AtRest(auth[r].who)
<1>1. /\ tokens \in [Tokens -> Token] /\ auth \in [Sessions -> AuthCall]
      /\ auth[r].who \in Holders
  BY DEF AuthInv, AuthTypeOK, AuthCall
<1>2. rest \in AuthCall /\ rest.locks = {} /\ rest.pc = "idle"
  BY <1>1, RestFits DEF AtRest
<1> HIDE DEF rest
<1>3. /\ auth' \in [Sessions -> AuthCall] /\ auth'[r] = rest
      /\ \A q \in Sessions \ {r} : auth'[q] = auth[q]
  BY <1>1, <1>2 DEF Close, rest
<1>4. /\ tokens' \in [Tokens -> Token]
      /\ \A t \in Tokens :
            /\ tokens'[t].who = tokens[t].who /\ tokens'[t].login = tokens[t].login
            /\ tokens'[t].state = IF t \in R THEN "revoked" ELSE tokens[t].state
  BY <1>1 DEF Revoked, Token
<1>5. AuthTypeOK'
  BY <1>3, <1>4 DEF AuthInv, AuthTypeOK
<1>6. OneLivePerLogin'
  BY <1>4 DEF AuthInv, OneLivePerLogin, Live
<1>7. \A t \in Tokens : tokens'[t].state # "none" => tokens'[tokens'[t].login].state # "none"
  BY <1>1, <1>4 DEF AuthInv, Token
<1>8. \A q \in Sessions : Fits(auth[q])'
  <2> SUFFICES ASSUME NEW q \in Sessions PROVE Fits(auth[q])'
    OBVIOUS
  <2>1. CASE q = r
    BY <1>2, <1>3, <2>1 DEF Fits
  <2>2. CASE q # r
    <3>1. auth'[q] = auth[q] /\ auth[q] \in AuthCall /\ Fits(auth[q])
      BY <1>1, <1>3, <2>2 DEF AuthInv
    <3>2. auth[q].locks \cap R = {}
      BY <2>2 DEF LockedByOther
    <3> QED
      BY <1>4, <3>1, <3>2 DEF Fits, Live, LiveOf, AuthCall
  <2> QED
    BY <2>1, <2>2
<1>9. \A q, s \in Sessions : q # s => auth'[q].locks \cap auth'[s].locks = {}
  BY <1>2, <1>3 DEF AuthInv
<1> QED
  BY <1>5, <1>6, <1>7, <1>8, <1>9 DEF AuthInv

\* A step that issues a row: n was not, and is now h's, live, with the login of a
\* session begun; it revokes the rows R, none of them held by another; after is what
\* the requests are then, but for n missed by whoever was about to revoke.
Issues(n, h, login, R, after) ==
    /\ tokens[n].state = "none" /\ (login = n \/ tokens[login].state # "none")
    /\ \A t \in Tokens : tokens[t].state = "live" /\ tokens[t].login = login => t \in R
    /\ \A t \in R : tokens[t].state = "live"
    /\ tokens' \in [Tokens -> Token]
    /\ tokens'[n].state = "live" /\ tokens'[n].who = h /\ tokens'[n].login = login
    /\ \A t \in Tokens \ {n} :
          /\ tokens'[t].who = tokens[t].who /\ tokens'[t].login = tokens[t].login
          /\ tokens'[t].state = IF t \in R THEN "revoked" ELSE tokens[t].state
    /\ accounts' \in [Holders -> {"none", "on", "off"}]
    /\ auth' = Issued(n, after)
    /\ \A q \in Sessions :
          \/ after[q] = auth[q] /\ auth[q].locks \cap R = {}
          \/ after[q] = AtRest(auth[q].who)

\* A request that misses a row is otherwise what it was.
LEMMA MissesOne ==
    ASSUME NEW c \in AuthCall, NEW n \in Tokens
    PROVE  LET new == [c EXCEPT !.missed = @ \cup {n}]
           IN  /\ new \in AuthCall /\ new.missed = c.missed \cup {n}
               /\ new.pc = c.pc /\ new.who = c.who /\ new.tok = c.tok
               /\ new.aim = c.aim /\ new.locks = c.locks
  BY DEF AuthCall

LEMMA RowIssued ==
    ASSUME AuthInv, NEW n \in Tokens, NEW h \in Holders, NEW login \in Tokens,
           NEW R \in SUBSET Tokens, NEW after \in [Sessions -> AuthCall],
           Issues(n, h, login, R, after)
    PROVE  AuthInv'
<1> USE DEF Issues
<1>1. /\ tokens \in [Tokens -> Token] /\ auth \in [Sessions -> AuthCall]
      /\ \A q \in Sessions : auth[q].who \in Holders
  BY DEF AuthInv, AuthTypeOK, AuthCall
<1>2. \A q \in Sessions :
         IF after[q].pc \in {"revoking", "leaving"}
         THEN auth'[q] = [after[q] EXCEPT !.missed = @ \cup {n}]
         ELSE auth'[q] = after[q]
  BY DEF Issued
<1>3. \A q \in Sessions :
         /\ auth'[q] \in AuthCall /\ auth'[q].pc = after[q].pc
         /\ auth'[q].who = after[q].who /\ auth'[q].tok = after[q].tok
         /\ auth'[q].aim = after[q].aim /\ auth'[q].locks = after[q].locks
         /\ after[q].pc \in {"revoking", "leaving"} =>
               auth'[q].missed = after[q].missed \cup {n}
  <2> SUFFICES ASSUME NEW q \in Sessions
               PROVE  /\ auth'[q] \in AuthCall /\ auth'[q].pc = after[q].pc
                      /\ auth'[q].who = after[q].who /\ auth'[q].tok = after[q].tok
                      /\ auth'[q].aim = after[q].aim /\ auth'[q].locks = after[q].locks
                      /\ after[q].pc \in {"revoking", "leaving"} =>
                            auth'[q].missed = after[q].missed \cup {n}
    OBVIOUS
  <2>1. after[q] \in AuthCall
    OBVIOUS
  <2>2. CASE after[q].pc \in {"revoking", "leaving"}
    <3>1. auth'[q] = [after[q] EXCEPT !.missed = @ \cup {n}]
      BY <1>2, <2>2
    <3> QED
      BY <2>1, <3>1, MissesOne
  <2>3. CASE after[q].pc \notin {"revoking", "leaving"}
    BY <1>2, <2>1, <2>3
  <2> QED
    BY <2>2, <2>3
<1>4. auth' \in [Sessions -> AuthCall]
  BY <1>3 DEF Issued
<1>5. AuthTypeOK'
  BY <1>4 DEF AuthTypeOK
<1>6. OneLivePerLogin'
  <2> SUFFICES ASSUME NEW s \in Tokens, NEW t \in Tokens, tokens'[s].state = "live",
                      tokens'[t].state = "live", tokens'[s].login = tokens'[t].login
               PROVE  s = t
    BY DEF OneLivePerLogin, Live
  <2>1. \A u \in Tokens \ {n} : tokens'[u].state = "live" =>
           tokens[u].state = "live" /\ u \notin R /\ tokens[u].login # login
    OBVIOUS
  <2> QED
    BY <2>1 DEF AuthInv, OneLivePerLogin, Live
<1>7. \A t \in Tokens : tokens'[t].state # "none" => tokens'[tokens'[t].login].state # "none"
  <2>1. \A t \in Tokens : tokens[t].state # "none" => tokens'[t].state # "none"
    OBVIOUS
  <2>2. \A t \in Tokens \ {n} : tokens'[t].state # "none" => tokens[t].state # "none"
    OBVIOUS
  <2> QED
    BY <1>1, <2>1, <2>2 DEF AuthInv, Token
<1>8. \A q \in Sessions : Fits(auth[q])'
  <2> SUFFICES ASSUME NEW q \in Sessions PROVE Fits(auth[q])'
    OBVIOUS
  <2>1. CASE after[q] = AtRest(auth[q].who)
    <3>1. after[q].pc = "idle"
      BY <2>1 DEF AtRest
    <3> QED
      BY <1>3, <3>1 DEF Fits
  <2>2. CASE after[q] = auth[q] /\ auth[q].locks \cap R = {}
    <3>1. Fits(auth[q]) /\ auth[q] \in AuthCall
      BY <1>1 DEF AuthInv
    <3>2. /\ auth[q].tok \in Tokens /\ tokens[auth[q].tok].state # "none"
              => /\ tokens'[auth[q].tok].state # "none"
                 /\ tokens'[auth[q].tok].who = tokens[auth[q].tok].who
                 /\ tokens'[auth[q].tok].login = tokens[auth[q].tok].login
          /\ \A t \in Tokens : tokens'[t].state = "live" => t = n \/ tokens[t].state = "live"
      OBVIOUS
    <3>3. auth[q].pc = "issuing" => tokens'[auth[q].tok].state = "live"
      BY <2>2, <3>1 DEF Fits, Live
    <3>4. auth[q].pc = "revoking" =>
             /\ LiveOf(auth[q].who)' \subseteq auth[q].aim \cup auth[q].missed \cup {n}
             /\ \A t \in auth[q].aim : tokens'[t].state # "none"
      <4>1. LiveOf(auth[q].who)' \subseteq LiveOf(auth[q].who) \cup {n}
        BY <2>2, <1>3 DEF LiveOf, Live
      <4> QED
        BY <3>1, <4>1 DEF Fits, AuthCall
    <3>5. auth[q].pc = "leaving" =>
             \A t \in Tokens : tokens'[t].state = "live"
                                 /\ tokens'[t].login = tokens'[auth[q].tok].login =>
                t \in {auth[q].tok} \cup auth[q].missed \cup {n}
      BY <3>1, <3>2 DEF Fits, Live
    <3> QED
      BY <1>3, <2>2, <3>1, <3>2, <3>3, <3>4, <3>5 DEF Fits, Live, LiveOf
  <2> QED
    BY <2>1, <2>2
<1>9. \A q, s \in Sessions : q # s => auth'[q].locks \cap auth'[s].locks = {}
  <2>1. \A q \in Sessions : auth'[q].locks \subseteq auth[q].locks
    BY <1>3 DEF AtRest
  <2> QED
    BY <2>1 DEF AuthInv
<1> QED
  BY <1>5, <1>6, <1>7, <1>8, <1>9 DEF AuthInv

\* The record a request becomes when it presents a row.
LEMMA Presented ==
    ASSUME AuthInv, NEW t \in Tokens, NEW pc \in {"held", "leaving"},
           NEW locks \in SUBSET Tokens
    PROVE  LET new == [AtRest(tokens[t].who) EXCEPT !.pc = pc, !.tok = t, !.locks = locks]
           IN  /\ new \in AuthCall /\ new.pc = pc /\ new.tok = t /\ new.locks = locks
               /\ new.who = tokens[t].who
  BY DEF AuthInv, AuthTypeOK, Token, AtRest, AuthCall

\* The steps of a request that read: none breaks the invariant.
LEMMA ReadsKeep ==
    ASSUME AuthInv, NEW r \in Sessions,
           \/ \E h \in Holders : SignIn(r, h)
           \/ \E t \in Tokens : Find(r, t) \/ Look(r, t) \/ Grab(r, t)
           \/ RevokeFamily(r) \/ Accept(r) \/ Rollback(r)
    PROVE  AuthInv'
<1>1. /\ auth \in [Sessions -> AuthCall] /\ auth[r] \in AuthCall /\ Fits(auth[r])
      /\ auth[r].who \in Holders /\ tokens \in [Tokens -> Token]
      /\ \A q \in Sessions \ {r} : auth[q].locks \cap auth[r].locks = {}
  BY DEF AuthInv, AuthTypeOK, AuthCall
<1>2. ASSUME NEW h \in Holders, SignIn(r, h) PROVE AuthInv'
  <2> DEFINE new == [AtRest(h) EXCEPT !.pc = "signing"]
  <2>1. new \in AuthCall /\ new.pc = "signing" /\ new.locks = {}
    BY DEF AtRest, AuthCall
  <2>2. auth' = [auth EXCEPT ![r] = new] /\ UNCHANGED <<accounts, tokens>>
    BY <1>2 DEF SignIn
  <2> HIDE DEF new
  <2> QED
    BY <2>1, <2>2, CallChanges DEF Fits
<1>3. ASSUME NEW t \in Tokens, Find(r, t) PROVE AuthInv'
  <2> DEFINE new == [AtRest(tokens[t].who) EXCEPT !.pc = "held", !.tok = t, !.locks = {t}]
  <2>1. new \in AuthCall /\ new.pc = "held" /\ new.tok = t /\ new.locks = {t}
        /\ new.who = tokens[t].who
    BY Presented, {t} \in SUBSET Tokens
  <2>2. /\ auth' = [auth EXCEPT ![r] = new] /\ UNCHANGED <<accounts, tokens>>
        /\ tokens[t].state # "none" /\ \A q \in Sessions \ {r} : t \notin auth[q].locks
    BY <1>3 DEF Find, Present, LockedByOther
  <2> HIDE DEF new
  <2>3. Fits(new) /\ \A q \in Sessions \ {r} : auth[q].locks \cap new.locks = {}
    BY <2>1, <2>2 DEF Fits
  <2> QED
    BY <2>1, <2>2, <2>3, CallChanges
<1>4. ASSUME NEW t \in Tokens, Look(r, t) PROVE AuthInv'
  <2> DEFINE new == [AtRest(tokens[t].who) EXCEPT !.pc = "leaving", !.tok = t, !.locks = {}]
  <2>1. new \in AuthCall /\ new.pc = "leaving" /\ new.tok = t /\ new.locks = {}
        /\ new.who = tokens[t].who
    BY Presented
  <2>2. /\ auth' = [auth EXCEPT ![r] = new] /\ UNCHANGED <<accounts, tokens>> /\ Live(t)
    BY <1>4 DEF Look, Present
  <2> HIDE DEF new
  <2>3. Fits(new)
    <3>1. tokens[t].state = "live"
      BY <2>2 DEF Live
    <3>2. \A u \in Tokens : Live(u) /\ tokens[u].login = tokens[t].login => u = t
      BY <2>2 DEF AuthInv, OneLivePerLogin
    <3> QED
      BY <2>1, <3>1, <3>2 DEF Fits
  <2> QED
    BY <2>1, <2>2, <2>3, CallChanges
<1>5. ASSUME NEW t \in Tokens, Grab(r, t) PROVE AuthInv'
  <2>1. /\ auth[r].pc = "revoking" /\ t \in auth[r].aim
        /\ \A q \in Sessions \ {r} : t \notin auth[q].locks
        /\ UNCHANGED <<accounts, tokens>>
    BY <1>5 DEF Grab, LockedByOther
  <2>2. CASE Live(t)
    <3> DEFINE new == [auth[r] EXCEPT !.locks = @ \cup {t}]
    <3>1. /\ new \in AuthCall /\ new.pc = "revoking" /\ new.tok = auth[r].tok
          /\ new.who = auth[r].who /\ new.aim = auth[r].aim
          /\ new.missed = auth[r].missed /\ new.locks = auth[r].locks \cup {t}
      BY <1>1, <2>1 DEF AuthCall
    <3>2. auth' = [auth EXCEPT ![r] = new]
      BY <1>1, <1>5, <2>2 DEF Grab, AuthCall
    <3> HIDE DEF new
    <3>3. Fits(new) /\ \A q \in Sessions \ {r} : auth[q].locks \cap new.locks = {}
      BY <1>1, <2>1, <3>1 DEF Fits
    <3> QED
      BY <2>1, <3>1, <3>2, <3>3, CallChanges
  <2>3. CASE ~ Live(t)
    <3> DEFINE new == [auth[r] EXCEPT !.aim = @ \ {t}]
    <3>1. /\ new \in AuthCall /\ new.pc = "revoking" /\ new.tok = auth[r].tok
          /\ new.who = auth[r].who /\ new.aim = auth[r].aim \ {t}
          /\ new.missed = auth[r].missed /\ new.locks = auth[r].locks
      BY <1>1, <2>1 DEF AuthCall
    <3>2. auth' = [auth EXCEPT ![r] = new]
      BY <1>1, <1>5, <2>3 DEF Grab, AuthCall
    <3> HIDE DEF new
    <3>3. Fits(new)
      BY <1>1, <2>1, <2>3, <3>1 DEF Fits, LiveOf
    <3> QED
      BY <1>1, <2>1, <3>1, <3>2, <3>3, CallChanges
  <2> QED
    BY <2>2, <2>3
<1>6. CASE RevokeFamily(r)
  <2> DEFINE new == [auth[r] EXCEPT !.pc = "revoking", !.aim = LiveOf(auth[r].who),
                                    !.missed = {}]
  <2>1. LiveOf(auth[r].who) \in SUBSET Tokens
    BY DEF LiveOf
  <2>2. /\ new \in AuthCall /\ new.pc = "revoking" /\ new.tok = auth[r].tok
        /\ new.who = auth[r].who /\ new.aim = LiveOf(auth[r].who) /\ new.missed = {}
        /\ new.locks = auth[r].locks
    BY <1>1, <2>1 DEF AuthCall
  <2>3. /\ auth[r].pc = "held" /\ UNCHANGED <<accounts, tokens>>
        /\ auth' = [auth EXCEPT ![r] = new]
    BY <1>6 DEF RevokeFamily
  <2> HIDE DEF new
  <2>4. Fits(new)
    BY <1>1, <2>2, <2>3 DEF Fits, LiveOf, Live
  <2> QED
    BY <1>1, <2>2, <2>3, <2>4, CallChanges
<1>7. CASE Accept(r)
  <2> DEFINE new == [auth[r] EXCEPT !.pc = "issuing"]
  <2>1. /\ new \in AuthCall /\ new.pc = "issuing" /\ new.tok = auth[r].tok
        /\ new.who = auth[r].who /\ new.locks = auth[r].locks
    BY <1>1 DEF AuthCall
  <2>2. /\ auth[r].pc = "held" /\ Live(auth[r].tok) /\ UNCHANGED <<accounts, tokens>>
        /\ auth' = [auth EXCEPT ![r] = new]
    BY <1>7 DEF Accept
  <2> HIDE DEF new
  <2>3. Fits(new)
    BY <1>1, <2>1, <2>2 DEF Fits
  <2> QED
    BY <1>1, <2>1, <2>2, <2>3, CallChanges
<1>8. CASE Rollback(r)
  <2> DEFINE new == AtRest(auth[r].who)
  <2>1. new \in AuthCall /\ Fits(new) /\ new.locks = {}
    BY <1>1, RestFits
  <2>2. auth' = [auth EXCEPT ![r] = new] /\ UNCHANGED <<accounts, tokens>>
    BY <1>8 DEF Rollback, Close
  <2> HIDE DEF new
  <2> QED
    BY <2>1, <2>2, CallChanges
<1> QED
  BY <1>2, <1>3, <1>4, <1>5, <1>6, <1>7, <1>8

\* The steps of a request that revoke.
LEMMA RevocationsKeep ==
    ASSUME AuthInv, NEW r \in Sessions, RefuseExpired(r) \/ RevokeAll(r) \/ Leave(r)
    PROVE  AuthInv'
<1>1. /\ auth[r] \in AuthCall /\ Fits(auth[r])
      /\ \A t \in auth[r].locks : ~ LockedByOther(r, t)
  BY DEF AuthInv, AuthTypeOK, AuthCall, LockedByOther
<1>2. CASE RefuseExpired(r)
  BY <1>1, <1>2, RowsRevoked DEF RefuseExpired, Fits
<1>3. CASE RevokeAll(r)
  BY <1>1, <1>3, RowsRevoked DEF RevokeAll, Fits, AuthCall
<1>4. CASE Leave(r)
  BY <1>1, <1>4, RowsRevoked DEF Leave, Fits
<1> QED
  BY <1>2, <1>3, <1>4

\* The steps that issue a row.
LEMMA IssuesKeep ==
    ASSUME AuthInv, NEW n \in Tokens,
           \/ \E h \in Holders : Register(h, n)
           \/ \E r \in Sessions : Enter(r, n) \/ Rotate(r, n)
    PROVE  AuthInv'
<1>1. /\ tokens \in [Tokens -> Token] /\ auth \in [Sessions -> AuthCall]
      /\ accounts \in [Holders -> {"none", "on", "off"}]
      /\ \A q \in Sessions : auth[q].who \in Holders
      /\ \A t \in Tokens : tokens[t].state # "none" => tokens[tokens[t].login].state # "none"
  BY DEF AuthInv, AuthTypeOK, AuthCall
<1>2. \A r \in Sessions :
         Close(r) \in [Sessions -> AuthCall] /\ Close(r)[r] = AtRest(auth[r].who)
         /\ \A q \in Sessions \ {r} : Close(r)[q] = auth[q]
  BY <1>1, RestFits DEF Close
<1>3. \A h \in Holders, login \in Tokens :
         /\ NewToken(h, login) \in Token /\ NewToken(h, login).state = "live"
         /\ NewToken(h, login).who = h /\ NewToken(h, login).login = login
  BY DEF NewToken, Token
<1>4. tokens[n].state = "none" =>
         \A t \in Tokens : tokens[t].state = "live" => tokens[t].login # n
  BY <1>1
<1>5. ASSUME NEW h \in Holders, NEW after \in [Sessions -> AuthCall],
             tokens[n].state = "none", tokens' = [tokens EXCEPT ![n] = NewToken(h, n)],
             accounts' \in [Holders -> {"none", "on", "off"}], auth' = Issued(n, after),
             \A q \in Sessions : after[q] = auth[q] \/ after[q] = AtRest(auth[q].who)
      PROVE  AuthInv'
  <2> DEFINE row == NewToken(h, n)
  <2>1. /\ row \in Token /\ row.state = "live" /\ row.who = h /\ row.login = n
        /\ tokens' = [tokens EXCEPT ![n] = row]
    BY <1>3, <1>5
  <2> HIDE DEF row
  <2>2. /\ tokens' \in [Tokens -> Token] /\ tokens'[n] = row
        /\ \A t \in Tokens \ {n} : tokens'[t] = tokens[t]
    BY <1>1, <2>1
  <2>3. \A t \in Tokens \ {n} :
           /\ tokens'[t].who = tokens[t].who /\ tokens'[t].login = tokens[t].login
           /\ tokens'[t].state = IF t \in {} THEN "revoked" ELSE tokens[t].state
    BY <2>2
  <2>4. /\ \A t \in Tokens : tokens[t].state = "live" /\ tokens[t].login = n => t \in {}
        /\ \A q \in Sessions : \/ after[q] = auth[q] /\ auth[q].locks \cap {} = {}
                               \/ after[q] = AtRest(auth[q].who)
    BY <1>4, <1>5
  <2>5. tokens'[n].state = "live" /\ tokens'[n].who = h /\ tokens'[n].login = n
    BY <2>1, <2>2
  <2> QED
    <3>1. Issues(n, h, n, {}, after)
      BY <1>5, <2>2, <2>3, <2>4, <2>5 DEF Issues
    <3> QED
      BY <1>5, <3>1, RowIssued
<1>6. ASSUME NEW h \in Holders, Register(h, n) PROVE AuthInv'
  <2>1. /\ tokens[n].state = "none" /\ tokens' = [tokens EXCEPT ![n] = NewToken(h, n)]
        /\ accounts' \in [Holders -> {"none", "on", "off"}] /\ auth' = Issued(n, auth)
    BY <1>1, <1>6 DEF Register
  <2> QED
    BY <1>1, <1>5, <2>1
<1>7. ASSUME NEW r \in Sessions, Enter(r, n) PROVE AuthInv'
  <2>1. /\ tokens[n].state = "none" /\ tokens' = [tokens EXCEPT ![n] = NewToken(auth[r].who, n)]
        /\ accounts' \in [Holders -> {"none", "on", "off"}] /\ auth' = Issued(n, Close(r))
    BY <1>1, <1>7 DEF Enter
  <2>2. \A q \in Sessions : Close(r)[q] = auth[q] \/ Close(r)[q] = AtRest(auth[q].who)
    BY <1>2
  <2> QED
    BY <1>1, <1>2, <1>5, <2>1, <2>2
<1>8. ASSUME NEW r \in Sessions, Rotate(r, n) PROVE AuthInv'
  <2> DEFINE k == auth[r].tok
             h == auth[r].who
             login == tokens[k].login
             row == NewToken(h, login)
             rows == [Revoked({k}) EXCEPT ![k].next = n]
  <2>1. /\ k \in Tokens /\ tokens[k].state = "live" /\ k \in auth[r].locks /\ h \in Holders
        /\ login \in Tokens /\ tokens[n].state = "none" /\ k # n
    <3>1. Fits(auth[r]) /\ auth[r].pc = "issuing" /\ tokens[n].state = "none"
      BY <1>8 DEF Rotate, AuthInv
    <3> QED
      BY <1>1, <3>1 DEF Fits, Live, Token
  <2>2. /\ row \in Token /\ row.state = "live" /\ row.who = h /\ row.login = login
    BY <1>3, <2>1
  <2>3. /\ rows \in [Tokens -> Token]
        /\ \A t \in Tokens :
              /\ rows[t].who = tokens[t].who /\ rows[t].login = tokens[t].login
              /\ rows[t].state = IF t \in {k} THEN "revoked" ELSE tokens[t].state
    <3> DEFINE new == [tokens[k] EXCEPT !.state = "revoked", !.next = n]
    <3>1. /\ new \in Token /\ new.state = "revoked"
          /\ new.who = tokens[k].who /\ new.login = tokens[k].login
      BY <1>1, <2>1 DEF Token
    <3>2. Revoked({k}) = [tokens EXCEPT ![k] = [tokens[k] EXCEPT !.state = "revoked"]]
      BY <1>1, <2>1 DEF Revoked
    <3>3. rows = [tokens EXCEPT ![k] = new]
      BY <1>1, <2>1, <3>2 DEF Token
    <3> HIDE DEF new, rows
    <3>4. /\ rows \in [Tokens -> Token] /\ rows[k] = new
          /\ \A t \in Tokens \ {k} : rows[t] = tokens[t]
      BY <1>1, <2>1, <3>1, <3>3
    <3> QED
      BY <3>1, <3>4
  <2>4. tokens' = [rows EXCEPT ![n] = row] /\ auth' = Issued(n, Close(r)) /\ UNCHANGED accounts
    BY <1>8 DEF Rotate
  <2> HIDE DEF row, rows
  <2>5. /\ tokens' \in [Tokens -> Token] /\ tokens'[n] = row
        /\ \A t \in Tokens \ {n} : tokens'[t] = rows[t]
    BY <2>2, <2>3, <2>4
  <2>6. \A t \in Tokens \ {n} :
           /\ tokens'[t].who = tokens[t].who /\ tokens'[t].login = tokens[t].login
           /\ tokens'[t].state = IF t \in {k} THEN "revoked" ELSE tokens[t].state
    BY <2>3, <2>5
  <2>7. /\ \A t \in Tokens : tokens[t].state = "live" /\ tokens[t].login = login => t \in {k}
        /\ \A t \in {k} : tokens[t].state = "live"
        /\ {k} \in SUBSET Tokens /\ tokens[login].state # "none"
    BY <1>1, <2>1 DEF AuthInv, OneLivePerLogin, Live
  <2>8. \A q \in Sessions :
           \/ Close(r)[q] = auth[q] /\ auth[q].locks \cap {k} = {}
           \/ Close(r)[q] = AtRest(auth[q].who)
    BY <1>2, <2>1 DEF AuthInv
  <2>9. tokens'[n].state = "live" /\ tokens'[n].who = h /\ tokens'[n].login = login
    BY <2>2, <2>5
  <2>10. Close(r) \in [Sessions -> AuthCall] /\ accounts' \in [Holders -> {"none", "on", "off"}]
    BY <1>1, <1>2, <2>4
  <2> HIDE DEF k, h, login
  <2> QED
    <3>1. Issues(n, h, login, {k}, Close(r))
      BY <2>1, <2>4, <2>5, <2>6, <2>7, <2>8, <2>9, <2>10 DEF Issues
    <3> QED
      BY <2>1, <2>7, <2>10, <3>1, RowIssued
<1> QED
  BY <1>6, <1>7, <1>8

\* Every step.
LEMMA AuthStep == AuthInv /\ [AuthNext]_authVars => AuthInv'
<1> SUFFICES ASSUME AuthInv, [AuthNext]_authVars PROVE AuthInv'
  OBVIOUS
<1>1. CASE UNCHANGED authVars
  BY <1>1 DEF authVars, AuthInv, AuthTypeOK, OneLivePerLogin, Live, LiveOf, Fits
<1>2. ASSUME NEW h \in Holders, SwitchOff(h) PROVE AuthInv'
  <2>1. /\ accounts' \in [Holders -> {"none", "on", "off"}]
        /\ UNCHANGED <<tokens, auth>>
    BY <1>2 DEF SwitchOff, AuthInv, AuthTypeOK
  <2> QED
    BY <2>1 DEF AuthInv, AuthTypeOK, OneLivePerLogin, Live, LiveOf, Fits
<1>3. ASSUME NEW t \in Tokens, Expire(t) PROVE AuthInv'
  <2> DEFINE new == [tokens[t] EXCEPT !.expired = TRUE]
  <2>1. /\ tokens \in [Tokens -> Token] /\ auth \in [Sessions -> AuthCall]
        /\ tokens[t] \in Token
    BY DEF AuthInv, AuthTypeOK
  <2>2. /\ new \in Token /\ new.state = tokens[t].state /\ new.who = tokens[t].who
        /\ new.login = tokens[t].login
    BY <2>1 DEF Token
  <2>3. tokens' = [tokens EXCEPT ![t] = new] /\ UNCHANGED <<accounts, auth>>
    BY <1>3 DEF Expire
  <2> HIDE DEF new
  <2>4. /\ tokens' \in [Tokens -> Token]
        /\ \A u \in Tokens :
              /\ tokens'[u].state = tokens[u].state /\ tokens'[u].who = tokens[u].who
              /\ tokens'[u].login = tokens[u].login
    BY <2>1, <2>2, <2>3
  <2>5. AuthTypeOK' /\ OneLivePerLogin'
    BY <2>3, <2>4 DEF AuthInv, AuthTypeOK, OneLivePerLogin, Live
  <2>6. \A u \in Tokens : tokens'[u].state # "none" => tokens'[tokens'[u].login].state # "none"
    BY <2>1, <2>4 DEF AuthInv, Token
  <2>7. \A q \in Sessions : Fits(auth[q])'
    <3> SUFFICES ASSUME NEW q \in Sessions PROVE Fits(auth[q])'
      OBVIOUS
    <3>1. auth'[q] = auth[q] /\ auth[q] \in AuthCall /\ Fits(auth[q])
      BY <2>1, <2>3 DEF AuthInv
    <3> QED
      BY <2>4, <3>1 DEF Fits, Live, LiveOf, AuthCall
  <2> QED
    BY <2>3, <2>5, <2>6, <2>7 DEF AuthInv
<1> QED
  BY <1>1, <1>2, <1>3, ReadsKeep, RevocationsKeep, IssuesKeep DEF AuthNext

\* However refreshes, logouts and revocations overlap, no session has two live
\* tokens, and a request that rotates one holds it, live, to its commit: however
\* many accounts, tokens and requests there are.
THEOREM AuthInvHolds == AuthSpec => []AuthInv
<1>1. AuthInit => AuthInv
  BY AuthBegins
<1>2. AuthInv /\ [AuthNext]_authVars => AuthInv'
  BY AuthStep
<1> QED
  BY <1>1, <1>2, PTL DEF AuthSpec

\* Which steps end a request and change a row with it.
LEMMA EndsWithAChange ==
    ASSUME AuthInv, NEW r \in Sessions, [AuthNext]_authVars, tokens' # tokens,
           auth'[r].pc = "idle"
    PROVE  /\ auth[r].pc = "revoking" => RevokeAll(r)
           /\ auth[r].pc = "leaving" => Leave(r)
<1>1. auth \in [Sessions -> AuthCall] /\ auth[r].who \in Holders
  BY DEF AuthInv, AuthTypeOK, AuthCall
<1>2. SUFFICES ASSUME auth[r].pc \in {"revoking", "leaving"}
               PROVE  RevokeAll(r) \/ Leave(r)
  BY DEF RevokeAll, Leave
<1>3. \A n \in Tokens, after \in [Sessions -> AuthCall] :
         auth' = Issued(n, after) => after[r].pc = "idle"
  BY DEF Issued, AuthCall
<1>4. \A q \in Sessions : Close(q) \in [Sessions -> AuthCall]
                          /\ (q # r => Close(q)[r] = auth[r])
  BY <1>1, RestFits DEF Close, AuthInv, AuthTypeOK, AuthCall
<1>5. \A h \in Holders : ~ SwitchOff(h) /\ \A n \in Tokens : ~ Register(h, n)
  BY <1>1, <1>2, <1>3 DEF Register, SwitchOff
<1>6. \A t \in Tokens : ~ Expire(t)
  BY <1>2 DEF Expire
<1>7. PICK q \in Sessions :
         \/ RefuseExpired(q) \/ RevokeAll(q) \/ Leave(q)
         \/ \E t \in Tokens : Enter(q, t) \/ Rotate(q, t)
  <2>1. AuthNext
    BY DEF authVars
  <2>2. \A q \in Sessions : ~ RevokeFamily(q) /\ ~ Accept(q) /\ ~ Rollback(q)
    BY DEF RevokeFamily, Accept, Rollback
  <2>3. \A q \in Sessions, h \in Holders : ~ SignIn(q, h)
    BY DEF SignIn
  <2>4. \A q \in Sessions, t \in Tokens : ~ Find(q, t) /\ ~ Look(q, t) /\ ~ Grab(q, t)
    BY DEF Find, Look, Grab
  <2>5. PICK q \in Sessions :
           \/ RefuseExpired(q) \/ RevokeFamily(q) \/ Accept(q) \/ RevokeAll(q)
           \/ Leave(q) \/ Rollback(q)
           \/ \E h \in Holders : SignIn(q, h)
           \/ \E t \in Tokens :
                 Find(q, t) \/ Look(q, t) \/ Grab(q, t) \/ Enter(q, t) \/ Rotate(q, t)
    BY <1>5, <1>6, <2>1 DEF AuthNext
  <2> QED
    BY <2>2, <2>3, <2>4, <2>5
<1>8. \A t \in Tokens : ~ Enter(q, t) /\ ~ Rotate(q, t)
  BY <1>2, <1>3, <1>4 DEF Enter, Rotate
<1>9. q = r
  BY <1>2, <1>4, <1>7, <1>8 DEF RefuseExpired, RevokeAll, Leave
<1> QED
  BY <1>2, <1>7, <1>8, <1>9 DEF RefuseExpired

\* Reuse of a token, or an account switched off, ends every session of the
\* account but for what was issued behind the revocation's back; logging out ends
\* the session in the same sense.
THEOREM RevocationIsThoroughHolds == AuthSpec => RevocationIsThorough
<1> DEFINE Reuse ==
              \A r \in Sessions :
                 auth[r].pc = "revoking" /\ auth'[r].pc = "idle" /\ tokens' # tokens =>
                    \A t \in Tokens :
                       tokens'[t].state = "live" /\ tokens'[t].who = auth[r].who =>
                          t \in auth[r].missed
           Logout ==
              \A r \in Sessions :
                 auth[r].pc = "leaving" /\ auth'[r].pc = "idle" /\ tokens' # tokens =>
                    \A t \in Tokens :
                       tokens'[t].state = "live"
                       /\ tokens'[t].login = tokens[auth[r].tok].login =>
                          t \in auth[r].missed
<1>1. AuthInv /\ [AuthNext]_authVars => Reuse
  <2> SUFFICES ASSUME AuthInv, [AuthNext]_authVars, tokens' # tokens, NEW r \in Sessions,
                      auth[r].pc = "revoking", auth'[r].pc = "idle", NEW t \in Tokens,
                      tokens'[t].state = "live", tokens'[t].who = auth[r].who
               PROVE  t \in auth[r].missed
    OBVIOUS
  <2>1. tokens' = Revoked(auth[r].aim)
    BY EndsWithAChange DEF RevokeAll
  <2>2. t \notin auth[r].aim /\ tokens[t].state = "live" /\ tokens[t].who = auth[r].who
    BY <2>1 DEF Revoked, AuthInv, AuthTypeOK, Token
  <2> QED
    BY <2>2 DEF AuthInv, Fits, LiveOf, Live
<1>2. AuthInv /\ [AuthNext]_authVars => Logout
  <2> SUFFICES ASSUME AuthInv, [AuthNext]_authVars, tokens' # tokens, NEW r \in Sessions,
                      auth[r].pc = "leaving", auth'[r].pc = "idle", NEW t \in Tokens,
                      tokens'[t].state = "live",
                      tokens'[t].login = tokens[auth[r].tok].login
               PROVE  t \in auth[r].missed
    OBVIOUS
  <2>1. tokens' = Revoked({auth[r].tok})
    BY EndsWithAChange DEF Leave
  <2>2. /\ t # auth[r].tok /\ tokens[t].state = "live"
        /\ tokens[t].login = tokens[auth[r].tok].login
    BY <2>1 DEF Revoked, AuthInv, AuthTypeOK, Token
  <2> QED
    BY <2>2 DEF AuthInv, Fits, Live
<1> HIDE DEF Reuse, Logout
<1>3. AuthSpec => [][Reuse]_authVars /\ [][Logout]_authVars
  BY <1>1, <1>2, AuthInvHolds, PTL DEF AuthSpec
<1> QED
  BY <1>3 DEF RevocationIsThorough, ReuseEndsTheFamily, LogoutEndsTheSession, Reuse, Logout
=============================================================================
