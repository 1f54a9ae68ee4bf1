---------------------------- MODULE AuthSessions ----------------------------
(***************************************************************************)
(* Refresh tokens and the sessions they carry: register, login, refresh    *)
(* with rotation and reuse detection, and logout                           *)
(* (services/auth_service.py, repositories/refresh_token_repository.py).   *)
(* A request takes its steps between those of the others: refresh locks    *)
(* the row it presents and skips a row somebody else has locked, logout    *)
(* reads without a lock, and an UPDATE waits for the rows another          *)
(* transaction holds, then leaves alone those that no longer match.        *)
(* What the tokens say, passwords, cookies and the audit are left out.     *)
(***************************************************************************)
EXTENDS FiniteSets

CONSTANTS
    Holders,   \* accounts of the tenant
    Tokens,    \* bound: how many refresh tokens are ever issued
    NoToken,   \* no row found, or none presented
    Sessions   \* requests in flight together

ASSUME NoTokenAssumption == NoToken \notin Tokens

\* A request at rest is nobody's: any account stands for it.
ASSUME HoldersAssumption == Holders # {}

VARIABLES
    accounts,  \* is_active of each account, or "none" before it registers
    tokens,    \* the rows of refresh_tokens
    auth       \* the requests

authVars == <<accounts, tokens, auth>>

\* login is the token the session began with: the code does not store it, the
\* chain of replaced_by_id leads there.  expired: expires_at has passed.
Token == [state : {"none", "live", "revoked"}, who : Holders, login : Tokens,
          next : Tokens \cup {NoToken}, expired : BOOLEAN]

\* tok: the row presented.  aim: the rows revoke_all_for_user still has to
\* update.  locks: the rows this transaction holds.  missed: what was issued
\* since this request looked at the table to revoke.
AuthCall == [pc : {"idle", "signing", "held", "issuing", "revoking", "leaving"},
             who : Holders, tok : Tokens \cup {NoToken}, aim : SUBSET Tokens,
             locks : SUBSET Tokens, missed : SUBSET Tokens]

AuthTypeOK ==
    /\ accounts \in [Holders -> {"none", "on", "off"}]
    /\ tokens \in [Tokens -> Token]
    /\ auth \in [Sessions -> AuthCall]

AtRest(h) == [pc |-> "idle", who |-> h, tok |-> NoToken, aim |-> {}, locks |-> {},
              missed |-> {}]

Live(t) == tokens[t].state = "live"

LiveOf(h) == {t \in Tokens : Live(t) /\ tokens[t].who = h}

\* Whether another transaction than r's holds the row.
LockedByOther(r, t) == \E q \in Sessions \ {r} : t \in auth[q].locks

-----------------------------------------------------------------------------
Close(r) == [auth EXCEPT ![r] = AtRest(auth[r].who)]

\* The requests once n has been issued: those that have read the table already
\* and are about to revoke have not seen it.
Issued(n, calls) ==
    [q \in Sessions |->
        IF calls[q].pc \in {"revoking", "leaving"}
        THEN [calls[q] EXCEPT !.missed = @ \cup {n}] ELSE calls[q]]

\* _issue_tokens: a live row for h; a session's first token names itself.
NewToken(h, login) == [state |-> "live", who |-> h, login |-> login,
                       next |-> NoToken, expired |-> FALSE]

Revoked(rows) ==
    [t \in Tokens |->
        IF t \in rows THEN [tokens[t] EXCEPT !.state = "revoked"] ELSE tokens[t]]

\* register: the organization, its first administrator and a token in one
\* commit.  An organization name taken meanwhile fails the insert, and nothing
\* is written.
Register(h, n) ==
    /\ accounts[h] = "none" /\ tokens[n].state = "none"
    /\ accounts' = [accounts EXCEPT ![h] = "on"]
    /\ tokens' = [tokens EXCEPT ![n] = NewToken(h, n)]
    /\ auth' = Issued(n, auth)

\* login: an account found by its address and password, and active.
SignIn(r, h) ==
    /\ auth[r].pc = "idle" /\ accounts[h] = "on"
    /\ auth' = [auth EXCEPT ![r] = [AtRest(h) EXCEPT !.pc = "signing"]]
    /\ UNCHANGED <<accounts, tokens>>

\* ... and its commit.
Enter(r, n) ==
    /\ auth[r].pc = "signing" /\ tokens[n].state = "none"
    /\ tokens' = [tokens EXCEPT ![n] = NewToken(auth[r].who, n)]
    /\ auth' = Issued(n, Close(r))
    /\ UNCHANGED accounts

Present(r, t, pc, locks) ==
    auth' = [auth EXCEPT ![r] = [AtRest(tokens[t].who) EXCEPT
                                    !.pc = pc, !.tok = t, !.locks = locks]]

SlipFind(r, t) ==
    /\ auth[r].pc = "idle" /\ tokens[t].state # "none"
    /\ Present(r, t, "held", {})
    /\ UNCHANGED <<accounts, tokens>>

\* refresh: find_by_hash FOR UPDATE SKIP LOCKED.  A row another transaction
\* holds is not found, and the request ends as for an unknown token.
Find(r, t) ==
    /\ auth[r].pc = "idle" /\ tokens[t].state # "none" /\ ~ LockedByOther(r, t)
    /\ Present(r, t, "held", {t})
    /\ UNCHANGED <<accounts, tokens>>

\* The row is expired and not revoked: it is revoked, and the caller refused.
RefuseExpired(r) ==
    /\ auth[r].pc = "held" /\ Live(auth[r].tok) /\ tokens[auth[r].tok].expired
    /\ tokens' = Revoked({auth[r].tok})
    /\ auth' = Close(r)
    /\ UNCHANGED accounts

\* A used token, or an account that is not active, ends every session: the
\* UPDATE of revoke_all_for_user sees the rows live as it starts.
RevokeFamily(r) ==
    /\ auth[r].pc = "held"
    /\ \/ ~ Live(auth[r].tok)
       \/ ~ tokens[auth[r].tok].expired /\ accounts[auth[r].who] # "on"
    /\ auth' = [auth EXCEPT ![r].pc = "revoking", ![r].aim = LiveOf(auth[r].who),
                            ![r].missed = {}]
    /\ UNCHANGED <<accounts, tokens>>

\* A live token of an active account is to be replaced.
Accept(r) ==
    /\ auth[r].pc = "held" /\ Live(auth[r].tok) /\ ~ tokens[auth[r].tok].expired
    /\ accounts[auth[r].who] = "on"
    /\ auth' = [auth EXCEPT ![r].pc = "issuing"]
    /\ UNCHANGED <<accounts, tokens>>

\* refresh commits: the presented row revoked and linked, its replacement live.
Rotate(r, n) ==
    /\ auth[r].pc = "issuing" /\ tokens[n].state = "none"
    /\ tokens' = [Revoked({auth[r].tok}) EXCEPT
                     ![auth[r].tok].next = n,
                     ![n] = NewToken(auth[r].who, tokens[auth[r].tok].login)]
    /\ auth' = Issued(n, Close(r))
    /\ UNCHANGED accounts

\* The UPDATE reaches a row: it waits for whoever holds it, then takes the row
\* or, revoked meanwhile, passes it over.
Grab(r, t) ==
    /\ auth[r].pc = "revoking" /\ t \in auth[r].aim \ auth[r].locks
    /\ ~ LockedByOther(r, t)
    /\ auth' = [auth EXCEPT
                   ![r].locks = IF Live(t) THEN @ \cup {t} ELSE @,
                   ![r].aim = IF Live(t) THEN @ ELSE @ \ {t}]
    /\ UNCHANGED <<accounts, tokens>>

SlipRevokeAll(r) ==
    /\ auth[r].pc = "revoking" /\ auth[r].aim \subseteq auth[r].locks
    /\ tokens' = Revoked({t \in auth[r].aim : tokens[t].login = tokens[auth[r].tok].login})
    /\ auth' = Close(r)
    /\ UNCHANGED accounts

\* ... and the commit of the revocation, before the caller is refused.
RevokeAll(r) ==
    /\ auth[r].pc = "revoking" /\ auth[r].aim \subseteq auth[r].locks
    /\ tokens' = Revoked(auth[r].aim)
    /\ auth' = Close(r)
    /\ UNCHANGED accounts

\* logout: an unlocked read; a token that is unknown or already revoked ends it.
Look(r, t) ==
    /\ auth[r].pc = "idle" /\ Live(t)
    /\ Present(r, t, "leaving", {})
    /\ UNCHANGED <<accounts, tokens>>

\* ... its UPDATE, by primary key, whatever the row says by then.
Leave(r) ==
    /\ auth[r].pc = "leaving" /\ ~ LockedByOther(r, auth[r].tok)
    /\ tokens' = Revoked({auth[r].tok})
    /\ auth' = Close(r)
    /\ UNCHANGED accounts

\* The transaction is rolled back: a lost connection, a stopped process, or
\* the one PostgreSQL aborts when two revocations wait for each other.
Rollback(r) ==
    /\ auth[r].pc # "idle" /\ auth' = Close(r)
    /\ UNCHANGED <<accounts, tokens>>

\* deactivate_user: the account's column, and none of its tokens.
SwitchOff(h) ==
    /\ accounts[h] = "on" /\ accounts' = [accounts EXCEPT ![h] = "off"]
    /\ UNCHANGED <<tokens, auth>>

\* expires_at passes.
Expire(t) ==
    /\ Live(t) /\ ~ tokens[t].expired
    /\ tokens' = [tokens EXCEPT ![t].expired = TRUE]
    /\ UNCHANGED <<accounts, auth>>

-----------------------------------------------------------------------------
AuthInit ==
    /\ accounts = [h \in Holders |-> "none"]
    /\ tokens \in [Tokens -> [state : {"none"}, who : Holders, login : Tokens,
                              next : {NoToken}, expired : {FALSE}]]
    /\ \A t \in Tokens :
          tokens[t].login = t /\ tokens[t].who = CHOOSE h \in Holders : TRUE
    /\ auth = [r \in Sessions |-> AtRest(CHOOSE h \in Holders : TRUE)]

AuthNext ==
    \/ \E h \in Holders : SwitchOff(h) \/ \E n \in Tokens : Register(h, n)
    \/ \E t \in Tokens : Expire(t)
    \/ \E r \in Sessions :
          \/ RefuseExpired(r) \/ RevokeFamily(r) \/ Accept(r) \/ RevokeAll(r)
          \/ Leave(r) \/ Rollback(r)
          \/ \E h \in Holders : SignIn(r, h)
          \/ \E t \in Tokens :
                Find(r, t) \/ Look(r, t) \/ Grab(r, t) \/ Enter(r, t) \/ Rotate(r, t)

AuthSpec == AuthInit /\ [][AuthNext]_authVars

-----------------------------------------------------------------------------
\* However refreshes, logouts and revocations overlap, a session has one live
\* token: rotation never leaves two holders of it.
OneLivePerLogin ==
    \A s, t \in Tokens : Live(s) /\ Live(t) /\ tokens[s].login = tokens[t].login => s = t

\* The family a used token ends: when that request commits, what is left alive
\* of the account was issued while its UPDATE was under way, by a transaction
\* the UPDATE could not see.
ReuseEndsTheFamily ==
    [][\A r \in Sessions :
          auth[r].pc = "revoking" /\ auth'[r].pc = "idle" /\ tokens' # tokens =>
             \A t \in Tokens :
                tokens'[t].state = "live" /\ tokens'[t].who = auth[r].who =>
                   t \in auth[r].missed]_authVars

\* Logging out ends the session, unless a refresh of it was under way.
LogoutEndsTheSession ==
    [][\A r \in Sessions :
          auth[r].pc = "leaving" /\ auth'[r].pc = "idle" /\ tokens' # tokens =>
             \A t \in Tokens :
                tokens'[t].state = "live" /\ tokens'[t].login = tokens[auth[r].tok].login =>
                   t \in auth[r].missed]_authVars

-----------------------------------------------------------------------------
\* A request and the rows agree: the row it presented is its account's, a row
\* it replaces is live and held, and every live row it means to revoke is aimed
\* at or was issued behind its back.
Fits(c) ==
    /\ c.pc \in {"held", "issuing", "revoking", "leaving"} =>
          c.tok \in Tokens /\ tokens[c.tok].state # "none" /\ tokens[c.tok].who = c.who
    /\ c.pc \in {"held", "issuing"} => c.tok \in c.locks
    /\ c.pc = "issuing" => Live(c.tok)
    /\ c.pc = "revoking" =>
          /\ LiveOf(c.who) \subseteq c.aim \cup c.missed
          /\ \A t \in c.aim : tokens[t].state # "none"
    /\ c.pc = "leaving" =>
          \A t \in Tokens : Live(t) /\ tokens[t].login = tokens[c.tok].login =>
             t \in {c.tok} \cup c.missed

\* What makes the three hold: besides, a session begins with a row that was
\* issued, and a row is held by one transaction.
AuthInv ==
    /\ AuthTypeOK /\ OneLivePerLogin
    /\ \A t \in Tokens : tokens[t].state # "none" =>
          tokens[tokens[t].login].state # "none"
    /\ \A r \in Sessions : Fits(auth[r])
    /\ \A q, r \in Sessions : q # r => auth[q].locks \cap auth[r].locks = {}

\* Whatever ends a session, a reuse of one of its tokens or a logout, ends it but
\* for what was issued behind its back.
RevocationIsThorough == ReuseEndsTheFamily /\ LogoutEndsTheSession
=============================================================================
