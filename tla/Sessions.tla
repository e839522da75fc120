------------------------------ MODULE Sessions ------------------------------
(***************************************************************************)
(* Accounts, registration codes and refresh tokens of one user.  Requests  *)
(* run in READ COMMITTED transactions: a statement sees what is committed  *)
(* when it starts, waits for rows that others have locked, and looks at    *)
(* such a row again once it is free.  Nothing of a transaction is visible  *)
(* before its commit, so its writes are made by its last action here.      *)
(*                                                                         *)
(* An invalidation raises session_version, which ends the access tokens,   *)
(* and revokes the refresh tokens that its second statement sees.          *)
(***************************************************************************)
EXTENDS Naturals, FiniteSets

CONSTANTS
    Token,       \* rows of refresh_tokens
    Code,        \* rows of otp_codes, for registration
    Request,     \* requests that may be in progress together
    MaxBegun     \* bound on the requests of a behaviour

ASSUME SessionsAssumption ==
    /\ MaxBegun \in Nat
    /\ Token \cap Code = {}
    /\ {"none", "password"} \cap (Token \cup Code) = {}
    /\ "none" \notin Request

VARIABLES
    user,        \* users: status, and the request that has locked the row
    tokens,
    codes,
    requests,
    begun,
    revocations  \* history: the commits that revoked all tokens

sessionVars == <<user, tokens, codes, requests, begun, revocations>>

NoToken   == [status |-> "none", from |-> "none", epoch |-> 0, raced |-> FALSE]
NoCode    == [status |-> "none", number |-> 0]

\* `held` are rows it has locked, `seen` the tokens it is going to revoke, and
\* `grant` is what it gives tokens for.
NoRequest == [op |-> "none", place |-> "idle", held |-> {}, seen |-> {},
              grant |-> "none", epoch |-> 0]

\* Registered by its owner, or created active by an administrator.
SessionsInit ==
    /\ user \in [status : {"none", "active"}, lockedBy : {"none"}, mode : {"none"}]
    /\ tokens = [t \in Token |-> NoToken]
    /\ codes = [c \in Code |-> NoCode]
    /\ requests = [r \in Request |-> NoRequest]
    /\ begun = 0
    /\ revocations = 0

Live == {t \in Token : tokens[t].status = "live"}
Unconsumed == {c \in Code : codes[c].status = "live"}

-----------------------------------------------------------------------------
\* Requests and row locks.

Done(r) == requests' = [requests EXCEPT ![r] = NoRequest]

Arrive(r) ==
    /\ requests[r] = NoRequest
    /\ begun < MaxBegun
    /\ begun' = begun + 1

Begin(r, op, place, held, grant) ==
    /\ Arrive(r)
    /\ requests' = [requests EXCEPT ![r] =
            [op |-> op, place |-> place, held |-> held, seen |-> {}, grant |-> grant, epoch |-> 0]]

UserFree(r) == user.lockedBy \in {"none", r}
RowFree(r, x) == \A other \in Request \ {r} : x \notin requests[other].held

\* The foreign key of a new token needs the row of the user in a mode that
\* FOR UPDATE excludes and a plain UPDATE does not.
UserShared(r) == UserFree(r) \/ user.mode = "no key"

Locked(r, mode) == [user EXCEPT !.lockedBy = r, !.mode = mode]
Unlocked(r) ==
    IF user.lockedBy = r THEN [user EXCEPT !.lockedBy = "none", !.mode = "none"] ELSE user

\* Deadlocks, serialization and connection errors.  Where the code runs the
\* transaction again, that is another request here.
Rollback(r) ==
    /\ requests[r].place # "idle"
    /\ Done(r)
    /\ user' = Unlocked(r)
    /\ UNCHANGED <<tokens, codes, begun, revocations>>

-----------------------------------------------------------------------------
\* Registration codes.

Register(r) ==
    /\ user.status = "none"
    /\ Begin(r, "code", "request", {}, "none")
    /\ user' = [user EXCEPT !.status = "pending"]
    /\ UNCHANGED <<tokens, codes, revocations>>

\* sendOtp reads whether the account is pending before it asks for a code.
SendOtp(r) ==
    /\ user.status = "pending"
    /\ Begin(r, "code", "request", {}, "none")
    /\ UNCHANGED <<user, tokens, codes, revocations>>

\* Requests for one phone are serialized by an advisory lock; cooldown and rate
\* limit are the number of codes.  The codes so far are consumed, which waits for
\* a verification in progress.
RequestOtp(r) ==
    LET issued == {c \in Code : codes[c] # NoCode}
        old    == [c \in Code |->
                      IF c \in Unconsumed THEN [codes[c] EXCEPT !.status = "consumed"] ELSE codes[c]]
    IN  /\ requests[r].place = "request"
        /\ \A c \in Unconsumed : RowFree(r, c)
        /\ \E new \in Code \ issued :
              /\ codes' = [old EXCEPT ![new] =
                              [status |-> "live", number |-> Cardinality(issued) + 1]]
              /\ requests' = [requests EXCEPT ![r].place = "sms", ![r].grant = new]
        /\ UNCHANGED <<user, tokens, begun, revocations>>

\* The SMS leaves after the commit; if that fails, the code is consumed unless
\* somebody has used it, or is about to.
SmsSent(r) ==
    /\ requests[r].place = "sms"
    /\ Done(r)
    /\ UNCHANGED <<user, tokens, codes, begun, revocations>>

SmsFails(r) ==
    LET code == requests[r].grant IN
    /\ requests[r].place = "sms"
    /\ RowFree(r, code)
    /\ codes' = [codes EXCEPT ![code].status = "consumed"]
    /\ Done(r)
    /\ UNCHANGED <<user, tokens, begun, revocations>>

\* The code asked for last, if it is the right one.  A wrong or expired code leaves
\* nothing: what it counted is rolled back with the transaction of the controller.
Consumable(r, c) ==
    /\ codes[c].status = "live" /\ RowFree(r, c)
    /\ \A other \in Unconsumed : codes[other].number <= codes[c].number

\* The controller locks the user next.
VerifyOtp(r, c) ==
    /\ Consumable(r, c)
    /\ UserFree(r)
    /\ user.status \in {"pending", "active"}
    /\ Begin(r, "activate", "load", {c}, c)
    /\ user' = Locked(r, "update")
    /\ UNCHANGED <<tokens, codes, revocations>>

-----------------------------------------------------------------------------
\* Sessions.

\* The right password of an active account; counts of wrong ones are rolled back.
AuthenticatePassword(r) == UserFree(r) /\ user.status = "active"

\* That has committed when the tokens are issued.
Login(r) ==
    /\ AuthenticatePassword(r)
    /\ Begin(r, "login", "load", {}, "password")
    /\ UNCHANGED <<user, tokens, codes, revocations>>

SpentNever(t) == FALSE

\* Used before, logged out, revoked, or found expired.
Spent(t) == tokens[t].status = "revoked"

\* The row is locked; what is then done depends on the token presented, the row
\* and the account.  One that is not the stored token with that id, whatever the
\* row says, has the consequences of a spent one.
Refresh(r, t) ==
    /\ tokens[t] # NoToken
    /\ RowFree(r, t)
    /\ \/ Begin(r, "reuse", "lock", {t}, t)
       \/ /\ ~Spent(t) /\ user.status # "active"
          /\ Begin(r, "inactive", "read", {t}, t)
       \/ /\ ~Spent(t) /\ user.status = "active"
          /\ Begin(r, "refresh", "load", {t}, t)
    /\ UNCHANGED <<user, tokens, codes, revocations>>

\* Past its expiry; or a logout.
RevokeOne(r, t) ==
    /\ Arrive(r)
    /\ tokens[t].status = "live" /\ RowFree(r, t)
    /\ tokens' = [tokens EXCEPT ![t].status = "revoked"]
    /\ UNCHANGED <<user, codes, requests, revocations>>

\* The identity is read with a plain SELECT.
LoadAccessPayload(r) ==
    /\ requests[r].place = "load"
    /\ user.status = "active" \/ requests[r].op = "activate"
    /\ requests' = [requests EXCEPT ![r].place = "issue", ![r].epoch = revocations]
    /\ UNCHANGED <<user, tokens, codes, begun, revocations>>

Invalidating(r) ==
    /\ requests[r].op \in {"invalidate", "reuse", "admin"}
    /\ requests[r].place \in {"revoke", "commit"}

\* An invalidation that an issue runs beside: one has committed since the identity
\* was read, or has already seen the tokens that it will revoke.
Raced(r) ==
    requests[r].epoch # revocations \/ \E other \in Request \ {r} : Invalidating(other)

IssueToken(r) ==
    LET grant == requests[r].grant IN
    /\ requests[r].place = "issue"
    /\ UserShared(r)
    /\ \E new \in Token :
          /\ tokens[new] = NoToken
          /\ tokens' = [t \in Token |->
                IF t = new THEN [status |-> "live", from |-> grant,
                                 epoch |-> requests[r].epoch, raced |-> Raced(r)]
                ELSE IF t = grant THEN [tokens[t] EXCEPT !.status = "revoked"] ELSE tokens[t]]
    /\ codes' = [c \in Code |->
            IF c = grant THEN [codes[c] EXCEPT !.status = "consumed"] ELSE codes[c]]
    /\ user' = IF requests[r].op = "activate" THEN [Unlocked(r) EXCEPT !.status = "active"]
                                              ELSE Unlocked(r)
    /\ Done(r)
    /\ UNCHANGED <<begun, revocations>>

-----------------------------------------------------------------------------
\* Invalidation: the user is locked, the live tokens are read, and each of them
\* is revoked once nobody else holds it.

\* authenticate lets active accounts in.
LogoutAll(r) ==
    /\ user.status = "active"
    /\ Begin(r, "invalidate", "lock", {}, "none")
    /\ UNCHANGED <<user, tokens, codes, revocations>>

\* changePassword has the row FOR UPDATE from its first statement on.
ChangePassword(r) ==
    /\ user.status = "active" /\ UserFree(r)
    /\ Begin(r, "invalidate", "read", {}, "none")
    /\ user' = Locked(r, "update")
    /\ UNCHANGED <<tokens, codes, revocations>>

\* An administrator's revocation begins with the tokens.
RevokeUserSessions(r) ==
    /\ Begin(r, "admin", "read", {}, "none")
    /\ UNCHANGED <<user, tokens, codes, revocations>>

LockUser(r) ==
    /\ requests[r].place = "lock"
    /\ UserFree(r)
    /\ user' = Locked(r, "no key")
    /\ requests' = [requests EXCEPT ![r].place = "read"]
    /\ UNCHANGED <<tokens, codes, begun, revocations>>

SeenOwn(r) == Live \cap requests[r].held

Seen(r) == Live

ReadLive(r) ==
    /\ requests[r].place = "read"
    /\ requests' = [requests EXCEPT ![r].place = "revoke", ![r].seen = Seen(r)]
    /\ UNCHANGED <<user, tokens, codes, begun, revocations>>

RevokeAllRefreshTokens(r) ==
    /\ requests[r].place = "revoke"
    /\ \A t \in requests[r].seen : RowFree(r, t)
    /\ requests' = [requests EXCEPT ![r].place = "commit", ![r].held = @ \cup requests[r].seen]
    /\ UNCHANGED <<user, tokens, codes, begun, revocations>>

\* What was revoked by the one it waited for stays so, like everything else seen.
CommitRevocation(r) ==
    /\ requests[r].place = "commit"
    /\ requests[r].op = "admin" => UserFree(r)
    /\ tokens' = [t \in Token |->
            IF t \in requests[r].seen THEN [tokens[t] EXCEPT !.status = "revoked"] ELSE tokens[t]]
    /\ revocations' = IF requests[r].op = "inactive" THEN revocations ELSE revocations + 1
    /\ user' = Unlocked(r)
    /\ Done(r)
    /\ UNCHANGED <<codes, begun>>

-----------------------------------------------------------------------------
\* moderateUser; the refresh tokens stay as they are.
ModerateUser(r) ==
    /\ Arrive(r)
    /\ UserFree(r)
    /\ \E step \in {<<"active", "suspended">>, <<"suspended", "active">>,
                   <<"pending", "deleted">>, <<"active", "deleted">>, <<"suspended", "deleted">>} :
          user.status = step[1] /\ user' = [user EXCEPT !.status = step[2]]
    /\ UNCHANGED <<tokens, codes, requests, revocations>>

RequestStep(r) ==
    \/ RequestOtp(r) \/ SmsSent(r) \/ SmsFails(r)
    \/ LoadAccessPayload(r) \/ IssueToken(r)
    \/ LockUser(r) \/ ReadLive(r) \/ RevokeAllRefreshTokens(r)
    \/ CommitRevocation(r) \/ Rollback(r)

SessionsNext ==
    \E r \in Request :
        \/ RequestStep(r)
        \/ Register(r) \/ SendOtp(r) \/ \E c \in Code : VerifyOtp(r, c)
        \/ Login(r) \/ \E t \in Token : Refresh(r, t) \/ RevokeOne(r, t)
        \/ LogoutAll(r) \/ ChangePassword(r) \/ RevokeUserSessions(r) \/ ModerateUser(r)

SessionsSpec == SessionsInit /\ [][SessionsNext]_sessionVars

-----------------------------------------------------------------------------
\* When all sessions are ended, every refresh token from before is: whatever is
\* rotated, rolled back or logged out meanwhile, one can only outlive it if it was
\* issued while the revocation was under way.
SessionsEnd == \A t \in Live : tokens[t].epoch # revocations => tokens[t].raced

\* A refresh token has one successor and a registration code begins one session,
\* however many requests present them together; and at most the code that was
\* asked for last can still be used.
GrantsAreUsedOnce ==
    /\ \A t, other \in Token :
          /\ t # other /\ tokens[t] # NoToken
          /\ tokens[t].from = tokens[other].from
          => tokens[t].from = "password"
    /\ \A c \in Unconsumed : \A other \in Code \ {c} :
          codes[other].status # "live" /\ codes[other].number < codes[c].number
=============================================================================
