------------------------------ MODULE Sessions ------------------------------
(* Sessions: auth.service.ts and tokens.service.ts, cut at their database      *)
(* accesses.  A session is a chain of refresh tokens, each retired when the    *)
(* next one is handed out.  Hashes, signatures, roles and access tokens are    *)
(* left out; whether a password fits is the caller's choice, and whether a      *)
(* refresh token's time is over, which only refuses it, is a choice too.       *)
EXTENDS Integers, FiniteSets

CONSTANTS User,
          Token,          \* the refresh token rows that may come to exist
          MaxResets,      \* bound on the password reset tokens ever made
          ResetCandidates,\* take: 50, how many of the newest are looked at
          Call,           \* slots for API calls in progress
          StatusChanges,  \* the statuses staff may set an account to
          None

UserStatus == {"PENDING_VERIFICATION", "ACTIVE", "SUSPENDED", "DISABLED"}

Reset == 1..MaxResets     \* in the order of their createdAt

ASSUME SessionsAssumption ==
  /\ MaxResets \in Nat
  /\ ResetCandidates \in Nat \ {0}
  /\ StatusChanges \subseteq UserStatus
  /\ None \notin User \cup Token
  /\ IsFiniteSet(Call)

VARIABLES account,        \* each user's status, or None before the row exists
          tokens,         \* the row of each refresh token, or NoToken
          resets,         \* the row of each password reset token, or NoReset
          call,           \* per slot: how far the call is and what it has read
          toEnd           \* live tokens that a call in progress has to revoke

vars == <<account, tokens, resets, call, toEnd>>

NoToken == [user |-> None, from |-> None, replacedBy |-> None, revoked |-> FALSE,
            delivered |-> FALSE]

NoReset == [user |-> None, used |-> FALSE, expired |-> FALSE, uses |-> 0]

Idle == [at |-> "idle", user |-> None, token |-> None, next |-> None, reset |-> 0]

SessionsTypeOK ==
  /\ account \in [User -> UserStatus \cup {None}]
  /\ tokens \in [Token -> [user : User \cup {None}, from : Token \cup {None},
                           replacedBy : Token \cup {None}, revoked : BOOLEAN,
                           delivered : BOOLEAN]]
  /\ resets \in [Reset -> [user : User \cup {None}, used : BOOLEAN,
                           expired : BOOLEAN, uses : Nat]]
  /\ call \in [Call -> [at : {"idle", "issue", "find", "successor", "retire",
                              "write", "revokeAll"},
                        user : User \cup {None}, token : Token \cup {None},
                        next : Token \cup {None}, reset : Reset \cup {0}]]
  /\ toEnd \subseteq Token

SessionsInit ==
  /\ account = [u \in User |-> None]
  /\ tokens = [t \in Token |-> NoToken]
  /\ resets = [r \in Reset |-> NoReset]
  /\ call = [c \in Call |-> Idle]
  /\ toEnd = {}

At(c, stage) == call[c].at = stage

Goto(c, stage) == call' = [call EXCEPT ![c].at = stage]

EndCall(c) == call' = [call EXCEPT ![c] = Idle]

TokensOf(u) == {t \in Token : tokens[t].user = u}

Exists(t) == tokens[t].user # None

\* A client has the token: it was in the answer to a call.
Held(t) == Exists(t) /\ tokens[t].delivered

Asked(r) == resets[r].user # None

LiveTokensOf(u) == {t \in TokensOf(u) : ~tokens[t].revoked}

----------------------------------------------------------------------------
(* Accounts: register and createStaffUser find the e-mail free, and a unique   *)
(* index keeps the row single.  updateStatus leaves the sessions alone.        *)

CreateStaffUser(u) ==
  /\ account[u] = None
  /\ account' = [account EXCEPT ![u] = "ACTIVE"]
  /\ UNCHANGED <<tokens, resets, call, toEnd>>

Register(c, u) ==
  /\ At(c, "idle")
  /\ account[u] = None
  /\ account' = [account EXCEPT ![u] = "ACTIVE"]
  /\ call' = [call EXCEPT ![c] = [Idle EXCEPT !.at = "issue", !.user = u]]
  /\ UNCHANGED <<tokens, resets, toEnd>>

UpdateUserStatus(u, status) ==
  /\ account[u] # None
  /\ account' = [account EXCEPT ![u] = status]
  /\ UNCHANGED <<tokens, resets, call, toEnd>>

----------------------------------------------------------------------------
(* Tokens: login, refresh, logout.                                             *)

\* login() reads the user, checks the password and the status.
LoginRead(c, u) ==
  /\ At(c, "idle")
  /\ account[u] = "ACTIVE"
  /\ call' = [call EXCEPT ![c] = [Idle EXCEPT !.at = "issue", !.user = u]]
  /\ UNCHANGED <<account, tokens, resets, toEnd>>

\* issueTokenPair() of login and register: a new row, its token in the answer.
Issue(c, t) ==
  /\ At(c, "issue")
  /\ ~Exists(t)
  /\ tokens' = [tokens EXCEPT ![t] =
       [NoToken EXCEPT !.user = call[c].user, !.delivered = TRUE]]
  /\ EndCall(c)
  /\ UNCHANGED <<account, resets, toEnd>>

\* refresh() reads the user of a token that its client holds.
RefreshRead(c, t) ==
  /\ At(c, "idle")
  /\ Held(t)
  /\ account[tokens[t].user] = "ACTIVE"
  /\ call' = [call EXCEPT ![c] =
       [Idle EXCEPT !.at = "find", !.user = tokens[t].user, !.token = t]]
  /\ UNCHANGED <<account, tokens, resets, toEnd>>

\* What the row says of the token: a revoked one is taken for stolen, and every
\* session of its user is to end.
Reused_Rejected(t) == FALSE
Reused(t) == tokens[t].revoked

RotateFind(c) ==
  LET t == call[c].token IN
  /\ At(c, "find")
  /\ IF Reused(t)
     THEN Goto(c, "revokeAll") /\ toEnd' = toEnd \cup LiveTokensOf(call[c].user)
     ELSE Goto(c, "successor") /\ UNCHANGED toEnd
  /\ UNCHANGED <<account, tokens, resets>>

\* The token's time is over: the call is refused and nothing is revoked.
RotateExpired(c) ==
  /\ At(c, "find")
  /\ EndCall(c)
  /\ UNCHANGED <<account, tokens, resets, toEnd>>

\* issueTokenPair() of the rotation; the client does not have the token yet.
RotateIssue(c, t) ==
  /\ At(c, "successor")
  /\ ~Exists(t)
  /\ tokens' = [tokens EXCEPT ![t] =
       [NoToken EXCEPT !.user = call[c].user, !.from = call[c].token]]
  /\ call' = [call EXCEPT ![c].at = "retire", ![c].next = t]
  /\ UNCHANGED <<account, resets, toEnd>>

\* Tokens that have been revoked need no more ending.
Settle == toEnd' = {t \in toEnd : ~tokens'[t].revoked}

\* The token presented is revoked, whatever has become of it, and the successor
\* goes to the client.
RotateRetire(c) ==
  LET t == call[c].token
      s == call[c].next
  IN  /\ At(c, "retire")
      /\ tokens' = [tokens EXCEPT ![t].revoked = TRUE, ![t].replacedBy = s,
                                  ![s].delivered = TRUE]
      /\ Settle
      /\ EndCall(c)
      /\ UNCHANGED <<account, resets>>

RevokedAll(S) ==
  [t \in Token |-> IF t \in S THEN [tokens[t] EXCEPT !.revoked = TRUE] ELSE tokens[t]]

\* logout(): one UPDATE of the token, unless its time is over.
Logout(t) ==
  /\ Held(t)
  /\ tokens' = RevokedAll({t})
  /\ Settle
  /\ UNCHANGED <<account, resets, call>>

\* logoutAll(): one UPDATE of the user's tokens.
LogoutAll(u) ==
  /\ account[u] # None
  /\ tokens' = RevokedAll(TokensOf(u))
  /\ Settle
  /\ UNCHANGED <<account, resets, call>>

\* revokeAllForUser() at the end of a reset or of a reuse.
RevokeAllOf_OnlyToken(c) == {call[c].token} \ {None}
RevokeAllOf(c) == TokensOf(call[c].user)

RevokeAll(c) ==
  /\ At(c, "revokeAll")
  /\ tokens' = RevokedAll(RevokeAllOf(c))
  /\ Settle
  /\ EndCall(c)
  /\ UNCHANGED <<account, resets>>

----------------------------------------------------------------------------
(* Password resets.                                                            *)

\* forgotPassword(): one more reset token; earlier ones stay good.
ForgotPassword(u, r) ==
  /\ account[u] # None
  /\ ~Asked(r)
  /\ \A q \in Reset : q < r => Asked(q)
  /\ resets' = [resets EXCEPT ![r] = [NoReset EXCEPT !.user = u]]
  /\ UNCHANGED <<account, tokens, call, toEnd>>

Unused_Ignored(r) == ~resets[r].expired
Unused(r) == ~resets[r].used /\ ~resets[r].expired

\* resetPassword() looks for the token among the newest that are unused.
ResetRead(c, r) ==
  /\ At(c, "idle")
  /\ Asked(r) /\ Unused(r)
  /\ Cardinality({q \in Reset : q > r /\ Asked(q) /\ Unused(q)}) < ResetCandidates
  /\ call' = [call EXCEPT ![c] =
       [Idle EXCEPT !.at = "write", !.user = resets[r].user, !.reset = r]]
  /\ UNCHANGED <<account, tokens, resets, toEnd>>

\* The transaction: the token is used, the password set, whatever became of the
\* token since.  From here on no session of before is to last.
ResetWrite(c) ==
  /\ At(c, "write")
  /\ resets' = [resets EXCEPT ![call[c].reset].used = TRUE,
                              ![call[c].reset].uses = @ + 1]
  /\ toEnd' = toEnd \cup LiveTokensOf(call[c].user)
  /\ Goto(c, "revokeAll")
  /\ UNCHANGED <<account, tokens>>

----------------------------------------------------------------------------

\* The time of a reset token is over.
ExpireReset(r) ==
  /\ Asked(r) /\ Unused(r)
  /\ resets' = [resets EXCEPT ![r].expired = TRUE]
  /\ UNCHANGED <<account, tokens, call, toEnd>>

\* A database error or the end of the process drops a call between two accesses.
Fail(c) ==
  /\ ~At(c, "idle")
  /\ toEnd' = IF At(c, "revokeAll") THEN toEnd \ TokensOf(call[c].user) ELSE toEnd
  /\ EndCall(c)
  /\ UNCHANGED <<account, tokens, resets>>

Next ==
  \/ \E u \in User :
       \/ CreateStaffUser(u)
       \/ \E status \in StatusChanges : UpdateUserStatus(u, status)
       \/ LogoutAll(u)
       \/ \E r \in Reset : ForgotPassword(u, r)
  \/ \E t \in Token : Logout(t)
  \/ \E r \in Reset : ExpireReset(r)
  \/ \E c \in Call :
       \/ \E u \in User : Register(c, u) \/ LoginRead(c, u)
       \/ \E t \in Token : Issue(c, t) \/ RefreshRead(c, t) \/ RotateIssue(c, t)
       \/ RotateFind(c) \/ RotateExpired(c) \/ RotateRetire(c) \/ RevokeAll(c)
       \/ \E r \in Reset : ResetRead(c, r)
       \/ ResetWrite(c)
       \/ Fail(c)

Spec == SessionsInit /\ [][Next]_vars

----------------------------------------------------------------------------

\* Some call is about to revoke every token of u.
Revoking(u) == \E c \in Call : At(c, "revokeAll") /\ call[c].user = u

\* Resetting the password, like reusing an old refresh token, ends every current
\* session (API_CONTRACT.md:66 and 45): a token that was alive when its user's
\* sessions were to end is revoked, or about to be, whatever logins, rotations and
\* other resets are under way.  (A call that dies in between leaves it alive.)
SessionsEnd == \A t \in toEnd : Revoking(tokens[t].user)

\* A refresh token is replaced at every use (API_CONTRACT.md:10): calls that
\* overlap may each hand out a successor (the row is read at tokens.service.ts:106
\* and written at 142), but no more successors than calls there can be at once,
\* over any number of later refreshes, logouts and failures.
Successors(t) == {s \in Token : tokens[s].from = t /\ tokens[s].delivered}

RotationsBounded == \A t \in Token : Cardinality(Successors(t)) <= Cardinality(Call)

\* A reset token is for one use (PLAN.md:67): the same for password resets, whose
\* token is read before the hash is computed and marked after it.
ResetUsesBounded == \A r \in Reset : resets[r].uses <= Cardinality(Call)
=============================================================================
