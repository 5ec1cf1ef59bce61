--------------------------- MODULE Sessions_proofs --------------------------
(* When a user's sessions are to end, they do, and tokens are used no more      *)
(* often than calls overlap, for any number of users, tokens, resets and calls. *)
EXTENDS Sessions, FiniteSetTheorems, TLAPS

TokenRow ==
  [user : User \cup {None}, from : Token \cup {None}, replacedBy : Token \cup {None},
   revoked : BOOLEAN, delivered : BOOLEAN]

\* Every call in progress works for a user.
OnBehalf == \A c \in Call : ~At(c, "idle") => call[c].user \in User

\* What is to be ended is a token that exists.
EndsExist == \A t \in toEnd : Exists(t)

IInv == SessionsTypeOK /\ OnBehalf /\ EndsExist /\ SessionsEnd

LEMMA TypeInit == SessionsInit => SessionsTypeOK
  BY SessionsAssumption
     DEF SessionsInit, SessionsTypeOK, NoToken, NoReset, Idle, Reset

\* Revoking a set of tokens keeps the rows well formed.
LEMMA RevokedRows ==
  ASSUME SessionsTypeOK, NEW S
  PROVE  /\ RevokedAll(S) \in [Token -> TokenRow]
         /\ \A t \in Token : RevokedAll(S)[t].user = tokens[t].user
         /\ \A t \in Token \cap S : RevokedAll(S)[t].revoked
<1>1. tokens \in [Token -> TokenRow]
  BY DEF SessionsTypeOK, TokenRow
<1>2. ASSUME NEW t \in Token
      PROVE  /\ RevokedAll(S)[t] \in TokenRow
             /\ RevokedAll(S)[t].user = tokens[t].user
             /\ t \in S => RevokedAll(S)[t].revoked
  <2>1. tokens[t] \in TokenRow
    BY <1>1
  <2>2. CASE t \in S
    <3>1. RevokedAll(S)[t] = [tokens[t] EXCEPT !.revoked = TRUE]
      BY <2>2 DEF RevokedAll
    <3> QED
      BY <2>1, <3>1 DEF TokenRow
  <2>3. CASE t \notin S
    BY <2>1, <2>3 DEF RevokedAll
  <2> QED
    BY <2>2, <2>3
<1>3. RevokedAll(S) \in [Token -> TokenRow]
  BY <1>2 DEF RevokedAll
<1> QED
  BY <1>2, <1>3

\* So does marking a token as retired, and handing one out.
LEMMA RetiredRows ==
  ASSUME NEW f \in [Token -> TokenRow], NEW t, NEW s \in Token \cup {None}
  PROVE  /\ [f EXCEPT ![t].revoked = TRUE] \in [Token -> TokenRow]
         /\ [f EXCEPT ![t].replacedBy = s] \in [Token -> TokenRow]
         /\ [f EXCEPT ![t].delivered = TRUE] \in [Token -> TokenRow]
<1>1. ASSUME NEW row \in TokenRow
      PROVE  /\ [row EXCEPT !.revoked = TRUE] \in TokenRow
             /\ [row EXCEPT !.replacedBy = s] \in TokenRow
             /\ [row EXCEPT !.delivered = TRUE] \in TokenRow
  BY DEF TokenRow
<1> QED
  BY <1>1

\* Every step keeps the types.
LEMMA TypeStep == IInv /\ [Next]_vars => SessionsTypeOK'
<1> SUFFICES ASSUME IInv, [Next]_vars PROVE SessionsTypeOK'
  OBVIOUS
<1> DEFINE CallSet ==
      [at : {"idle", "issue", "find", "successor", "retire", "write", "revokeAll"},
       user : User \cup {None}, token : Token \cup {None},
       next : Token \cup {None}, reset : Reset \cup {0}]
<1> USE DEF IInv
<1>1. account' \in [User -> UserStatus \cup {None}]
  <2>1. "ACTIVE" \in UserStatus /\ StatusChanges \subseteq UserStatus
    BY SessionsAssumption DEF UserStatus
  <2>2. CASE UNCHANGED account
    BY <2>2 DEF SessionsTypeOK
  <2>3. ASSUME NEW u \in User, NEW s \in UserStatus,
               account' = [account EXCEPT ![u] = s]
        PROVE  account' \in [User -> UserStatus \cup {None}]
    BY <2>3 DEF SessionsTypeOK
  <2> QED
    BY <2>1, <2>2, <2>3
       DEF Next, vars, CreateStaffUser, UpdateUserStatus, LogoutAll, ForgotPassword,
           Logout, ExpireReset, Register, LoginRead, Issue, RefreshRead, RotateIssue,
           RotateFind, RotateExpired, RotateRetire, RevokeAll, ResetRead, ResetWrite,
           Fail
<1>2. tokens' \in [Token -> TokenRow]
  <2>0. tokens \in [Token -> TokenRow]
    BY DEF SessionsTypeOK, TokenRow
  <2>1. CASE UNCHANGED tokens
    BY <2>0, <2>1
  <2>2. ASSUME NEW S, tokens' = RevokedAll(S) PROVE tokens' \in [Token -> TokenRow]
    BY <2>2, RevokedRows
  <2>3. ASSUME NEW c \in Call, NEW t \in Token, Issue(c, t) \/ RotateIssue(c, t)
        PROVE  tokens' \in [Token -> TokenRow]
    <3>1. call[c].user \in User /\ call[c].token \in Token \cup {None}
      BY <2>3 DEF Issue, RotateIssue, OnBehalf, At, SessionsTypeOK
    <3> QED
      <4>1. [NoToken EXCEPT !.user = call[c].user, !.delivered = TRUE] \in TokenRow
        BY <3>1 DEF NoToken, TokenRow
      <4>2. [NoToken EXCEPT !.user = call[c].user, !.from = call[c].token] \in TokenRow
        BY <3>1 DEF NoToken, TokenRow
      <4> QED
        BY <2>0, <2>3, <4>1, <4>2 DEF Issue, RotateIssue
  <2>4. ASSUME NEW c \in Call, RotateRetire(c) PROVE tokens' \in [Token -> TokenRow]
    <3>1. call[c].next \in Token \cup {None}
      BY DEF SessionsTypeOK
    <3>2. \A f \in [Token -> TokenRow] :
            /\ [f EXCEPT ![call[c].token].revoked = TRUE] \in [Token -> TokenRow]
            /\ [f EXCEPT ![call[c].token].replacedBy = call[c].next]
                 \in [Token -> TokenRow]
            /\ [f EXCEPT ![call[c].next].delivered = TRUE] \in [Token -> TokenRow]
      BY <3>1, RetiredRows
    <3>3. PICK f : f = [tokens EXCEPT ![call[c].token].revoked = TRUE]
      OBVIOUS
    <3>4. PICK g : g = [f EXCEPT ![call[c].token].replacedBy = call[c].next]
      OBVIOUS
    <3>5. tokens' = [g EXCEPT ![call[c].next].delivered = TRUE]
      BY <2>4, <3>3, <3>4 DEF RotateRetire
    <3>6. f \in [Token -> TokenRow]
      BY <2>0, <3>2, <3>3
    <3>7. g \in [Token -> TokenRow]
      BY <3>2, <3>4, <3>6
    <3> QED
      BY <3>2, <3>5, <3>7
  <2> QED
    BY <2>1, <2>2, <2>3, <2>4
       DEF Next, vars, CreateStaffUser, UpdateUserStatus, LogoutAll, ForgotPassword,
           Logout, ExpireReset, Register, LoginRead, RefreshRead, RotateFind,
           RotateExpired, RevokeAll, ResetRead, ResetWrite, Fail
<1>3. resets' \in [Reset -> [user : User \cup {None}, used : BOOLEAN,
                             expired : BOOLEAN, uses : Nat]]
  <2>1. CASE UNCHANGED resets
    BY <2>1 DEF SessionsTypeOK
  <2>2. ASSUME NEW u \in User, NEW r \in Reset, ForgotPassword(u, r)
        PROVE  resets' \in [Reset -> [user : User \cup {None}, used : BOOLEAN,
                                      expired : BOOLEAN, uses : Nat]]
    BY <2>2 DEF ForgotPassword, NoReset, SessionsTypeOK
  <2>3. ASSUME NEW r \in Reset, ExpireReset(r)
        PROVE  resets' \in [Reset -> [user : User \cup {None}, used : BOOLEAN,
                                      expired : BOOLEAN, uses : Nat]]
    BY <2>3 DEF ExpireReset, SessionsTypeOK
  <2>4. ASSUME NEW c \in Call, ResetWrite(c)
        PROVE  resets' \in [Reset -> [user : User \cup {None}, used : BOOLEAN,
                                      expired : BOOLEAN, uses : Nat]]
    <3> DEFINE Row == [user : User \cup {None}, used : BOOLEAN, expired : BOOLEAN,
                       uses : Nat]
               x == call[c].reset
    <3>1. resets \in [Reset -> Row]
      BY DEF SessionsTypeOK
    <3>2. resets' = [r \in Reset |->
             IF r = x THEN [resets[r] EXCEPT !.used = TRUE, !.uses = @ + 1]
                      ELSE resets[r]]
      BY <2>4, <3>1 DEF ResetWrite
    <3>3. ASSUME NEW row \in Row
          PROVE  [row EXCEPT !.used = TRUE, !.uses = @ + 1] \in Row
      <4>1. PICK mid : mid = [row EXCEPT !.used = TRUE]
        OBVIOUS
      <4>2. mid \in Row
        BY <4>1
      <4>3. [mid EXCEPT !.uses = mid.uses + 1] \in Row
        BY <4>2
      <4> QED
        BY <4>1, <4>3
    <3> QED
      BY <3>1, <3>2, <3>3
  <2> QED
    BY <2>1, <2>2, <2>3, <2>4
       DEF Next, vars, CreateStaffUser, UpdateUserStatus, LogoutAll, Logout, Register,
           LoginRead, Issue, RefreshRead, RotateIssue, RotateFind, RotateExpired,
           RotateRetire, RevokeAll, ResetRead, Fail
<1>4. call' \in [Call -> CallSet]
  <2>0. call \in [Call -> CallSet]
    BY DEF SessionsTypeOK
  <2>1. CASE UNCHANGED call
    BY <2>0, <2>1
  <2>2. ASSUME NEW c \in Call, NEW x \in CallSet, call' = [call EXCEPT ![c] = x]
        PROVE  call' \in [Call -> CallSet]
    BY <2>0, <2>2
  <2>3. ASSUME NEW c \in Call, EndCall(c) PROVE call' \in [Call -> CallSet]
    <3>1. Idle \in CallSet
      BY DEF Idle
    <3> QED
      BY <2>2, <2>3, <3>1 DEF EndCall
  <2>4. ASSUME NEW c \in Call, NEW s \in {"successor", "revokeAll"}, Goto(c, s)
        PROVE  call' \in [Call -> CallSet]
    BY <2>0, <2>4 DEF Goto
  <2>5. ASSUME NEW c \in Call, NEW u \in User, Register(c, u) \/ LoginRead(c, u)
        PROVE  call' \in [Call -> CallSet]
    <3>1. [Idle EXCEPT !.at = "issue", !.user = u] \in CallSet
      BY DEF Idle
    <3> QED
      BY <2>2, <2>5, <3>1 DEF Register, LoginRead
  <2>6. ASSUME NEW c \in Call, NEW t \in Token, RefreshRead(c, t)
        PROVE  call' \in [Call -> CallSet]
    <3>1. [Idle EXCEPT !.at = "find", !.user = tokens[t].user, !.token = t] \in CallSet
      BY DEF Idle, SessionsTypeOK
    <3> QED
      BY <2>2, <2>6, <3>1 DEF RefreshRead
  <2>7. ASSUME NEW c \in Call, NEW t \in Token, RotateIssue(c, t)
        PROVE  call' \in [Call -> CallSet]
    BY <2>0, <2>7 DEF RotateIssue
  <2>8. ASSUME NEW c \in Call, NEW r \in Reset, ResetRead(c, r)
        PROVE  call' \in [Call -> CallSet]
    <3>1. [Idle EXCEPT !.at = "write", !.user = resets[r].user, !.reset = r] \in CallSet
      BY DEF Idle, SessionsTypeOK
    <3> QED
      BY <2>2, <2>8, <3>1 DEF ResetRead
  <2> QED
    BY <2>1, <2>3, <2>4, <2>5, <2>6, <2>7, <2>8
       DEF Next, vars, CreateStaffUser, UpdateUserStatus, LogoutAll, ForgotPassword,
           Logout, ExpireReset, Issue, RotateFind, RotateExpired, RotateRetire,
           RevokeAll, ResetWrite, Fail
<1>5. toEnd' \subseteq Token
  BY DEF SessionsTypeOK, Settle, LiveTokensOf, TokensOf,
         Next, vars, CreateStaffUser, UpdateUserStatus, LogoutAll, ForgotPassword,
         Logout, ExpireReset, Register, LoginRead, Issue, RefreshRead, RotateIssue,
         RotateFind, RotateExpired, RotateRetire, RevokeAll, ResetRead, ResetWrite, Fail
<1> QED
  BY <1>1, <1>2, <1>3, <1>4, <1>5 DEF SessionsTypeOK, TokenRow

\* Calls keep working for users.
LEMMA OnBehalfStep == IInv /\ [Next]_vars => OnBehalf'
<1> SUFFICES ASSUME IInv, [Next]_vars, NEW c \in Call, call'[c].at # "idle"
             PROVE  call'[c].user \in User
  BY DEF OnBehalf, At
<1> USE SessionsAssumption DEF IInv
<1>1. CASE call'[c].user = call[c].user /\ call[c].at # "idle"
  BY <1>1 DEF OnBehalf, At
<1>2. CASE call'[c] = Idle
  BY <1>2 DEF Idle
<1>3. CASE call'[c] = call[c]
  BY <1>1, <1>3
<1>4. ASSUME NEW d \in Call, EndCall(d) PROVE call'[c].user \in User
  BY <1>2, <1>3, <1>4 DEF EndCall, SessionsTypeOK
<1>5. ASSUME NEW d \in Call, NEW s \in {"successor", "revokeAll"}, ~At(d, "idle"),
             Goto(d, s)
      PROVE  call'[c].user \in User
  BY <1>1, <1>3, <1>5 DEF Goto, At, SessionsTypeOK
<1>6. ASSUME NEW d \in Call, NEW u \in User, Register(d, u) \/ LoginRead(d, u)
      PROVE  call'[c].user \in User
  <2>1. CASE c = d
    <3>1. call' = [call EXCEPT ![d] = [Idle EXCEPT !.at = "issue", !.user = u]]
      BY <1>6 DEF Register, LoginRead
    <3>2. call'[c] = [Idle EXCEPT !.at = "issue", !.user = u]
      BY <2>1, <3>1 DEF SessionsTypeOK
    <3> QED
      BY <3>2 DEF Idle
  <2>2. CASE c # d
    BY <1>3, <1>6, <2>2 DEF Register, LoginRead, SessionsTypeOK
  <2> QED
    BY <2>1, <2>2
<1>7. ASSUME NEW d \in Call, NEW t \in Token, RefreshRead(d, t)
      PROVE  call'[c].user \in User
  <2>1. CASE c = d
    <3>1. tokens[t].user \in User
      BY <1>7 DEF RefreshRead, Held, Exists, SessionsTypeOK
    <3> QED
      BY <1>7, <2>1, <3>1 DEF RefreshRead, SessionsTypeOK, Idle
  <2>2. CASE c # d
    BY <1>3, <1>7, <2>2 DEF RefreshRead, SessionsTypeOK
  <2> QED
    BY <2>1, <2>2
<1>8. ASSUME NEW d \in Call, NEW t \in Token, RotateIssue(d, t)
      PROVE  call'[c].user \in User
  BY <1>1, <1>3, <1>8 DEF RotateIssue, At, SessionsTypeOK
<1>9. ASSUME NEW d \in Call, NEW r \in Reset, ResetRead(d, r)
      PROVE  call'[c].user \in User
  <2>1. CASE c = d
    <3>1. resets[r].user \in User
      BY <1>9 DEF ResetRead, Asked, SessionsTypeOK
    <3> QED
      BY <1>9, <2>1, <3>1 DEF ResetRead, SessionsTypeOK, Idle
  <2>2. CASE c # d
    BY <1>3, <1>9, <2>2 DEF ResetRead, SessionsTypeOK
  <2> QED
    BY <2>1, <2>2
<1> QED
  BY <1>3, <1>4, <1>5, <1>6, <1>7, <1>8, <1>9
     DEF Next, vars, CreateStaffUser, UpdateUserStatus, LogoutAll, ForgotPassword,
         Logout, ExpireReset, Issue, RotateFind, RotateExpired, RotateRetire,
         RevokeAll, ResetWrite, Fail, At

\* A token never changes hands.
LEMMA KeepsUser ==
  ASSUME IInv, [Next]_vars, NEW t \in Token, Exists(t)
  PROVE  tokens'[t].user = tokens[t].user
<1> USE SessionsAssumption DEF IInv
<1>1. CASE UNCHANGED tokens
  BY <1>1
<1>2. ASSUME NEW S, tokens' = RevokedAll(S) PROVE tokens'[t].user = tokens[t].user
  BY <1>2, RevokedRows
<1>3. ASSUME NEW c \in Call, NEW x \in Token, Issue(c, x) \/ RotateIssue(c, x)
      PROVE  tokens'[t].user = tokens[t].user
  <2>1. x # t
    BY <1>3 DEF Issue, RotateIssue
  <2> QED
    BY <1>3, <2>1 DEF Issue, RotateIssue, SessionsTypeOK
<1>4. ASSUME NEW c \in Call, RotateRetire(c)
      PROVE  tokens'[t].user = tokens[t].user
  BY <1>4 DEF RotateRetire, SessionsTypeOK
<1> QED
  BY <1>1, <1>2, <1>3, <1>4
     DEF Next, vars, CreateStaffUser, UpdateUserStatus, LogoutAll, ForgotPassword,
         Logout, ExpireReset, Register, LoginRead, RefreshRead, RotateFind,
         RotateExpired, RevokeAll, ResetRead, ResetWrite, Fail

\* What a call in progress has to end is a token that exists, and it stays.
LEMMA EndsExistStep == IInv /\ [Next]_vars => EndsExist'
<1> SUFFICES ASSUME IInv, [Next]_vars, NEW t \in Token, t \in toEnd'
             PROVE  Exists(t)'
  BY TypeStep DEF EndsExist, SessionsTypeOK
<1> USE SessionsAssumption DEF IInv
<1>1. t \in toEnd \/ Exists(t)
  <2>1. ASSUME NEW u \in User, t \in LiveTokensOf(u) PROVE Exists(t)
    BY <2>1 DEF LiveTokensOf, TokensOf, Exists
  <2>2. ASSUME NEW c \in Call, At(c, "find") \/ At(c, "write"),
               t \in LiveTokensOf(call[c].user)
        PROVE  Exists(t)
    BY <2>1, <2>2 DEF OnBehalf, At
  <2> QED
    BY <2>2 DEF Next, vars, CreateStaffUser, UpdateUserStatus, LogoutAll,
           ForgotPassword, Logout, ExpireReset, Register, LoginRead, Issue, RefreshRead,
           RotateIssue, RotateFind, RotateExpired, RotateRetire, RevokeAll, ResetRead,
           ResetWrite, Fail, Settle
<1>2. Exists(t)
  BY <1>1 DEF EndsExist
<1>3. tokens'[t].user = tokens[t].user
  BY <1>2, KeepsUser
<1> QED
  BY <1>2, <1>3 DEF Exists

\* A revocation pending for the user of a token to be ended is carried out, or
\* lets go of the token.
LEMMA SessionsEndStep == IInv /\ [Next]_vars => SessionsEnd'
<1> SUFFICES ASSUME IInv, [Next]_vars, NEW t \in Token, t \in toEnd'
             PROVE  \E c \in Call :
                      call'[c].at = "revokeAll" /\ call'[c].user = tokens'[t].user
  BY TypeStep DEF SessionsEnd, Revoking, At, SessionsTypeOK
<1> USE SessionsAssumption DEF IInv
<1>1. Exists(t)'
  BY EndsExistStep DEF EndsExist
<1>2. CASE t \in toEnd
  <2>1. tokens'[t].user = tokens[t].user
    BY <1>2, KeepsUser DEF EndsExist
  <2>2. PICK c \in Call : At(c, "revokeAll") /\ call[c].user = tokens[t].user
    BY <1>2 DEF SessionsEnd, Revoking
  <2>3. CASE call'[c] = call[c]
    BY <2>1, <2>2, <2>3 DEF At
  <2>4. ASSUME RevokeAll(c) PROVE FALSE
    <3>1. t \in RevokeAllOf(c)
      BY <2>2 DEF RevokeAllOf, TokensOf
    <3>2. tokens'[t].revoked
      BY <2>4, <3>1, RevokedRows DEF RevokeAll
    <3> QED
      BY <2>4, <3>2 DEF RevokeAll, Settle
  <2>5. ASSUME Fail(c) PROVE FALSE
    BY <2>2, <2>5 DEF Fail, TokensOf
  <2>6. ASSUME NEW d \in Call, d # c,
               \/ EndCall(d) \/ Goto(d, "successor") \/ Goto(d, "revokeAll")
               \/ \E u \in User : Register(d, u) \/ LoginRead(d, u)
               \/ \E x \in Token : RefreshRead(d, x) \/ RotateIssue(d, x)
               \/ \E r \in Reset : ResetRead(d, r)
        PROVE  call'[c] = call[c]
    BY <2>6 DEF EndCall, Goto, Register, LoginRead, RefreshRead, RotateIssue,
                ResetRead, SessionsTypeOK
  <2>7. ASSUME \/ \E u \in User : Register(c, u) \/ LoginRead(c, u)
               \/ \E x \in Token : Issue(c, x) \/ RefreshRead(c, x) \/ RotateIssue(c, x)
               \/ RotateFind(c) \/ RotateExpired(c) \/ RotateRetire(c)
               \/ \E r \in Reset : ResetRead(c, r)
               \/ ResetWrite(c)
        PROVE  FALSE
    BY <2>2, <2>7 DEF Register, LoginRead, Issue, RefreshRead, RotateIssue, RotateFind,
                      RotateExpired, RotateRetire, ResetRead, ResetWrite, At
  <2>8. CASE UNCHANGED call
    BY <2>3, <2>8
  <2>9. ASSUME NEW d \in Call,
               \/ \E u \in User : Register(d, u) \/ LoginRead(d, u)
               \/ \E x \in Token : Issue(d, x) \/ RefreshRead(d, x) \/ RotateIssue(d, x)
               \/ RotateFind(d) \/ RotateExpired(d) \/ RotateRetire(d) \/ RevokeAll(d)
               \/ \E r \in Reset : ResetRead(d, r)
               \/ ResetWrite(d)
               \/ Fail(d)
        PROVE  call'[c] = call[c]
    <3>1. CASE d = c
      BY <2>4, <2>5, <2>7, <2>9, <3>1
    <3>2. CASE d # c
      BY <2>6, <2>9, <3>2 DEF Issue, RotateFind, RotateExpired, RotateRetire, RevokeAll,
                              ResetWrite, Fail
    <3> QED
      BY <3>1, <3>2
  <2> QED
    BY <2>3, <2>8, <2>9
       DEF Next, vars, CreateStaffUser, UpdateUserStatus, LogoutAll, ForgotPassword,
           Logout, ExpireReset
<1>3. CASE t \notin toEnd
  <2>1. PICK c \in Call : /\ (RotateFind(c) /\ Goto(c, "revokeAll")) \/ ResetWrite(c)
                          /\ t \in LiveTokensOf(call[c].user)
    BY <1>3 DEF Next, vars, CreateStaffUser, UpdateUserStatus, LogoutAll,
           ForgotPassword, Logout, ExpireReset, Register, LoginRead, Issue, RefreshRead,
           RotateIssue, RotateFind, RotateExpired, RotateRetire, RevokeAll, ResetRead,
           ResetWrite, Fail, Settle
  <2>2. Goto(c, "revokeAll") /\ tokens' = tokens
    BY <2>1 DEF ResetWrite, RotateFind
  <2>3. call'[c].at = "revokeAll" /\ call'[c].user = call[c].user
    BY <2>2 DEF Goto, SessionsTypeOK
  <2>4. tokens[t].user = call[c].user
    BY <2>1 DEF LiveTokensOf, TokensOf
  <2> QED
    BY <2>2, <2>3, <2>4
<1> QED
  BY <1>2, <1>3

\* Whatever calls overlap or die, a token that was alive when its user's sessions
\* were to end (a password reset, a refresh token used twice) is revoked or about
\* to be (auth.service.ts:216, tokens.service.ts:114-117).
THEOREM EveryEndingEnds == Spec => []SessionsEnd
<1>1. SessionsInit => IInv
  BY TypeInit DEF SessionsInit, IInv, OnBehalf, EndsExist, SessionsEnd, At, Idle
<1>2. IInv /\ [Next]_vars => IInv'
  BY TypeStep, OnBehalfStep, EndsExistStep, SessionsEndStep DEF IInv
<1>3. IInv => SessionsEnd
  BY DEF IInv
<1> QED
  BY <1>1, <1>2, <1>3, PTL DEF Spec

----------------------------------------------------------------------------
\* The resets that have found reset token r unused and are to use it.
Writers(r) == {c \in Call : At(c, "write") /\ call[c].reset = r}

\* A reset token that is unused has no use yet, and each use was one of the calls that
\* found it unused: the uses made and those under way are calls that overlapped.
ResetInv ==
  /\ \A c \in Call : At(c, "write") => call[c].reset \in Reset
  /\ \A r \in Reset : ~resets[r].used => resets[r].uses = 0
  /\ \A r \in Reset : resets[r].uses + Cardinality(Writers(r)) <= Cardinality(Call)

\* What a step is to the reset tokens.
LEMMA ResetSteps ==
  ASSUME IInv, [Next]_vars
  PROVE  \/ UNCHANGED <<resets, call>>
         \/ /\ UNCHANGED resets
            /\ \E c \in Call : /\ call'[c].at # "write"
                               /\ \A d \in Call \ {c} : call'[d] = call[d]
         \/ \E u \in User, r \in Reset : ForgotPassword(u, r)
         \/ \E r \in Reset : ExpireReset(r)
         \/ \E c \in Call : ResetWrite(c) \/ \E r \in Reset : ResetRead(c, r)
<1> USE DEF IInv
<1> DEFINE Away(c) == /\ UNCHANGED resets
                      /\ call'[c].at # "write"
                      /\ \A d \in Call \ {c} : call'[d] = call[d]
<1>1. ASSUME NEW c \in Call, UNCHANGED resets,
             \/ EndCall(c) \/ Goto(c, "successor") \/ Goto(c, "revokeAll")
             \/ \E u \in User : Register(c, u) \/ LoginRead(c, u)
             \/ \E x \in Token : RefreshRead(c, x) \/ RotateIssue(c, x)
      PROVE  Away(c)
  <2>1. call \in [Call -> [at : {"idle", "issue", "find", "successor", "retire",
                                "write", "revokeAll"},
                          user : User \cup {None}, token : Token \cup {None},
                          next : Token \cup {None}, reset : Reset \cup {0}]]
    BY DEF SessionsTypeOK
  <2>2. \A d \in Call \ {c} : call'[d] = call[d]
    BY <1>1, <2>1 DEF EndCall, Goto, Register, LoginRead, RefreshRead, RotateIssue
  <2>3. CASE EndCall(c) \/ Goto(c, "successor") \/ Goto(c, "revokeAll")
    BY <1>1, <2>1, <2>2, <2>3 DEF EndCall, Goto, Idle
  <2>4. ASSUME NEW u \in User, Register(c, u) \/ LoginRead(c, u) PROVE Away(c)
    BY <1>1, <2>1, <2>2, <2>4 DEF Register, LoginRead, Idle
  <2>5. ASSUME NEW x \in Token, RefreshRead(c, x) PROVE Away(c)
    BY <1>1, <2>1, <2>2, <2>5 DEF RefreshRead, Idle
  <2>6. ASSUME NEW x \in Token, RotateIssue(c, x) PROVE Away(c)
    BY <1>1, <2>1, <2>2, <2>6 DEF RotateIssue
  <2> QED
    BY <1>1, <2>3, <2>4, <2>5, <2>6
<1>2. ASSUME NEW c \in Call,
             \/ \E u \in User : Register(c, u) \/ LoginRead(c, u)
             \/ \E x \in Token : Issue(c, x) \/ RefreshRead(c, x) \/ RotateIssue(c, x)
             \/ RotateFind(c) \/ RotateExpired(c) \/ RotateRetire(c) \/ RevokeAll(c)
             \/ Fail(c)
      PROVE  Away(c)
  <2>1. UNCHANGED resets
    BY <1>2 DEF Register, LoginRead, Issue, RefreshRead, RotateIssue, RotateFind,
                RotateExpired, RotateRetire, RevokeAll, Fail
  <2> QED
    BY <1>1, <1>2, <2>1 DEF Issue, RotateFind, RotateExpired, RotateRetire, RevokeAll, Fail
<1> HIDE DEF Away
<1>3. ASSUME NEW c \in Call, Away(c)
      PROVE  /\ UNCHANGED resets
             /\ \E d \in Call : /\ call'[d].at # "write"
                                /\ \A e \in Call \ {d} : call'[e] = call[e]
  BY <1>3 DEF Away
<1> QED
  BY <1>2, <1>3
     DEF Next, vars, CreateStaffUser, UpdateUserStatus, LogoutAll, Logout

\* Those who are to use a reset token are some of the calls.
LEMMA WritersFinite ==
  ASSUME NEW r
  PROVE  IsFiniteSet(Writers(r)) /\ Cardinality(Writers(r)) \in Nat
<1>1. Writers(r) \in SUBSET Call
  BY DEF Writers
<1> QED
  BY <1>1, SessionsAssumption, FS_Subset, FS_CardinalityType

LEMMA ResetInvStep == IInv /\ ResetInv /\ [Next]_vars => ResetInv'
<1> SUFFICES ASSUME IInv, ResetInv, [Next]_vars PROVE ResetInv'
  OBVIOUS
<1>T. SessionsTypeOK /\ SessionsTypeOK'
  BY TypeStep DEF IInv
<1>N. Cardinality(Call) \in Nat
  BY SessionsAssumption, FS_CardinalityType
<1>1. CASE UNCHANGED <<resets, call>>
  BY <1>1 DEF ResetInv, Writers, At
<1>2. ASSUME NEW c \in Call, UNCHANGED resets, call'[c].at # "write",
             \A d \in Call \ {c} : call'[d] = call[d]
      PROVE  ResetInv'
  <2>1. \A d \in Call : At(d, "write")' => At(d, "write") /\ call'[d] = call[d]
    BY <1>2 DEF At
  <2>2. ASSUME NEW r \in Reset
        PROVE  resets'[r].uses + Cardinality(Writers(r)') <= Cardinality(Call)
    <3>1. Writers(r)' \in SUBSET Writers(r)
      BY <2>1 DEF Writers
    <3>2. /\ Cardinality(Writers(r)') \in Nat
          /\ Cardinality(Writers(r)') <= Cardinality(Writers(r))
      BY <3>1, WritersFinite, FS_Subset, FS_CardinalityType
    <3>3. resets[r].uses \in Nat
      BY <1>T DEF SessionsTypeOK
    <3> QED
      BY <1>2, <1>N, <3>2, <3>3, WritersFinite DEF ResetInv
  <2> QED
    BY <1>2, <2>1, <2>2 DEF ResetInv
<1>3. ASSUME NEW u \in User, NEW r \in Reset, ForgotPassword(u, r) PROVE ResetInv'
  <2>1. /\ resets' = [resets EXCEPT ![r] = [NoReset EXCEPT !.user = u]]
        /\ call' = call
    BY <1>3 DEF ForgotPassword
  <2>2. resets'[r].uses = 0 /\ \A q \in Reset \ {r} : resets'[q] = resets[q]
    BY <1>T, <2>1 DEF NoReset, SessionsTypeOK
  <2>3. ASSUME NEW q \in Reset
        PROVE  Cardinality(Writers(q)') \in Nat /\ Cardinality(Writers(q)') <= Cardinality(Call)
    <3>1. Writers(q)' \in SUBSET Call
      BY DEF Writers
    <3> QED
      BY <3>1, SessionsAssumption, FS_Subset, FS_CardinalityType
  <2>4. \A q \in Reset : Writers(q)' = Writers(q)
    BY <2>1 DEF Writers, At
  <2> QED
    BY <2>1, <2>2, <2>3, <2>4 DEF ResetInv, At
<1>4. ASSUME NEW r \in Reset, ExpireReset(r) PROVE ResetInv'
  <2>1. \A q \in Reset : resets'[q].used = resets[q].used /\ resets'[q].uses = resets[q].uses
    BY <1>4, <1>T DEF ExpireReset, SessionsTypeOK
  <2>2. call' = call
    BY <1>4 DEF ExpireReset
  <2> QED
    BY <2>1, <2>2 DEF ResetInv, Writers, At
<1>5. ASSUME NEW c \in Call, NEW r \in Reset, ResetRead(c, r) PROVE ResetInv'
  <2>1. /\ ~resets[r].used /\ resets' = resets /\ At(c, "idle")
        /\ call' = [call EXCEPT ![c] =
             [Idle EXCEPT !.at = "write", !.user = resets[r].user, !.reset = r]]
    BY <1>5 DEF ResetRead, Unused
  <2>2. call'[c].reset = r /\ \A d \in Call \ {c} : call'[d] = call[d]
    BY <1>T, <2>1 DEF SessionsTypeOK, Idle
  <2>3. ASSUME NEW q \in Reset
        PROVE  resets'[q].uses + Cardinality(Writers(q)') <= Cardinality(Call)
    <3>1. CASE q = r
      <4>1. Writers(q)' \in SUBSET Call
        BY DEF Writers
      <4>2. Cardinality(Writers(q)') \in Nat /\ Cardinality(Writers(q)') <= Cardinality(Call)
        BY <4>1, SessionsAssumption, FS_Subset, FS_CardinalityType
      <4>3. resets'[q].uses = 0
        BY <2>1, <3>1 DEF ResetInv
      <4> QED
        BY <4>2, <4>3
    <3>2. CASE q # r
      <4>1. Writers(q)' = Writers(q)
        BY <2>1, <2>2, <3>2 DEF Writers, At
      <4> QED
        BY <2>1, <4>1 DEF ResetInv
    <3> QED
      BY <3>1, <3>2
  <2> QED
    BY <2>1, <2>2, <2>3 DEF ResetInv, At
<1>6. ASSUME NEW c \in Call, ResetWrite(c) PROVE ResetInv'
  <2>0. PICK r \in Reset : r = call[c].reset
    BY <1>6 DEF ResetWrite, ResetInv
  <2>1. /\ At(c, "write")
        /\ resets'[r].used
        /\ resets'[r].uses = resets[r].uses + 1
        /\ \A q \in Reset \ {r} : resets'[q] = resets[q]
    BY <1>6, <1>T, <2>0 DEF ResetWrite, SessionsTypeOK
  <2>2. call'[c].at = "revokeAll" /\ \A d \in Call \ {c} : call'[d] = call[d]
    BY <1>6, <1>T DEF ResetWrite, Goto, SessionsTypeOK
  <2>3. ASSUME NEW q \in Reset
        PROVE  resets'[q].uses + Cardinality(Writers(q)') <= Cardinality(Call)
    <3>1. CASE q = r
      <4>1. Writers(q)' = Writers(q) \ {c} /\ c \in Writers(q)
        BY <2>0, <2>1, <2>2, <3>1 DEF Writers, At
      <4>2. Cardinality(Writers(q) \ {c}) = Cardinality(Writers(q)) - 1
        BY <4>1, WritersFinite, FS_RemoveElement
      <4>3. resets[q].uses \in Nat /\ Cardinality(Writers(q)) \in Nat
        BY <1>T, WritersFinite DEF SessionsTypeOK
      <4>4. resets[q].uses + Cardinality(Writers(q)) <= Cardinality(Call)
        BY DEF ResetInv
      <4> QED
        BY <1>N, <2>1, <3>1, <4>1, <4>2, <4>3, <4>4
    <3>2. CASE q # r
      <4>1. Writers(q)' = Writers(q)
        BY <2>0, <2>2, <3>2 DEF Writers, At
      <4> QED
        BY <2>1, <3>2, <4>1 DEF ResetInv
    <3> QED
      BY <3>1, <3>2
  <2> QED
    BY <2>1, <2>2, <2>3 DEF ResetInv, At
<1> QED
  BY <1>1, <1>2, <1>3, <1>4, <1>5, <1>6, ResetSteps

\* A password reset token is used no more often than calls overlap, over any number of
\* later resets: the row is read unused before the hash and marked after it
\* (auth.service.ts resetPassword).
THEOREM ResetTokensStayBounded == Spec => []ResetUsesBounded
<1> DEFINE Inv == IInv /\ ResetInv
<1>1. SessionsInit => Inv
  <2> SUFFICES ASSUME SessionsInit PROVE Inv
    OBVIOUS
  <2>1. IInv
    BY TypeInit DEF SessionsInit, IInv, OnBehalf, EndsExist, SessionsEnd, At, Idle
  <2>2. \A r \in Reset : resets[r].uses = 0 /\ Writers(r) = {}
    BY DEF SessionsInit, Writers, At, Idle, NoReset
  <2>3. Cardinality({}) = 0 /\ Cardinality(Call) \in Nat
    BY SessionsAssumption, FS_EmptySet, FS_CardinalityType
  <2>4. \A c \in Call : ~At(c, "write")
    BY DEF SessionsInit, At, Idle
  <2>5. \A r \in Reset : resets[r].uses + Cardinality(Writers(r)) <= Cardinality(Call)
    BY <2>2, <2>3
  <2>6. ResetInv
    BY <2>2, <2>4, <2>5 DEF ResetInv
  <2> QED
    BY <2>1, <2>6
<1>2. Inv /\ [Next]_vars => Inv'
  <2> SUFFICES ASSUME Inv, [Next]_vars PROVE Inv'
    OBVIOUS
  <2> QED
    BY TypeStep, OnBehalfStep, EndsExistStep, SessionsEndStep, ResetInvStep DEF IInv
<1>3. Inv => ResetUsesBounded
  <2> SUFFICES ASSUME Inv, NEW r \in Reset PROVE resets[r].uses <= Cardinality(Call)
    BY DEF ResetUsesBounded
  <2>1. resets[r].uses \in Nat /\ Cardinality(Writers(r)) \in Nat /\ Cardinality(Call) \in Nat
    BY SessionsAssumption, WritersFinite, FS_CardinalityType DEF IInv, SessionsTypeOK
  <2> QED
    BY <2>1 DEF ResetInv
<1> QED
  BY <1>1, <1>2, <1>3, PTL DEF Spec

----------------------------------------------------------------------------
\* The rotations of token t that have found it unrevoked.
Rotating(t) == {c \in Call : call[c].at \in {"successor", "retire"} /\ call[c].token = t}

\* What a rotation in progress refers to.
RotationsKnow ==
  \A c \in Call :
    /\ call[c].at \in {"find", "successor", "retire"} =>
         call[c].token \in Token /\ Exists(call[c].token)
    /\ At(c, "retire") => /\ call[c].next \in Token
                          /\ Exists(call[c].next)
                          /\ tokens[call[c].next].from = call[c].token

\* Only a token that is revoked has successors that have been handed out.
NoneBefore ==
  \A t \in Token :
    /\ ~Exists(t) => ~tokens[t].delivered
    /\ ~Exists(t) \/ ~tokens[t].revoked => Successors(t) = {}

\* The successors handed out and those under way are of calls that overlapped.
RotationsCounted ==
  \A t \in Token :
    /\ IsFiniteSet(Successors(t))
    /\ Cardinality(Successors(t)) + Cardinality(Rotating(t)) <= Cardinality(Call)

RotInv == RotationsKnow /\ NoneBefore /\ RotationsCounted

\* A revocation changes nothing else.
LEMMA RevokedKeeps ==
  ASSUME SessionsTypeOK, NEW S, NEW x \in Token
  PROVE  /\ RevokedAll(S)[x].from = tokens[x].from
         /\ RevokedAll(S)[x].delivered = tokens[x].delivered
         /\ tokens[x].revoked => RevokedAll(S)[x].revoked
<1>1. tokens[x] \in TokenRow
  BY DEF SessionsTypeOK, TokenRow
<1>2. CASE x \in S
  BY <1>1, <1>2 DEF RevokedAll, TokenRow
<1>3. CASE x \notin S
  BY <1>3 DEF RevokedAll
<1> QED
  BY <1>2, <1>3

\* What a rotation's last step does to a row.
LEMMA RetireRow ==
  ASSUME SessionsTypeOK, NEW c \in Call, RotateRetire(c), NEW x \in Token
  PROVE  /\ tokens'[x].user = tokens[x].user
         /\ tokens'[x].from = tokens[x].from
         /\ tokens'[x].revoked = (tokens[x].revoked \/ x = call[c].token)
         /\ tokens'[x].delivered = (tokens[x].delivered \/ x = call[c].next)
<1>1. tokens \in [Token -> TokenRow]
  BY DEF SessionsTypeOK, TokenRow
<1>2. PICK f : f = [tokens EXCEPT ![call[c].token].revoked = TRUE]
  OBVIOUS
<1>3. PICK g : g = [f EXCEPT ![call[c].token].replacedBy = call[c].next]
  OBVIOUS
<1>4. tokens' = [g EXCEPT ![call[c].next].delivered = TRUE]
  BY <1>2, <1>3 DEF RotateRetire
<1>5. /\ DOMAIN f = Token /\ f[x].user = tokens[x].user /\ f[x].from = tokens[x].from
      /\ f[x].revoked = (tokens[x].revoked \/ x = call[c].token)
      /\ f[x].delivered = tokens[x].delivered
      /\ DOMAIN f[x] = {"user", "from", "replacedBy", "revoked", "delivered"}
  BY <1>1, <1>2 DEF TokenRow
<1>6. /\ DOMAIN g = Token /\ g[x].user = f[x].user /\ g[x].from = f[x].from
      /\ g[x].revoked = f[x].revoked /\ g[x].delivered = f[x].delivered
      /\ DOMAIN g[x] = {"user", "from", "replacedBy", "revoked", "delivered"}
  BY <1>3, <1>5
<1>7. /\ tokens'[x].user = g[x].user /\ tokens'[x].from = g[x].from
      /\ tokens'[x].revoked = g[x].revoked
      /\ tokens'[x].delivered = (g[x].delivered \/ x = call[c].next)
  <2>1. tokens[x].delivered \in BOOLEAN
    BY <1>1 DEF TokenRow
  <2>2. CASE x = call[c].next
    BY <1>4, <1>6, <2>2
  <2>3. CASE x # call[c].next
    BY <1>4, <1>5, <1>6, <2>1, <2>3
  <2> QED
    BY <2>2, <2>3
<1> QED
  BY <1>5, <1>6, <1>7

\* A token that exists stays, as the successor of the same one, and stays revoked.
LEMMA RowsKept ==
  ASSUME IInv, [Next]_vars, NEW x \in Token
  PROVE  /\ Exists(x) => Exists(x)' /\ tokens'[x].from = tokens[x].from
         /\ ~tokens'[x].revoked => ~Exists(x) \/ ~tokens[x].revoked
<1> USE SessionsAssumption DEF IInv
<1>1. CASE UNCHANGED tokens
  BY <1>1 DEF Exists
<1>2. ASSUME NEW S, tokens' = RevokedAll(S)
      PROVE  /\ Exists(x) => Exists(x)' /\ tokens'[x].from = tokens[x].from
             /\ ~tokens'[x].revoked => ~Exists(x) \/ ~tokens[x].revoked
  BY <1>2, RevokedRows, RevokedKeeps DEF Exists
<1>3. ASSUME NEW c \in Call, NEW y \in Token, Issue(c, y) \/ RotateIssue(c, y)
      PROVE  /\ Exists(x) => Exists(x)' /\ tokens'[x].from = tokens[x].from
             /\ ~tokens'[x].revoked => ~Exists(x) \/ ~tokens[x].revoked
  <2>1. CASE x = y
    BY <1>3, <2>1 DEF Issue, RotateIssue
  <2>2. CASE x # y
    <3>1. tokens'[x] = tokens[x]
      BY <1>3, <2>2 DEF Issue, RotateIssue, SessionsTypeOK
    <3> QED
      BY <3>1 DEF Exists
  <2> QED
    BY <2>1, <2>2
<1>4. ASSUME NEW c \in Call, RotateRetire(c)
      PROVE  /\ Exists(x) => Exists(x)' /\ tokens'[x].from = tokens[x].from
             /\ ~tokens'[x].revoked => ~Exists(x) \/ ~tokens[x].revoked
  BY <1>4, RetireRow DEF Exists
<1> QED
  BY <1>1, <1>2, <1>3, <1>4
     DEF Next, vars, CreateStaffUser, UpdateUserStatus, LogoutAll, ForgotPassword,
         Logout, ExpireReset, Register, LoginRead, RefreshRead, RotateFind,
         RotateExpired, RevokeAll, ResetRead, ResetWrite, Fail

\* Only the last step of a rotation hands out a successor of any token.
LEMMA SuccessorsKept ==
  ASSUME IInv, NoneBefore, [Next]_vars, \A c \in Call : ~RotateRetire(c)
  PROVE  /\ \A t \in Token : Successors(t)' = Successors(t)
         /\ \A x \in Token : ~Exists(x)' => ~tokens'[x].delivered
<1> USE SessionsAssumption DEF IInv
<1>1. CASE UNCHANGED tokens
  BY <1>1 DEF NoneBefore, Successors, Exists
<1>2. ASSUME NEW S, tokens' = RevokedAll(S)
      PROVE  /\ \A t \in Token : Successors(t)' = Successors(t)
             /\ \A x \in Token : ~Exists(x)' => ~tokens'[x].delivered
  <2>1. \A x \in Token : /\ tokens'[x].from = tokens[x].from
                         /\ tokens'[x].delivered = tokens[x].delivered
                         /\ tokens'[x].user = tokens[x].user
    BY <1>2, RevokedRows, RevokedKeeps
  <2> QED
    BY <2>1 DEF NoneBefore, Successors, Exists
<1>3. ASSUME NEW c \in Call, NEW y \in Token, Issue(c, y) \/ RotateIssue(c, y)
      PROVE  /\ \A t \in Token : Successors(t)' = Successors(t)
             /\ \A x \in Token : ~Exists(x)' => ~tokens'[x].delivered
  <2>1. \A x \in Token : x # y => tokens'[x] = tokens[x]
    BY <1>3 DEF Issue, RotateIssue, SessionsTypeOK
  <2>2. ~Exists(y) /\ ~tokens[y].delivered
    BY <1>3 DEF Issue, RotateIssue, NoneBefore
  <2>3. \/ tokens'[y] = [NoToken EXCEPT !.user = call[c].user, !.delivered = TRUE]
        \/ tokens'[y] = [NoToken EXCEPT !.user = call[c].user, !.from = call[c].token]
    BY <1>3 DEF Issue, RotateIssue, SessionsTypeOK
  <2>4. call[c].user # None
    BY <1>3 DEF Issue, RotateIssue, OnBehalf, At
  <2>5. /\ tokens'[y].user # None
        /\ tokens'[y].from = None \/ ~tokens'[y].delivered
    BY <2>3, <2>4 DEF NoToken
  <2>6. \A t \in Token : y \notin Successors(t) /\ y \notin Successors(t)'
    BY <2>2, <2>5 DEF Successors
  <2>7. \A t, x \in Token : x # y => (x \in Successors(t)' <=> x \in Successors(t))
    BY <2>1 DEF Successors
  <2>8. \A t \in Token : Successors(t)' = Successors(t)
    BY <2>6, <2>7 DEF Successors
  <2>9. \A x \in Token : ~Exists(x)' => ~tokens'[x].delivered
    BY <2>1, <2>5 DEF NoneBefore, Exists
  <2> QED
    BY <2>8, <2>9
<1> QED
  BY <1>1, <1>2, <1>3
     DEF Next, vars, CreateStaffUser, UpdateUserStatus, LogoutAll, ForgotPassword,
         Logout, ExpireReset, Register, LoginRead, RefreshRead, RotateFind,
         RotateExpired, RevokeAll, ResetRead, ResetWrite, Fail

\* What a step is to the calls that rotate a token.
LEMMA RotationSteps ==
  ASSUME SessionsTypeOK, [Next]_vars
  PROVE  \/ UNCHANGED call
         \/ \E c \in Call : /\ call'[c].at \notin {"find", "successor", "retire"}
                            /\ \A d \in Call \ {c} : call'[d] = call[d]
         \/ \E c \in Call : \/ RotateFind(c) /\ Goto(c, "successor")
                            \/ \E t \in Token : RefreshRead(c, t) \/ RotateIssue(c, t)
<1> DEFINE Away(c) == /\ call'[c].at \notin {"find", "successor", "retire"}
                      /\ \A d \in Call \ {c} : call'[d] = call[d]
<1>1. call \in [Call -> [at : {"idle", "issue", "find", "successor", "retire",
                              "write", "revokeAll"},
                        user : User \cup {None}, token : Token \cup {None},
                        next : Token \cup {None}, reset : Reset \cup {0}]]
  BY DEF SessionsTypeOK
<1>2. ASSUME NEW c \in Call, EndCall(c) \/ Goto(c, "revokeAll") PROVE Away(c)
  BY <1>1, <1>2 DEF EndCall, Goto, Idle
<1>3. ASSUME NEW c \in Call, NEW u \in User, Register(c, u) \/ LoginRead(c, u)
      PROVE  Away(c)
  BY <1>1, <1>3 DEF Register, LoginRead, Idle
<1>4. ASSUME NEW c \in Call, NEW r \in Reset, ResetRead(c, r) PROVE Away(c)
  BY <1>1, <1>4 DEF ResetRead, Idle
<1> HIDE DEF Away
<1>5. ASSUME NEW c \in Call, Away(c)
      PROVE  \E d \in Call : /\ call'[d].at \notin {"find", "successor", "retire"}
                             /\ \A e \in Call \ {d} : call'[e] = call[e]
  BY <1>5 DEF Away
<1> QED
  BY <1>2, <1>3, <1>4, <1>5
     DEF Next, vars, CreateStaffUser, UpdateUserStatus, LogoutAll, ForgotPassword,
         Logout, ExpireReset, Issue, RotateFind, RotateExpired, RotateRetire, RevokeAll,
         ResetWrite, Fail

\* A rotation goes on with the token it began with, and retires the one it has made.
LEMMA RotationsKnowStep == IInv /\ RotationsKnow /\ [Next]_vars => RotationsKnow'
<1> SUFFICES ASSUME IInv, RotationsKnow, [Next]_vars PROVE RotationsKnow'
  OBVIOUS
<1> DEFINE Knows(k) ==
      /\ k.at \in {"find", "successor", "retire"} => k.token \in Token /\ Exists(k.token)
      /\ k.at = "retire" => /\ k.next \in Token /\ Exists(k.next)
                            /\ tokens[k.next].from = k.token
<1>T. SessionsTypeOK /\ SessionsTypeOK'
  BY TypeStep DEF IInv
<1>1. ASSUME NEW d \in Call, call'[d] = call[d] PROVE Knows(call[d])'
  BY <1>1, RowsKept DEF RotationsKnow, At
<1>2. SUFFICES ASSUME NEW d \in Call PROVE Knows(call[d])'
  BY <1>2 DEF RotationsKnow, At
<1>3. CASE call'[d].at \notin {"find", "successor", "retire"}
  BY <1>3
<1>4. ASSUME NEW c \in Call, RotateFind(c), Goto(c, "successor") PROVE Knows(call[d])'
  <2>1. CASE d = c
    <3>1. /\ call'[d].at = "successor" /\ call'[d].token = call[c].token
          /\ tokens' = tokens /\ call[c].at = "find"
      BY <1>T, <1>4, <2>1 DEF Goto, RotateFind, At, SessionsTypeOK
    <3> QED
      BY <3>1 DEF RotationsKnow, Exists
  <2>2. CASE d # c
    BY <1>T, <1>1, <1>4, <2>2 DEF Goto, SessionsTypeOK
  <2> QED
    BY <2>1, <2>2
<1>5. ASSUME NEW c \in Call, NEW t \in Token, RefreshRead(c, t) PROVE Knows(call[d])'
  <2>1. CASE d = c
    <3>1. call'[d].at = "find" /\ call'[d].token = t /\ tokens' = tokens /\ Exists(t)
      BY <1>T, <1>5, <2>1 DEF RefreshRead, Held, Idle, SessionsTypeOK
    <3> QED
      BY <3>1 DEF Exists
  <2>2. CASE d # c
    BY <1>T, <1>1, <1>5, <2>2 DEF RefreshRead, SessionsTypeOK
  <2> QED
    BY <2>1, <2>2
<1>6. ASSUME NEW c \in Call, NEW t \in Token, RotateIssue(c, t) PROVE Knows(call[d])'
  <2>1. CASE d = c
    <3>1. /\ call'[d].at = "retire" /\ call'[d].token = call[c].token
          /\ call'[d].next = t /\ call[c].at = "successor"
      BY <1>T, <1>6, <2>1 DEF RotateIssue, At, SessionsTypeOK
    <3>2. call[c].token \in Token /\ Exists(call[c].token)
      BY <3>1 DEF RotationsKnow
    <3>3. tokens'[t] = [NoToken EXCEPT !.user = call[c].user, !.from = call[c].token]
      BY <1>T, <1>6 DEF RotateIssue, SessionsTypeOK
    <3>4. call[c].user # None
      BY <3>1, SessionsAssumption DEF IInv, OnBehalf, At
    <3>5. tokens'[t].user # None /\ tokens'[t].from = call[c].token
      BY <3>3, <3>4 DEF NoToken
    <3> QED
      BY <3>1, <3>2, <3>5, RowsKept DEF Exists
  <2>2. CASE d # c
    BY <1>T, <1>1, <1>6, <2>2 DEF RotateIssue, SessionsTypeOK
  <2> QED
    BY <2>1, <2>2
<1> HIDE DEF Knows
<1> QED
  BY <1>T, <1>1, <1>3, <1>4, <1>5, <1>6, RotationSteps

\* The last step of a rotation hands out its successor, of the token it revokes.
LEMMA RetireSuccessors ==
  ASSUME SessionsTypeOK, RotationsKnow, NEW c \in Call, RotateRetire(c), NEW t \in Token
  PROVE  Successors(t)' = IF t = call[c].token THEN Successors(t) \cup {call[c].next}
                          ELSE Successors(t)
<1>1. /\ call[c].token \in Token /\ call[c].next \in Token
      /\ tokens[call[c].next].from = call[c].token
  BY DEF RotationsKnow, RotateRetire, At
<1>2. \A x \in Token :
        /\ tokens'[x].from = tokens[x].from
        /\ tokens'[x].delivered = (tokens[x].delivered \/ x = call[c].next)
  BY RetireRow
<1>3. ASSUME NEW x \in Token
      PROVE  x \in Successors(t)' <=>
               x \in Successors(t) \/ (t = call[c].token /\ x = call[c].next)
  <2>1. CASE x = call[c].next
    <3>1. tokens'[x].delivered /\ tokens'[x].from = call[c].token
      BY <1>1, <1>2, <2>1
    <3>2. x \in Successors(t)' <=> t = call[c].token
      BY <3>1 DEF Successors
    <3>3. x \in Successors(t) => t = call[c].token
      BY <1>1, <2>1 DEF Successors
    <3> QED
      BY <2>1, <3>2, <3>3
  <2>2. CASE x # call[c].next
    <3>1. tokens'[x].from = tokens[x].from
      BY <1>2
    <3>2. tokens'[x].delivered <=> tokens[x].delivered
      BY <1>2, <2>2
    <3>3. x \in Successors(t)' <=> x \in Successors(t)
      BY <3>1, <3>2 DEF Successors
    <3> QED
      BY <2>2, <3>3
  <2> QED
    BY <2>1, <2>2
<1> QED
  BY <1>1, <1>3 DEF Successors

LEMMA NoneBeforeStep == IInv /\ RotInv /\ [Next]_vars => NoneBefore'
<1> SUFFICES ASSUME IInv, RotInv, [Next]_vars, NEW t \in Token
             PROVE  /\ ~Exists(t)' => ~tokens'[t].delivered
                    /\ ~Exists(t)' \/ ~tokens'[t].revoked => Successors(t)' = {}
  BY DEF NoneBefore
<1>1. /\ ~Exists(t)' => ~Exists(t)
      /\ ~tokens'[t].revoked => ~Exists(t) \/ ~tokens[t].revoked
  BY RowsKept
<1>2. ~Exists(t)' \/ ~tokens'[t].revoked => Successors(t) = {}
  BY <1>1 DEF RotInv, NoneBefore
<1>3. CASE \A c \in Call : ~RotateRetire(c)
  BY <1>2, <1>3, SuccessorsKept DEF RotInv
<1>4. ASSUME NEW c \in Call, RotateRetire(c)
      PROVE  /\ ~Exists(t)' => ~tokens'[t].delivered
             /\ ~Exists(t)' \/ ~tokens'[t].revoked => Successors(t)' = {}
  <2>1. Exists(call[c].token) /\ Exists(call[c].next)
    BY <1>4 DEF RotInv, RotationsKnow, RotateRetire, At
  <2>2. /\ tokens'[t].user = tokens[t].user
        /\ tokens'[t].revoked = (tokens[t].revoked \/ t = call[c].token)
        /\ tokens'[t].delivered = (tokens[t].delivered \/ t = call[c].next)
    BY <1>4, RetireRow DEF IInv
  <2>3. ~Exists(t)' \/ ~tokens'[t].revoked => t # call[c].token
    BY <2>1, <2>2 DEF Exists
  <2>4. ~Exists(t)' \/ ~tokens'[t].revoked => Successors(t)' = {}
    BY <1>2, <1>4, <2>3, RetireSuccessors DEF IInv, RotInv
  <2>5. ~Exists(t)' => ~tokens'[t].delivered
    BY <2>1, <2>2 DEF Exists, RotInv, NoneBefore
  <2> QED
    BY <2>4, <2>5
<1> QED
  BY <1>3, <1>4

\* A set of calls is as large as all of them at most.
LEMMA CallsFinite ==
  ASSUME NEW S \in SUBSET Call
  PROVE  IsFiniteSet(S) /\ Cardinality(S) \in Nat /\ Cardinality(S) <= Cardinality(Call)
BY SessionsAssumption, FS_Subset, FS_CardinalityType

LEMMA RotationsCountedStep == IInv /\ RotInv /\ [Next]_vars => RotationsCounted'
<1> SUFFICES ASSUME IInv, RotInv, [Next]_vars, NEW t \in Token
             PROVE  /\ IsFiniteSet(Successors(t)')
                    /\ Cardinality(Successors(t)') + Cardinality(Rotating(t)')
                         <= Cardinality(Call)
  BY DEF RotationsCounted
<1>T. SessionsTypeOK /\ SessionsTypeOK'
  BY TypeStep DEF IInv
<1>S. /\ IsFiniteSet(Successors(t)) /\ Cardinality(Successors(t)) \in Nat
      /\ Cardinality(Successors(t)) + Cardinality(Rotating(t)) <= Cardinality(Call)
  BY FS_CardinalityType DEF RotInv, RotationsCounted
<1>R. /\ IsFiniteSet(Rotating(t)) /\ Cardinality(Rotating(t)) \in Nat
      /\ Cardinality(Rotating(t)') \in Nat
      /\ Cardinality(Rotating(t)') <= Cardinality(Call)
      /\ Cardinality(Call) \in Nat
  <2>1. Rotating(t) \in SUBSET Call /\ Rotating(t)' \in SUBSET Call
    BY DEF Rotating
  <2> QED
    BY <2>1, CallsFinite, SessionsAssumption, FS_CardinalityType
<1>1. ASSUME NEW c \in Call, RotateRetire(c)
      PROVE  /\ IsFiniteSet(Successors(t)')
             /\ Cardinality(Successors(t)') + Cardinality(Rotating(t)')
                  <= Cardinality(Call)
  <2>1. /\ call[c].at = "retire" /\ call'[c].at = "idle"
        /\ \A d \in Call \ {c} : call'[d] = call[d]
    BY <1>T, <1>1 DEF RotateRetire, At, EndCall, Idle, SessionsTypeOK
  <2>2. CASE t = call[c].token
    <3>1. Rotating(t)' = Rotating(t) \ {c} /\ c \in Rotating(t)
      BY <2>1, <2>2 DEF Rotating
    <3>2. Cardinality(Rotating(t)') = Cardinality(Rotating(t)) - 1
      BY <1>R, <3>1, FS_RemoveElement
    <3>3. Successors(t)' = Successors(t) \cup {call[c].next}
      BY <1>T, <1>1, <2>2, RetireSuccessors DEF RotInv
    <3>4. /\ IsFiniteSet(Successors(t) \cup {call[c].next})
          /\ Cardinality(Successors(t) \cup {call[c].next})
               = IF call[c].next \in Successors(t) THEN Cardinality(Successors(t))
                 ELSE Cardinality(Successors(t)) + 1
      BY <1>S, FS_AddElement
    <3> QED
      BY <1>S, <1>R, <3>2, <3>3, <3>4
  <2>3. CASE t # call[c].token
    <3>1. Rotating(t)' = Rotating(t)
      BY <2>1, <2>3 DEF Rotating
    <3>2. Successors(t)' = Successors(t)
      BY <1>T, <1>1, <2>3, RetireSuccessors DEF RotInv
    <3> QED
      BY <1>S, <3>1, <3>2
  <2> QED
    BY <2>2, <2>3
<1>2. CASE \A c \in Call : ~RotateRetire(c)
  <2>1. Successors(t)' = Successors(t)
    BY <1>2, SuccessorsKept DEF RotInv
  <2>2. ASSUME Rotating(t)' \in SUBSET Rotating(t)
        PROVE  Cardinality(Successors(t)) + Cardinality(Rotating(t)') <= Cardinality(Call)
    <3>1. Cardinality(Rotating(t)') <= Cardinality(Rotating(t))
      BY <1>R, <2>2, FS_Subset
    <3> QED
      BY <1>S, <1>R, <3>1
  <2>3. ASSUME Successors(t) = {}
        PROVE  Cardinality(Successors(t)) + Cardinality(Rotating(t)') <= Cardinality(Call)
    BY <1>R, <2>3, FS_EmptySet
  <2>4. CASE UNCHANGED call
    BY <2>1, <2>2, <2>4, <1>S DEF Rotating
  <2>5. ASSUME NEW c \in Call, call'[c].at \notin {"find", "successor", "retire"},
               \A d \in Call \ {c} : call'[d] = call[d]
        PROVE  Rotating(t)' \in SUBSET Rotating(t)
    BY <2>5 DEF Rotating
  <2>6. ASSUME NEW c \in Call, RotateFind(c), Goto(c, "successor")
        PROVE  Cardinality(Successors(t)) + Cardinality(Rotating(t)') <= Cardinality(Call)
    <3>1. /\ call[c].at = "find" /\ call'[c].at = "successor"
          /\ call'[c].token = call[c].token
          /\ \A d \in Call \ {c} : call'[d] = call[d]
      BY <1>T, <2>6 DEF RotateFind, At, Goto, SessionsTypeOK
    <3>2. ~tokens[call[c].token].revoked
      BY <1>T, <2>6, <3>1 DEF RotateFind, Reused, Goto, SessionsTypeOK
    <3>3. CASE t = call[c].token
      BY <2>3, <3>2, <3>3 DEF RotInv, NoneBefore
    <3>4. CASE t # call[c].token
      <4>1. Rotating(t)' \in SUBSET Rotating(t)
        BY <3>1, <3>4 DEF Rotating
      <4> QED
        BY <2>2, <4>1
    <3> QED
      BY <3>3, <3>4
  <2>7. ASSUME NEW c \in Call, NEW x \in Token, RefreshRead(c, x)
        PROVE  Rotating(t)' \in SUBSET Rotating(t)
    <3>1. call'[c].at = "find" /\ \A d \in Call \ {c} : call'[d] = call[d]
      BY <1>T, <2>7 DEF RefreshRead, Idle, SessionsTypeOK
    <3> QED
      BY <3>1 DEF Rotating
  <2>8. ASSUME NEW c \in Call, NEW x \in Token, RotateIssue(c, x)
        PROVE  Rotating(t)' \in SUBSET Rotating(t)
    <3>1. /\ call[c].at = "successor" /\ call'[c].token = call[c].token
          /\ \A d \in Call \ {c} : call'[d] = call[d]
      BY <1>T, <2>8 DEF RotateIssue, At, SessionsTypeOK
    <3> QED
      BY <3>1 DEF Rotating
  <2>9. Cardinality(Successors(t)) + Cardinality(Rotating(t)') <= Cardinality(Call)
    <3>1. CASE UNCHANGED call
      <4>1. Rotating(t)' \in SUBSET Rotating(t)
        BY <3>1 DEF Rotating
      <4> QED
        BY <2>2, <4>1
    <3> QED
      BY <1>T, <2>2, <2>5, <2>6, <2>7, <2>8, <3>1, RotationSteps
  <2> QED
    BY <1>S, <2>1, <2>9
<1> QED
  BY <1>1, <1>2

\* A refresh token has no more successors than calls overlap, over any number of later
\* refreshes, logouts and failures: only calls that have found it unrevoked hand one
\* out, and the first to do so revokes it (tokens.service.ts rotate).
THEOREM RotationsStayBounded == Spec => []RotationsBounded
<1> DEFINE Inv == IInv /\ RotInv
<1>1. SessionsInit => Inv
  <2> SUFFICES ASSUME SessionsInit PROVE Inv
    OBVIOUS
  <2>1. IInv
    BY TypeInit DEF SessionsInit, IInv, OnBehalf, EndsExist, SessionsEnd, At, Idle
  <2>2. \A t \in Token : Successors(t) = {} /\ Rotating(t) = {} /\ ~tokens[t].delivered
    BY DEF SessionsInit, Successors, Rotating, Idle, NoToken
  <2>3. RotationsKnow
    BY DEF SessionsInit, RotationsKnow, At, Idle
  <2>4. NoneBefore
    BY <2>2 DEF NoneBefore
  <2>5. IsFiniteSet({}) /\ Cardinality({}) = 0 /\ Cardinality(Call) \in Nat
    BY SessionsAssumption, FS_EmptySet, FS_CardinalityType
  <2>6. RotationsCounted
    BY <2>2, <2>5 DEF RotationsCounted
  <2> QED
    BY <2>1, <2>3, <2>4, <2>6 DEF RotInv
<1>2. Inv /\ [Next]_vars => Inv'
  <2> SUFFICES ASSUME Inv, [Next]_vars PROVE Inv'
    OBVIOUS
  <2>1. IInv'
    BY TypeStep, OnBehalfStep, EndsExistStep, SessionsEndStep DEF IInv
  <2> QED
    BY <2>1, RotationsKnowStep, NoneBeforeStep, RotationsCountedStep DEF RotInv
<1>3. Inv => RotationsBounded
  <2> SUFFICES ASSUME Inv, NEW t \in Token
               PROVE  Cardinality(Successors(t)) <= Cardinality(Call)
    BY DEF RotationsBounded
  <2>1. /\ IsFiniteSet(Successors(t))
        /\ Cardinality(Successors(t)) + Cardinality(Rotating(t)) <= Cardinality(Call)
    BY DEF RotInv, RotationsCounted
  <2>2. Rotating(t) \in SUBSET Call
    BY DEF Rotating
  <2>3. /\ Cardinality(Successors(t)) \in Nat /\ Cardinality(Rotating(t)) \in Nat
        /\ Cardinality(Call) \in Nat
    BY <2>1, <2>2, CallsFinite, SessionsAssumption, FS_CardinalityType
  <2> QED
    BY <2>1, <2>3
<1> QED
  BY <1>1, <1>2, <1>3, PTL DEF Spec
=============================================================================
