--------------------------- MODULE SessionsProofs ---------------------------
(***************************************************************************)
(* What Sessions guarantees for every number of families, tokens and       *)
(* concurrent requests, and for every set of faults.  SessionInvariant is  *)
(* inductive; ClosedForGood and DeniedIsClosed are conjuncts of it.  With  *)
(* requests that are answered in time, InTimeInvariant is inductive too,   *)
(* and NoFalseReuse follows.                                               *)
(***************************************************************************)
EXTENDS Sessions, TLAPS

USE DEF tableVars, requestVars, transactionVars

\* The initial state satisfies the invariant.
LEMMA InvariantAtInit == Init => SessionInvariant /\ InTimeInvariant
  <1> SUFFICES ASSUME Init PROVE SessionInvariant /\ InTimeInvariant
    OBVIOUS
  <1>1. TypeOK
    BY DEF Init, TypeOK, Steps, Kinds, Reasons
  <1>2. /\ FamiliesAreHeldByOne /\ HoldingsFollowSteps /\ WritesAreLocked
        /\ WorkedOnHaveMembers /\ DeniedIsClosed
    BY DEF Init, FamiliesAreHeldByOne, HoldingsFollowSteps, WritesAreLocked,
       ClosesFamilies, WorkedOnHaveMembers, DeniedIsClosed
  <1>3. FreshIsUnborn /\ DenialsAreDue /\ CookiesAreIssued
    BY NullsAssumption
       DEF Init, FreshIsUnborn, DenialsAreDue, CookiesAreIssued
  <1>4. ClosedForGood /\ NoFalseReuse
    BY DEF Init, ClosedForGood, NoFalseReuse, Closing
  <1>5. AnswersAreNew /\ CookieIsReplaced /\ PastIsShownByNobody
    BY NullsAssumption
       DEF Init, AnswersAreNew, CookieIsReplaced, PastIsShownByNobody
  <1>6. \A r \in Requests : kind[r] # "reuse_detected"
    BY DEF Init
  <1> QED
    BY <1>1, <1>2, <1>3, <1>4, <1>5, <1>6
       DEF SessionInvariant, InTimeInvariant

\* Every step leaves each variable in its type.
LEMMA TypeIsKept == SessionInvariant /\ [Next]_vars => TypeOK'
  <1> SUFFICES ASSUME SessionInvariant, [Next]_vars PROVE TypeOK'
    OBVIOUS
  <1> USE DEF SessionInvariant, Goto, Tell, EndTransaction, Steps, Kinds,
              Refreshes
  <1>1. ASSUME NEW r \in Requests, Login(r) PROVE TypeOK'
    BY <1>1 DEF Login, TypeOK
  <1>2. ASSUME NEW r \in Requests, Refresh(r) PROVE TypeOK'
    BY <1>2 DEF Refresh, TypeOK
  <1>3. ASSUME NEW r \in Requests, LockForRotation(r) PROVE TypeOK'
    BY <1>3 DEF LockForRotation, TypeOK, HoldingsFollowSteps, Issued
  <1>4. ASSUME NEW r \in Requests, RejectRevoked(r) PROVE TypeOK'
    BY <1>4 DEF RejectRevoked, Rotating, TypeOK
  <1>5. ASSUME NEW r \in Requests, RejectExpired(r) PROVE TypeOK'
    BY <1>5 DEF RejectExpired, Rotating, TypeOK, HoldingsFollowSteps, Issued
  <1>6. ASSUME NEW r \in Requests, DetectReuse(r) PROVE TypeOK'
    BY <1>6 DEF DetectReuse, Rotating, TypeOK, HoldingsFollowSteps, Issued,
       Live, Members
  <1>7. ASSUME NEW r \in Requests, RotateToken(r) PROVE TypeOK'
    BY <1>7 DEF RotateToken, Rotating, TypeOK
  <1>8. ASSUME NEW r \in Requests, CommitRotation(r) PROVE TypeOK'
    BY <1>8 DEF CommitRotation, HandOut, TypeOK, HoldingsFollowSteps, Issued
  <1>9. ASSUME NEW r \in Requests, Logout(r) PROVE TypeOK'
    BY <1>9 DEF Logout, BeginRevocation, TypeOK, CookiesAreIssued, Issued
  <1>10. ASSUME NEW r \in Requests, NEW f \in Families, LogoutAll(r, f)
         PROVE  TypeOK'
    BY <1>10 DEF LogoutAll, BeginRevocation, LiveFamilies, TypeOK
  <1>11. ASSUME NEW r \in Requests, NEW f \in Families, ChangePassword(r, f)
         PROVE  TypeOK'
    BY <1>11 DEF ChangePassword, BeginRevocation, LiveFamilies, TypeOK
  <1>12. ASSUME NEW r \in Requests, NEW f \in Families, RevokeFamily(r, f)
         PROVE  TypeOK'
    BY <1>12 DEF RevokeFamily, Live, Members, TypeOK
  <1>13. ASSUME NEW r \in Requests, CommitRevocation(r) PROVE TypeOK'
    <2>1. Reason(kind[r]) \in Reasons
      BY <1>13
         DEF CommitRevocation, Reason, TypeOK, Reasons, HoldingsFollowSteps
    <2>2. revoked' \in [Tokens -> Reasons]
      BY <1>13, <2>1 DEF CommitRevocation, TypeOK
    <2> QED
      BY <1>13, <2>2 DEF CommitRevocation, TypeOK
  <1>14. ASSUME NEW r \in Requests, Deny(r) PROVE TypeOK'
    BY <1>14 DEF Deny, TypeOK
  <1>15. ASSUME NEW r \in Requests, Answer(r) PROVE TypeOK'
    BY <1>15 DEF Answer, Forget, TypeOK
  <1>16. ASSUME NEW r \in Requests, StatementFails(r) PROVE TypeOK'
    BY <1>16 DEF StatementFails, TypeOK
  <1>17. ASSUME NEW r \in Requests, Crash(r) PROVE TypeOK'
    BY <1>17 DEF Crash, Forget, TypeOK
  <1>18. ASSUME NEW t \in Tokens, GraceEnds(t) PROVE TypeOK'
    BY <1>18 DEF GraceEnds, TypeOK
  <1>19. CASE UNCHANGED vars
    BY <1>19 DEF vars, TypeOK
  <1> QED
    BY <1>1, <1>2, <1>3, <1>4, <1>5, <1>6, <1>7, <1>8, <1>9, <1>10, <1>11,
       <1>12, <1>13, <1>14, <1>15, <1>16, <1>17, <1>18, <1>19
       DEF Next, Begin, RotateStep, RevokeStep

\* A request that begins to revoke holds nothing yet, and only a closing kind
\* of request does.
LEMMA RevocationsBegin ==
  ASSUME NEW r \in Requests,
         Logout(r)
         \/ \E f \in Families : LogoutAll(r, f) \/ ChangePassword(r, f)
  PROVE  \E k \in {"logout", "password_change"} :
            \E fs, ds : BeginRevocation(r, k, fs, ds)
  BY DEF Logout, LogoutAll, ChangePassword

\* A step writes the table in one of these ways.
LEMMA TableSteps ==
  ASSUME [Next]_vars
  PROVE  \/ UNCHANGED <<family, rotated, revoked>>
         \/ \E r \in Requests :
               Login(r) \/ CommitRotation(r) \/ CommitRevocation(r)
         \/ \E t \in Tokens : GraceEnds(t)
  BY DEF Next, vars, Begin, RotateStep, RevokeStep, Refresh, LockForRotation,
     RejectRevoked, RejectExpired, DetectReuse, RotateToken, Logout, LogoutAll,
     ChangePassword, BeginRevocation, RevokeFamily, Deny, Answer,
     StatementFails, Crash

\* What a login does to the table.
LEMMA LoginAdds ==
  ASSUME TypeOK, NEW r \in Requests, Login(r)
  PROVE  \E t \in Tokens, f \in Families :
            /\ t \in Unused /\ Members(f) = {}
            /\ family[t] = NoFamily
            /\ family' = [family EXCEPT ![t] = f]
            /\ answer' = [answer EXCEPT ![r] = t]
            /\ UNCHANGED <<rotated, revoked>>
  BY DEF Login, Drawn, Unused, Issued, Tell

\* What a rotation does to the table.
LEMMA RotationAdds ==
  ASSUME SessionInvariant, NEW r \in Requests, CommitRotation(r)
  PROVE  /\ fresh[r] \in Tokens /\ shown[r] \in Tokens
         /\ family[fresh[r]] = NoFamily
         /\ family[shown[r]] \in Families
         /\ held[r] = {family[shown[r]]}
         /\ revoked[shown[r]] = "no" /\ revoked[fresh[r]] = "no"
         /\ rotated[fresh[r]] = "no"
         /\ family' = [family EXCEPT ![fresh[r]] = family[shown[r]]]
         /\ UNCHANGED revoked
  BY DEF CommitRotation, SessionInvariant, TypeOK, FreshIsUnborn,
     HoldingsFollowSteps, Issued

\* What a revocation does to the table, and why a family it closes is closed.
LEMMA RevocationCloses ==
  ASSUME SessionInvariant, NEW r \in Requests, CommitRevocation(r)
  PROVE  /\ UNCHANGED <<family, rotated>>
         /\ \A t \in Tokens : revoked[t] # "no" => revoked'[t] = revoked[t]
         /\ \A t \in Tokens \ rows[r] : revoked'[t] = revoked[t]
         /\ \A t \in rows[r] : t \in Tokens /\ revoked'[t] # "no"
         /\ \A t \in rows[r] : family[t] \in held[r]
         /\ todo[r] = {}
         /\ ~ClosesFamilies(r) => kind[r] = "expired" /\ pc[r] = "commit"
         /\ ~ClosesFamilies(r) =>
               \A t \in rows[r] :
                  revoked[t] = "no" => revoked'[t] = "expired"
  <1>1. pc[r] \in {"revoke", "commit"}
    BY DEF CommitRevocation
  <1>2. Reason(kind[r]) # "no"
    BY DEF CommitRevocation, Reason, SessionInvariant, HoldingsFollowSteps,
       Refreshes
  <1>3. revoked' = [t \in Tokens |->
                       IF t \in rows[r] /\ revoked[t] = "no"
                       THEN Reason(kind[r]) ELSE revoked[t]]
    BY DEF CommitRevocation
  <1>4. ~ClosesFamilies(r) => kind[r] = "expired" /\ pc[r] = "commit"
    BY <1>1 DEF ClosesFamilies, CommitRevocation, SessionInvariant,
       HoldingsFollowSteps, Refreshes
  <1>5. todo[r] = {}
    BY DEF CommitRevocation, SessionInvariant, HoldingsFollowSteps
  <1>6. rows[r] \subseteq Tokens /\ \A t \in rows[r] : family[t] \in held[r]
    BY DEF SessionInvariant, TypeOK, WritesAreLocked
  <1>7. UNCHANGED <<family, rotated>>
    BY DEF CommitRevocation
  <1>8. ~ClosesFamilies(r) => Reason(kind[r]) = "expired"
    BY <1>4 DEF Reason, Refreshes
  <1> QED
    BY <1>2, <1>3, <1>4, <1>5, <1>6, <1>7, <1>8

\* Tokens stay in their family.
LEMMA MembersStay ==
  ASSUME SessionInvariant, [Next]_vars
  PROVE  /\ \A t \in Tokens : Issued(t) => Issued(t)' /\ family'[t] = family[t]
         /\ \A f \in Families : Members(f) # {} => Members(f)' # {}
  <1>1. \A t \in Tokens : Issued(t) => Issued(t)' /\ family'[t] = family[t]
    <2>1. ASSUME NEW r \in Requests, Login(r)
          PROVE  \A t \in Tokens :
                     Issued(t) => Issued(t)' /\ family'[t] = family[t]
      BY <2>1, LoginAdds DEF SessionInvariant, TypeOK, Issued
    <2>2. ASSUME NEW r \in Requests, CommitRotation(r)
          PROVE  \A t \in Tokens :
                     Issued(t) => Issued(t)' /\ family'[t] = family[t]
      BY <2>2, RotationAdds DEF SessionInvariant, TypeOK, Issued
    <2> QED
      BY <2>1, <2>2, TableSteps
         DEF Issued, CommitRevocation, GraceEnds
  <1> QED
    BY <1>1, NullsAssumption DEF Members, Issued

\* One transaction at a time works on a family: locks are only taken free.
LEMMA FamiliesStayHeldByOne ==
  SessionInvariant /\ [Next]_vars => FamiliesAreHeldByOne'
  <1> SUFFICES ASSUME SessionInvariant, [Next]_vars
               PROVE  FamiliesAreHeldByOne'
    OBVIOUS
  <1>0. held \in [Requests -> SUBSET Families]
    BY DEF SessionInvariant, TypeOK
  <1>1. ASSUME NEW r \in Requests, LockForRotation(r)
        PROVE  FamiliesAreHeldByOne'
    BY <1>0, <1>1 DEF LockForRotation, FamilyIsFree, SessionInvariant,
       FamiliesAreHeldByOne
  <1>2. ASSUME NEW r \in Requests, NEW f \in Families, RevokeFamily(r, f)
        PROVE  FamiliesAreHeldByOne'
    BY <1>0, <1>2 DEF RevokeFamily, FamilyIsFree, SessionInvariant,
       FamiliesAreHeldByOne
  <1>3. CASE \A q \in Requests : held'[q] \subseteq held[q]
    BY <1>3 DEF SessionInvariant, FamiliesAreHeldByOne
  <1>4. \/ \E r \in Requests : LockForRotation(r)
        \/ \E r \in Requests, f \in Families : RevokeFamily(r, f)
        \/ \A q \in Requests : held'[q] \subseteq held[q]
    BY <1>0 DEF Next, vars, Begin, RotateStep, RevokeStep, Login, Refresh,
       RejectRevoked, RejectExpired, DetectReuse, RotateToken, CommitRotation,
       Logout, LogoutAll, ChangePassword, BeginRevocation, CommitRevocation,
       Deny, Answer, StatementFails, Crash, GraceEnds, EndTransaction
  <1> QED
    BY <1>1, <1>2, <1>3, <1>4

\* Each step of a request leaves with it what the next one relies on.
LEMMA HoldingsStayInStep ==
  SessionInvariant /\ [Next]_vars => HoldingsFollowSteps'
  <1> SUFFICES ASSUME SessionInvariant, [Next]_vars
               PROVE  HoldingsFollowSteps'
    OBVIOUS
  <1>0. /\ TypeOK /\ HoldingsFollowSteps
        /\ \A q \in Requests :
               Issued(shown[q]) =>
                   /\ family'[shown[q]] # NoFamily
                   /\ family'[shown[q]] = family[shown[q]]
    <2>1. \A t \in Tokens : Issued(t) => Issued(t)' /\ family'[t] = family[t]
      BY MembersStay
    <2>2. TypeOK /\ HoldingsFollowSteps
      BY DEF SessionInvariant
    <2> QED
      BY <2>1, <2>2 DEF Issued
  <1> USE DEF HoldingsFollowSteps, TypeOK, Goto, Tell, EndTransaction,
              Refreshes
  <1>1. ASSUME NEW r \in Requests, Login(r) PROVE HoldingsFollowSteps'
    BY <1>0, <1>1 DEF Login, Issued
  <1>2. ASSUME NEW r \in Requests, Refresh(r) PROVE HoldingsFollowSteps'
    BY <1>0, <1>2 DEF Refresh, Issued, SessionInvariant, CookiesAreIssued
  <1>3. ASSUME NEW r \in Requests, LockForRotation(r)
        PROVE  HoldingsFollowSteps'
    BY <1>0, <1>3 DEF LockForRotation, Issued
  <1>4. ASSUME NEW r \in Requests,
               RejectRevoked(r) \/ RejectExpired(r) \/ DetectReuse(r)
        PROVE  HoldingsFollowSteps'
    BY <1>0, <1>4
       DEF RejectRevoked, RejectExpired, DetectReuse, Rotating, Issued
  <1>5. ASSUME NEW r \in Requests, RotateToken(r) PROVE HoldingsFollowSteps'
    BY <1>0, <1>5 DEF RotateToken, Rotating, Issued
  <1>6. ASSUME NEW r \in Requests, CommitRotation(r)
        PROVE  HoldingsFollowSteps'
    <2>1. /\ pc' = [pc EXCEPT ![r] = "answer"]
          /\ held' = [held EXCEPT ![r] = {}]
          /\ todo' = [todo EXCEPT ![r] = {}]
          /\ rows' = [rows EXCEPT ![r] = {}]
          /\ fresh' = [fresh EXCEPT ![r] = NoToken]
          /\ UNCHANGED <<kind, shown>>
      BY <1>6 DEF CommitRotation
    <2> QED
      BY <1>0, <2>1 DEF Issued
  <1>7. ASSUME NEW r \in Requests, NEW k \in {"logout", "password_change"},
               NEW fs, NEW ds, BeginRevocation(r, k, fs, ds)
        PROVE  HoldingsFollowSteps'
    BY <1>0, <1>7 DEF BeginRevocation, Issued
  <1>8. ASSUME NEW r \in Requests, NEW f \in Families, RevokeFamily(r, f)
        PROVE  HoldingsFollowSteps'
    BY <1>0, <1>8 DEF RevokeFamily, Issued
  <1>9. ASSUME NEW r \in Requests, CommitRevocation(r)
        PROVE  HoldingsFollowSteps'
    BY <1>0, <1>9 DEF CommitRevocation, Issued
  <1>10. ASSUME NEW r \in Requests, Deny(r) \/ Answer(r)
         PROVE  HoldingsFollowSteps'
    BY <1>0, <1>10 DEF Deny, Answer, Forget, Issued
  <1>11. ASSUME NEW r \in Requests, StatementFails(r) \/ Crash(r)
         PROVE  HoldingsFollowSteps'
    BY <1>0, <1>11 DEF StatementFails, Crash, Forget, Issued
  <1>12. ASSUME NEW t \in Tokens, GraceEnds(t) PROVE HoldingsFollowSteps'
    BY <1>0, <1>12 DEF GraceEnds, Issued
  <1>13. CASE UNCHANGED vars
    BY <1>0, <1>13 DEF vars, Issued
  <1> QED
    BY <1>1, <1>2, <1>3, <1>4, <1>5, <1>6, <1>7, <1>8, <1>9, <1>10, <1>11,
       <1>12, <1>13, RevocationsBegin
       DEF Next, Begin, RotateStep, RevokeStep

\* Families are taken up for the committed tokens that are in them.
LEMMA WorkedOnKeepMembers ==
  SessionInvariant /\ [Next]_vars => WorkedOnHaveMembers'
  <1> SUFFICES ASSUME SessionInvariant, [Next]_vars,
                      NEW q \in Requests, NEW f \in held'[q] \cup todo'[q]
               PROVE  (Members(f) # {})'
    BY DEF WorkedOnHaveMembers
  <1>0. /\ held \in [Requests -> SUBSET Families]
        /\ todo \in [Requests -> SUBSET Families]
        /\ family \in [Tokens -> Families \cup {NoFamily}]
    BY DEF SessionInvariant, TypeOK
  <1>1. CASE Members(f) # {}
    <2>1. f \in Families
      BY <1>0, <1>1, TypeIsKept DEF TypeOK
    <2> QED
      BY <1>1, <2>1, MembersStay
  <1>2. CASE held'[q] \cup todo'[q] \subseteq held[q] \cup todo[q]
    BY <1>1, <1>2 DEF SessionInvariant, WorkedOnHaveMembers
  <1>3. ASSUME LockForRotation(q) PROVE Members(f) # {}
    <2>1. /\ held'[q] \cup todo'[q] = {family[shown[q]]} \cup todo[q]
          /\ todo[q] = {}
          /\ Issued(shown[q])
      BY <1>0, <1>3
         DEF LockForRotation, SessionInvariant, HoldingsFollowSteps
    <2> QED
      BY <2>1 DEF Issued, Members
  <1>4. ASSUME Logout(q) PROVE Members(f) # {}
    <2>1. /\ held'[q] = {} /\ todo'[q] = {family[cookie]}
          /\ Issued(cookie)
      BY <1>0, <1>4 DEF Logout, BeginRevocation, SessionInvariant,
         HoldingsFollowSteps, CookiesAreIssued
    <2> QED
      BY <2>1 DEF Issued, Members
  <1>5. ASSUME NEW g \in Families, LogoutAll(q, g) \/ ChangePassword(q, g)
        PROVE  Members(f) # {}
    <2>1. held'[q] = {} /\ todo'[q] \subseteq LiveFamilies
      BY <1>0, <1>5 DEF LogoutAll, ChangePassword, BeginRevocation,
         SessionInvariant, HoldingsFollowSteps
    <2> QED
      BY <2>1 DEF LiveFamilies, Live
  <1>6. \/ held'[q] \cup todo'[q] \subseteq held[q] \cup todo[q]
        \/ LockForRotation(q) \/ Logout(q)
        \/ \E g \in Families : LogoutAll(q, g) \/ ChangePassword(q, g)
    <2>1. ASSUME NEW r \in Requests, r # q,
                 LockForRotation(r) \/ Logout(r)
                 \/ \E g \in Families : LogoutAll(r, g) \/ ChangePassword(r, g)
          PROVE  held'[q] = held[q] /\ todo'[q] = todo[q]
      BY <1>0, <2>1 DEF LockForRotation, Logout, LogoutAll, ChangePassword,
         BeginRevocation
    <2>2. ASSUME NEW r \in Requests, NEW g \in Families, RevokeFamily(r, g)
          PROVE  held'[q] \cup todo'[q] \subseteq held[q] \cup todo[q]
      BY <1>0, <2>2 DEF RevokeFamily, IsNext
    <2>3. \/ held'[q] \subseteq held[q] /\ todo'[q] \subseteq todo[q]
          \/ \E r \in Requests, g \in Families : RevokeFamily(r, g)
          \/ \E r \in Requests :
                \/ LockForRotation(r) \/ Logout(r)
                \/ \E g \in Families : LogoutAll(r, g) \/ ChangePassword(r, g)
      BY <1>0 DEF Next, vars, Begin, RotateStep, RevokeStep, Login, Refresh,
         RejectRevoked, RejectExpired, DetectReuse, RotateToken,
         CommitRotation, CommitRevocation, Deny, Answer, StatementFails,
         Crash, GraceEnds, EndTransaction
    <2> QED
      BY <2>1, <2>2, <2>3
  <1> QED
    BY <1>1, <1>2, <1>3, <1>4, <1>5, <1>6

\* A family gains a live token when it is opened, or when a rotation that
\* holds its lock commits.
LEMMA LiveGrows ==
  ASSUME SessionInvariant, [Next]_vars,
         NEW f \in Families, NEW t \in Live(f)', t \notin Live(f)
  PROVE  \E r \in Requests :
            \/ Login(r) /\ Members(f) = {} /\ t \in Unused
               /\ family' = [family EXCEPT ![t] = f] /\ UNCHANGED revoked
            \/ CommitRotation(r) /\ held[r] = {f} /\ t = fresh[r]
  <1>0. /\ TypeOK
        /\ t \in Tokens /\ family'[t] = f /\ revoked'[t] = "no"
        /\ ~(family[t] = f /\ revoked[t] = "no")
    BY DEF SessionInvariant, Live, Members
  <1>1. ASSUME NEW r \in Requests, Login(r)
        PROVE  /\ Members(f) = {} /\ t \in Unused
               /\ family' = [family EXCEPT ![t] = f] /\ UNCHANGED revoked
    <2>1. PICK u \in Tokens, g \in Families :
             /\ u \in Unused /\ Members(g) = {}
             /\ family' = [family EXCEPT ![u] = g]
             /\ UNCHANGED revoked
      BY <1>0, <1>1, LoginAdds
    <2>2. u = t /\ g = f
      BY <1>0, <2>1 DEF TypeOK
    <2> QED
      BY <2>1, <2>2
  <1>2. ASSUME NEW r \in Requests, CommitRotation(r)
        PROVE  held[r] = {f} /\ t = fresh[r]
    <2>1. /\ held[r] = {family[shown[r]]}
          /\ family' = [family EXCEPT ![fresh[r]] = family[shown[r]]]
          /\ UNCHANGED revoked
      BY <1>2, RotationAdds
    <2> QED
      BY <1>0, <2>1 DEF TypeOK
  <1>3. ASSUME NEW r \in Requests, CommitRevocation(r) PROVE FALSE
    BY <1>0, <1>3, RevocationCloses DEF TypeOK
  <1>4. ASSUME NEW u \in Tokens, GraceEnds(u) PROVE FALSE
    BY <1>0, <1>4 DEF GraceEnds
  <1>5. CASE UNCHANGED <<family, rotated, revoked>>
    BY <1>0, <1>5
  <1> QED
    BY <1>1, <1>2, <1>3, <1>4, <1>5, TableSteps

\* What a step does to the rows a request has written.
LEMMA WorkSteps ==
  ASSUME SessionInvariant, [Next]_vars, NEW q \in Requests
  PROVE  \/ /\ held'[q] = held[q] /\ rows'[q] = rows[q]
            /\ ClosesFamilies(q)' => ClosesFamilies(q)
         \/ rows'[q] = {} /\ (ClosesFamilies(q)' => held'[q] = {})
         \/ RejectExpired(q) \/ DetectReuse(q)
         \/ \E f \in Families : RevokeFamily(q, f)
  <1> DEFINE Stays == /\ held'[q] = held[q] /\ rows'[q] = rows[q]
                      /\ ClosesFamilies(q)' => ClosesFamilies(q)
             Starts == rows'[q] = {} /\ (ClosesFamilies(q)' => held'[q] = {})
  <1>0. TypeOK /\ HoldingsFollowSteps
    BY DEF SessionInvariant
  <1> USE DEF ClosesFamilies, TypeOK, Goto, Tell, EndTransaction
  <1>1. ASSUME NEW r \in Requests, Login(r) \/ Refresh(r) PROVE Stays \/ Starts
    BY <1>0, <1>1 DEF Login, Refresh
  <1>2. ASSUME NEW r \in Requests, LockForRotation(r) \/ RotateToken(r)
        PROVE  Stays \/ Starts
    BY <1>0, <1>2 DEF LockForRotation, RotateToken, Rotating,
       HoldingsFollowSteps
  <1>3. ASSUME NEW r \in Requests, RejectRevoked(r) \/ StatementFails(r)
        PROVE  Stays \/ Starts
    BY <1>0, <1>3 DEF RejectRevoked, StatementFails
  <1>4. ASSUME NEW r \in Requests, r # q, RejectExpired(r) \/ DetectReuse(r)
        PROVE  Stays
    BY <1>0, <1>4 DEF RejectExpired, DetectReuse
  <1>5. ASSUME NEW r \in Requests, CommitRotation(r) \/ CommitRevocation(r)
        PROVE  Stays \/ Starts
    BY <1>0, <1>5 DEF CommitRotation, CommitRevocation
  <1>6. ASSUME NEW r \in Requests, NEW k \in {"logout", "password_change"},
               NEW fs, NEW ds, BeginRevocation(r, k, fs, ds)
        PROVE  Stays \/ Starts
    BY <1>0, <1>6 DEF BeginRevocation, HoldingsFollowSteps
  <1>7. ASSUME NEW r \in Requests, NEW f \in Families, r # q,
               RevokeFamily(r, f)
        PROVE  Stays
    BY <1>0, <1>7 DEF RevokeFamily
  <1>8. ASSUME NEW r \in Requests, Deny(r) \/ Answer(r) \/ Crash(r)
        PROVE  Stays \/ Starts
    BY <1>0, <1>8 DEF Deny, Answer, Crash, Forget
  <1>9. CASE UNCHANGED vars \/ \E t \in Tokens : GraceEnds(t)
    BY <1>9 DEF vars, GraceEnds
  <1> QED
    BY <1>1, <1>2, <1>3, <1>4, <1>5, <1>6, <1>7, <1>8, <1>9, RevocationsBegin
       DEF Next, Begin, RotateStep, RevokeStep

\* Rows are written under the lock of their family, all the live ones by a
\* transaction that closes it: nobody else adds to a family that is held.
LEMMA WritesStayLocked ==
  SessionInvariant /\ [Next]_vars => WritesAreLocked'
  <1> SUFFICES ASSUME SessionInvariant, [Next]_vars, NEW q \in Requests
               PROVE  /\ \A t \in rows'[q] : family'[t] \in held'[q]
                      /\ ClosesFamilies(q)' =>
                            \A f \in held'[q] : Live(f)' \subseteq rows'[q]
    BY DEF WritesAreLocked
  <1>0. /\ TypeOK /\ WritesAreLocked /\ HoldingsFollowSteps
        /\ FamiliesAreHeldByOne /\ WorkedOnHaveMembers
    BY DEF SessionInvariant
  <1>1. ASSUME held'[q] = held[q], rows'[q] = rows[q],
               ClosesFamilies(q)' => ClosesFamilies(q)
        PROVE  /\ \A t \in rows'[q] : family'[t] \in held'[q]
               /\ ClosesFamilies(q)' =>
                     \A f \in held'[q] : Live(f)' \subseteq rows'[q]
    <2>1. \A t \in rows'[q] : family'[t] \in held'[q]
      <3>1. \A t \in rows[q] : Issued(t) /\ family[t] \in held[q]
        BY <1>0, NullsAssumption DEF WritesAreLocked, TypeOK, Issued
      <3>2. \A t \in rows[q] : family'[t] = family[t]
        BY <3>1, MembersStay DEF Issued
      <3> QED
        BY <1>1, <3>1, <3>2
    <2>2. ASSUME ClosesFamilies(q)', NEW f \in held'[q], NEW t \in Live(f)',
                 t \notin Live(f)
          PROVE  FALSE
      <3>1. f \in held[q] /\ f \in Families /\ Members(f) # {}
        BY <1>0, <1>1, <2>2 DEF TypeOK, WorkedOnHaveMembers
      <3>2. PICK r \in Requests : CommitRotation(r) /\ held[r] = {f}
        BY <2>2, <3>1, LiveGrows
      <3>3. r = q
        BY <1>0, <3>1, <3>2 DEF FamiliesAreHeldByOne
      <3>4. pc[q] = "commit" /\ kind[q] = "refresh"
        BY <3>2, <3>3 DEF CommitRotation
      <3> QED
        BY <1>1, <2>2, <3>4 DEF ClosesFamilies
    <2> QED
      BY <1>0, <1>1, <2>1, <2>2 DEF WritesAreLocked
  <1>2. ASSUME rows'[q] = {}, ClosesFamilies(q)' => held'[q] = {}
        PROVE  /\ \A t \in rows'[q] : family'[t] \in held'[q]
               /\ ClosesFamilies(q)' =>
                     \A f \in held'[q] : Live(f)' \subseteq rows'[q]
    BY <1>2
  <1>3. ASSUME RejectExpired(q)
        PROVE  /\ \A t \in rows'[q] : family'[t] \in held'[q]
               /\ ClosesFamilies(q)' =>
                     \A f \in held'[q] : Live(f)' \subseteq rows'[q]
    <2>1. /\ rows'[q] = {shown[q]} /\ held[q] = {family[shown[q]]}
          /\ UNCHANGED <<family, held>>
          /\ pc'[q] = "commit" /\ kind'[q] = "expired"
      BY <1>0, <1>3 DEF RejectExpired, Rotating, TypeOK, HoldingsFollowSteps,
         Goto
    <2> QED
      BY <2>1 DEF ClosesFamilies
  <1>4. ASSUME DetectReuse(q)
        PROVE  /\ \A t \in rows'[q] : family'[t] \in held'[q]
               /\ ClosesFamilies(q)' =>
                     \A f \in held'[q] : Live(f)' \subseteq rows'[q]
    <2>1. /\ rows'[q] = Live(family[shown[q]])
          /\ held[q] = {family[shown[q]]}
          /\ UNCHANGED <<family, revoked, held>>
      BY <1>0, <1>4 DEF DetectReuse, Rotating, TypeOK, HoldingsFollowSteps
    <2> QED
      BY <2>1 DEF Live, Members
  <1>5. ASSUME NEW f \in Families, RevokeFamily(q, f)
        PROVE  /\ \A t \in rows'[q] : family'[t] \in held'[q]
               /\ ClosesFamilies(q)' =>
                     \A g \in held'[q] : Live(g)' \subseteq rows'[q]
    <2>1. /\ rows'[q] = rows[q] \cup Live(f)
          /\ held'[q] = held[q] \cup {f}
          /\ UNCHANGED <<family, revoked>>
          /\ ClosesFamilies(q)
      BY <1>0, <1>5 DEF RevokeFamily, TypeOK, ClosesFamilies
    <2>2. /\ \A t \in rows[q] : family[t] \in held[q]
          /\ \A g \in held[q] : Live(g) \subseteq rows[q]
      BY <1>0, <2>1 DEF WritesAreLocked
    <2> QED
      BY <2>1, <2>2 DEF Live, Members
  <1> QED
    BY <1>1, <1>2, <1>3, <1>4, <1>5, WorkSteps

\* A family that is closed stays so: the commit that closes it writes all its
\* live tokens, and only a live token of it has a child.
LEMMA ClosedStays ==
  SessionInvariant /\ [Next]_vars => ClosedForGood'
  <1> SUFFICES ASSUME SessionInvariant, [Next]_vars,
                      NEW t \in Tokens, NEW u \in Tokens, Issued(t)',
                      family'[u] = family'[t], revoked'[t] \in Closing,
                      revoked'[u] = "no"
               PROVE  FALSE
    BY DEF ClosedForGood
  <1> DEFINE f == family'[t]
  <1>0. /\ TypeOK /\ WritesAreLocked /\ ClosedForGood /\ FreshIsUnborn
        /\ f \in Families
    BY TypeIsKept DEF SessionInvariant, TypeOK, Issued
  <1>1. \/ u \in Live(f)
        \/ \E r \in Requests : Login(r) /\ Members(f) = {}
                            /\ family' = [family EXCEPT ![u] = f]
                            /\ UNCHANGED revoked
        \/ \E r \in Requests : CommitRotation(r) /\ held[r] = {f}
    BY <1>0, LiveGrows DEF Live, Members
  <1>2. CASE u \in Live(f)
    <2>1. revoked[u] = "no" /\ family[u] = f
      BY <1>2 DEF Live, Members
    <2>2. ~(Issued(t) /\ revoked[t] \in Closing)
      BY <1>0, <2>1, MembersStay DEF ClosedForGood, Issued
    <2>3. revoked'[t] # revoked[t]
      BY <1>0, <2>2 DEF FreshIsUnborn, Closing
    <2>4. PICK r \in Requests : CommitRevocation(r)
      BY <2>3, TableSteps, LoginAdds, RotationAdds, <1>0 DEF GraceEnds
    <2>5. /\ t \in rows[r] /\ revoked[t] = "no" /\ ClosesFamilies(r)
          /\ family[t] \in held[r] /\ UNCHANGED family
      BY <2>3, <2>4, RevocationCloses DEF Closing
    <2>6. u \in rows[r]
      BY <1>0, <1>2, <2>5 DEF WritesAreLocked
    <2> QED
      BY <2>4, <2>6, RevocationCloses
  <1>3. ASSUME NEW r \in Requests, Login(r), Members(f) = {},
               family' = [family EXCEPT ![u] = f], UNCHANGED revoked
        PROVE  FALSE
    <2>1. t = u
      BY <1>0, <1>3 DEF Members, TypeOK
    <2> QED
      BY <2>1 DEF Closing
  <1>4. ASSUME NEW r \in Requests, CommitRotation(r), held[r] = {f}
        PROVE  FALSE
    <2>1. /\ shown[r] \in Tokens /\ family[shown[r]] = f
          /\ revoked[shown[r]] = "no" /\ revoked[fresh[r]] = "no"
          /\ family' = [family EXCEPT ![fresh[r]] = f]
          /\ UNCHANGED revoked
      BY <1>4, RotationAdds
    <2>2. t # fresh[r]
      BY <2>1 DEF Closing
    <2>3. family[t] = f
      BY <1>0, <2>1, <2>2 DEF TypeOK
    <2> QED
      BY <1>0, <2>1, <2>3, NullsAssumption DEF ClosedForGood, Issued
  <1> QED
    BY <1>1, <1>2, <1>3, <1>4

\* A family that has lost its last live token gets no other.
LEMMA DeadStays ==
  ASSUME SessionInvariant, [Next]_vars,
         NEW f \in Families, Members(f) # {}, Live(f) = {}
  PROVE  (Members(f) # {})' /\ (Live(f) = {})'
  <1>1. (Members(f) # {})'
    BY MembersStay
  <1>2. ASSUME NEW t \in Live(f)' PROVE FALSE
    <2>1. PICK r \in Requests : CommitRotation(r) /\ held[r] = {f}
      BY <1>2, LiveGrows
    <2>2. /\ shown[r] \in Tokens /\ family[shown[r]] = f
          /\ revoked[shown[r]] = "no"
      BY <2>1, RotationAdds
    <2> QED
      BY <2>2 DEF Live, Members
  <1> QED
    BY <1>1, <1>2

\* The denylist bars only what is closed.
LEMMA DeniedStays == SessionInvariant /\ [Next]_vars => DeniedIsClosed'
  <1> SUFFICES ASSUME SessionInvariant, [Next]_vars, NEW f \in denied'
               PROVE  (Members(f) # {})' /\ (Live(f) = {})'
    BY DEF DeniedIsClosed
  <1>1. f \in Families
    BY TypeIsKept DEF TypeOK
  <1>2. CASE f \in denied
    BY <1>1, <1>2, DeadStays DEF SessionInvariant, DeniedIsClosed
  <1>3. ASSUME NEW r \in Requests, Deny(r), f \in deny[r]
        PROVE  Members(f) # {} /\ Live(f) = {}
    BY <1>3 DEF Deny, SessionInvariant, DenialsAreDue, HoldingsFollowSteps
  <1>4. \/ f \in denied
        \/ \E r \in Requests : Deny(r) /\ f \in deny[r]
    BY DEF Next, vars, Begin, RotateStep, RevokeStep, Login, Refresh,
       LockForRotation, RejectRevoked, RejectExpired, DetectReuse,
       RotateToken, CommitRotation, Logout, LogoutAll, ChangePassword,
       BeginRevocation, RevokeFamily, CommitRevocation, Deny, Answer,
       StatementFails, Crash, GraceEnds
  <1> QED
    BY <1>1, <1>2, <1>3, <1>4, DeadStays

\* What a step does to the token a request is inserting.
LEMMA FreshSteps ==
  ASSUME SessionInvariant, [Next]_vars, NEW q \in Requests
  PROVE  /\ \/ fresh'[q] \in {fresh[q], NoToken}
            \/ RotateToken(q) /\ fresh'[q] \in Unused
         /\ pc'[q] = "commit" /\ kind'[q] = "refresh" =>
               \/ RotateToken(q)
               \/ /\ pc[q] = "commit" /\ kind[q] = "refresh"
                  /\ fresh'[q] = fresh[q] /\ shown'[q] = shown[q]
  <1> DEFINE Leaves == /\ fresh'[q] \in {fresh[q], NoToken}
                       /\ pc'[q] = "commit" /\ kind'[q] = "refresh" =>
                             /\ pc[q] = "commit" /\ kind[q] = "refresh"
                             /\ fresh'[q] = fresh[q] /\ shown'[q] = shown[q]
  <1>0. TypeOK /\ HoldingsFollowSteps
    BY DEF SessionInvariant
  <1> USE DEF TypeOK, Goto, Tell, EndTransaction
  <1>1. ASSUME NEW r \in Requests, Login(r) \/ Refresh(r) PROVE Leaves
    BY <1>0, <1>1 DEF Login, Refresh
  <1>2. ASSUME NEW r \in Requests, LockForRotation(r) \/ RejectRevoked(r)
        PROVE  Leaves
    BY <1>0, <1>2 DEF LockForRotation, RejectRevoked
  <1>3. ASSUME NEW r \in Requests, RejectExpired(r) \/ DetectReuse(r)
        PROVE  Leaves
    BY <1>0, <1>3 DEF RejectExpired, DetectReuse
  <1>4. ASSUME NEW r \in Requests, r # q, RotateToken(r) PROVE Leaves
    BY <1>0, <1>4 DEF RotateToken
  <1>5. ASSUME RotateToken(q) PROVE fresh'[q] \in Unused
    BY <1>0, <1>5 DEF RotateToken, Drawn
  <1>6. ASSUME NEW r \in Requests, CommitRotation(r) PROVE Leaves
    BY <1>0, <1>6 DEF CommitRotation
  <1>7. ASSUME NEW r \in Requests, CommitRevocation(r) PROVE Leaves
    BY <1>0, <1>7 DEF CommitRevocation
  <1>8. ASSUME NEW r \in Requests, NEW k \in {"logout", "password_change"},
               NEW fs, NEW ds, BeginRevocation(r, k, fs, ds)
        PROVE  Leaves
    BY <1>0, <1>8 DEF BeginRevocation
  <1>9. ASSUME NEW r \in Requests, NEW f \in Families, RevokeFamily(r, f)
        PROVE  Leaves
    BY <1>0, <1>9 DEF RevokeFamily
  <1>10. ASSUME NEW r \in Requests, Deny(r) \/ Answer(r) PROVE Leaves
    BY <1>0, <1>10 DEF Deny, Answer, Forget
  <1>11. ASSUME NEW r \in Requests, StatementFails(r) \/ Crash(r)
         PROVE  Leaves
    BY <1>0, <1>11 DEF StatementFails, Crash, Forget
  <1>12. CASE UNCHANGED vars \/ \E t \in Tokens : GraceEnds(t)
    BY <1>12 DEF vars, GraceEnds
  <1> QED
    BY <1>1, <1>2, <1>3, <1>4, <1>5, <1>6, <1>7, <1>8, <1>9, <1>10, <1>11,
       <1>12, RevocationsBegin
       DEF Next, Begin, RotateStep, RevokeStep

\* A token has no past before its commit, nobody else draws it, and its
\* parent's row is locked: it is not revoked while a child is on its way.
LEMMA FreshStaysUnborn == SessionInvariant /\ [Next]_vars => FreshIsUnborn'
  <1> SUFFICES ASSUME SessionInvariant, [Next]_vars
               PROVE  FreshIsUnborn'
    OBVIOUS
  <1>0. TypeOK /\ FreshIsUnborn /\ HoldingsFollowSteps /\ TypeOK'
    BY TypeIsKept DEF SessionInvariant
  <1>1. ASSUME NEW t \in Tokens, ~Issued(t)'
        PROVE  revoked'[t] = "no" /\ rotated'[t] = "no"
    <2>1. ~Issued(t) /\ revoked[t] = "no" /\ rotated[t] = "no"
      BY <1>0, <1>1, MembersStay DEF FreshIsUnborn
    <2>2. ASSUME NEW r \in Requests, CommitRotation(r)
          PROVE  revoked'[t] = revoked[t] /\ rotated'[t] = rotated[t]
      <3>1. Issued(shown[r])
        BY <2>2 DEF SessionInvariant, HoldingsFollowSteps, CommitRotation
      <3> QED
        BY <1>0, <2>1, <2>2, <3>1 DEF CommitRotation, TypeOK
    <2>3. ASSUME NEW r \in Requests, CommitRevocation(r)
          PROVE  revoked'[t] = revoked[t] /\ rotated'[t] = rotated[t]
      <3>1. \A u \in rows[r] : Issued(u)
        BY <1>0, <2>3, RevocationCloses, NullsAssumption DEF TypeOK, Issued
      <3> QED
        BY <2>1, <2>3, <3>1, RevocationCloses
    <2>4. ASSUME NEW u \in Tokens, GraceEnds(u)
          PROVE  revoked'[t] = revoked[t] /\ rotated'[t] = rotated[t]
      BY <1>0, <2>1, <2>4 DEF GraceEnds, TypeOK
    <2> QED
      BY <1>0, <2>1, <2>2, <2>3, <2>4, TableSteps, LoginAdds
  <1>2. ASSUME NEW r \in Requests, fresh'[r] # NoToken
        PROVE  family'[fresh'[r]] = NoFamily
    <2>1. /\ fresh'[r] \in Tokens /\ family[fresh'[r]] = NoFamily
          /\ \/ fresh'[r] = fresh[r]
             \/ RotateToken(r) /\ fresh'[r] \in Unused
      BY <1>0, <1>2, FreshSteps DEF FreshIsUnborn, Unused, Issued, TypeOK
    <2>2. CASE RotateToken(r)
      BY <2>1, <2>2 DEF RotateToken, Issued
    <2>3. ASSUME fresh'[r] = fresh[r], NEW p \in Requests, Login(p)
          PROVE  family'[fresh[r]] = NoFamily
      <3>1. PICK t \in Tokens, f \in Families :
                t \in Unused /\ family' = [family EXCEPT ![t] = f]
        BY <1>0, <2>3, LoginAdds
      <3>2. fresh[r] # t
        BY <3>1 DEF Unused
      <3> QED
        BY <1>0, <2>1, <2>3, <3>1, <3>2 DEF TypeOK
    <2>4. ASSUME fresh'[r] = fresh[r], NEW p \in Requests, CommitRotation(p)
          PROVE  family'[fresh[r]] = NoFamily
      <3>1. fresh'[p] = NoToken
        BY <1>0, <2>4 DEF CommitRotation, EndTransaction, TypeOK
      <3>2. fresh[p] # fresh[r]
        BY <1>0, <1>2, <2>4, <3>1 DEF FreshIsUnborn
      <3> QED
        BY <1>0, <2>1, <2>4, <3>2, RotationAdds DEF TypeOK
    <2>5. fresh'[r] = fresh[r] => family'[fresh[r]] = NoFamily
      BY <2>1, <2>3, <2>4, TableSteps DEF CommitRevocation, GraceEnds
    <2> QED
      BY <2>1, <2>2, <2>5 DEF Issued
  <1>3. ASSUME NEW r \in Requests, NEW q \in Requests,
               fresh'[r] # NoToken, fresh'[q] = fresh'[r]
        PROVE  q = r
    <2>1. CASE fresh'[r] = fresh[r] /\ fresh'[q] = fresh[q]
      BY <1>0, <1>3, <2>1 DEF FreshIsUnborn
    <2>2. ASSUME NEW a \in Requests, NEW b \in Requests, a # b,
                 RotateToken(a), fresh'[a] \in Unused, fresh'[b] = fresh'[a]
          PROVE  FALSE
      <3>1. fresh'[b] = fresh[b]
        BY <1>0, <2>2 DEF RotateToken, TypeOK
      <3> QED
        BY <2>2, <3>1 DEF Unused
    <2> QED
      BY <1>3, <2>1, <2>2, FreshSteps
  <1>4. ASSUME NEW r \in Requests, pc'[r] = "commit", kind'[r] = "refresh"
        PROVE  fresh'[r] # NoToken /\ revoked'[shown'[r]] = "no"
    <2>1. CASE RotateToken(r)
      BY <1>0, <2>1, NullsAssumption DEF RotateToken, TypeOK
    <2>2. CASE /\ pc[r] = "commit" /\ kind[r] = "refresh"
               /\ fresh'[r] = fresh[r] /\ shown'[r] = shown[r]
      <3>1. /\ fresh[r] # NoToken /\ revoked[shown[r]] = "no"
            /\ shown[r] \in Tokens
        BY <1>0, <2>2 DEF FreshIsUnborn, HoldingsFollowSteps, Issued
      <3>2. ASSUME NEW p \in Requests, CommitRevocation(p)
            PROVE  revoked'[shown[r]] = "no"
        <4>1. p # r
          BY <2>2, <3>2 DEF CommitRevocation
        <4>2. shown[r] \notin rows[p]
          BY <3>1, <3>2, <4>1 DEF CommitRevocation, RowIsFree, Writes
        <4> QED
          BY <3>1, <3>2, <4>2, RevocationCloses
      <3>3. revoked'[shown[r]] = "no"
        BY <1>0, <3>1, <3>2, TableSteps, LoginAdds, RotationAdds
           DEF GraceEnds
      <3> QED
        BY <2>2, <3>1, <3>3
    <2> QED
      BY <1>4, <2>1, <2>2, FreshSteps
  <1> QED
    BY <1>1, <1>2, <1>3, <1>4 DEF FreshIsUnborn, Issued

\* What a step does to the families a request is to deny.
LEMMA DenySteps ==
  ASSUME SessionInvariant, [Next]_vars, NEW q \in Requests
  PROVE  \/ /\ pc'[q] = pc[q] /\ kind'[q] = kind[q] /\ deny'[q] = deny[q]
            /\ held'[q] \cup todo'[q] = held[q] \cup todo[q]
         \/ deny'[q] = {}
         \/ pc'[q] = "answer"
         \/ DetectReuse(q)
         \/ \E f \in Families : LogoutAll(q, f) \/ ChangePassword(q, f)
         \/ CommitRevocation(q) /\ pc'[q] = "deny" /\ deny'[q] = deny[q]
  <1> DEFINE Stays == /\ pc'[q] = pc[q] /\ kind'[q] = kind[q]
                      /\ deny'[q] = deny[q]
                      /\ held'[q] \cup todo'[q] = held[q] \cup todo[q]
             Ends == deny'[q] = {} \/ pc'[q] = "answer"
  <1>0. TypeOK /\ DenialsAreDue
    BY DEF SessionInvariant
  <1> USE DEF TypeOK, DenialsAreDue, Goto, Tell, EndTransaction
  <1>1. ASSUME NEW r \in Requests, Login(r) \/ Refresh(r) PROVE Stays \/ Ends
    BY <1>0, <1>1 DEF Login, Refresh
  <1>2. ASSUME NEW r \in Requests, LockForRotation(r) \/ RejectRevoked(r)
        PROVE  Stays \/ Ends
    BY <1>0, <1>2 DEF LockForRotation, RejectRevoked
  <1>3. ASSUME NEW r \in Requests, RejectExpired(r) \/ RotateToken(r)
        PROVE  Stays \/ Ends
    BY <1>0, <1>3 DEF RejectExpired, RotateToken, Rotating
  <1>4. ASSUME NEW r \in Requests, DetectReuse(r), r # q PROVE Stays
    BY <1>0, <1>4 DEF DetectReuse
  <1>5. ASSUME NEW r \in Requests, CommitRotation(r) PROVE Stays \/ Ends
    BY <1>0, <1>5 DEF CommitRotation
  <1>6. ASSUME NEW r \in Requests, Logout(r) PROVE Stays \/ Ends
    BY <1>0, <1>6 DEF Logout, BeginRevocation
  <1>7. ASSUME NEW r \in Requests, NEW f \in Families, r # q,
               LogoutAll(r, f) \/ ChangePassword(r, f)
        PROVE  Stays
    BY <1>0, <1>7 DEF LogoutAll, ChangePassword, BeginRevocation
  <1>8. ASSUME NEW r \in Requests, NEW f \in Families, RevokeFamily(r, f)
        PROVE  Stays
    BY <1>0, <1>8 DEF RevokeFamily, IsNext
  <1>9. ASSUME NEW r \in Requests, CommitRevocation(r)
        PROVE  \/ Stays \/ Ends
               \/ r = q /\ pc'[q] = "deny" /\ deny'[q] = deny[q]
    BY <1>0, <1>9 DEF CommitRevocation
  <1>10. ASSUME NEW r \in Requests, Deny(r) \/ Answer(r) PROVE Stays \/ Ends
    BY <1>0, <1>10 DEF Deny, Answer, Forget
  <1>11. ASSUME NEW r \in Requests, StatementFails(r) \/ Crash(r)
         PROVE  Stays \/ Ends
    BY <1>0, <1>11 DEF StatementFails, Crash, Forget
  <1>12. CASE UNCHANGED vars \/ \E t \in Tokens : GraceEnds(t)
    BY <1>12 DEF vars, GraceEnds
  <1> QED
    BY <1>1, <1>2, <1>3, <1>4, <1>5, <1>6, <1>7, <1>8, <1>9, <1>10, <1>11,
       <1>12
       DEF Next, Begin, RotateStep, RevokeStep

\* What a request is to deny once it has committed is closed by then.
LEMMA DenialsStayDue == SessionInvariant /\ [Next]_vars => DenialsAreDue'
  <1> DEFINE Due(q) ==
        /\ pc[q] \in {"idle", "find", "rotate"} => deny[q] = {}
        /\ pc[q] = "commit" /\ kind[q] # "reuse_detected" => deny[q] = {}
        /\ pc[q] \in {"revoke", "commit", "deny"} =>
               \A f \in deny[q] :
                   /\ Members(f) # {}
                   /\ Live(f) = {} \/ f \in held[q] \cup todo[q]
  <1> SUFFICES ASSUME SessionInvariant, [Next]_vars, NEW q \in Requests
               PROVE  Due(q)'
    BY DEF DenialsAreDue
  <1>0. /\ TypeOK /\ TypeOK' /\ HoldingsFollowSteps /\ WritesAreLocked
        /\ Due(q)
    BY TypeIsKept DEF SessionInvariant, DenialsAreDue
  <1>1. CASE /\ pc'[q] = pc[q] /\ kind'[q] = kind[q] /\ deny'[q] = deny[q]
             /\ held'[q] \cup todo'[q] = held[q] \cup todo[q]
    <2>1. ASSUME NEW f \in deny[q], pc[q] \in {"revoke", "commit", "deny"}
          PROVE  /\ (Members(f) # {})'
                 /\ (Live(f) = {})' \/ f \in held'[q] \cup todo'[q]
      <3>1. f \in Families /\ Members(f) # {}
        BY <1>0, <2>1 DEF TypeOK
      <3>2. Live(f) = {} \/ f \in held[q] \cup todo[q]
        BY <1>0, <2>1
      <3> QED
        BY <1>1, <3>1, <3>2, DeadStays, MembersStay
    <2> QED
      BY <1>0, <1>1, <2>1
  <1>2. CASE deny'[q] = {} \/ pc'[q] = "answer"
    BY <1>2
  <1>3. CASE DetectReuse(q)
    <2>1. /\ pc'[q] = "commit" /\ kind'[q] = "reuse_detected"
          /\ deny'[q] = {family[shown[q]]}
          /\ held'[q] = {family[shown[q]]}
          /\ Issued(shown[q]) /\ UNCHANGED family
      BY <1>0, <1>3 DEF DetectReuse, Rotating, TypeOK, HoldingsFollowSteps,
         Goto
    <2>2. (Members(family[shown[q]]) # {})'
      <3>1. Members(family[shown[q]]) # {}
        BY <2>1 DEF Issued, Members
      <3>2. family[shown[q]] \in Families
        BY <1>0, <2>1 DEF TypeOK, Issued
      <3>3. (\A f \in Families : Members(f)' = Members(f))
        BY <2>1 DEF Members
      <3>4. family'[shown'[q]] = family[shown[q]]
        BY <1>3, <2>1 DEF DetectReuse
      <3> QED
        BY <3>1, <3>2, <3>3, <3>4, <2>1
    <2> QED
      BY <2>1, <2>2, <1>3 DEF DetectReuse
  <1>4. ASSUME NEW g \in Families, LogoutAll(q, g) \/ ChangePassword(q, g)
        PROVE  Due(q)'
    <2>1. /\ pc'[q] = "revoke"
          /\ UNCHANGED <<family, revoked>>
          /\ \A f \in deny'[q] : f \in LiveFamilies \/ f = g
          /\ \A f \in deny'[q] \cap LiveFamilies : f \in todo'[q]
          /\ Members(g) # {}
      BY <1>0, <1>4 DEF LogoutAll, ChangePassword, BeginRevocation, TypeOK,
         Goto, Session, LiveFamilies
    <2>2. \A f \in Families : f \notin LiveFamilies => Live(f) = {}
      BY DEF LiveFamilies
    <2>3. \A f \in LiveFamilies : Members(f) # {}
      BY DEF LiveFamilies, Live
    <2>4. \A f : Members(f)' = Members(f) /\ Live(f)' = Live(f)
      BY <2>1 DEF Members, Live
    <2> QED
      BY <2>1, <2>2, <2>3, <2>4
  <1>5. CASE CommitRevocation(q) /\ pc'[q] = "deny" /\ deny'[q] = deny[q]
    <2>1. pc[q] \in {"revoke", "commit"} /\ UNCHANGED family
      BY <1>5 DEF CommitRevocation
    <2>2. ASSUME NEW f \in deny[q]
          PROVE  (Members(f) # {})' /\ (Live(f) = {})'
      <3>1. f \in Families /\ Members(f) # {}
        BY <1>0, <2>1, <2>2 DEF TypeOK
      <3>2. CASE Live(f) = {}
        BY <3>1, <3>2, DeadStays
      <3>3. CASE f \in held[q] \cup todo[q]
        <4>1. ClosesFamilies(q)
          BY <1>0, <1>5, <2>2, RevocationCloses
        <4>2. f \in held[q]
          BY <1>5, <3>3, RevocationCloses
        <4>3. Live(f) \subseteq rows[q]
          BY <1>0, <4>1, <4>2 DEF WritesAreLocked
        <4>4. ASSUME NEW t \in Live(f)' PROVE FALSE
          <5>1. t \in Tokens /\ family[t] = f /\ revoked'[t] = "no"
            BY <2>1, <4>4 DEF Live, Members
          <5>2. t \in rows[q]
            BY <1>5, <4>3, <5>1, RevocationCloses DEF Live, Members
          <5> QED
            BY <1>5, <5>1, <5>2, RevocationCloses
        <4> QED
          BY <3>1, <4>4, MembersStay
      <3> QED
        BY <1>0, <2>1, <2>2, <3>2, <3>3
    <2> QED
      BY <1>5, <2>2
  <1> QED
    BY <1>1, <1>2, <1>3, <1>4, <1>5, DenySteps

\* What a step does to the cookie and to what requests show.
LEMMA CookieSteps ==
  ASSUME TypeOK, [Next]_vars
  PROVE  /\ \A q \in Requests : shown'[q] \in {shown[q], NoToken, cookie}
         /\ \/ cookie' = cookie
            \/ \E q \in Requests : Answer(q) /\ cookie' = answer[q]
  <1>1. \A q \in Requests : shown'[q] \in {shown[q], NoToken, cookie}
    BY DEF TypeOK, Next, vars, Begin, RotateStep, RevokeStep, Login,
       Refresh, LockForRotation, RejectRevoked, RejectExpired, DetectReuse,
       RotateToken, CommitRotation, Logout, LogoutAll, ChangePassword,
       BeginRevocation, RevokeFamily, CommitRevocation, Deny, Answer, Forget,
       StatementFails, Crash, GraceEnds
  <1>2. \/ cookie' = cookie
        \/ \E q \in Requests : Answer(q) /\ cookie' = answer[q]
    BY DEF Next, vars, Begin, RotateStep, RevokeStep, Login,
       Refresh, LockForRotation, RejectRevoked, RejectExpired, DetectReuse,
       RotateToken, CommitRotation, Logout, LogoutAll, ChangePassword,
       BeginRevocation, RevokeFamily, CommitRevocation, Deny, Answer,
       StatementFails, Crash, GraceEnds
  <1> QED
    BY <1>1, <1>2

\* Browsers show, and answers carry, tokens whose insertion is committed.
LEMMA CookiesStayIssued == SessionInvariant /\ [Next]_vars => CookiesAreIssued'
  <1> SUFFICES ASSUME SessionInvariant, [Next]_vars
               PROVE  CookiesAreIssued'
    OBVIOUS
  <1>0. TypeOK /\ TypeOK' /\ CookiesAreIssued
    BY TypeIsKept DEF SessionInvariant
  <1>1. \A t \in Tokens : family[t] # NoFamily => family'[t] # NoFamily
    BY MembersStay DEF Issued
  <1>2. \A q \in Requests : shown'[q] \in {shown[q], NoToken, cookie}
    BY <1>0, CookieSteps
  <1>3. \/ cookie' = cookie
        \/ \E q \in Requests : cookie' = answer[q]
    BY <1>0, CookieSteps
  <1>4. ASSUME NEW r \in Requests, Login(r), NEW q \in Requests,
               answer'[q] \in Tokens, answer'[q] # answer[q]
        PROVE  family'[answer'[q]] # NoFamily
    <2>1. PICK t \in Tokens, f \in Families :
             /\ family' = [family EXCEPT ![t] = f]
             /\ answer' = [answer EXCEPT ![r] = t]
      BY <1>0, <1>4, LoginAdds
    <2>2. answer'[q] = t
      BY <1>0, <1>4, <2>1 DEF TypeOK
    <2>3. family'[t] = f
      BY <1>0, <2>1 DEF TypeOK
    <2> QED
      BY <2>2, <2>3, NullsAssumption
  <1>5. ASSUME NEW r \in Requests, CommitRotation(r), NEW q \in Requests,
               answer'[q] \in Tokens, answer'[q] # answer[q]
        PROVE  family'[answer'[q]] # NoFamily
    <2>1. answer'[q] = fresh[r]
      BY <1>0, <1>5 DEF CommitRotation, HandOut, Tell, TypeOK
    <2>2. /\ fresh[r] \in Tokens /\ family[shown[r]] \in Families
          /\ family' = [family EXCEPT ![fresh[r]] = family[shown[r]]]
      BY <1>5, RotationAdds
    <2>3. family'[fresh[r]] = family[shown[r]]
      BY <1>0, <2>2 DEF TypeOK
    <2> QED
      BY <2>1, <2>2, <2>3, NullsAssumption
  <1>6. \/ \A q \in Requests : answer'[q] \in {answer[q], NoToken, NoChange}
        \/ \E r \in Requests : Login(r) \/ CommitRotation(r)
    BY <1>0 DEF TypeOK, Next, vars, Begin, RotateStep, RevokeStep,
       Refresh, LockForRotation, RejectRevoked, RejectExpired, DetectReuse,
       RotateToken, Logout, LogoutAll, ChangePassword, BeginRevocation,
       RevokeFamily, CommitRevocation, Deny, Answer, Forget, StatementFails,
       Crash, GraceEnds, Tell
  <1>7. \A q \in Requests : answer'[q] \in Tokens =>
              family'[answer'[q]] # NoFamily
    BY <1>0, <1>1, <1>4, <1>5, <1>6, NullsAssumption
       DEF CookiesAreIssued, Issued
  <1>8. \A q \in Requests : shown'[q] # NoToken =>
              shown'[q] \in Tokens /\ family'[shown'[q]] # NoFamily
    BY <1>0, <1>1, <1>2 DEF CookiesAreIssued, Issued
  <1>9. cookie' # NoToken => cookie' \in Tokens /\ family'[cookie'] # NoFamily
    BY <1>0, <1>1, <1>3 DEF CookiesAreIssued, Issued, TypeOK
  <1> QED
    BY <1>7, <1>8, <1>9 DEF CookiesAreIssued, Issued

\* Everything Sessions keeps true at all times: the locks, the writes made
\* under them, and what they are for.
THEOREM SessionInvariantHolds == Spec => []SessionInvariant
  <1>1. Init => SessionInvariant
    BY InvariantAtInit
  <1>2. SessionInvariant /\ [Next]_vars => SessionInvariant'
    BY TypeIsKept, FamiliesStayHeldByOne, HoldingsStayInStep,
       WorkedOnKeepMembers, WritesStayLocked, FreshStaysUnborn,
       DenialsStayDue, CookiesStayIssued, ClosedStays, DeniedStays
       DEF SessionInvariant
  <1> QED
    BY <1>1, <1>2, PTL DEF Spec

\* Whatever rotations, logouts and changes of password interleave, a family
\* that was closed has no live token left.
THEOREM ClosedForGoodHolds == Spec => []ClosedForGood
  <1>1. SessionInvariant => ClosedForGood
    BY DEF SessionInvariant
  <1> QED
    BY <1>1, SessionInvariantHolds, PTL

\* A session is barred only if its revocation was committed.
THEOREM DeniedIsClosedHolds == Spec => []DeniedIsClosed
  <1>1. SessionInvariant => DeniedIsClosed
    BY DEF SessionInvariant
  <1> QED
    BY <1>1, SessionInvariantHolds, PTL

(***************************************************************************)
(* Requests that are answered in time                                      *)
(***************************************************************************)
\* A login or a rotation answers with a token nobody has seen.
LEMMA AnswersHandOutNew ==
  ASSUME SessionInvariant, NEW r \in Requests, Login(r) \/ CommitRotation(r)
  PROVE  /\ answer'[r] \in Tokens /\ family[answer'[r]] = NoFamily
         /\ rotated'[answer'[r]] = "no"
         /\ pc'[r] = "answer"
         /\ UNCHANGED <<cookie, shown>>
         /\ \A q \in Requests \ {r} : answer'[q] = answer[q]
  <1>0. TypeOK /\ FreshIsUnborn
    BY DEF SessionInvariant
  <1>1. CASE Login(r)
    <2>1. PICK t \in Tokens, f \in Families :
             /\ family[t] = NoFamily
             /\ answer' = [answer EXCEPT ![r] = t]
             /\ UNCHANGED rotated
      BY <1>0, <1>1, LoginAdds
    <2>2. rotated[t] = "no"
      BY <1>0, <2>1 DEF FreshIsUnborn, Issued
    <2>3. pc'[r] = "answer" /\ UNCHANGED <<cookie, shown>>
      BY <1>0, <1>1 DEF Login, Goto, TypeOK
    <2> QED
      BY <1>0, <2>1, <2>2, <2>3 DEF TypeOK
  <1>2. CASE CommitRotation(r)
    <2>1. /\ fresh[r] \in Tokens /\ family[fresh[r]] = NoFamily
          /\ rotated[fresh[r]] = "no"
          /\ shown[r] \in Tokens /\ family[shown[r]] # NoFamily
      BY <1>2, RotationAdds, NullsAssumption
    <2>2. rotated'[fresh[r]] = "no"
      BY <1>0, <1>2, <2>1 DEF CommitRotation, TypeOK
    <2>3. answer' = [answer EXCEPT ![r] = fresh[r]]
      BY <1>2 DEF CommitRotation, HandOut, Tell
    <2>4. pc'[r] = "answer" /\ UNCHANGED <<cookie, shown>>
      BY <1>0, <1>2 DEF CommitRotation, Goto, TypeOK
    <2> QED
      BY <1>0, <2>1, <2>2, <2>3, <2>4 DEF TypeOK
  <1> QED
    BY <1>1, <1>2

\* An answer with a token in it is delivered, unless the process dies.
LEMMA PendingSteps ==
  ASSUME TypeOK, AnswersAreNew, "crash" \notin Faults,
         [Next]_vars, NEW q \in Requests
  PROVE  \/ /\ answer'[q] \in {NoToken, NoChange}
            /\ answer[q] \in Tokens => Answer(q)
         \/ /\ answer'[q] = answer[q]
            /\ answer[q] \in Tokens => pc'[q] = pc[q] /\ shown'[q] = shown[q]
         \/ Login(q) \/ CommitRotation(q)
  <1> DEFINE Empties == /\ answer'[q] \in {NoToken, NoChange}
                        /\ answer[q] \in Tokens => Answer(q)
             Stays == /\ answer'[q] = answer[q]
                      /\ answer[q] \in Tokens =>
                            pc'[q] = pc[q] /\ shown'[q] = shown[q]
  <1>0. answer[q] \in Tokens => pc[q] = "answer"
    BY DEF AnswersAreNew
  <1> USE DEF TypeOK, Goto, Tell, EndTransaction
  <1>1. ASSUME NEW r \in Requests, r # q, Login(r) \/ CommitRotation(r)
        PROVE  Stays
    BY <1>0, <1>1 DEF Login, CommitRotation, HandOut
  <1>2. ASSUME NEW r \in Requests, Refresh(r) PROVE Stays
    BY <1>0, <1>2 DEF Refresh
  <1>3. ASSUME NEW r \in Requests,
               LockForRotation(r) \/ RejectExpired(r) \/ DetectReuse(r)
               \/ RotateToken(r)
        PROVE  Stays
    BY <1>0, <1>3 DEF LockForRotation, RejectExpired, DetectReuse,
       RotateToken, Rotating
  <1>4. ASSUME NEW r \in Requests, RejectRevoked(r) \/ StatementFails(r)
        PROVE  Empties \/ Stays
    BY <1>0, <1>4 DEF RejectRevoked, Rotating, StatementFails
  <1>5. ASSUME NEW r \in Requests, CommitRevocation(r) PROVE Empties \/ Stays
    BY <1>0, <1>5 DEF CommitRevocation
  <1>6. ASSUME NEW r \in Requests, NEW k \in {"logout", "password_change"},
               NEW fs, NEW ds, BeginRevocation(r, k, fs, ds)
        PROVE  Stays
    BY <1>0, <1>6 DEF BeginRevocation
  <1>7. ASSUME NEW r \in Requests, NEW f \in Families, RevokeFamily(r, f)
        PROVE  Stays
    BY <1>0, <1>7 DEF RevokeFamily
  <1>8. ASSUME NEW r \in Requests, Deny(r) PROVE Stays
    BY <1>0, <1>8 DEF Deny
  <1>9. ASSUME NEW r \in Requests, Answer(r) PROVE Empties \/ Stays
    <2>1. /\ answer' = [answer EXCEPT ![r] = NoChange]
          /\ pc' = [pc EXCEPT ![r] = "idle"]
          /\ shown' = [shown EXCEPT ![r] = NoToken]
      BY <1>9 DEF Answer, Forget
    <2> QED
      BY <1>0, <1>9, <2>1
  <1>10. CASE UNCHANGED vars \/ \E t \in Tokens : GraceEnds(t)
    BY <1>10 DEF vars, GraceEnds
  <1> QED
    BY <1>1, <1>2, <1>3, <1>4, <1>5, <1>6, <1>7, <1>8, <1>9, <1>10,
       RevocationsBegin
       DEF Next, Begin, RotateStep, RevokeStep, Crash

\* What a step does to rotated_at.
LEMMA RotatedSteps ==
  ASSUME SessionInvariant, [Next]_vars, NEW t \in Tokens
  PROVE  \/ rotated'[t] = rotated[t]
         \/ /\ rotated[t] = "no" /\ rotated'[t] = "grace"
            /\ \E r \in Requests : CommitRotation(r) /\ shown[r] = t
         \/ GraceEnds(t) /\ rotated'[t] = "past"
  <1>0. TypeOK
    BY DEF SessionInvariant
  <1>1. ASSUME NEW r \in Requests, CommitRotation(r), rotated'[t] # rotated[t]
        PROVE  /\ rotated[t] = "no" /\ rotated'[t] = "grace"
               /\ shown[r] = t
    BY <1>0, <1>1 DEF CommitRotation, TypeOK
  <1>2. ASSUME NEW u \in Tokens, GraceEnds(u), rotated'[t] # rotated[t]
        PROVE  t = u /\ rotated'[t] = "past"
    BY <1>0, <1>2 DEF GraceEnds, TypeOK
  <1> QED
    BY <1>0, <1>1, <1>2, TableSteps, LoginAdds, RevocationCloses

\* A token is revoked once and for all.
LEMMA RevokedStays ==
  ASSUME SessionInvariant, [Next]_vars, NEW t \in Tokens, revoked[t] # "no"
  PROVE  revoked'[t] = revoked[t]
  BY TableSteps, LoginAdds, RotationAdds, RevocationCloses
     DEF GraceEnds, SessionInvariant

\* The token an answer carries stays its own and unused.
LEMMA AnswersStayNew ==
  ASSUME SessionInvariant, AnswersAreNew, "crash" \notin Faults, [Next]_vars
  PROVE  AnswersAreNew'
  <1> SUFFICES ASSUME NEW r \in Requests, answer'[r] \in Tokens
               PROVE  /\ pc'[r] = "answer"
                      /\ rotated'[answer'[r]] = "no"
                      /\ answer'[r] # cookie'
                      /\ \A q \in Requests :
                            /\ shown'[q] # answer'[r]
                            /\ answer'[q] = answer'[r] => q = r
    BY DEF AnswersAreNew
  <1>0. TypeOK /\ CookiesAreIssued
    BY DEF SessionInvariant
  <1>1. CASE Login(r) \/ CommitRotation(r)
    <2>1. /\ family[answer'[r]] = NoFamily
          /\ rotated'[answer'[r]] = "no" /\ pc'[r] = "answer"
          /\ UNCHANGED <<cookie, shown>>
          /\ \A q \in Requests \ {r} : answer'[q] = answer[q]
      BY <1>1, AnswersHandOutNew
    <2>2. /\ cookie # answer'[r]
          /\ \A q \in Requests :
                shown[q] # answer'[r] /\ answer[q] # answer'[r]
      BY <1>0, <2>1, NullsAssumption DEF CookiesAreIssued, Issued, TypeOK
    <2> QED
      BY <2>1, <2>2
  <1>2. CASE ~(Login(r) \/ CommitRotation(r))
    <2>1. answer'[r] = answer[r] /\ answer[r] \in Tokens /\ pc'[r] = pc[r]
      BY <1>0, <1>2, PendingSteps, NullsAssumption
    <2>2. /\ pc[r] = "answer" /\ rotated[answer[r]] = "no"
          /\ answer[r] # cookie
          /\ \A q \in Requests :
                /\ shown[q] # answer[r]
                /\ answer[q] = answer[r] => q = r
      BY <2>1 DEF AnswersAreNew
    <2>3. rotated'[answer[r]] = "no"
      BY <2>1, <2>2, RotatedSteps DEF GraceEnds
    <2>4. \A q \in Requests : shown'[q] # answer[r]
      BY <1>0, <2>1, <2>2, CookieSteps, NullsAssumption
    <2>5. cookie' # answer[r]
      <3>1. ~Answer(r)
        BY <1>0, <2>1, NullsAssumption DEF Answer, Forget, Tell, TypeOK
      <3> QED
        BY <1>0, <2>2, <3>1, CookieSteps
    <2>6. ASSUME NEW q \in Requests, q # r, answer'[q] = answer[r]
          PROVE  FALSE
      <3>1. answer[q] # answer[r]
        BY <2>2, <2>6
      <3>2. Login(q) \/ CommitRotation(q)
        BY <1>0, <2>1, <2>6, <3>1, PendingSteps, NullsAssumption
      <3>3. family[answer[r]] = NoFamily
        BY <2>6, <3>2, AnswersHandOutNew
      <3> QED
        BY <1>0, <2>1, <3>3 DEF CookiesAreIssued, Issued
    <2> QED
      BY <2>1, <2>2, <2>3, <2>4, <2>5, <2>6
  <1> QED
    BY <1>1, <1>2

\* When the cookie's token is rotated, its child is on the way to the browser.
LEMMA CookieStaysReplaced ==
  ASSUME SessionInvariant, AnswersAreNew, CookieIsReplaced,
         "crash" \notin Faults, [Next]_vars,
         cookie' # NoToken, rotated'[cookie'] # "no", revoked'[cookie'] = "no"
  PROVE  \E r \in Requests : shown'[r] = cookie' /\ answer'[r] \in Tokens
  <1>0. TypeOK /\ TypeOK'
    BY TypeIsKept DEF SessionInvariant
  <1>1. cookie' \in Tokens /\ revoked[cookie'] = "no"
    BY <1>0, RevokedStays DEF TypeOK
  <1>2. CASE \E r \in Requests : CommitRotation(r) /\ shown[r] = cookie'
    BY <1>2, AnswersHandOutNew
  <1>3. CASE ~\E r \in Requests : CommitRotation(r) /\ shown[r] = cookie'
    <2>1. rotated[cookie'] # "no"
      BY <1>1, <1>3, RotatedSteps DEF GraceEnds
    <2>2. cookie' = cookie
      BY <1>0, <1>1, <2>1, CookieSteps DEF AnswersAreNew
    <2>3. PICK r \in Requests : shown[r] = cookie /\ answer[r] \in Tokens
      BY <1>1, <2>1, <2>2 DEF CookieIsReplaced
    <2>4. ~Answer(r)
      BY <2>2, <2>3, NullsAssumption DEF Answer, AnswersAreNew
    <2>5. ~Login(r) /\ ~CommitRotation(r)
      BY <2>3 DEF Login, CommitRotation, AnswersAreNew
    <2>6. answer'[r] = answer[r] /\ shown'[r] = shown[r]
      BY <1>0, <2>3, <2>4, <2>5, PendingSteps
    <2> QED
      BY <2>2, <2>3, <2>6
  <1> QED
    BY <1>2, <1>3

\* A token whose grace period is over has left the browser.
LEMMA PastStaysUnshown ==
  ASSUME SessionInvariant, AnswersAreNew, CookieIsReplaced,
         PastIsShownByNobody, "late" \notin Faults, [Next]_vars,
         NEW t \in Tokens, rotated'[t] = "past", revoked'[t] = "no"
  PROVE  t # cookie' /\ \A r \in Requests : shown'[r] # t
  <1>0. TypeOK
    BY DEF SessionInvariant
  <1>1. revoked[t] = "no"
    BY RevokedStays
  <1>2. t # cookie /\ \A r \in Requests : shown[r] # t
    <2>1. CASE rotated[t] = "past"
      BY <1>1, <2>1 DEF PastIsShownByNobody
    <2>2. CASE GraceEnds(t)
      BY <1>1, <2>2, NullsAssumption DEF GraceEnds, CookieIsReplaced
    <2> QED
      BY <2>1, <2>2, RotatedSteps
  <1>3. rotated[t] # "no"
    BY RotatedSteps DEF GraceEnds
  <1> QED
    BY <1>0, <1>2, <1>3, CookieSteps, NullsAssumption DEF AnswersAreNew

\* A request finds a reuse only if the token it shows is past its grace.
LEMMA KindSteps ==
  ASSUME SessionInvariant, PastIsShownByNobody, [Next]_vars,
         NEW q \in Requests, kind'[q] = "reuse_detected"
  PROVE  kind[q] = "reuse_detected"
  <1>0. TypeOK
    BY DEF SessionInvariant
  <1>1. ASSUME NEW r \in Requests, DetectReuse(r) PROVE FALSE
    BY <1>1 DEF DetectReuse, Rotating, Reused, PastIsShownByNobody,
       SessionInvariant, HoldingsFollowSteps, Issued
  <1> QED
    BY <1>0, <1>1 DEF TypeOK, Next, vars, Begin, RotateStep, RevokeStep,
       Login, Refresh, LockForRotation, RejectRevoked, RejectExpired,
       RotateToken, CommitRotation, Logout, LogoutAll, ChangePassword,
       BeginRevocation, RevokeFamily, CommitRevocation, Deny, Answer, Forget,
       StatementFails, Crash, GraceEnds

\* With requests that are answered in time, a token that is past its grace is
\* shown by nobody: none is revoked as stolen.
THEOREM InTimeInvariantHolds == Spec => []InTimeInvariant
  <1>1. Init => InTimeInvariant
    BY InvariantAtInit
  <1>2. SessionInvariant /\ InTimeInvariant /\ [Next]_vars => InTimeInvariant'
    <2> SUFFICES ASSUME SessionInvariant, InTimeInvariant, [Next]_vars,
                        Faults \cap {"crash", "late"} = {}
                 PROVE  /\ AnswersAreNew' /\ CookieIsReplaced'
                        /\ PastIsShownByNobody' /\ NoFalseReuse'
                        /\ \A r \in Requests : kind'[r] # "reuse_detected"
      BY DEF InTimeInvariant
    <2>0. /\ "crash" \notin Faults /\ "late" \notin Faults
          /\ AnswersAreNew /\ CookieIsReplaced /\ PastIsShownByNobody
          /\ NoFalseReuse
          /\ \A r \in Requests : kind[r] # "reuse_detected"
      BY DEF InTimeInvariant
    <2>1. AnswersAreNew'
      BY <2>0, AnswersStayNew
    <2>2. CookieIsReplaced'
      BY <2>0, CookieStaysReplaced DEF CookieIsReplaced
    <2>3. PastIsShownByNobody'
      BY <2>0, PastStaysUnshown DEF PastIsShownByNobody
    <2>4. \A r \in Requests : kind'[r] # "reuse_detected"
      BY <2>0, KindSteps
    <2>5. NoFalseReuse'
      <3>1. ASSUME NEW r \in Requests, CommitRevocation(r),
                   NEW t \in Tokens
            PROVE  revoked'[t] # "reuse_detected"
        BY <2>0, <3>1 DEF CommitRevocation, Reason, NoFalseReuse
      <3>2. UNCHANGED revoked => NoFalseReuse'
        BY <2>0 DEF NoFalseReuse
      <3> QED
        BY <3>1, <3>2, TableSteps, LoginAdds, RotationAdds
           DEF NoFalseReuse, GraceEnds, SessionInvariant
    <2> QED
      BY <2>1, <2>2, <2>3, <2>4, <2>5
  <1> QED
    BY <1>1, <1>2, SessionInvariantHolds, PTL DEF Spec

\* Tabs that refresh at once never pass for a theft, as long as the grace
\* period outlasts their requests and no answer is lost.
THEOREM NoFalseReuseHolds ==
  ASSUME Faults \cap {"crash", "late"} = {}
  PROVE  Spec => []NoFalseReuse
  <1>1. InTimeInvariant => NoFalseReuse
    BY DEF InTimeInvariant
  <1> QED
    BY <1>1, InTimeInvariantHolds, PTL
=============================================================================
