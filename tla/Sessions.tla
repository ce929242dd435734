------------------------------ MODULE Sessions ------------------------------
(***************************************************************************)
(* The sessions of one user: login opens a family of refresh tokens, each  *)
(* refresh rotates the token in the browser's cookie, and logout,          *)
(* logout-all, a change of password or a reused token closes families.     *)
(*                                                                         *)
(* RefreshTokenService and AuthService run these as Postgres transactions; *)
(* one action is one statement that waits for a lock or decides something, *)
(* one commit, or one answer.  A transaction writes when it commits.  The  *)
(* browser (external) has one cookie for all its tabs.  Access tokens and  *)
(* passwords are left out: whoever may call logout-all or change the       *)
(* password does.                                                          *)
(***************************************************************************)
EXTENDS Integers, FiniteSets

CONSTANTS
    Families,           \* family ids, in the order Postgres sorts them
    NoFamily,
    Tokens,             \* refresh tokens that can be drawn
    NoToken,
    NoChange,           \* an answer that leaves the cookie alone
    Requests,           \* requests the API can be serving at once
    Faults              \* the kinds of fault this instance admits

FaultKinds ==
    {"db",              \* a statement fails, the transaction rolls back
     "crash",           \* an API process dies, or its answer is lost
     "redis",           \* the denylist cannot be read, or not written in full
     "late",            \* the grace period ends under a request on its way
     "expiry"}          \* a token is shown after its 30 days

ASSUME FamiliesAssumption == Families \subseteq Int

ASSUME NullsAssumption ==
    /\ NoFamily \notin Families
    /\ NoToken \notin Tokens
    /\ NoChange \notin Tokens \cup {NoToken}

ASSUME FaultsAssumption == Faults \subseteq FaultKinds

VARIABLES
    family,             \* refresh_tokens.family_id of the committed rows
    rotated,            \* rotated_at: not set, within the grace period, past it
    revoked,            \* revoked_reason, "no" while revoked_at IS NULL;
                        \* "closed" is 'logout' or 'password_change'
    denied,             \* Redis: families in the denylist
    cookie,             \* the browser's cb_refresh
    pc,                 \* per request: its next step
    kind,               \* what it is doing
    shown,              \* the cookie it came with
    held,               \* advisory locks of families (lockFamily)
    todo,               \* families it has yet to revoke
    rows,               \* rows it has updated with revoked_at, uncommitted
    fresh,              \* the token it has inserted, uncommitted
    deny,               \* families to put in the denylist after the commit
    answer              \* what its answer does to the cookie

tableVars == <<family, rotated, revoked>>
requestVars == <<pc, kind, shown, held, todo, rows, fresh, deny, answer>>
vars == <<tableVars, denied, cookie, requestVars>>

(***************************************************************************)
(* Records                                                                 *)
(***************************************************************************)
Steps == {"idle", "find", "rotate", "revoke", "commit", "deny", "answer"}
Reasons == {"no", "closed", "reuse_detected", "expired"}

\* A rotation that finds its token expired or reused becomes one of the two.
Refreshes == {"refresh", "expired", "reuse_detected"}
Kinds == {"none", "login", "logout", "password_change"} \cup Refreshes

TypeOK ==
    /\ family \in [Tokens -> Families \cup {NoFamily}]
    /\ rotated \in [Tokens -> {"no", "grace", "past"}]
    /\ revoked \in [Tokens -> Reasons]
    /\ denied \in SUBSET Families
    /\ cookie \in Tokens \cup {NoToken}
    /\ pc \in [Requests -> Steps]
    /\ kind \in [Requests -> Kinds]
    /\ shown \in [Requests -> Tokens \cup {NoToken}]
    /\ held \in [Requests -> SUBSET Families]
    /\ todo \in [Requests -> SUBSET Families]
    /\ rows \in [Requests -> SUBSET Tokens]
    /\ fresh \in [Requests -> Tokens \cup {NoToken}]
    /\ deny \in [Requests -> SUBSET Families]
    /\ answer \in [Requests -> Tokens \cup {NoToken, NoChange}]

Init ==
    /\ family = [t \in Tokens |-> NoFamily]
    /\ rotated = [t \in Tokens |-> "no"]
    /\ revoked = [t \in Tokens |-> "no"]
    /\ denied = {}
    /\ cookie = NoToken
    /\ pc = [r \in Requests |-> "idle"]
    /\ kind = [r \in Requests |-> "none"]
    /\ shown = [r \in Requests |-> NoToken]
    /\ held = [r \in Requests |-> {}]
    /\ todo = [r \in Requests |-> {}]
    /\ rows = [r \in Requests |-> {}]
    /\ fresh = [r \in Requests |-> NoToken]
    /\ deny = [r \in Requests |-> {}]
    /\ answer = [r \in Requests |-> NoChange]

(***************************************************************************)
(* Shared by the handlers                                                  *)
(***************************************************************************)
Issued(t) == t \in Tokens /\ family[t] # NoFamily
Members(f) == {t \in Tokens : family[t] = f}
Live(f) == {t \in Members(f) : revoked[t] = "no"}
LiveFamilies == {f \in Families : Live(f) # {}}

\* A random token nobody has drawn yet.
Unused == {t \in Tokens : /\ ~Issued(t)
                          /\ \A q \in Requests : fresh[q] # t}

\* Which one does not matter.
Drawn(t) == t \in Unused /\ t = CHOOSE u \in Unused : TRUE

\* BOUND: a request is admitted while there is a token left for it to draw.
TokensLeft ==
    Cardinality(Unused) >
        Cardinality({q \in Requests : pc[q] \in {"find", "rotate"}})

FamilyIsIgnored(f, r) == TRUE

\* pg_advisory_xact_lock: held until the transaction ends.
FamilyIsFree(f, r) == \A q \in Requests \ {r} : f \notin held[q]

\* Row locks: rows a transaction has written and not committed.
Writes(q) == rows[q] \cup (IF fresh[q] = NoToken THEN {} ELSE {shown[q]})
RowIsFree(t, r) == \A q \in Requests \ {r} : t \notin Writes(q)

Goto(r, step) == pc' = [pc EXCEPT ![r] = step]

Tell(r, c) == answer' = [answer EXCEPT ![r] = c]

EndTransactionOnly(r) ==
    /\ todo' = [todo EXCEPT ![r] = {}]
    /\ rows' = [rows EXCEPT ![r] = {}]
    /\ fresh' = [fresh EXCEPT ![r] = NoToken]
    /\ UNCHANGED held

\* Commit or rollback: the locks are released.
EndTransaction(r) ==
    /\ held' = [held EXCEPT ![r] = {}]
    /\ todo' = [todo EXCEPT ![r] = {}]
    /\ rows' = [rows EXCEPT ![r] = {}]
    /\ fresh' = [fresh EXCEPT ![r] = NoToken]

transactionVars == <<held, todo, rows, fresh>>

(***************************************************************************)
(* Login and refresh                                                       *)
(***************************************************************************)
\* One INSERT; nobody can know the family or the token before its commit.
Login(r) ==
    /\ pc[r] = "idle"
    /\ TokensLeft
    /\ \E t \in Tokens, f \in Families :
          /\ Drawn(t)
          /\ Members(f) = {}
          /\ family' = [family EXCEPT ![t] = f]
          /\ Tell(r, t)
    /\ kind' = [kind EXCEPT ![r] = "login"]
    /\ Goto(r, "answer")
    /\ UNCHANGED <<rotated, revoked, denied, cookie, shown,
                   transactionVars, deny>>

\* Several tabs may send the same cookie.
Refresh(r) ==
    /\ pc[r] = "idle"
    /\ cookie # NoToken
    /\ TokensLeft \/ revoked[cookie] # "no" \/ rotated[cookie] = "past"
    /\ kind' = [kind EXCEPT ![r] = "refresh"]
    /\ shown' = [shown EXCEPT ![r] = cookie]
    /\ Goto(r, "find")
    /\ UNCHANGED <<tableVars, denied, cookie, transactionVars, deny, answer>>

\* findFamilyId and lockFamily.
LockForRotation(r) ==
    /\ pc[r] = "find"
    /\ FamilyIsFree(family[shown[r]], r)
    /\ held' = [held EXCEPT ![r] = {family[shown[r]]}]
    /\ Goto(r, "rotate")
    /\ UNCHANGED <<tableVars, denied, cookie, kind, shown, todo, rows, fresh,
                   deny, answer>>

\* SELECT ... FOR UPDATE on the token.
Rotating(r) == pc[r] = "rotate" /\ RowIsFree(shown[r], r)

RejectRevoked(r) ==
    /\ Rotating(r)
    /\ revoked[shown[r]] # "no"
    /\ EndTransaction(r)
    /\ Tell(r, NoToken)
    /\ Goto(r, "answer")
    /\ UNCHANGED <<tableVars, denied, cookie, kind, shown, deny>>

\* expires_at is left out: a token that is not revoked may be found expired.
RejectExpired(r) ==
    /\ "expiry" \in Faults
    /\ Rotating(r)
    /\ revoked[shown[r]] = "no"
    /\ kind' = [kind EXCEPT ![r] = "expired"]
    /\ rows' = [rows EXCEPT ![r] = {shown[r]}]
    /\ Goto(r, "commit")
    /\ UNCHANGED <<tableVars, denied, cookie, shown, held, todo, fresh, deny,
                   answer>>

ReusedWithoutGrace(t) == revoked[t] = "no" /\ rotated[t] # "no"

Reused(t) == revoked[t] = "no" /\ rotated[t] = "past"

DetectReuse(r) ==
    /\ Rotating(r)
    /\ Reused(shown[r])
    /\ kind' = [kind EXCEPT ![r] = "reuse_detected"]
    /\ rows' = [rows EXCEPT ![r] = Live(family[shown[r]])]
    /\ deny' = [deny EXCEPT ![r] = {family[shown[r]]}]
    /\ Goto(r, "commit")
    /\ UNCHANGED <<tableVars, denied, cookie, shown, held, todo, fresh,
                   answer>>

\* Two tabs within the grace period each get a child of the same token.
RotateToken(r) ==
    /\ Rotating(r)
    /\ revoked[shown[r]] = "no"
    /\ ~Reused(shown[r])
    /\ \E t \in Tokens : Drawn(t) /\ fresh' = [fresh EXCEPT ![r] = t]
    /\ Goto(r, "commit")
    /\ UNCHANGED <<tableVars, denied, cookie, kind, shown, held, todo, rows,
                   deny, answer>>

HandOut(r) == Tell(r, fresh[r])

CommitRotation(r) ==
    /\ pc[r] = "commit"
    /\ kind[r] = "refresh"
    /\ family' = [family EXCEPT ![fresh[r]] = family[shown[r]]]
    /\ rotated' = [rotated EXCEPT ![shown[r]] = IF @ = "no" THEN "grace"
                                                           ELSE @]
    /\ HandOut(r)
    /\ EndTransaction(r)
    /\ Goto(r, "answer")
    /\ UNCHANGED <<revoked, denied, cookie, kind, shown, deny>>

(***************************************************************************)
(* Revocations                                                             *)
(***************************************************************************)
\* BEGIN of a transaction that revokes the families fs, then denies ds.
BeginRevocation(r, k, fs, ds) ==
    /\ pc[r] = "idle"
    /\ kind' = [kind EXCEPT ![r] = k]
    /\ todo' = [todo EXCEPT ![r] = fs]
    /\ deny' = [deny EXCEPT ![r] = ds]
    /\ Goto(r, "revoke")
    /\ UNCHANGED <<tableVars, denied, cookie, shown, held, rows, fresh, answer>>

Logout(r) ==
    /\ cookie # NoToken
    /\ BeginRevocation(r, "logout", {family[cookie]}, {})

\* AuthGuard: the session is one of the user's and not in the denylist, which
\* is not asked while Redis is down.
Session(f) ==
    /\ Members(f) # {}
    /\ f \notin denied \/ "redis" \in Faults

LogoutAll(r, f) ==
    /\ Session(f)
    /\ BeginRevocation(r, "logout", LiveFamilies, LiveFamilies \cup {f})

\* UPDATE users: a second change of password waits for the first.
ChangePassword(r, f) ==
    /\ Session(f)
    /\ \A q \in Requests : ~(pc[q] = "revoke" /\ kind[q] = "password_change")
    /\ BeginRevocation(r, "password_change", LiveFamilies \ {f},
                       LiveFamilies \ {f})

InAnyOrder(f, fs) == f \in fs

\* ORDER BY family_id.
IsNext(f, fs) == f \in fs /\ \A g \in fs : f <= g

\* revokeFamily: lockFamily, then UPDATE ... WHERE revoked_at IS NULL, which
\* sees the rows committed when it starts.
RevokeFamily(r, f) ==
    /\ pc[r] = "revoke"
    /\ IsNext(f, todo[r])
    /\ FamilyIsFree(f, r)
    /\ held' = [held EXCEPT ![r] = @ \cup {f}]
    /\ todo' = [todo EXCEPT ![r] = @ \ {f}]
    /\ rows' = [rows EXCEPT ![r] = @ \cup Live(f)]
    /\ UNCHANGED <<tableVars, denied, cookie, pc, kind, shown, fresh, deny,
                   answer>>

Reason(k) == IF k \in Refreshes THEN k ELSE "closed"

CommitRevocation(r) ==
    /\ \/ pc[r] = "revoke" /\ todo[r] = {}
       \/ pc[r] = "commit" /\ kind[r] # "refresh"
    /\ \A t \in rows[r] : RowIsFree(t, r)       \* the UPDATEs have waited
    /\ revoked' = [t \in Tokens |->
                      IF t \in rows[r] /\ revoked[t] = "no"
                      THEN Reason(kind[r]) ELSE revoked[t]]
    /\ EndTransaction(r)
    /\ Tell(r, IF kind[r] = "password_change" THEN NoChange ELSE NoToken)
    /\ Goto(r, IF deny[r] = {} THEN "answer" ELSE "deny")
    /\ UNCHANGED <<family, rotated, denied, cookie, kind, shown,
                   deny>>

\* SessionDenylist.deny, once the revocation is committed.  The pipeline does
\* not reject when some of its commands fail.
Deny(r) ==
    /\ pc[r] = "deny"
    /\ \E fs \in SUBSET deny[r] :
          /\ fs = deny[r] \/ "redis" \in Faults
          /\ denied' = denied \cup fs
    /\ Goto(r, "answer")
    /\ UNCHANGED <<tableVars, cookie, kind, shown, transactionVars, deny,
                   answer>>

(***************************************************************************)
(* Answers, faults and time                                                *)
(***************************************************************************)
\* The request is over; the process keeps nothing of it.
Forget(r) ==
    /\ kind' = [kind EXCEPT ![r] = "none"]
    /\ shown' = [shown EXCEPT ![r] = NoToken]
    /\ deny' = [deny EXCEPT ![r] = {}]
    /\ Tell(r, NoChange)
    /\ Goto(r, "idle")

\* Set-Cookie, in the order the answers arrive.
Answer(r) ==
    /\ pc[r] = "answer"
    /\ cookie' = IF answer[r] = NoChange THEN cookie ELSE answer[r]
    /\ Forget(r)
    /\ UNCHANGED <<tableVars, denied, transactionVars>>

FailsButDenies(r) ==
    /\ "db" \in Faults
    /\ pc[r] \in {"find", "rotate", "revoke", "commit"}
    /\ EndTransaction(r)
    /\ Tell(r, IF kind[r] \in Refreshes THEN NoToken ELSE NoChange)
    /\ Goto(r, "deny")
    /\ UNCHANGED <<tableVars, denied, cookie, kind, shown, deny>>

\* Rollback and a 5xx.  The catch block of the refresh route clears the cookie
\* whatever the error; the other routes clear it only after they succeed.
StatementFails(r) ==
    /\ "db" \in Faults
    /\ pc[r] \in {"find", "rotate", "revoke", "commit"}
    /\ EndTransaction(r)
    /\ Tell(r, IF kind[r] \in Refreshes THEN NoToken ELSE NoChange)
    /\ Goto(r, "answer")
    /\ UNCHANGED <<tableVars, denied, cookie, kind, shown, deny>>

Crash(r) ==
    /\ "crash" \in Faults
    /\ pc[r] # "idle"
    /\ EndTransaction(r)
    /\ Forget(r)
    /\ UNCHANGED <<tableVars, denied, cookie>>

\* ROTATION_GRACE_MS.  Unless requests may be late, those that carry a token
\* are answered within the ten seconds after its rotation.
GraceEnds(t) ==
    /\ rotated[t] = "grace"
    /\ revoked[t] = "no"                \* it matters to no other token
    /\ "late" \in Faults \/ \A q \in Requests : shown[q] # t
    /\ rotated' = [rotated EXCEPT ![t] = "past"]
    /\ UNCHANGED <<family, revoked, denied, cookie, requestVars>>

(***************************************************************************)
(* Specification                                                           *)
(***************************************************************************)
Begin(r) ==
    \/ Login(r) \/ Refresh(r) \/ Logout(r)
    \/ \E f \in Families : LogoutAll(r, f) \/ ChangePassword(r, f)

RotateStep(r) ==
    \/ RejectRevoked(r) \/ RejectExpired(r) \/ DetectReuse(r)
    \/ RotateToken(r) \/ CommitRotation(r)

RevokeStep(r) == CommitRevocation(r) \/ Deny(r)

Next ==
    \/ \E r \in Requests :
          \/ Begin(r) \/ LockForRotation(r) \/ RotateStep(r) \/ RevokeStep(r)
          \/ Answer(r) \/ StatementFails(r) \/ Crash(r)
    \/ \E r \in Requests, f \in Families : RevokeFamily(r, f)
    \/ \E t \in Tokens : GraceEnds(t)

Spec == Init /\ [][Next]_vars

\* A request that is being served goes on, and Postgres grants a lock to those
\* that wait for it in turn.
Fairness ==
    \A r \in Requests :
        /\ WF_vars(RotateStep(r)) /\ WF_vars(RevokeStep(r))
        /\ WF_vars(Answer(r))
        /\ SF_vars(LockForRotation(r))
        /\ \A f \in Families : SF_vars(RevokeFamily(r, f))

FairSpec == Spec /\ Fairness

(***************************************************************************)
(* Properties                                                              *)
(***************************************************************************)
Closing == {"closed", "reuse_detected"}

\* What lockFamily is for: a family that was closed has no live token, not
\* even one that a rotation was inserting while it was being closed.
ClosedForGood ==
    \A t, u \in Tokens :
        /\ Issued(t) /\ family[u] = family[t]
        /\ revoked[t] \in Closing
        => revoked[u] # "no"

\* The denylist bars sessions that are closed, never one whose revocation was
\* rolled back.
DeniedIsClosed == \A f \in denied : Members(f) # {} /\ Live(f) = {}

\* "a segunda nao pode ser tratada como roubo": when requests are answered in
\* time, no interleaving of the tabs of one browser passes for a theft.
NoFalseReuse == \A t \in Tokens : revoked[t] # "reuse_detected"

\* Family locks are taken in one order and rows after families: requests never
\* wait for each other for ever.
EveryRequestIsAnswered == \A r \in Requests : pc[r] # "idle" ~> pc[r] = "idle"

\* auth.controller.ts:79: a cookie that the refresh route clears is one that
\* is of no use any more.
ClearedWasUseless ==
    \A r \in Requests :
        pc[r] = "answer" /\ kind[r] \in Refreshes /\ answer[r] = NoToken =>
            revoked[shown[r]] # "no" \/ rotated[shown[r]] = "past"

(***************************************************************************)
(* Inductive invariants (SessionsProofs)                                   *)
(***************************************************************************)
\* lockFamily: one transaction at a time works on a family.
FamiliesAreHeldByOne ==
    \A q, r \in Requests : q # r => held[q] \cap held[r] = {}

\* What a request holds at each of its steps.
HoldingsFollowSteps ==
    \A r \in Requests :
        /\ pc[r] \in {"idle", "find", "deny", "answer"} => held[r] = {}
        /\ pc[r] \notin {"revoke", "commit"} => rows[r] = {}
        /\ pc[r] # "revoke" => todo[r] = {}
        /\ fresh[r] # NoToken => pc[r] = "commit" /\ kind[r] = "refresh"
        /\ pc[r] \in {"find", "rotate", "commit"} =>
               Issued(shown[r]) /\ kind[r] \in Refreshes
        /\ pc[r] \in {"find", "rotate"} => kind[r] = "refresh"
        /\ pc[r] \in {"rotate", "commit"} => held[r] = {family[shown[r]]}
        /\ pc[r] = "revoke" => kind[r] \in {"logout", "password_change"}

\* A family is locked, or waits to be, because a token of it is committed.
WorkedOnHaveMembers ==
    \A r \in Requests : \A f \in held[r] \cup todo[r] : Members(f) # {}

ClosesFamilies(r) ==
    \/ pc[r] = "revoke"
    \/ pc[r] = "commit" /\ kind[r] = "reuse_detected"

\* Rows are written under the lock of their family, and a closing transaction
\* has written every live row of the families it has locked.
WritesAreLocked ==
    \A r \in Requests :
        /\ \A t \in rows[r] : family[t] \in held[r]
        /\ ClosesFamilies(r) => \A f \in held[r] : Live(f) \subseteq rows[r]

\* A token that is not committed has no past, and one transaction inserts it,
\* into a family that is live.
FreshIsUnborn ==
    /\ \A t \in Tokens : ~Issued(t) => revoked[t] = "no" /\ rotated[t] = "no"
    /\ \A r \in Requests :
          /\ fresh[r] # NoToken =>
                /\ ~Issued(fresh[r])
                /\ \A q \in Requests : fresh[q] = fresh[r] => q = r
          /\ pc[r] = "commit" /\ kind[r] = "refresh" =>
                fresh[r] # NoToken /\ revoked[shown[r]] = "no"

\* What will be denied is closed already, or will be by the commit.
DenialsAreDue ==
    \A r \in Requests :
        /\ pc[r] \in {"idle", "find", "rotate"} => deny[r] = {}
        /\ pc[r] = "commit" /\ kind[r] # "reuse_detected" => deny[r] = {}
        /\ pc[r] \in {"revoke", "commit", "deny"} =>
               \A f \in deny[r] :
                   /\ Members(f) # {}
                   /\ Live(f) = {} \/ f \in held[r] \cup todo[r]

\* The browser shows tokens it was given.
CookiesAreIssued ==
    /\ cookie # NoToken => Issued(cookie)
    /\ \A r \in Requests :
          /\ shown[r] # NoToken => Issued(shown[r])
          /\ answer[r] \in Tokens => Issued(answer[r])

SessionInvariant ==
    /\ TypeOK /\ FamiliesAreHeldByOne /\ HoldingsFollowSteps
    /\ WorkedOnHaveMembers /\ WritesAreLocked /\ FreshIsUnborn
    /\ DenialsAreDue /\ CookiesAreIssued
    /\ ClosedForGood /\ DeniedIsClosed

\* While requests are answered in time: the token an answer carries is its
\* own and unused; a rotated token leaves the cookie with the answers that
\* are on their way, and is shown by nobody once its grace period has ended.
AnswersAreNew ==
    \A r \in Requests : answer[r] \in Tokens =>
        /\ pc[r] = "answer"
        /\ rotated[answer[r]] = "no"
        /\ answer[r] # cookie
        /\ \A q \in Requests :
              /\ shown[q] # answer[r]
              /\ answer[q] = answer[r] => q = r

CookieIsReplaced ==
    cookie # NoToken /\ rotated[cookie] # "no" /\ revoked[cookie] = "no" =>
        \E r \in Requests : shown[r] = cookie /\ answer[r] \in Tokens

PastIsShownByNobody ==
    \A t \in Tokens : rotated[t] = "past" /\ revoked[t] = "no" =>
        t # cookie /\ \A r \in Requests : shown[r] # t

InTimeInvariant ==
    Faults \cap {"crash", "late"} = {} =>
        /\ AnswersAreNew /\ CookieIsReplaced /\ PastIsShownByNobody
        /\ NoFalseReuse
        /\ \A r \in Requests : kind[r] # "reuse_detected"
=============================================================================
