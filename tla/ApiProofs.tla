----------------------------- MODULE ApiProofs ------------------------------
(***************************************************************************)
(* What three services of the API guarantee for every number of clients:   *)
(* Handles, where no account takes a handle kept for another, whatever the *)
(* order of the transactions; MediaStream, whose subscription in Redis     *)
(* follows its listeners in every order of answers; and RateLimits, whose  *)
(* window holds although requests read their clocks early.                 *)
(***************************************************************************)
EXTENDS Handles, MediaStream, RateLimits, FiniteSetTheorems, FunctionTheorems, TLAPS

(* Handles. *)

\* The reservation of h for u is in force.
Holds(u, h) == reserved[h].user = u /\ reserved[h].expires > day

\* What a call in flight is about; a lock is asked for a row that is there.
CallsAreWhole == \A p \in Working :
    /\ call[p].user \in Users /\ call[p].to \in HandleNames
    /\ call[p].now <= day /\ day <= call[p].now + 1
    /\ call[p].step = "lock" => handle[call[p].user] # NoHandle

\* One transaction at a time writes the row of a user: it knows the handle the
\* user has, and nobody else signs up as that user.
RowsAreHeldByOne == \A p \in HandlePages : Wrote(p) =>
    /\ call[p].from = handle[call[p].user] /\ call[p].to # call[p].from
    /\ \A q \in Working \ {p} : call[q].user = call[p].user =>
          call[p].from # NoHandle /\ ~Wrote(q)

\* Past the index, a transaction has the handle it takes for itself.
TakersAreAlone == \A p \in HandlePages : call[p].step \in {"claim", "commit"} =>
    /\ \A u \in Users : handle[u] # call[p].to
    /\ \A q \in HandlePages \ {p} :
          call[q].step \in {"claim", "commit"} => call[q].to # call[p].to

\* What claim found out holds until the commit: the handle is nobody else's,
\* and the user changes after the wait or goes back to the handle it kept.
ClaimIsGood(c) ==
    /\ ~IsReservedForOthers(c.to, c.user, c.now)
    /\ c.from # NoHandle =>
          /\ \/ ~CoolingDown(c.user)
             \/ reserved[c.to].user = c.user /\ reserved[c.to].expires > c.now
          /\ \A h \in HandleNames : Holds(c.user, h) => h = c.to

ClaimsAreGood == \A p \in HandlePages : call[p].step = "commit" => ClaimIsGood(call[p])

HandlesAreUnique == \A u, v \in Users :
    handle[u] = handle[v] /\ handle[u] # NoHandle => u = v

ReservedHandlesAreKept == \A h \in HandleNames, u \in Users :
    handle[u] = h /\ reserved[h].expires > day => reserved[h].user \in {Nobody, u}

OneHandleIsKept == \A u \in Users, g, h \in HandleNames :
    Holds(u, g) /\ Holds(u, h) => g = h

\* A reservation was made by a change of its user, who has an account.
ReservationsAreOfChanges == \A h \in HandleNames : reserved[h].user # Nobody =>
    \E d \in changed[reserved[h].user] : reserved[h].expires = d + Quarantine

HandleInvariant ==
    /\ HandleTypeOK
    /\ CallsAreWhole /\ RowsAreHeldByOne /\ TakersAreAlone /\ ClaimsAreGood
    /\ HandlesAreUnique /\ ReservedHandlesAreKept /\ OneHandleIsKept /\ ReservationsAreOfChanges
-----------------------------------------------------------------------------
LEMMA HandleInvariantAtStart == HandlesInit => HandleInvariant
  BY HandlesAssumption
     DEF HandlesInit, HandleInvariant, HandleTypeOK, CallsAreWhole, RowsAreHeldByOne, TakersAreAlone,
         ClaimsAreGood, HandlesAreUnique, ReservedHandlesAreKept, OneHandleIsKept,
         ReservationsAreOfChanges, NoReservation, NoCall, Working, Wrote, Holds, Days

\* What a page asks for, and that nobody signs up twice at once.
LEMMA SubmitBegins ==
  ASSUME HandleTypeOK, NEW p \in HandlePages, Submit(p)
  PROVE  \E u \in Users, h \in HandleNames, s \in {"wait", "lock"} :
            /\ h # handle[u] /\ (s = "wait" <=> handle[u] = NoHandle)
            /\ s = "wait" => \A q \in Working : call[q].user # u
            /\ call' = [call EXCEPT ![p] =
                   [step |-> s, user |-> u, to |-> h, now |-> day, from |-> NoHandle]]
  <1>1. PICK u \in Users, h \in HandleNames :
           /\ h # handle[u] /\ (handle[u] = NoHandle => \A q \in Working : call[q].user # u)
           /\ call' = [call EXCEPT ![p] =
                  [step |-> IF handle[u] = NoHandle THEN "wait" ELSE "lock",
                   user |-> u, to |-> h, now |-> day, from |-> NoHandle]]
    BY DEF Submit, FormAccepts
  <1>2. CASE handle[u] = NoHandle
    BY <1>1, <1>2
  <1>3. CASE handle[u] # NoHandle
    BY <1>1, <1>3
  <1> QED
    BY <1>2, <1>3

\* Every step leaves each variable in its type.
LEMMA TypeIsKept == HandleInvariant /\ [HandlesNext]_handleVars => HandleTypeOK'
  <1> SUFFICES ASSUME HandleInvariant, [HandlesNext]_handleVars PROVE HandleTypeOK'
    OBVIOUS
  <1> USE HandlesAssumption DEF HandleInvariant, HandleTypeOK, NoCall, NoReservation, Days, Finish
  <1>1. ASSUME NEW p \in HandlePages, Submit(p) PROVE HandleTypeOK'
    BY <1>1, SubmitBegins DEF Submit
  <1>2. ASSUME NEW p \in HandlePages, LockUser(p) PROVE HandleTypeOK'
    BY <1>2 DEF LockUser, CallsAreWhole, Working
  <1>3. ASSUME NEW p \in HandlePages, IndexAccepts(p) PROVE HandleTypeOK'
    BY <1>3 DEF IndexAccepts
  <1>4. ASSUME NEW p \in HandlePages, BreakDeadlock(p) PROVE HandleTypeOK'
    BY <1>4 DEF BreakDeadlock
  <1>5. ASSUME NEW p \in HandlePages, Claim(p) PROVE HandleTypeOK'
    BY <1>5 DEF Claim
  <1>6. ASSUME NEW p \in HandlePages, CommitHandle(p) PROVE HandleTypeOK'
    <2>1. call[p].user \in Users /\ call[p].to \in HandleNames
      BY <1>6 DEF CommitHandle, CallsAreWhole, Working
    <2>2. reserved' \in [HandleNames -> [user: Users \cup {Nobody}, expires: 0 .. (MaxTime + Quarantine)]]
      BY <1>6, <2>1 DEF CommitHandle, Rereserved
    <2> QED
      BY <1>6, <2>1, <2>2 DEF CommitHandle
  <1>7. ASSUME NEW p \in HandlePages, AbortHandle(p) PROVE HandleTypeOK'
    BY <1>7 DEF AbortHandle
  <1>8. CASE CollectReservations
    BY <1>8 DEF CollectReservations
  <1>9. CASE DayPasses
    BY <1>9 DEF DayPasses
  <1>10. CASE UNCHANGED handleVars
    BY <1>10 DEF handleVars
  <1> QED
    BY <1>1, <1>2, <1>3, <1>4, <1>5, <1>6, <1>7, <1>8, <1>9, <1>10 DEF HandlesNext

\* Every call in flight keeps its account and its handle.
LEMMA CallsStayWhole == HandleInvariant /\ [HandlesNext]_handleVars => CallsAreWhole'
  <1> SUFFICES ASSUME HandleInvariant, [HandlesNext]_handleVars PROVE CallsAreWhole'
    OBVIOUS
  <1>0. HandleTypeOK'
    BY TypeIsKept
  <1> USE <1>0, HandlesAssumption DEF HandleInvariant, HandleTypeOK, CallsAreWhole, Working, NoCall, Days, Finish
  <1>1. ASSUME NEW p \in HandlePages, Submit(p) PROVE CallsAreWhole'
    BY <1>1, SubmitBegins DEF Submit
  <1>2. ASSUME NEW p \in HandlePages, LockUser(p) PROVE CallsAreWhole'
    BY <1>2 DEF LockUser
  <1>3. ASSUME NEW p \in HandlePages, IndexAccepts(p) PROVE CallsAreWhole'
    BY <1>3 DEF IndexAccepts
  <1>4. ASSUME NEW p \in HandlePages, BreakDeadlock(p) PROVE CallsAreWhole'
    BY <1>4 DEF BreakDeadlock
  <1>5. ASSUME NEW p \in HandlePages, Claim(p) PROVE CallsAreWhole'
    BY <1>5 DEF Claim
  <1>6. ASSUME NEW p \in HandlePages, CommitHandle(p) PROVE CallsAreWhole'
    BY <1>6 DEF CommitHandle
  <1>7. ASSUME NEW p \in HandlePages, AbortHandle(p) PROVE CallsAreWhole'
    BY <1>7 DEF AbortHandle
  <1>8. CASE CollectReservations
    BY <1>8 DEF CollectReservations
  <1>9. CASE DayPasses
    BY <1>9 DEF DayPasses
  <1>10. CASE UNCHANGED handleVars
    BY <1>10 DEF handleVars
  <1> QED
    BY <1>1, <1>2, <1>3, <1>4, <1>5, <1>6, <1>7, <1>8, <1>9, <1>10 DEF HandlesNext

\* A transaction that writes the row of a user remains the only one.
LEMMA RowsStayHeld == HandleInvariant /\ [HandlesNext]_handleVars => RowsAreHeldByOne'
  <1> SUFFICES ASSUME HandleInvariant, [HandlesNext]_handleVars PROVE RowsAreHeldByOne'
    OBVIOUS
  <1>0. HandleTypeOK'
    BY TypeIsKept
  <1> USE <1>0, HandlesAssumption DEF HandleInvariant, HandleTypeOK, CallsAreWhole, RowsAreHeldByOne, Working, Wrote, NoCall, Days, Finish
  <1>1. ASSUME NEW p \in HandlePages, Submit(p) PROVE RowsAreHeldByOne'
    BY <1>1, SubmitBegins DEF Submit
  <1>2. ASSUME NEW p \in HandlePages, LockUser(p) PROVE RowsAreHeldByOne'
    <2>1. CASE handle[call[p].user] = call[p].to
      BY <1>2, <2>1 DEF LockUser, RowIsFree
    <2>2. CASE ~(handle[call[p].user] = call[p].to)
      BY <1>2, <2>2 DEF LockUser, RowIsFree
    <2> QED
      BY <2>1, <2>2
  <1>3. ASSUME NEW p \in HandlePages, IndexAccepts(p) PROVE RowsAreHeldByOne'
    <2>1. call' = [call EXCEPT ![p] = NoCall] \/ call' = [call EXCEPT ![p].step = "claim"]
      BY <1>3 DEF IndexAccepts
    <2>2. call[p].step = "wait" /\ UNCHANGED handle
      BY <1>3 DEF IndexAccepts
    <2>3. \A q \in HandlePages : call'[q].step # "idle" =>
              /\ call[q].step # "idle" /\ (Wrote(q)' => Wrote(q))
              /\ call'[q].user = call[q].user /\ call'[q].from = call[q].from /\ call'[q].to = call[q].to
      BY <2>1, <2>2
    <2> QED
      BY <2>2, <2>3
  <1>4. ASSUME NEW p \in HandlePages, BreakDeadlock(p) PROVE RowsAreHeldByOne'
    BY <1>4 DEF BreakDeadlock
  <1>5. ASSUME NEW p \in HandlePages, Claim(p) PROVE RowsAreHeldByOne'
    <2>1. call' = [call EXCEPT ![p] = NoCall] \/ call' = [call EXCEPT ![p].step = "commit"]
      BY <1>5 DEF Claim
    <2>2. call[p].step = "claim" /\ UNCHANGED handle
      BY <1>5 DEF Claim
    <2> QED
      BY <2>1, <2>2
  <1>6. ASSUME NEW p \in HandlePages, CommitHandle(p) PROVE RowsAreHeldByOne'
    BY <1>6 DEF CommitHandle
  <1>7. ASSUME NEW p \in HandlePages, AbortHandle(p) PROVE RowsAreHeldByOne'
    BY <1>7 DEF AbortHandle
  <1>8. CASE CollectReservations
    BY <1>8 DEF CollectReservations
  <1>9. CASE DayPasses
    BY <1>9 DEF DayPasses
  <1>10. CASE UNCHANGED handleVars
    BY <1>10 DEF handleVars
  <1> QED
    BY <1>1, <1>2, <1>3, <1>4, <1>5, <1>6, <1>7, <1>8, <1>9, <1>10 DEF HandlesNext

\* The handle a transaction is to take goes to nobody else.
LEMMA TakersStayAlone == HandleInvariant /\ [HandlesNext]_handleVars => TakersAreAlone'
  <1> SUFFICES ASSUME HandleInvariant, [HandlesNext]_handleVars PROVE TakersAreAlone'
    OBVIOUS
  <1>0. HandleTypeOK'
    BY TypeIsKept
  <1> USE <1>0, HandlesAssumption DEF HandleInvariant, HandleTypeOK, CallsAreWhole, RowsAreHeldByOne, TakersAreAlone, Working, Wrote, NoCall, Days, Finish
  <1>1. ASSUME NEW p \in HandlePages, Submit(p) PROVE TakersAreAlone'
    BY <1>1, SubmitBegins DEF Submit
  <1>2. ASSUME NEW p \in HandlePages, LockUser(p) PROVE TakersAreAlone'
    <2>1. \A q \in HandlePages : call'[q].step \in {"claim", "commit"} => call'[q] = call[q]
      BY <1>2 DEF LockUser
    <2>2. UNCHANGED handle
      BY <1>2 DEF LockUser
    <2> QED
      BY <2>1, <2>2
  <1>3. ASSUME NEW p \in HandlePages, IndexAccepts(p) PROVE TakersAreAlone'
    BY <1>3 DEF IndexAccepts, Blocks, Taken
  <1>4. ASSUME NEW p \in HandlePages, BreakDeadlock(p) PROVE TakersAreAlone'
    BY <1>4 DEF BreakDeadlock
  <1>5. ASSUME NEW p \in HandlePages, Claim(p) PROVE TakersAreAlone'
    <2>1. call' = [call EXCEPT ![p] = NoCall] \/ call' = [call EXCEPT ![p].step = "commit"]
      BY <1>5 DEF Claim
    <2>2. call[p].step = "claim" /\ UNCHANGED handle
      BY <1>5 DEF Claim
    <2> QED
      BY <2>1, <2>2
  <1>6. ASSUME NEW p \in HandlePages, CommitHandle(p) PROVE TakersAreAlone'
    BY <1>6 DEF CommitHandle
  <1>7. ASSUME NEW p \in HandlePages, AbortHandle(p) PROVE TakersAreAlone'
    BY <1>7 DEF AbortHandle
  <1>8. CASE CollectReservations
    BY <1>8 DEF CollectReservations
  <1>9. CASE DayPasses
    BY <1>9 DEF DayPasses
  <1>10. CASE UNCHANGED handleVars
    BY <1>10 DEF handleVars
  <1> QED
    BY <1>1, <1>2, <1>3, <1>4, <1>5, <1>6, <1>7, <1>8, <1>9, <1>10 DEF HandlesNext

\* What a change or a signup leaves of the reservations.
LEMMA CommitReserves ==
  ASSUME HandleInvariant, NEW p \in HandlePages, CommitHandle(p)
  PROVE  /\ call[p].user \in Users /\ call[p].to \in HandleNames /\ call[p].from # call[p].to
         /\ call[p].from = handle[call[p].user]
         /\ \A h \in HandleNames :
               /\ h = call[p].from =>
                     reserved'[h] = [user |-> call[p].user, expires |-> call[p].now + Quarantine]
               /\ h = call[p].to /\ (reserved[h].user = call[p].user \/ reserved[h].expires <= call[p].now)
                     => reserved'[h] = NoReservation
               /\ h # call[p].from =>
                     \/ reserved'[h] = reserved[h]
                     \/ h = call[p].to /\ reserved'[h] = NoReservation
         /\ \A u \in Users : u # call[p].user => changed'[u] = changed[u]
         /\ call[p].from = NoHandle => changed' = changed
         /\ call[p].from # NoHandle =>
               changed'[call[p].user] = changed[call[p].user] \cup {call[p].now}
  <1>1. /\ call[p].user \in Users /\ call[p].to \in HandleNames
        /\ call[p].from = handle[call[p].user] /\ call[p].from # call[p].to
    BY DEF CommitHandle, HandleInvariant, CallsAreWhole, RowsAreHeldByOne, Working, Wrote
  <1>2. reserved' = Rereserved(call[p])
    BY DEF CommitHandle
  <1>3. changed' = IF call[p].from = NoHandle THEN changed
                   ELSE [changed EXCEPT ![call[p].user] = @ \cup {call[p].now}]
    BY DEF CommitHandle
  <1> QED
    BY <1>1, <1>2, <1>3 DEF Rereserved, HandleInvariant, HandleTypeOK

\* What claim finds out is still so when its transaction commits.
LEMMA ClaimsStayGood == HandleInvariant /\ [HandlesNext]_handleVars => ClaimsAreGood'
  <1> SUFFICES ASSUME HandleInvariant, [HandlesNext]_handleVars,
                      NEW r \in HandlePages, call'[r].step = "commit"
               PROVE  ClaimIsGood(call[r])'
    BY DEF ClaimsAreGood
  <1>0. HandleTypeOK'
    BY TypeIsKept
  <1> USE <1>0, HandlesAssumption DEF HandleInvariant, HandleTypeOK
  <1>1. ASSUME call'[r] = call[r], reserved' = reserved, changed' = changed, day' = day
        PROVE  ClaimIsGood(call[r])'
    <2>1. ClaimIsGood(call[r])
      BY <1>1 DEF ClaimsAreGood
    <2> QED
      BY <1>1, <2>1 DEF ClaimIsGood, IsReservedForOthers, CoolingDown, Holds
  <1>2. ASSUME NEW p \in HandlePages, Claim(p) PROVE ClaimIsGood(call[r])'
    <2>1. CASE r # p
      BY <1>1, <1>2, <2>1 DEF Claim, Finish
    <2>2. CASE r = p
      <3> DEFINE c == call[p]
      <3>1. /\ c.step = "claim" /\ UNCHANGED <<handle, reserved, changed, day>>
            /\ ~IsReservedForOthers(c.to, c.user, c.now)
            /\ \/ c.from = NoHandle
               \/ reserved[c.to].user = c.user /\ reserved[c.to].expires > day
               \/ ~CoolingDown(c.user)
            /\ call' = [call EXCEPT ![p].step = "commit"]
        BY <1>2, <2>2 DEF Claim, Finish, NoCall
      <3>2. /\ c.user \in Users /\ c.to \in HandleNames /\ c.now <= day
        BY <3>1 DEF CallsAreWhole, Working
      <3>3. call'[p].to = c.to /\ call'[p].user = c.user /\ call'[p].now = c.now /\ call'[p].from = c.from
        BY <3>1
      <3>4. ASSUME c.from # NoHandle, NEW h \in HandleNames, Holds(c.user, h) PROVE h = c.to
        <4>1. CASE reserved[c.to].user = c.user /\ reserved[c.to].expires > day
          BY <3>2, <3>4, <4>1 DEF OneHandleIsKept, Holds
        <4>2. CASE ~CoolingDown(c.user)
          <5>1. PICK d \in changed[c.user] : reserved[h].expires = d + Quarantine
            BY <3>2, <3>4 DEF Holds, ReservationsAreOfChanges
          <5>2. d \in Nat /\ d + Cooldown <= day /\ day \in Nat
            BY <3>2, <4>2 DEF CoolingDown, Days
          <5> QED
            BY <3>4, <5>1, <5>2 DEF Holds
        <4> QED
          BY <3>1, <3>4, <4>1, <4>2
      <3>5. c.from # NoHandle =>
               \/ ~CoolingDown(c.user)
               \/ reserved[c.to].user = c.user /\ reserved[c.to].expires > c.now
        <4>1. c.now \in Nat /\ day \in Nat /\ reserved[c.to].expires \in Nat
          BY <3>2 DEF Days
        <4>2. reserved[c.to].expires > day => reserved[c.to].expires > c.now
          BY <3>2, <4>1
        <4> QED
          BY <3>1, <4>2
      <3> HIDE DEF c
      <3> QED
        BY <2>2, <3>1, <3>3, <3>4, <3>5 DEF ClaimIsGood, IsReservedForOthers, CoolingDown, Holds
    <2> QED
      BY <2>1, <2>2
  <1>3. ASSUME NEW p \in HandlePages, CommitHandle(p) PROVE ClaimIsGood(call[r])'
    <2>1. r # p /\ call'[r] = call[r] /\ day' = day /\ call[p].step = "commit"
      BY <1>3 DEF CommitHandle, Finish, NoCall
    <2>2. ClaimIsGood(call[r])
      BY <2>1 DEF ClaimsAreGood
    <2>3. /\ call[r].user \in Users /\ call[r].to \in HandleNames
          /\ call[r].user # call[p].user
          /\ call[r].to # call[p].to /\ call[r].to # call[p].from
      BY <2>1, <1>3, CommitReserves DEF CallsAreWhole, RowsAreHeldByOne, TakersAreAlone, Working, Wrote
    <2>4. reserved'[call[r].to] = reserved[call[r].to]
      BY <1>3, <2>3, CommitReserves
    <2>5. changed'[call[r].user] = changed[call[r].user]
      BY <1>3, <2>3, CommitReserves
    <2>6. ASSUME NEW h \in HandleNames, Holds(call[r].user, h)' PROVE Holds(call[r].user, h)
      <3>1. reserved'[h].user = call[r].user /\ reserved'[h].expires > day
        BY <2>1, <2>6 DEF Holds
      <3>2. reserved'[h] = reserved[h]
        BY <1>3, <2>3, <3>1, CommitReserves DEF NoReservation
      <3> QED
        BY <3>1, <3>2 DEF Holds
    <2> QED
      BY <2>1, <2>2, <2>3, <2>4, <2>5, <2>6 DEF ClaimIsGood, IsReservedForOthers, CoolingDown, Holds
  <1>4. CASE CollectReservations
    <2>1. /\ UNCHANGED <<handle, changed, day, call>>
          /\ ClaimIsGood(call[r])
      BY <1>4 DEF CollectReservations, ClaimsAreGood
    <2>2. call[r].to \in HandleNames /\ day <= call[r].now + 1 /\ call[r].user \in Users
      BY <2>1 DEF CallsAreWhole, Working
    <2>3. \A h \in HandleNames :
             \/ reserved'[h] = reserved[h]
             \/ reserved'[h] = NoReservation /\ reserved[h].expires < day
      BY <1>4 DEF CollectReservations
    <2>4. ~IsReservedForOthers(call[r].to, call[r].user, call[r].now)'
      BY <2>1, <2>2, <2>3 DEF ClaimIsGood, IsReservedForOthers, NoReservation, Days
    <2>5. ASSUME reserved[call[r].to].user = call[r].user, reserved[call[r].to].expires > call[r].now
          PROVE  reserved'[call[r].to] = reserved[call[r].to]
      BY <2>2, <2>3, <2>5 DEF Days
    <2>6. \A h \in HandleNames : Holds(call[r].user, h)' => Holds(call[r].user, h)
      BY <2>1, <2>2, <2>3 DEF Holds, NoReservation
    <2> QED
      BY <2>1, <2>2, <2>4, <2>5, <2>6 DEF ClaimIsGood, CoolingDown
  <1>5. CASE DayPasses
    <2>1. /\ UNCHANGED <<handle, reserved, changed, call>> /\ day' = day + 1
          /\ ClaimIsGood(call[r])
      BY <1>5 DEF DayPasses, ClaimsAreGood
    <2>2. call[r].user \in Users /\ call[r].to \in HandleNames
      BY <2>1 DEF CallsAreWhole, Working
    <2>3. ~CoolingDown(call[r].user) => ~CoolingDown(call[r].user)'
      BY <2>1, <2>2 DEF CoolingDown, Days
    <2>4. \A h \in HandleNames : Holds(call[r].user, h)' => Holds(call[r].user, h)
      BY <2>1 DEF Holds, Days
    <2> QED
      BY <2>1, <2>2, <2>3, <2>4 DEF ClaimIsGood, IsReservedForOthers
  <1>6. ASSUME NEW p \in HandlePages,
               Submit(p) \/ LockUser(p) \/ IndexAccepts(p) \/ BreakDeadlock(p) \/ AbortHandle(p)
        PROVE  ClaimIsGood(call[r])'
    <2>1. call'[r] = call[r]
      <3>1. CASE Submit(p)
        BY <3>1, SubmitBegins
      <3>2. CASE LockUser(p)
        BY <3>2 DEF LockUser, Finish, NoCall
      <3>3. CASE IndexAccepts(p)
        BY <3>3 DEF IndexAccepts, Finish, NoCall
      <3>4. CASE BreakDeadlock(p) \/ AbortHandle(p)
        BY <3>4 DEF BreakDeadlock, AbortHandle, Finish, NoCall
      <3> QED
        BY <1>6, <3>1, <3>2, <3>3, <3>4
    <2>2. UNCHANGED <<reserved, changed, day>>
      BY <1>6 DEF Submit, LockUser, IndexAccepts, BreakDeadlock, AbortHandle
    <2> QED
      BY <1>1, <2>1, <2>2
  <1>7. CASE UNCHANGED handleVars
    BY <1>1, <1>7 DEF handleVars
  <1> QED
    BY <1>2, <1>3, <1>4, <1>5, <1>6, <1>7 DEF HandlesNext

\* Commits, the collection of old reservations and the clock keep what is said
\* of the accounts and the reservations.
LEMMA AccountsStayGood == HandleInvariant /\ [HandlesNext]_handleVars =>
    HandlesAreUnique' /\ ReservedHandlesAreKept' /\ OneHandleIsKept' /\ ReservationsAreOfChanges'
  <1> DEFINE Good == HandlesAreUnique /\ ReservedHandlesAreKept /\ OneHandleIsKept
                     /\ ReservationsAreOfChanges
  <1> SUFFICES ASSUME HandleInvariant, [HandlesNext]_handleVars PROVE Good'
    OBVIOUS
  <1>0. HandleTypeOK' /\ Good
    BY TypeIsKept DEF HandleInvariant
  <1> USE <1>0, HandlesAssumption DEF HandleInvariant, HandleTypeOK
  <1>1. ASSUME NEW p \in HandlePages, CommitHandle(p) PROVE Good'
    <2> DEFINE c == call[p]
    <2>1. c.step = "commit" /\ handle' = [handle EXCEPT ![c.user] = c.to] /\ day' = day
      BY <1>1 DEF CommitHandle
    <2>2. /\ c.user \in Users /\ c.to \in HandleNames /\ c.from # c.to /\ c.from = handle[c.user]
          /\ c.now \in Nat /\ c.now <= day /\ day \in Nat
          /\ \A u \in Users : handle[u] # c.to
      BY <1>1, <2>1, CommitReserves DEF CallsAreWhole, Working, TakersAreAlone, Days
    <2>3. /\ ~IsReservedForOthers(c.to, c.user, c.now)
          /\ c.from # NoHandle => \A h \in HandleNames : Holds(c.user, h) => h = c.to
      BY <2>1 DEF ClaimsAreGood, ClaimIsGood
    <2>4. ReservationsAreOfChanges'
      <3> SUFFICES ASSUME NEW h \in HandleNames, reserved'[h].user # Nobody
                   PROVE  \E d \in changed'[reserved'[h].user] : reserved'[h].expires = d + Quarantine
        BY DEF ReservationsAreOfChanges
      <3>1. CASE h = c.from
        BY <1>1, <2>2, <3>1, CommitReserves
      <3>2. CASE h # c.from
        <4>1. reserved'[h] = reserved[h]
          BY <1>1, <3>2, CommitReserves DEF NoReservation
        <4>2. \A u \in Users : changed[u] \subseteq changed'[u]
          BY <1>1, CommitReserves
        <4> QED
          BY <4>1, <4>2 DEF ReservationsAreOfChanges
      <3> QED
        BY <3>1, <3>2
    <2>5. HandlesAreUnique'
      BY <2>1, <2>2 DEF HandlesAreUnique
    <2>6. ReservedHandlesAreKept'
      <3> SUFFICES ASSUME NEW h \in HandleNames, NEW u \in Users,
                          handle'[u] = h, reserved'[h].expires > day
                   PROVE  reserved'[h].user \in {Nobody, u}
        BY <2>1 DEF ReservedHandlesAreKept
      <3>1. h # c.from
        BY <2>1, <2>2 DEF HandlesAreUnique
      <3>2. reserved'[h] = reserved[h]
        BY <1>1, <2>2, <3>1, CommitReserves DEF NoReservation
      <3>3. CASE u = c.user
        BY <2>1, <2>2, <2>3, <3>2, <3>3 DEF IsReservedForOthers
      <3>4. CASE u # c.user
        BY <2>1, <3>2, <3>4 DEF ReservedHandlesAreKept
      <3> QED
        BY <3>3, <3>4
    <2>7. OneHandleIsKept'
      <3> SUFFICES ASSUME NEW u \in Users, NEW g \in HandleNames, NEW h \in HandleNames,
                          Holds(u, g)', Holds(u, h)'
                   PROVE  g = h
        BY DEF OneHandleIsKept
      <3>1. \A x \in HandleNames : x # c.from /\ Holds(u, x)' => Holds(u, x) /\ (u = c.user => x # c.to)
        BY <1>1, <2>1, <2>2, CommitReserves DEF Holds, NoReservation
      <3>2. \A x \in HandleNames : x = c.from /\ Holds(u, x)' => u = c.user
        BY <1>1, CommitReserves DEF Holds
      <3>3. CASE u = c.user /\ c.from # NoHandle
        BY <2>3, <3>1, <3>3
      <3>4. CASE u # c.user \/ c.from = NoHandle
        BY <3>1, <3>2, <3>4 DEF OneHandleIsKept
      <3> QED
        BY <3>3, <3>4
    <2> QED
      BY <2>4, <2>5, <2>6, <2>7
  <1>2. CASE CollectReservations
    <2>1. /\ UNCHANGED <<handle, changed, day, call>>
          /\ \A h \in HandleNames : reserved'[h] = reserved[h] \/ reserved'[h] = NoReservation
      BY <1>2 DEF CollectReservations
    <2> QED
      BY <2>1 DEF HandlesAreUnique, ReservedHandlesAreKept, OneHandleIsKept, ReservationsAreOfChanges,
         Holds, NoReservation, Days
  <1>3. CASE DayPasses
    <2>1. UNCHANGED <<handle, reserved, changed>> /\ day' = day + 1 /\ day \in Nat
      BY <1>3 DEF DayPasses, Days
    <2>2. \A h \in HandleNames : reserved[h].expires > day' => reserved[h].expires > day
      BY <2>1
    <2> QED
      BY <2>1, <2>2 DEF HandlesAreUnique, ReservedHandlesAreKept, OneHandleIsKept, ReservationsAreOfChanges, Holds
  <1>4. ASSUME UNCHANGED <<handle, reserved, changed, day>> PROVE Good'
    BY <1>4 DEF HandlesAreUnique, ReservedHandlesAreKept, OneHandleIsKept, ReservationsAreOfChanges, Holds
  <1> HIDE DEF Good
  <1>5. ASSUME NEW p \in HandlePages,
               \/ Submit(p) \/ LockUser(p) \/ IndexAccepts(p)
               \/ BreakDeadlock(p) \/ Claim(p) \/ AbortHandle(p)
        PROVE  Good'
    BY <1>4, <1>5 DEF Submit, LockUser, IndexAccepts, BreakDeadlock, Claim, AbortHandle
  <1>6. CASE UNCHANGED handleVars
    BY <1>4, <1>6 DEF handleVars
  <1> QED
    BY <1>1, <1>2, <1>3, <1>5, <1>6 DEF HandlesNext
-----------------------------------------------------------------------------
\* The inductive invariant of changes of handle.
THEOREM HandleInvariantHolds == HandlesSpec => []HandleInvariant
  <1>1. HandleInvariant /\ [HandlesNext]_handleVars => HandleInvariant'
    BY TypeIsKept, CallsStayWhole, RowsStayHeld, TakersStayAlone, ClaimsStayGood, AccountsStayGood
       DEF HandleInvariant
  <1> QED
    BY HandleInvariantAtStart, <1>1, PTL DEF HandlesSpec

\* A set that has no two elements counts one at most.
LEMMA AtMostOne ==
  ASSUME NEW S, \A x, y \in S : x = y
  PROVE  Cardinality(S) <= 1
  <1>1. CASE S = {}
    BY <1>1, FS_EmptySet
  <1>2. CASE S # {}
    <2>1. PICK x \in S : S = {x}
      BY <1>2
    <2> QED
      BY <2>1, FS_Singleton
  <1> QED
    BY <1>1, <1>2

\* Whatever accounts change their handles at once, in whatever order the
\* database lets them: no handle has two accounts, one in quarantine goes to
\* nobody but its last owner, and an account keeps one at most in quarantine.
THEOREM QuarantineIsKept == HandlesSpec => []QuarantineHolds
  <1>1. HandleInvariant => QuarantineHolds
    <2> SUFFICES ASSUME HandleInvariant PROVE QuarantineHolds
      OBVIOUS
    <2>1. ASSUME NEW u \in Users
          PROVE  Cardinality({h \in HandleNames : reserved[h].user = u /\ reserved[h].expires > day}) <= 1
      BY AtMostOne DEF HandleInvariant, OneHandleIsKept, Holds
    <2> QED
      BY <2>1 DEF QuarantineHolds, HandleInvariant, HandlesAreUnique, ReservedHandlesAreKept
  <1> QED
    BY <1>1, HandleInvariantHolds, PTL

\* A user's handle changes after the wait, or back to the one in quarantine,
\* however long claim and the commit lie apart.
THEOREM ChangesStaySpaced == HandlesSpec => ChangesAreSpaced
  <1> DEFINE Spaced == \A u \in Users :
        handle'[u] # handle[u] /\ handle[u] # NoHandle /\ CoolingDown(u) => reserved[handle'[u]].user = u
  <1>1. HandleInvariant /\ [HandlesNext]_handleVars => [Spaced]_handleVars
    <2> SUFFICES ASSUME HandleInvariant, HandlesNext, NEW u \in Users,
                        handle'[u] # handle[u], handle[u] # NoHandle, CoolingDown(u)
                 PROVE  reserved[handle'[u]].user = u
      OBVIOUS
    <2>1. PICK p \in HandlePages : CommitHandle(p)
      BY DEF HandlesNext, Submit, LockUser, IndexAccepts, BreakDeadlock, Claim, AbortHandle,
         CollectReservations, DayPasses
    <2>2. /\ call[p].step = "commit" /\ handle' = [handle EXCEPT ![call[p].user] = call[p].to]
          /\ call[p].from = handle[call[p].user]
      BY <2>1, CommitReserves DEF CommitHandle
    <2>3. u = call[p].user /\ handle'[u] = call[p].to
      BY <2>2 DEF HandleInvariant, HandleTypeOK
    <2> QED
      BY <2>2, <2>3 DEF HandleInvariant, ClaimsAreGood, ClaimIsGood
  <1> QED
    BY <1>1, HandleInvariantHolds, PTL DEF HandlesSpec, ChangesAreSpaced
\* A reservation of nobody's is none.
NobodyReserves == \A h \in HandleNames : reserved[h].user = Nobody => reserved[h] = NoReservation

\* Only a change makes a reservation, of the user it changes.
LEMMA NobodyStillReserves == HandleInvariant /\ NobodyReserves /\ [HandlesNext]_handleVars => NobodyReserves'
  <1> SUFFICES ASSUME HandleInvariant, NobodyReserves, [HandlesNext]_handleVars, NEW h \in HandleNames,
                      reserved'[h].user = Nobody
               PROVE  reserved'[h] = NoReservation
    BY DEF NobodyReserves
  <1>0. HandleTypeOK /\ (reserved[h].user = Nobody => reserved[h] = NoReservation)
    BY DEF HandleInvariant, NobodyReserves
  <1>1. CASE reserved' = reserved
    BY <1>0, <1>1
  <1>2. ASSUME NEW p \in HandlePages, CommitHandle(p) PROVE reserved'[h] = NoReservation
    <2>1. CASE h = call[p].from
      <3>1. reserved'[h] = [user |-> call[p].user, expires |-> call[p].now + Quarantine]
            /\ call[p].user \in Users
        BY <2>1, <1>2, CommitReserves
      <3> QED
        BY <3>1, HandlesAssumption
    <2>2. CASE h # call[p].from
      BY <2>2, <1>2, <1>0, CommitReserves
    <2> QED
      BY <2>1, <2>2
  <1>3. CASE CollectReservations
    BY <1>0, <1>3 DEF CollectReservations, HandleTypeOK, NoReservation
  <1> QED
    BY <1>1, <1>2, <1>3 DEF HandlesNext, handleVars, Submit, LockUser, IndexAccepts, BreakDeadlock,
       Claim, AbortHandle, DayPasses

\* A commit is one step of the registry, taken on the day the call began.
LEMMA CommitActsAsRegistry ==
  ASSUME HandleInvariant, NobodyReserves, NEW p \in HandlePages, CommitHandle(p)
  PROVE  Registry!SignUp(call[p].user, call[p].to, call[p].now) \/ Registry!Change(call[p].user, call[p].to, call[p].now)
  <1> DEFINE u == call[p].user
             h == call[p].to
             now == call[p].now
  <1>1. /\ u \in Users /\ h \in HandleNames /\ call[p].from # h /\ call[p].from = handle[u]
        /\ handle' = [handle EXCEPT ![u] = h] /\ reserved' = Rereserved(call[p]) /\ day' = day
        /\ changed' = IF call[p].from = NoHandle THEN changed
                      ELSE [changed EXCEPT ![u] = @ \cup {now}]
        /\ call[p].step = "commit"
    BY CommitReserves DEF CommitHandle
  <1>2. HandleTypeOK /\ now \in Nat /\ day \in Nat /\ now <= day
    BY <1>1, HandlesAssumption DEF HandleInvariant, HandleTypeOK, CallsAreWhole, Working, Days
  <1>3. \A v \in Users : handle[v] # h
    BY <1>1 DEF HandleInvariant, TakersAreAlone
  <1>4. ClaimIsGood(call[p])
    BY <1>1 DEF HandleInvariant, ClaimsAreGood
  <1>5. reserved[h].user \in {Nobody, u} \/ reserved[h].expires <= now
    BY <1>1, <1>2, <1>4, HandlesAssumption DEF ClaimIsGood, IsReservedForOthers, HandleTypeOK
  <1>6. Registry!IsFree(h, u, now)
    BY <1>3, <1>5 DEF Registry!IsFree
  <1>u. Registry!Unreserved = NoReservation
    BY DEF Registry!Unreserved, NoReservation
  <1>7. ASSUME NEW k \in HandleNames
        PROVE  reserved'[k] = IF k = call[p].from THEN [user |-> u, expires |-> now + Quarantine]
                              ELSE IF k = h THEN NoReservation ELSE reserved[k]
    <2>1. CASE k = call[p].from
      BY <2>1, <1>1 DEF Rereserved
    <2>2. CASE k # call[p].from /\ k = h
      <3>1. reserved[h].user = u \/ reserved[h].expires <= now
        BY <1>1, <1>2, <1>5, HandlesAssumption DEF NobodyReserves, NoReservation
      <3> QED
        BY <3>1, <2>2, <1>1 DEF Rereserved
    <2>3. CASE k # call[p].from /\ k # h
      BY <2>3, <1>1 DEF Rereserved
    <2> QED
      BY <2>1, <2>2, <2>3
  <1>8. reserved' = [k \in HandleNames |-> reserved'[k]] /\ reserved = [k \in HandleNames |-> reserved[k]]
    BY <1>1, <1>2 DEF Rereserved, HandleTypeOK
  <1>9. CASE call[p].from = NoHandle
    <2>1. \A k \in HandleNames : k # call[p].from
      BY <1>9, HandlesAssumption
    <2>2. reserved' = [reserved EXCEPT ![h] = Registry!Unreserved]
      BY <2>1, <1>1, <1>u, <1>7, <1>8
    <2>3. handle[u] = NoHandle /\ changed' = changed
      BY <1>1, <1>9
    <2> QED
      BY <2>2, <2>3, <1>1, <1>6 DEF Registry!SignUp
  <1>10. CASE call[p].from # NoHandle
    <2>1. handle[u] \in HandleNames /\ handle[u] # h /\ handle[u] # NoHandle
      BY <1>1, <1>2, <1>10 DEF HandleTypeOK
    <2>2. reserved' = [reserved EXCEPT ![h] = Registry!Unreserved,
                                       ![handle[u]] = [user |-> u, expires |-> now + Quarantine]]
      BY <2>1, <1>1, <1>u, <1>7, <1>8
    <2>3. Registry!MayChange(u, h, now)
      <3>1. ~CoolingDown(u) \/ (reserved[h].user = u /\ reserved[h].expires > now)
        BY <1>4, <1>10 DEF ClaimIsGood
      <3>2. changed[u] \subseteq Nat /\ Cooldown \in Nat
        BY <1>1, <1>2, HandlesAssumption DEF HandleTypeOK, Days
      <3> QED
        BY <3>1, <3>2, <1>2 DEF Registry!MayChange, CoolingDown
    <2>4. changed' = [changed EXCEPT ![u] = @ \cup {now}]
      BY <1>1, <1>10
    <2> QED
      BY <2>1, <2>2, <2>3, <2>4, <1>1, <1>6 DEF Registry!Change
  <1> QED
    BY <1>9, <1>10

\* The collection drops reservations that are over.
LEMMA CollectionLapses ==
  ASSUME HandleInvariant, CollectReservations
  PROVE  Registry!Lapse
  <1> DEFINE H == {h \in HandleNames : reserved[h].user # Nobody /\ reserved[h].expires < day}
  <1>1. H \in SUBSET {h \in HandleNames : reserved[h].expires < day}
    OBVIOUS
  <1>2. reserved' = [h \in HandleNames |-> IF h \in H THEN Registry!Unreserved ELSE reserved[h]]
    BY DEF CollectReservations, NoReservation, Registry!Unreserved
  <1>3. UNCHANGED <<handle, changed, day>>
    BY DEF CollectReservations
  <1> HIDE DEF H
  <1> QED
    BY <1>1, <1>2, <1>3 DEF Registry!Lapse

\* A step that commits, collects or passes a day is one of the registry's; no
\* other changes what it keeps.
LEMMA StepActsAsRegistry ==
  HandleInvariant /\ NobodyReserves /\ [HandlesNext]_handleVars => [Registry!RegistryNext]_(Registry!registry)
  <1> SUFFICES ASSUME HandleInvariant, NobodyReserves, [HandlesNext]_handleVars
               PROVE  Registry!RegistryNext \/ UNCHANGED <<handle, reserved, changed, day>>
    BY DEF Registry!registry
  <1>1. ASSUME NEW p \in HandlePages, CommitHandle(p) PROVE Registry!RegistryNext
    <2>1. /\ call[p].user \in Users /\ call[p].to \in HandleNames
          /\ call[p].now \in Nat /\ day \in Nat /\ call[p].now <= day /\ day <= call[p].now + 1
      BY <1>1, HandlesAssumption
         DEF CommitHandle, HandleInvariant, HandleTypeOK, CallsAreWhole, Working, Days
    <2>2. call[p].now \in {day, day - 1} \cap Nat
      BY <2>1
    <2> QED
      BY <1>1, <2>1, <2>2, CommitActsAsRegistry DEF Registry!RegistryNext
  <1>2. CASE CollectReservations
    BY <1>2, CollectionLapses DEF Registry!RegistryNext
  <1>3. CASE DayPasses
    BY <1>3 DEF DayPasses, Registry!RegistryNext, Registry!NextDay
  <1> QED
    BY <1>1, <1>2, <1>3 DEF HandlesNext, handleVars, Submit, LockUser, IndexAccepts, BreakDeadlock,
       Claim, AbortHandle

\* Handles implements HandleRegistry for every number of accounts, pages and
\* days: whatever the transactions do to each other, those that commit are
\* single steps of the registry, and no other step shows in it.
THEOREM HandlesActAsRegistry == HandlesSpec => ActsAsRegistry
  <1>1. HandlesInit => NobodyReserves
    BY DEF HandlesInit, NobodyReserves
  <1>2. HandlesInit => Registry!RegistryInit
    BY DEF HandlesInit, NoReservation, Registry!RegistryInit, Registry!Unreserved
  <1>3. HandlesSpec => []NobodyReserves
    BY <1>1, HandleInvariantHolds, NobodyStillReserves, PTL DEF HandlesSpec
  <1> QED
    BY <1>2, <1>3, HandleInvariantHolds, StepActsAsRegistry, PTL
       DEF HandlesSpec, ActsAsRegistry, Registry!RegistrySpec
-----------------------------------------------------------------------------
(* MediaStream. *)

Waiting == {"subscribing", "abandoned"}
Served == {"subscribing", "live", "broken"}

\* A handler is served to the one page that reads its connection.
HandlersHavePages ==
    /\ \A v \in Viewers : at[v] # NoConnection => handler[at[v]].step \in Served
    /\ \A v, w \in Viewers : at[v] = at[w] /\ at[v] # NoConnection => v = w
    /\ \A c \in Connections : handler[c].step \in Served => \E v \in Viewers : at[v] = c
    /\ \A c \in Connections : handler[c].set # 0 <=> handler[c].step \in Waiting \cup {"live"}

\* The commands on the wire w alternate; each SUBSCRIBE is of a handler that
\* waits and has a Set of its own, the last one the Set `id` that is in the Map.
WireIsGood(w, h, id) ==
    /\ \A k \in 1 .. Len(w) : w[k] # Unsubscribe => h[w[k]].step \in Waiting
    /\ \A k, l \in 1 .. Len(w) :
          w[k] # Unsubscribe /\ w[l] # Unsubscribe /\ h[w[k]].set = h[w[l]].set => k = l
    /\ \A k \in 1 .. Len(w) - 1 : (w[k] = Unsubscribe) <=> (w[k + 1] # Unsubscribe)
    /\ Len(w) > 0 => IF id = 0 THEN w[Len(w)] = Unsubscribe
                     ELSE w[Len(w)] # Unsubscribe /\ h[w[Len(w)]].set = id

\* The subscription is what the last command answered made it, and a Set that
\* waits for nothing has a listener.
SubscriptionFollows ==
    /\ wire = <<>> => (subscribed <=> listeners.id # 0 /\ ~refused)
    /\ wire # <<>> /\ Head(wire) # Unsubscribe => ~subscribed
    /\ refused => wire = <<>> /\ listeners.id # 0
    /\ wire = <<>> /\ listeners.id # 0 /\ ~refused => listeners.members # {}

StreamInvariant == /\ MediaStreamTypeOK /\ HandlersHavePages
                   /\ WireIsGood(wire, handler, listeners.id) /\ SubscriptionFollows
-----------------------------------------------------------------------------
LEMMA NoSetIsASetId == 0 \in SetIds
  BY MediaStreamAssumption, FS_CardinalityType DEF SetIds

\* While the Map has no Set there is an identity that no handler holds.
LEMMA NewSetIdIsNew ==
  ASSUME MediaStreamTypeOK, listeners.id = 0
  PROVE  /\ NewSetId \in SetIds /\ NewSetId # 0
         /\ \A c \in Connections : handler[c].set # NewSetId
  <1> DEFINE n == Cardinality(Connections)
             Used == {handler[c].set : c \in Connections}
             f == [c \in Connections |-> handler[c].set]
  <1>1. n \in Nat
    BY MediaStreamAssumption, FS_CardinalityType
  <1>2. IsFiniteSet(Used) /\ Cardinality(Used) <= n
    <2>1. f \in Surjection(Connections, Used)
      BY DEF Surjection
    <2> QED
      BY <2>1, FS_Surjection, MediaStreamAssumption
  <1>3. Cardinality(1 .. n + 1) = n + 1
    BY <1>1, FS_Interval
  <1>4. ~(1 .. n + 1 \subseteq Used)
    <2> SUFFICES ASSUME 1 .. n + 1 \subseteq Used PROVE FALSE
      OBVIOUS
    <2>1. Cardinality(1 .. n + 1) <= Cardinality(Used)
      BY <1>2, FS_Subset
    <2>2. Cardinality(Used) \in Nat
      BY <1>2, FS_CardinalityType
    <2> QED
      BY <1>1, <1>2, <1>3, <2>1, <2>2
  <1>5. PICK g \in 1 .. n + 1 : g \notin Used
    BY <1>4
  <1>6. g \in SetIds \ {0} /\ g # listeners.id /\ \A c \in Connections : handler[c].set # g
    BY <1>1, <1>5 DEF SetIds
  <1> QED
    BY <1>6 DEF NewSetId

\* A command that is answered leaves the wire good.
LEMMA WireShortens ==
  ASSUME NEW w \in Seq(Connections \cup {Unsubscribe}), w # <<>>,
         NEW h, NEW id, WireIsGood(w, h, id),
         NEW h2, \A c \in Connections : c # Head(w) => h2[c] = h[c]
  PROVE  WireIsGood(Tail(w), h2, id)
  <1> DEFINE t == Tail(w)
  <1>1. /\ t \in Seq(Connections \cup {Unsubscribe}) /\ Len(w) \in Nat /\ Len(w) > 0
        /\ Len(t) = Len(w) - 1 /\ \A k \in 1 .. Len(t) : t[k] = w[k + 1] /\ k + 1 \in 1 .. Len(w)
        /\ Head(w) = w[1] /\ \A k \in 1 .. Len(w) : w[k] \in Connections \cup {Unsubscribe}
    OBVIOUS
  <1>2. ASSUME NEW k \in 1 .. Len(t), t[k] # Unsubscribe
        PROVE  t[k] \in Connections /\ h2[t[k]] = h[w[k + 1]]
    <2>1. t[k] = w[k + 1] /\ k + 1 \in 1 .. Len(w) /\ k + 1 # 1 /\ 1 \in 1 .. Len(w)
      BY <1>1
    <2>2. t[k] # Head(w)
      BY <1>1, <1>2, <2>1 DEF WireIsGood
    <2> QED
      BY <1>1, <1>2, <2>1, <2>2
  <1> HIDE DEF t
  <1>3. \A k \in 1 .. Len(t) : t[k] # Unsubscribe => h2[t[k]].step \in Waiting
    BY <1>1, <1>2 DEF WireIsGood
  <1>4. ASSUME NEW k \in 1 .. Len(t), NEW l \in 1 .. Len(t), t[k] # Unsubscribe, t[l] # Unsubscribe,
               h2[t[k]].set = h2[t[l]].set
        PROVE  k = l
    <2>1. k + 1 = l + 1
      BY <1>1, <1>2, <1>4 DEF WireIsGood
    <2> QED
      BY <2>1
  <1>5. ASSUME NEW k \in 1 .. Len(t) - 1 PROVE (t[k] = Unsubscribe) <=> (t[k + 1] # Unsubscribe)
    <2>1. /\ k \in 1 .. Len(t) /\ k + 1 \in 1 .. Len(t) /\ k + 1 \in 1 .. Len(w) - 1
          /\ t[k] = w[k + 1] /\ t[k + 1] = w[(k + 1) + 1]
      BY <1>1
    <2> QED
      BY <2>1 DEF WireIsGood
  <1>6. Len(t) > 0 => IF id = 0 THEN t[Len(t)] = Unsubscribe
                      ELSE t[Len(t)] # Unsubscribe /\ h2[t[Len(t)]].set = id
    BY <1>1, <1>2 DEF WireIsGood
  <1> QED
    BY <1>3, <1>4, <1>5, <1>6 DEF WireIsGood, t

\* The Set that is taken out of the Map unsubscribes.
LEMMA UnsubscribeGoesOut ==
  ASSUME NEW w \in Seq(Connections \cup {Unsubscribe}), NEW h, NEW id,
         WireIsGood(w, h, id), id # 0
  PROVE  WireIsGood(Append(w, Unsubscribe), h, 0)
  <1> DEFINE a == Append(w, Unsubscribe)
  <1>1. /\ Len(w) \in Nat /\ Len(a) = Len(w) + 1 /\ a[Len(a)] = Unsubscribe
        /\ \A k \in 1 .. Len(a) : (a[k] = w[k] /\ k \in 1 .. Len(w)) \/ k = Len(a)
    OBVIOUS
  <1> HIDE DEF a
  <1>2. ASSUME NEW k \in 1 .. Len(a) - 1 PROVE (a[k] = Unsubscribe) <=> (a[k + 1] # Unsubscribe)
    <2>1. CASE k + 1 = Len(a)
      BY <1>1, <2>1 DEF WireIsGood
    <2>2. CASE k + 1 # Len(a)
      BY <1>1, <2>2 DEF WireIsGood
    <2> QED
      BY <2>1, <2>2
  <1> QED
    BY <1>1, <1>2 DEF WireIsGood, a

\* The handler that makes a Set subscribes.
LEMMA SubscribeGoesOut ==
  ASSUME NEW w \in Seq(Connections \cup {Unsubscribe}), NEW c \in Connections, NEW id, id # 0,
         NEW h, WireIsGood(w, h, 0), h[c].step \notin Waiting,
         \A d \in Connections : h[d].set # id,
         NEW h2, h2[c].step = "subscribing" /\ h2[c].set = id,
         \A d \in Connections : d # c => h2[d] = h[d]
  PROVE  WireIsGood(Append(w, c), h2, id)
  <1> DEFINE a == Append(w, c)
  <1>0. c # Unsubscribe
    BY MediaStreamAssumption DEF Unsubscribe
  <1>1. /\ Len(w) \in Nat /\ Len(a) = Len(w) + 1 /\ a[Len(a)] = c
        /\ \A k \in 1 .. Len(a) : (a[k] = w[k] /\ k \in 1 .. Len(w)) \/ k = Len(a)
        /\ \A k \in 1 .. Len(w) : w[k] \in Connections \cup {Unsubscribe}
    OBVIOUS
  <1> HIDE DEF a
  <1>2. ASSUME NEW k \in 1 .. Len(w), w[k] # Unsubscribe
        PROVE  w[k] \in Connections /\ w[k] # c /\ h2[w[k]] = h[w[k]] /\ h[w[k]].step \in Waiting
                 /\ h[w[k]].set # id
    BY <1>1, <1>2 DEF WireIsGood
  <1>3. \A k \in 1 .. Len(a) : a[k] # Unsubscribe => h2[a[k]].step \in Waiting
    BY <1>1, <1>2 DEF Waiting
  <1>4. ASSUME NEW k \in 1 .. Len(a), NEW l \in 1 .. Len(a), a[k] # Unsubscribe, a[l] # Unsubscribe,
               h2[a[k]].set = h2[a[l]].set
        PROVE  k = l
    <2>1. CASE k # Len(a) /\ l # Len(a)
      <3>1. k \in 1 .. Len(w) /\ a[k] = w[k] /\ l \in 1 .. Len(w) /\ a[l] = w[l]
        BY <1>1, <2>1
      <3>2. h[w[k]].set = h[w[l]].set
        BY <1>2, <1>4, <3>1
      <3> QED
        BY <1>4, <3>1, <3>2 DEF WireIsGood
    <2>2. CASE k = Len(a) /\ l # Len(a)
      <3>1. l \in 1 .. Len(w) /\ a[l] = w[l] /\ a[k] = c
        BY <1>1, <2>2
      <3> QED
        BY <1>2, <1>4, <3>1
    <2>3. CASE k # Len(a) /\ l = Len(a)
      <3>1. k \in 1 .. Len(w) /\ a[k] = w[k] /\ a[l] = c
        BY <1>1, <2>3
      <3> QED
        BY <1>2, <1>4, <3>1
    <2> QED
      BY <2>1, <2>2, <2>3
  <1>5. ASSUME NEW k \in 1 .. Len(a) - 1 PROVE (a[k] = Unsubscribe) <=> (a[k + 1] # Unsubscribe)
    <2>1. CASE k + 1 = Len(a)
      BY <1>0, <1>1, <2>1 DEF WireIsGood
    <2>2. CASE k + 1 # Len(a)
      BY <1>1, <2>2 DEF WireIsGood
    <2> QED
      BY <2>1, <2>2
  <1> QED
    BY <1>0, <1>1, <1>3, <1>4, <1>5 DEF WireIsGood, a

\* Nothing else that happens to a handler matters to the wire.
LEMMA WireStays ==
  ASSUME NEW w \in Seq(Connections \cup {Unsubscribe}), NEW h, NEW id, WireIsGood(w, h, id), NEW h2,
         \A c \in Connections : h[c].step \in Waiting => h2[c].step \in Waiting /\ h2[c].set = h[c].set
  PROVE  WireIsGood(w, h2, id)
  <1>1. \A k \in 1 .. Len(w) : w[k] \in Connections \cup {Unsubscribe}
    OBVIOUS
  <1>2. ASSUME NEW k \in 1 .. Len(w), w[k] # Unsubscribe
        PROVE  h2[w[k]].step \in Waiting /\ h2[w[k]].set = h[w[k]].set
    BY <1>1, <1>2 DEF WireIsGood
  <1>3. Len(w) \in Nat
    OBVIOUS
  <1> QED
    BY <1>2, <1>3 DEF WireIsGood

\* A listener leaves: the Set stays with another, or goes with an UNSUBSCRIBE.
LEMMA LeavingIsGood ==
  ASSUME NEW c \in Connections, NEW map \in [id: SetIds, members: SUBSET Connections],
         NEW commands \in Seq(Connections \cup {Unsubscribe}), NEW h,
         WireIsGood(commands, h, map.id), Leave(c, map, commands)
  PROVE  /\ WireIsGood(wire', h, listeners'.id)
         /\ \/ /\ listeners' = NoListeners /\ wire' = Append(commands, Unsubscribe)
               /\ refused' = FALSE /\ map.id # 0
            \/ /\ listeners' = [id |-> map.id, members |-> map.members \ {c}]
               /\ map.id # 0 => map.members \ {c} # {}
               /\ wire' = commands /\ refused' = refused
  <1>1. CASE map.id # 0 /\ map.members \ {c} = {}
    <2>1. listeners' = NoListeners /\ wire' = Append(commands, Unsubscribe) /\ refused' = FALSE
      BY <1>1 DEF Leave
    <2>2. listeners'.id = 0
      BY <2>1 DEF NoListeners
    <2> QED
      BY <1>1, <2>1, <2>2, UnsubscribeGoesOut
  <1>2. CASE ~(map.id # 0 /\ map.members \ {c} = {})
    <2>1. listeners' = [map EXCEPT !.members = map.members \ {c}] /\ wire' = commands /\ refused' = refused
      BY <1>2 DEF Leave
    <2>2. listeners' = [id |-> map.id, members |-> map.members \ {c}]
      BY <2>1
    <2> QED
      BY <1>2, <2>1, <2>2
  <1> QED
    BY <1>1, <1>2

\* A page only moves on.
LEMMA PageStepIsGood ==
  ASSUME StreamInvariant, ServerUnchanged, MediaStreamTypeOK'
  PROVE  StreamInvariant'
  BY DEF StreamInvariant, ServerUnchanged, HandlersHavePages, WireIsGood, SubscriptionFollows

\* A connection is accepted: it makes the Set, or joins it.
LEMMA AcceptIsGood ==
  ASSUME StreamInvariant, NEW v \in Viewers, NEW c \in Connections, Accept(v, c)
  PROVE  StreamInvariant'
  <1> USE MediaStreamAssumption DEF StreamInvariant
  <1>0. /\ c # NoConnection /\ at[v] = NoConnection /\ loop[v] = "asking" /\ handler[c].step = "none"
        /\ handler[c].set = 0 /\ at' = [at EXCEPT ![v] = c] /\ UNCHANGED <<subscribed, refused>>
        /\ at' \in [Viewers -> Connections \cup {NoConnection}]
        /\ \A w \in Viewers : at[w] # c
    <2>1. /\ loop[v] = "asking" /\ handler[c].step = "none" /\ at' = [at EXCEPT ![v] = c]
          /\ UNCHANGED <<subscribed, refused>>
      BY DEF Accept
    <2>2. c # NoConnection /\ at[v] = NoConnection
      BY <2>1 DEF MediaStreamTypeOK
    <2>3. handler[c].set = 0
      BY <2>1 DEF HandlersHavePages, Waiting
    <2>4. at' \in [Viewers -> Connections \cup {NoConnection}]
      BY <2>1 DEF MediaStreamTypeOK
    <2>5. \A w \in Viewers : at[w] # c
      BY <2>1, <2>2 DEF HandlersHavePages, Served
    <2> QED
      BY <2>1, <2>2, <2>3, <2>4, <2>5
  <1>1. /\ loop' \in [Viewers -> {"asking", "reading", "pausing", "stopped"}]
        /\ missed' \in [Viewers -> 0 .. OfflineAfter]
        /\ \A w \in Viewers : loop'[w] = "reading" <=> at'[w] # NoConnection
    BY <1>0 DEF Accept, MediaStreamTypeOK
  <1>2. CASE listeners.id = 0
    <2>1. NewSetId \in SetIds /\ NewSetId # 0 /\ \A d \in Connections : handler[d].set # NewSetId
      BY <1>2, NewSetIdIsNew
    <2>2. /\ listeners' = [id |-> NewSetId, members |-> {}]
          /\ handler' = [handler EXCEPT ![c] = [step |-> "subscribing", set |-> NewSetId]]
          /\ wire' = Append(wire, c)
      BY <1>2 DEF Accept
    <2> HIDE DEF StreamInvariant
    <2>3. MediaStreamTypeOK'
      <3>1. handler' \in [Connections -> [step: {"none", "subscribing", "abandoned", "live", "broken"},
                                        set: SetIds]]
        BY <2>1, <2>2 DEF MediaStreamTypeOK, StreamInvariant
      <3>2. /\ listeners' \in [id: SetIds, members: SUBSET Connections]
            /\ \A d \in listeners'.members : handler'[d].step = "live" /\ handler'[d].set = listeners'.id
        BY <2>1, <2>2
      <3>3. wire' \in Seq(Connections \cup {Unsubscribe})
        BY <2>2 DEF MediaStreamTypeOK, StreamInvariant
      <3> QED
        BY <1>0, <1>1, <3>1, <3>2, <3>3 DEF MediaStreamTypeOK, StreamInvariant
    <2>4. HandlersHavePages'
      BY <1>0, <2>1, <2>2 DEF HandlersHavePages, Served, Waiting, MediaStreamTypeOK, StreamInvariant
    <2>5. WireIsGood(wire', handler', listeners'.id)
      <3>1. handler'[c].step = "subscribing" /\ handler'[c].set = NewSetId
            /\ \A d \in Connections : d # c => handler'[d] = handler[d]
        BY <2>2 DEF StreamInvariant, MediaStreamTypeOK
      <3>2. handler[c].step \notin Waiting
        BY <1>0 DEF Waiting
      <3>3. WireIsGood(wire, handler, 0) /\ wire \in Seq(Connections \cup {Unsubscribe})
        BY <1>2 DEF StreamInvariant, MediaStreamTypeOK
      <3>4. WireIsGood(Append(wire, c), handler', NewSetId)
        BY <2>1, <3>1, <3>2, <3>3, SubscribeGoesOut
      <3> QED
        BY <2>2, <3>4
    <2>6. SubscriptionFollows'
      BY <1>0, <1>2, <2>1, <2>2 DEF SubscriptionFollows, MediaStreamTypeOK, StreamInvariant, WireIsGood
    <2> QED
      BY <2>3, <2>4, <2>5, <2>6 DEF StreamInvariant
  <1>3. CASE listeners.id # 0
    <2>1. /\ listeners' = [listeners EXCEPT !.members = listeners.members \cup {c}]
          /\ handler' = [handler EXCEPT ![c] = [step |-> "live", set |-> listeners.id]]
          /\ wire' = wire
      BY <1>3 DEF Accept
    <2>2. listeners'.id = listeners.id /\ listeners'.members = listeners.members \cup {c}
      BY <2>1 DEF MediaStreamTypeOK
    <2>3. MediaStreamTypeOK'
      <3>1. handler' \in [Connections -> [step: {"none", "subscribing", "abandoned", "live", "broken"},
                                        set: SetIds]]
        BY <2>1 DEF MediaStreamTypeOK
      <3>2. listeners' \in [id: SetIds, members: SUBSET Connections]
        BY <2>1 DEF MediaStreamTypeOK
      <3>3. handler'[c].step = "live" /\ handler'[c].set = listeners.id
            /\ \A d \in Connections : d # c => handler'[d] = handler[d]
        BY <2>1 DEF MediaStreamTypeOK
      <3>4. \A d \in listeners'.members : handler'[d].step = "live" /\ handler'[d].set = listeners'.id
        BY <2>2, <3>3 DEF MediaStreamTypeOK
      <3> QED
        BY <1>0, <1>1, <2>1, <3>1, <3>2, <3>4 DEF MediaStreamTypeOK
    <2>4. HandlersHavePages'
      BY <1>0, <1>3, <2>1 DEF HandlersHavePages, Served, Waiting, MediaStreamTypeOK
    <2>5. WireIsGood(wire, handler', listeners.id)
      <3>1. \A d \in Connections : handler[d].step \in Waiting =>
                handler'[d].step \in Waiting /\ handler'[d].set = handler[d].set
        BY <1>0, <2>1 DEF Waiting, MediaStreamTypeOK
      <3> QED
        BY <3>1, WireStays DEF MediaStreamTypeOK
    <2>6. SubscriptionFollows'
      BY <1>0, <1>3, <2>1, <2>2 DEF SubscriptionFollows
    <2> QED
      BY <2>1, <2>2, <2>3, <2>4, <2>5, <2>6
  <1> QED
    BY <1>2, <1>3

\* The connection of a page closes.
LEMMA CloseIsGood ==
  ASSUME StreamInvariant, NEW v \in Viewers, loop[v] = "reading", Close(v),
         NEW x \in {"pausing", "stopped"}, loop' = [loop EXCEPT ![v] = x],
         missed' \in [Viewers -> 0 .. OfflineAfter]
  PROVE  StreamInvariant'
  <1> DEFINE c == at[v]
  <1>0. /\ MediaStreamTypeOK /\ HandlersHavePages /\ SubscriptionFollows
        /\ WireIsGood(wire, handler, listeners.id) /\ wire \in Seq(Connections \cup {Unsubscribe})
        /\ listeners \in [id: SetIds, members: SUBSET Connections]
        /\ at' = [at EXCEPT ![v] = NoConnection] /\ subscribed' = subscribed
    BY DEF StreamInvariant, MediaStreamTypeOK, Close
  <1>1. /\ c \in Connections /\ c # NoConnection
        /\ handler[c].step \in Served
        /\ \A w \in Viewers : at[w] = c => w = v
        /\ at' \in [Viewers -> Connections \cup {NoConnection}]
        /\ loop' \in [Viewers -> {"asking", "reading", "pausing", "stopped"}]
        /\ \A w \in Viewers : loop'[w] = "reading" <=> at'[w] # NoConnection
    BY <1>0 DEF MediaStreamTypeOK, HandlersHavePages
  <1>2. /\ \A w \in Viewers : at'[w] # NoConnection => at'[w] = at[w] /\ at[w] # c
        /\ \A w \in Viewers : w # v => at'[w] = at[w]
    BY <1>0, <1>1 DEF MediaStreamTypeOK
  <1> HIDE DEF c
  <1>3. CASE handler[c].step = "live"
    <2>1. handler' = [handler EXCEPT ![c] = NoHandler] /\ Leave(c, listeners, wire)
      BY <1>3 DEF Close, c
    <2>2. /\ \A d \in Connections : d # c => handler'[d] = handler[d]
          /\ handler'[c] = NoHandler
      BY <1>0, <1>1, <2>1 DEF MediaStreamTypeOK
    <2>3. WireIsGood(wire, handler', listeners.id)
      <3>1. \A d \in Connections : handler[d].step \in Waiting =>
                handler'[d].step \in Waiting /\ handler'[d].set = handler[d].set
        BY <1>3, <2>2 DEF Waiting
      <3> QED
        BY <1>0, <3>1, WireStays
    <2>4. /\ WireIsGood(wire', handler', listeners'.id)
          /\ \/ /\ listeners' = NoListeners /\ wire' = Append(wire, Unsubscribe)
                /\ refused' = FALSE /\ listeners.id # 0
             \/ /\ listeners' = [id |-> listeners.id, members |-> listeners.members \ {c}]
                /\ listeners.id # 0 => listeners.members \ {c} # {}
                /\ wire' = wire /\ refused' = refused
      BY <1>0, <1>1, <2>1, <2>3, LeavingIsGood
    <2>5. MediaStreamTypeOK'
      <3>0. wire' \in Seq(Connections \cup {Unsubscribe}) /\ refused' \in BOOLEAN
        <4>1. wire' = wire \/ wire' = Append(wire, Unsubscribe)
          BY <2>4
        <4>2. wire' \in Seq(Connections \cup {Unsubscribe})
          BY <1>0, <4>1
        <4>3. refused \in BOOLEAN
          BY <1>0 DEF MediaStreamTypeOK
        <4> QED
          BY <2>4, <4>2, <4>3
      <3>1. handler' \in [Connections -> [step: {"none", "subscribing", "abandoned", "live", "broken"},
                                        set: SetIds]]
        BY <1>0, <1>1, <2>1, NoSetIsASetId DEF MediaStreamTypeOK, NoHandler
      <3>2. /\ listeners' \in [id: SetIds, members: SUBSET Connections]
            /\ \A d \in listeners'.members : handler'[d].step = "live" /\ handler'[d].set = listeners'.id
        <4>1. \A d \in listeners.members : handler[d].step = "live" /\ handler[d].set = listeners.id
          BY <1>0 DEF MediaStreamTypeOK
        <4>2. CASE listeners' = NoListeners
          BY <4>2, NoSetIsASetId DEF NoListeners
        <4>3. CASE listeners' = [id |-> listeners.id, members |-> listeners.members \ {c}]
          BY <1>0, <2>2, <4>1, <4>3
        <4> QED
          BY <2>4, <4>2, <4>3
      <3> QED
        BY <1>0, <1>1, <3>0, <3>1, <3>2 DEF MediaStreamTypeOK
    <2>6. HandlersHavePages'
      <3>1. \A w \in Viewers : at'[w] # NoConnection => handler'[at'[w]].step \in Served
        BY <1>0, <1>2, <2>2 DEF HandlersHavePages, MediaStreamTypeOK
      <3>2. \A w, u \in Viewers : at'[w] = at'[u] /\ at'[w] # NoConnection => w = u
        BY <1>0, <1>2 DEF HandlersHavePages
      <3>3. \A d \in Connections : handler'[d].step \in Served => \E w \in Viewers : at'[w] = d
        <4>1. ASSUME NEW d \in Connections, handler'[d].step \in Served
              PROVE  \E w \in Viewers : at'[w] = d
          <5>1. d # c
            BY <2>2, <4>1 DEF NoHandler, Served
          <5>2. PICK w \in Viewers : at[w] = d
            BY <1>0, <2>2, <4>1, <5>1 DEF HandlersHavePages
          <5>3. w # v
            BY <5>1, <5>2 DEF c
          <5> QED
            BY <1>2, <5>2, <5>3
        <4> QED
          BY <4>1
      <3>4. \A d \in Connections : handler'[d].set # 0 <=> handler'[d].step \in Waiting \cup {"live"}
        BY <1>0, <1>1, <2>2 DEF HandlersHavePages, NoHandler, Waiting
      <3> QED
        BY <3>1, <3>2, <3>3, <3>4 DEF HandlersHavePages
    <2>7. SubscriptionFollows'
      <3>1. CASE listeners' = NoListeners /\ wire' = Append(wire, Unsubscribe) /\ refused' = FALSE
        <4>1. listeners'.id = 0 /\ wire' # <<>> /\ (wire = <<>> => Head(wire') = Unsubscribe)
              /\ (wire # <<>> => Head(wire') = Head(wire))
          BY <1>0, <3>1 DEF NoListeners
        <4> QED
          BY <1>0, <3>1, <4>1 DEF SubscriptionFollows
      <3>2. CASE /\ listeners' = [id |-> listeners.id, members |-> listeners.members \ {c}]
                 /\ listeners.id # 0 => listeners.members \ {c} # {}
                 /\ wire' = wire /\ refused' = refused
        <4>1. listeners'.id = listeners.id /\ listeners'.members = listeners.members \ {c}
          BY <3>2
        <4> QED
          BY <1>0, <3>2, <4>1 DEF SubscriptionFollows
      <3> QED
        BY <2>4, <3>1, <3>2
    <2> QED
      BY <2>4, <2>5, <2>6, <2>7 DEF StreamInvariant
  <1>4. CASE handler[c].step \in {"subscribing", "broken"}
    <2>1. /\ UNCHANGED <<listeners, wire, refused>>
          /\ \/ handler[c].step = "subscribing" /\ handler' = [handler EXCEPT ![c].step = "abandoned"]
             \/ handler[c].step = "broken" /\ handler' = [handler EXCEPT ![c] = NoHandler]
      BY <1>4 DEF Close, c
    <2>2. /\ \A d \in Connections : d # c => handler'[d] = handler[d]
          /\ \/ handler[c].step = "subscribing" /\ handler'[c].step = "abandoned"
                /\ handler'[c].set = handler[c].set
             \/ handler[c].step = "broken" /\ handler'[c] = NoHandler
      BY <1>0, <1>1, <2>1 DEF MediaStreamTypeOK
    <2>3. WireIsGood(wire, handler', listeners.id)
      <3>1. \A d \in Connections : handler[d].step \in Waiting =>
                handler'[d].step \in Waiting /\ handler'[d].set = handler[d].set
        BY <2>2 DEF Waiting
      <3> QED
        BY <1>0, <3>1, WireStays
    <2>4. handler' \in [Connections -> [step: {"none", "subscribing", "abandoned", "live", "broken"},
                                        set: SetIds]]
      <3>1. CASE handler[c].step = "subscribing" /\ handler' = [handler EXCEPT ![c].step = "abandoned"]
        <4> DEFINE g == [step |-> "abandoned", set |-> handler[c].set]
        <4>1. handler[c] \in [step: {"none", "subscribing", "abandoned", "live", "broken"}, set: SetIds]
              /\ handler \in [Connections -> [step: {"none", "subscribing", "abandoned", "live", "broken"},
                                              set: SetIds]]
          BY <1>0, <1>1 DEF MediaStreamTypeOK
        <4>2. [handler[c] EXCEPT !.step = "abandoned"] = g
          BY <4>1
        <4>3. handler' = [handler EXCEPT ![c] = g]
          BY <3>1, <4>2
        <4>4. g \in [step: {"none", "subscribing", "abandoned", "live", "broken"}, set: SetIds]
          BY <4>1
        <4> QED
          BY <4>1, <4>3, <4>4
      <3>2. CASE handler' = [handler EXCEPT ![c] = NoHandler]
        BY <1>0, <1>1, <3>2, NoSetIsASetId DEF MediaStreamTypeOK, NoHandler
      <3> QED
        BY <2>1, <3>1, <3>2
    <2>5. \A d \in listeners.members : handler'[d].step = "live" /\ handler'[d].set = listeners.id
      BY <1>0, <1>4, <2>2 DEF MediaStreamTypeOK
    <2>6. MediaStreamTypeOK'
      BY <1>0, <1>1, <2>1, <2>4, <2>5 DEF MediaStreamTypeOK
    <2>7. HandlersHavePages'
      <3>1. \A w \in Viewers : at'[w] # NoConnection => handler'[at'[w]].step \in Served
        BY <1>0, <1>2, <2>2 DEF HandlersHavePages, MediaStreamTypeOK
      <3>2. \A w, u \in Viewers : at'[w] = at'[u] /\ at'[w] # NoConnection => w = u
        BY <1>0, <1>2 DEF HandlersHavePages
      <3>3. \A d \in Connections : handler'[d].step \in Served => \E w \in Viewers : at'[w] = d
        <4>1. ASSUME NEW d \in Connections, handler'[d].step \in Served
              PROVE  \E w \in Viewers : at'[w] = d
          <5>1. d # c
            BY <2>2, <4>1 DEF NoHandler, Served
          <5>2. PICK w \in Viewers : at[w] = d
            BY <1>0, <2>2, <4>1, <5>1 DEF HandlersHavePages
          <5>3. w # v
            BY <5>1, <5>2 DEF c
          <5> QED
            BY <1>2, <5>2, <5>3
        <4> QED
          BY <4>1
      <3>4. \A d \in Connections : handler'[d].set # 0 <=> handler'[d].step \in Waiting \cup {"live"}
        BY <1>0, <1>1, <2>2 DEF HandlersHavePages, NoHandler, Waiting
      <3> QED
        BY <3>1, <3>2, <3>3, <3>4 DEF HandlersHavePages
    <2> QED
      BY <1>0, <2>1, <2>3, <2>6, <2>7 DEF StreamInvariant, SubscriptionFollows
  <1> QED
    BY <1>1, <1>3, <1>4 DEF Served

\* What the first command on the wire says of the rest.
LEMMA FirstCommand ==
  ASSUME StreamInvariant, wire # <<>>
  PROVE  /\ wire \in Seq(Connections \cup {Unsubscribe})
         /\ Tail(wire) \in Seq(Connections \cup {Unsubscribe})
         /\ Head(wire) \in Connections \cup {Unsubscribe}
         /\ ~refused
         /\ Tail(wire) # <<>> =>
               ((Head(Tail(wire)) = Unsubscribe) <=> (Head(wire) # Unsubscribe))
         /\ Tail(wire) = <<>> => IF listeners.id = 0 THEN Head(wire) = Unsubscribe
                                 ELSE Head(wire) # Unsubscribe /\ handler[Head(wire)].set = listeners.id
         /\ Head(wire) # Unsubscribe => handler[Head(wire)].step \in Waiting
         /\ Head(wire) # Unsubscribe => ~subscribed
         /\ Head(wire) # Unsubscribe /\ handler[Head(wire)].set = listeners.id => Tail(wire) = <<>> \/ listeners.id = 0
  <1>1. /\ wire \in Seq(Connections \cup {Unsubscribe}) /\ WireIsGood(wire, handler, listeners.id)
        /\ SubscriptionFollows
    BY DEF StreamInvariant, MediaStreamTypeOK
  <1>2. /\ Len(wire) \in Nat /\ Len(wire) > 0 /\ Head(wire) = wire[1]
        /\ 1 \in 1 .. Len(wire) /\ wire[1] \in Connections \cup {Unsubscribe}
        /\ Tail(wire) \in Seq(Connections \cup {Unsubscribe}) /\ Len(Tail(wire)) = Len(wire) - 1
    BY <1>1
  <1>2a. Tail(wire) = <<>> <=> Len(wire) = 1
    <2> DEFINE t == Tail(wire)
    <2>1. t \in Seq(Connections \cup {Unsubscribe}) /\ Len(t) = Len(wire) - 1 /\ Len(wire) \in Nat
      BY <1>2
    <2> HIDE DEF t
    <2>2. t = <<>> <=> Len(t) = 0
      BY <2>1
    <2> QED
      BY <2>1, <2>2 DEF t
  <1>3. ASSUME Tail(wire) # <<>>
        PROVE  1 \in 1 .. Len(wire) - 1 /\ Head(Tail(wire)) = wire[1 + 1]
    BY <1>1, <1>2, <1>3
  <1>4. Tail(wire) # <<>> => ((Head(Tail(wire)) = Unsubscribe) <=> (Head(wire) # Unsubscribe))
    BY <1>1, <1>2, <1>3 DEF WireIsGood
  <1>5. ASSUME Tail(wire) = <<>>
        PROVE  IF listeners.id = 0 THEN Head(wire) = Unsubscribe
               ELSE Head(wire) # Unsubscribe /\ handler[Head(wire)].set = listeners.id
    <2>1. Len(wire) = 1
      BY <1>2a, <1>5
    <2> QED
      BY <1>1, <1>2, <2>1 DEF WireIsGood
  <1>6. Head(wire) # Unsubscribe => handler[Head(wire)].step \in Waiting
    BY <1>1, <1>2 DEF WireIsGood
  <1>7. ASSUME Head(wire) # Unsubscribe, handler[Head(wire)].set = listeners.id, listeners.id # 0
        PROVE  Tail(wire) = <<>>
    <2>1. /\ wire[Len(wire)] # Unsubscribe /\ handler[wire[Len(wire)]].set = listeners.id
          /\ Len(wire) \in 1 .. Len(wire)
      BY <1>1, <1>2, <1>7 DEF WireIsGood
    <2>2. Len(wire) = 1
      BY <1>1, <1>2, <1>7, <2>1 DEF WireIsGood
    <2> QED
      BY <1>2a, <2>2
  <1>8. ~refused /\ (Head(wire) # Unsubscribe => ~subscribed)
    BY <1>1 DEF SubscriptionFollows
  <1> QED
    BY <1>1, <1>2, <1>4, <1>5, <1>6, <1>7, <1>8

\* SUBSCRIBE is answered.
LEMMA AnswerIsGood ==
  ASSUME StreamInvariant, SubscribeAnswered
  PROVE  StreamInvariant'
  <1> DEFINE c == Head(wire)
             joined == IF handler[c].set = listeners.id
                       THEN [listeners EXCEPT !.members = listeners.members \cup {c}] ELSE listeners
             Handlers == [step: {"none", "subscribing", "abandoned", "live", "broken"}, set: SetIds]
  <1>0. /\ MediaStreamTypeOK /\ HandlersHavePages /\ SubscriptionFollows
        /\ WireIsGood(wire, handler, listeners.id)
        /\ listeners \in [id: SetIds, members: SUBSET Connections]
        /\ handler \in [Connections -> Handlers]
        /\ wire # <<>> /\ c # Unsubscribe
        /\ UNCHANGED <<loop, missed, at>> /\ subscribed' = TRUE
    BY DEF StreamInvariant, MediaStreamTypeOK, SubscribeAnswered
  <1>1. /\ Tail(wire) \in Seq(Connections \cup {Unsubscribe})
        /\ c \in Connections /\ handler[c].step \in Waiting /\ ~refused
        /\ Tail(wire) # <<>> => Head(Tail(wire)) = Unsubscribe
        /\ Tail(wire) = <<>> => listeners.id # 0 /\ handler[c].set = listeners.id
    BY <1>0, FirstCommand
  <1>2. /\ joined \in [id: SetIds, members: SUBSET Connections] /\ joined.id = listeners.id
        /\ joined.members \ {c} = listeners.members /\ c \notin listeners.members
        /\ handler[c].set = listeners.id => joined.members = listeners.members \cup {c}
        /\ handler[c].set # listeners.id => joined.members = listeners.members
    BY <1>0, <1>1 DEF MediaStreamTypeOK, Waiting
  <1>3. \/ /\ handler[c].step = "abandoned" /\ handler' = [handler EXCEPT ![c] = NoHandler]
           /\ Leave(c, joined, Tail(wire))
        \/ /\ handler[c].step = "subscribing" /\ handler' = [handler EXCEPT ![c].step = "live"]
           /\ listeners' = joined /\ wire' = Tail(wire) /\ refused' = refused
    BY <1>1 DEF SubscribeAnswered, Waiting
  <1> HIDE DEF c, joined
  <1>4. CASE handler[c].step = "abandoned"
    <2>1. handler' = [handler EXCEPT ![c] = NoHandler] /\ Leave(c, joined, Tail(wire))
      BY <1>3, <1>4
    <2>2. handler'[c] = NoHandler /\ \A d \in Connections : d # c => handler'[d] = handler[d]
      BY <1>0, <1>1, <2>1
    <2>3. WireIsGood(Tail(wire), handler', joined.id)
      BY <1>0, <1>2, <2>2, WireShortens DEF c, MediaStreamTypeOK
    <2>4. /\ WireIsGood(wire', handler', listeners'.id)
          /\ \/ /\ listeners' = NoListeners /\ wire' = Append(Tail(wire), Unsubscribe)
                /\ refused' = FALSE /\ joined.id # 0
             \/ /\ listeners' = [id |-> listeners.id, members |-> listeners.members]
                /\ listeners.id # 0 => listeners.members # {}
                /\ wire' = Tail(wire) /\ refused' = refused
      BY <1>1, <1>2, <2>1, <2>3, LeavingIsGood
    <2>5. MediaStreamTypeOK'
      <3>1. handler' \in [Connections -> Handlers]
        BY <1>0, <2>1, NoSetIsASetId DEF NoHandler
      <3>2. wire' = Tail(wire) \/ wire' = Append(Tail(wire), Unsubscribe)
        BY <2>4
      <3>3. wire' \in Seq(Connections \cup {Unsubscribe})
        BY <1>1, <3>2
      <3>4. refused' \in BOOLEAN
        <4>1. refused \in BOOLEAN
          BY <1>0 DEF MediaStreamTypeOK
        <4> QED
          BY <2>4, <4>1
      <3>5. \A d \in listeners.members : handler'[d].step = "live" /\ handler'[d].set = listeners.id
        BY <1>0, <1>2, <2>2 DEF MediaStreamTypeOK
      <3>6. /\ listeners' \in [id: SetIds, members: SUBSET Connections]
            /\ \A d \in listeners'.members : handler'[d].step = "live" /\ handler'[d].set = listeners'.id
        <4>1. CASE listeners' = NoListeners
          BY <4>1, NoSetIsASetId DEF NoListeners
        <4>2. CASE listeners' = [id |-> listeners.id, members |-> listeners.members]
          BY <1>0, <3>5, <4>2
        <4> QED
          BY <2>4, <4>1, <4>2
      <3> QED
        BY <1>0, <3>1, <3>3, <3>4, <3>6 DEF MediaStreamTypeOK
    <2>6. HandlersHavePages'
      <3>1. handler'[c].step \in Served <=> handler[c].step \in Served
        BY <1>4, <2>2 DEF Served, NoHandler
      <3>2. \A d \in Connections : handler'[d].step \in Served <=> handler[d].step \in Served
        BY <2>2, <3>1
      <3>3. \A d \in Connections : handler'[d].set # 0 <=> handler'[d].step \in Waiting \cup {"live"}
        BY <1>0, <1>1, <2>2 DEF HandlersHavePages, Waiting, NoHandler
      <3>4. \A v \in Viewers : at[v] # NoConnection => at[v] \in Connections
        BY <1>0 DEF MediaStreamTypeOK
      <3> QED
        BY <1>0, <3>2, <3>3, <3>4 DEF HandlersHavePages
    <2>7. SubscriptionFollows'
      <3>1. CASE listeners' = NoListeners /\ wire' = Append(Tail(wire), Unsubscribe) /\ refused' = FALSE
        <4>1. listeners'.id = 0 /\ wire' # <<>> /\ (Tail(wire) = <<>> => Head(wire') = Unsubscribe)
              /\ (Tail(wire) # <<>> => Head(wire') = Head(Tail(wire)))
          <5> DEFINE t == Tail(wire)
          <5>1. t \in Seq(Connections \cup {Unsubscribe}) /\ wire' = Append(t, Unsubscribe)
            BY <1>1, <3>1
          <5> HIDE DEF t
          <5>2. wire' # <<>> /\ (t = <<>> => Head(wire') = Unsubscribe) /\ (t # <<>> => Head(wire') = Head(t))
            BY <5>1
          <5> QED
            BY <3>1, <5>2 DEF NoListeners, t
        <4> QED
          BY <1>1, <3>1, <4>1 DEF SubscriptionFollows
      <3>2. CASE /\ listeners' = [id |-> listeners.id, members |-> listeners.members]
                 /\ listeners.id # 0 => listeners.members # {}
                 /\ wire' = Tail(wire) /\ refused' = refused
        <4>1. listeners'.id = listeners.id /\ listeners'.members = listeners.members
          BY <3>2
        <4> QED
          BY <1>0, <1>1, <3>2, <4>1 DEF SubscriptionFollows
      <3> QED
        BY <2>4, <3>1, <3>2
    <2> QED
      BY <2>4, <2>5, <2>6, <2>7 DEF StreamInvariant
  <1>5. CASE handler[c].step = "subscribing"
    <2>1. /\ handler' = [handler EXCEPT ![c].step = "live"]
          /\ listeners' = joined /\ wire' = Tail(wire) /\ refused' = refused
      BY <1>3, <1>5
    <2>2. /\ handler'[c] = [step |-> "live", set |-> handler[c].set]
          /\ \A d \in Connections : d # c => handler'[d] = handler[d]
          /\ handler' \in [Connections -> Handlers]
      <3> DEFINE g == [step |-> "live", set |-> handler[c].set]
      <3>1. handler[c] \in Handlers
        BY <1>0, <1>1
      <3>2. [handler[c] EXCEPT !.step = "live"] = g /\ g \in Handlers
        BY <3>1
      <3>3. handler' = [handler EXCEPT ![c] = g]
        BY <2>1, <3>2
      <3> QED
        BY <1>0, <1>1, <3>2, <3>3
    <2>3. WireIsGood(wire', handler', listeners'.id)
      BY <1>0, <1>2, <2>1, <2>2, WireShortens DEF c, MediaStreamTypeOK
    <2>4. MediaStreamTypeOK'
      <3>1. \A d \in joined.members : handler'[d].step = "live" /\ handler'[d].set = joined.id
        BY <1>0, <1>2, <2>2 DEF MediaStreamTypeOK
      <3> QED
        BY <1>0, <1>1, <1>2, <2>1, <2>2, <3>1 DEF MediaStreamTypeOK
    <2>5. HandlersHavePages'
      <3>1. handler'[c].step \in Served <=> handler[c].step \in Served
        BY <1>5, <2>2 DEF Served
      <3>2. \A d \in Connections : handler'[d].step \in Served <=> handler[d].step \in Served
        BY <2>2, <3>1
      <3>3. \A d \in Connections : handler'[d].set # 0 <=> handler'[d].step \in Waiting \cup {"live"}
        BY <1>0, <1>1, <2>2 DEF HandlersHavePages, Waiting
      <3>4. \A v \in Viewers : at[v] # NoConnection => at[v] \in Connections
        BY <1>0 DEF MediaStreamTypeOK
      <3> QED
        BY <1>0, <3>2, <3>3, <3>4 DEF HandlersHavePages
    <2>6. SubscriptionFollows'
      BY <1>0, <1>1, <1>2, <2>1 DEF SubscriptionFollows
    <2> QED
      BY <2>3, <2>4, <2>5, <2>6 DEF StreamInvariant
  <1> QED
    BY <1>1, <1>4, <1>5 DEF Waiting

\* SUBSCRIBE fails: its Set, if it is still in the Map, is marked by it.
LEMMA FailureIsGood ==
  ASSUME StreamInvariant, SubscribeFails
  PROVE  StreamInvariant'
  <1> DEFINE c == Head(wire)
             g == IF handler[c].step = "abandoned" THEN NoHandler ELSE [step |-> "broken", set |-> 0]
             Handlers == [step: {"none", "subscribing", "abandoned", "live", "broken"}, set: SetIds]
  <1>0. /\ MediaStreamTypeOK /\ HandlersHavePages /\ SubscriptionFollows
        /\ WireIsGood(wire, handler, listeners.id) /\ handler \in [Connections -> Handlers]
        /\ wire # <<>> /\ c # Unsubscribe
        /\ handler' = [handler EXCEPT ![c] = g] /\ wire' = Tail(wire)
        /\ refused' = (refused \/ handler[c].set = listeners.id)
        /\ UNCHANGED <<loop, missed, at, listeners, subscribed>>
    BY DEF StreamInvariant, MediaStreamTypeOK, SubscribeFails
  <1>1. /\ Tail(wire) \in Seq(Connections \cup {Unsubscribe})
        /\ c \in Connections /\ handler[c].step \in Waiting /\ ~refused /\ ~subscribed
        /\ Tail(wire) # <<>> => Head(Tail(wire)) = Unsubscribe
        /\ Tail(wire) = <<>> => listeners.id # 0 /\ handler[c].set = listeners.id
        /\ handler[c].set = listeners.id => Tail(wire) = <<>> \/ listeners.id = 0
    BY <1>0, FirstCommand
  <1>2. handler[c].set # 0
    BY <1>0, <1>1 DEF HandlersHavePages
  <1>3. g \in Handlers /\ g.set = 0 /\ g.step \notin Waiting \cup {"live"}
        /\ (handler[c].step = "abandoned" => g.step \notin Served)
        /\ (handler[c].step # "abandoned" => g.step \in Served)
    BY NoSetIsASetId DEF NoHandler, Waiting, Served
  <1> HIDE DEF c, g
  <1>4. handler'[c] = g /\ \A d \in Connections : d # c => handler'[d] = handler[d]
    BY <1>0, <1>1
  <1>5. WireIsGood(wire', handler', listeners'.id)
    BY <1>0, <1>4, WireShortens DEF c, MediaStreamTypeOK
  <1>6. MediaStreamTypeOK'
    <2>1. \A d \in listeners.members : handler'[d].step = "live" /\ handler'[d].set = listeners.id
      BY <1>0, <1>1, <1>4 DEF MediaStreamTypeOK, Waiting
    <2>2. handler' \in [Connections -> Handlers]
      BY <1>0, <1>3
    <2>3. refused' \in BOOLEAN
      BY <1>0
    <2> QED
      BY <1>0, <1>1, <2>1, <2>2, <2>3 DEF MediaStreamTypeOK
  <1>7. HandlersHavePages'
    BY <1>0, <1>1, <1>3, <1>4 DEF HandlersHavePages, Served, Waiting, MediaStreamTypeOK
  <1>8. SubscriptionFollows'
    BY <1>0, <1>1, <1>2 DEF SubscriptionFollows
  <1> QED
    BY <1>5, <1>6, <1>7, <1>8 DEF StreamInvariant

LEMMA UnsubscribedIsGood ==
  ASSUME StreamInvariant, UnsubscribeAnswered
  PROVE  StreamInvariant'
  <1>0. /\ MediaStreamTypeOK /\ HandlersHavePages /\ SubscriptionFollows
        /\ WireIsGood(wire, handler, listeners.id)
        /\ wire # <<>> /\ Head(wire) = Unsubscribe /\ wire' = Tail(wire) /\ subscribed' = FALSE
        /\ UNCHANGED <<loop, missed, at, handler, listeners, refused>>
    BY DEF StreamInvariant, UnsubscribeAnswered
  <1>1. /\ Tail(wire) \in Seq(Connections \cup {Unsubscribe}) /\ ~refused
        /\ Tail(wire) = <<>> => listeners.id = 0
    BY <1>0, FirstCommand
  <1>2. WireIsGood(wire', handler', listeners'.id)
    BY <1>0, WireShortens DEF MediaStreamTypeOK
  <1>3. MediaStreamTypeOK'
    BY <1>0, <1>1 DEF MediaStreamTypeOK
  <1>4. HandlersHavePages'
    BY <1>0 DEF HandlersHavePages
  <1>5. SubscriptionFollows'
    BY <1>0, <1>1 DEF SubscriptionFollows
  <1> QED
    BY <1>2, <1>3, <1>4, <1>5 DEF StreamInvariant

LEMMA StreamInvariantAtStart == MediaStreamInit => StreamInvariant
  <1> SUFFICES ASSUME MediaStreamInit PROVE StreamInvariant
    OBVIOUS
  <1>1. handler = [c \in Connections |-> [step |-> "none", set |-> 0]]
        /\ listeners = [id |-> 0, members |-> {}] /\ wire = <<>> /\ Len(wire) = 0
    BY DEF MediaStreamInit, NoHandler, NoListeners
  <1>2. MediaStreamTypeOK
    <2>1. handler \in [Connections -> [step: {"none", "subscribing", "abandoned", "live", "broken"},
                                        set: SetIds]]
      BY <1>1, NoSetIsASetId
    <2>2. listeners \in [id: SetIds, members: SUBSET Connections] /\ listeners.members = {}
      BY <1>1, NoSetIsASetId
    <2>3. missed \in [Viewers -> 0 .. OfflineAfter]
      BY MediaStreamAssumption DEF MediaStreamInit
    <2>4. wire \in Seq(Connections \cup {Unsubscribe})
      BY <1>1
    <2>5. /\ loop \in [Viewers -> {"asking", "reading", "pausing", "stopped"}]
          /\ at \in [Viewers -> Connections \cup {NoConnection}]
          /\ \A v \in Viewers : loop[v] = "reading" <=> at[v] # NoConnection
      BY DEF MediaStreamInit
    <2>6. subscribed \in BOOLEAN /\ refused \in BOOLEAN
      BY DEF MediaStreamInit
    <2> QED
      BY <2>1, <2>2, <2>3, <2>4, <2>5, <2>6 DEF MediaStreamTypeOK
  <1>3. HandlersHavePages
    BY <1>1 DEF MediaStreamInit, HandlersHavePages, Served, Waiting
  <1>4. WireIsGood(wire, handler, listeners.id)
    BY <1>1 DEF WireIsGood
  <1>5. SubscriptionFollows
    BY <1>1 DEF MediaStreamInit, SubscriptionFollows
  <1> QED
    BY <1>2, <1>3, <1>4, <1>5 DEF StreamInvariant

LEMMA StreamStepIsGood == StreamInvariant /\ [MediaStreamNext]_streamVars => StreamInvariant'
  <1> SUFFICES ASSUME StreamInvariant, [MediaStreamNext]_streamVars PROVE StreamInvariant'
    OBVIOUS
  <1>0. MediaStreamTypeOK /\ OfflineAfter \in Nat
    BY MediaStreamAssumption DEF StreamInvariant
  <1>1. ASSUME NEW v \in Viewers, Failed(v)
        PROVE  /\ missed' \in [Viewers -> 0 .. OfflineAfter]
               /\ loop' = [loop EXCEPT ![v] = "pausing"]
    BY <1>0, <1>1 DEF Failed, MediaStreamTypeOK
  <1>2. ASSUME NEW v \in Viewers, NEW x \in {"asking", "pausing", "stopped"},
               loop' = [loop EXCEPT ![v] = x] \/ loop' = loop, loop[v] # "reading",
               missed' \in [Viewers -> 0 .. OfflineAfter], ServerUnchanged
        PROVE  StreamInvariant'
    <2>1. MediaStreamTypeOK'
      BY <1>0, <1>2 DEF MediaStreamTypeOK, ServerUnchanged
    <2> QED
      BY <1>2, <2>1, PageStepIsGood
  <1>3. ASSUME NEW v \in Viewers, NEW c \in Connections, Accept(v, c) PROVE StreamInvariant'
    BY <1>3, AcceptIsGood
  <1>4. ASSUME NEW v \in Viewers, AskFails(v) \/ AskAgain(v) \/ SessionOver(v) \/ PauseEnds(v) \/ Mount(v)
        PROVE  StreamInvariant'
    <2>1. CASE AskFails(v)
      BY <1>1, <1>2, <2>1 DEF AskFails
    <2>2. CASE AskAgain(v)
      <3>1. missed' \in [Viewers -> 0 .. OfflineAfter]
        BY <1>0, <2>2, MediaStreamAssumption DEF AskAgain, MediaStreamTypeOK
      <3> QED
        BY <1>2, <2>2, <3>1 DEF AskAgain
    <2>3. CASE SessionOver(v)
      BY <1>0, <1>2, <2>3 DEF SessionOver, MediaStreamTypeOK
    <2>4. CASE PauseEnds(v)
      BY <1>0, <1>2, <2>4 DEF PauseEnds, MediaStreamTypeOK
    <2>5. CASE Mount(v)
      <3>1. missed' \in [Viewers -> 0 .. OfflineAfter]
        BY <1>0, <2>5 DEF Mount, MediaStreamTypeOK
      <3>2. loop' = [loop EXCEPT ![v] = "asking"] /\ loop[v] # "reading" /\ ServerUnchanged
        BY <2>5 DEF Mount
      <3> QED
        BY <1>2, <3>1, <3>2
    <2> QED
      BY <1>4, <2>1, <2>2, <2>3, <2>4, <2>5
  <1>5. ASSUME NEW v \in Viewers, StreamEnds(v) \/ StreamDrops(v) PROVE StreamInvariant'
    BY <1>0, <1>1, <1>5, CloseIsGood DEF StreamEnds, StreamDrops, MediaStreamTypeOK
  <1>6. ASSUME NEW v \in Viewers, Unmount(v) PROVE StreamInvariant'
    <2>1. missed' \in [Viewers -> 0 .. OfflineAfter] /\ loop' = [loop EXCEPT ![v] = "stopped"]
      BY <1>0, <1>6 DEF Unmount, MediaStreamTypeOK
    <2>2. CASE loop[v] = "reading"
      BY <1>6, <2>1, <2>2, CloseIsGood DEF Unmount
    <2>3. CASE loop[v] # "reading"
      BY <1>2, <1>6, <2>1, <2>3 DEF Unmount
    <2> QED
      BY <2>2, <2>3
  <1>7. CASE UNCHANGED streamVars
    BY <1>7 DEF streamVars, StreamInvariant, MediaStreamTypeOK, HandlersHavePages, WireIsGood, SubscriptionFollows
  <1> QED
    BY <1>3, <1>4, <1>5, <1>6, <1>7, AnswerIsGood, FailureIsGood, UnsubscribedIsGood DEF MediaStreamNext

\* Whatever order Redis answers and pages leave in, and however many there are:
\* the wire, the Sets and the pages stay in step.
THEOREM StreamInvariantHolds == MediaStreamSpec => []StreamInvariant
  BY StreamInvariantAtStart, StreamStepIsGood, PTL DEF MediaStreamSpec

\* The process is subscribed while, and only while, it has somebody to tell.
THEOREM ChannelIsAlwaysReleased == MediaStreamSpec => []ChannelIsReleased
  <1>1. StreamInvariant => ChannelIsReleased
    <2> SUFFICES ASSUME StreamInvariant, wire = <<>>
                 PROVE  /\ subscribed <=> listeners.id # 0 /\ ~refused
                        /\ (\A v \in Viewers : at[v] = NoConnection) => listeners.id = 0 \/ refused
      BY DEF ChannelIsReleased
    <2>1. SubscriptionFollows /\ HandlersHavePages /\ MediaStreamTypeOK
      BY DEF StreamInvariant
    <2>2. subscribed <=> listeners.id # 0 /\ ~refused
      BY <2>1 DEF SubscriptionFollows
    <2>3. ASSUME listeners.id # 0, ~refused PROVE \E v \in Viewers : at[v] # NoConnection
      <3>1. PICK c \in listeners.members : TRUE
        BY <2>1, <2>3 DEF SubscriptionFollows
      <3>2. c \in Connections /\ handler[c].step = "live"
        BY <2>1, <3>1 DEF MediaStreamTypeOK
      <3>3. PICK v \in Viewers : at[v] = c
        BY <2>1, <3>2 DEF HandlersHavePages, Served
      <3> QED
        BY <3>2, <3>3, MediaStreamAssumption
    <2> QED
      BY <2>2, <2>3
  <1> QED
    BY StreamInvariantHolds, <1>1, PTL
-----------------------------------------------------------------------------
(* RateLimits. *)

\* The requests admitted in the window that ends at t, less the delay.
AdmittedIn(t) == {a \in admitted : a.at <= t /\ a.at + Window > t + Delay}

\* A clock that is still to be used was read at most Delay ago.
ClocksAreRecent == \A r \in Logins : login[r].step \in {"consume", "look"} =>
    login[r].now <= clock /\ clock <= login[r].now + Delay

\* A request is admitted once, and is past its turn then.
AdmittedOnce ==
    /\ \A a \in admitted : a.at <= clock /\ login[a.by].step \notin {"new", "consume", "refused"}
    /\ \A a, b \in admitted : a.by = b.by => a = b

\* While it counts, it has its place in Redis, whose key has not expired.
PlacesAreKept == \A a \in admitted :
    /\ a.at + Window > clock + Delay => \E m \in attempts : m.by = a.by /\ a.at <= m.score + Delay
    /\ a.at + Window <= expiry["attempts"]

WindowHeld == \A t \in 0 .. clock : Cardinality(AdmittedIn(t)) <= IpLimit

WindowInvariant ==
    /\ RateLimitsTypeOK /\ IsFiniteSet(attempts) /\ IsFiniteSet(admitted)
    /\ ClocksAreRecent /\ AdmittedOnce /\ PlacesAreKept /\ WindowHeld
-----------------------------------------------------------------------------
LEMMA WindowInvariantAtStart == RateLimitsInit => WindowInvariant
  <1> SUFFICES ASSUME RateLimitsInit PROVE WindowInvariant
    OBVIOUS
  <1> USE RateLimitsAssumption
  <1>1. 0 \in Clock
    BY DEF Clock
  <1>2. RateLimitsTypeOK
    BY <1>1 DEF RateLimitsInit, RateLimitsTypeOK, Members
  <1>3. IsFiniteSet(attempts) /\ IsFiniteSet(admitted)
    BY FS_EmptySet DEF RateLimitsInit
  <1>4. ClocksAreRecent /\ AdmittedOnce /\ PlacesAreKept
    BY DEF RateLimitsInit, ClocksAreRecent, AdmittedOnce, PlacesAreKept
  <1>5. \A t \in 0 .. clock : AdmittedIn(t) = {}
    BY DEF RateLimitsInit, AdmittedIn
  <1>6. WindowHeld
    BY <1>5, FS_EmptySet DEF WindowHeld
  <1> QED
    BY <1>2, <1>3, <1>4, <1>6 DEF WindowInvariant

\* What a step does to the rows of the request it is of.
LEMMA OneLoginSteps ==
  ASSUME RateLimitsTypeOK, NEW r \in Logins,
         NEW step \in {"new", "consume", "refused", "peek", "look", "verify", "done"}, NEW now \in Clock,
         \/ login' = [login EXCEPT ![r] = [step |-> step, now |-> now]]
         \/ login' = [login EXCEPT ![r].step = step] /\ now = login[r].now
  PROVE  /\ login' \in [Logins -> [step: {"new", "consume", "refused", "peek", "look", "verify", "done"},
                                   now: Clock]]
         /\ login'[r].step = step /\ login'[r].now = now
         /\ \A o \in Logins : o # r => login'[o] = login[o]
  <1> DEFINE g == [step |-> step, now |-> now]
             Requests == [step: {"new", "consume", "refused", "peek", "look", "verify", "done"}, now: Clock]
  <1>1. login \in [Logins -> Requests] /\ login[r] \in Requests /\ g \in Requests
    BY DEF RateLimitsTypeOK
  <1>2. now = login[r].now => [login[r] EXCEPT !.step = step] = g
    BY <1>1
  <1>3. login' = [login EXCEPT ![r] = g]
    BY <1>2
  <1> QED
    BY <1>1, <1>3

\* A place that counts outlives every clock that is used now.
LEMMA PlaceSurvives ==
  ASSUME WindowInvariant, NEW now \in Clock, now <= clock,
         NEW a \in admitted, a.at + Window > clock + Delay
  PROVE  \E m \in InWindow(attempts, now) : m.by = a.by /\ a.at <= m.score + Delay
  <1>1. PICK m \in attempts : m.by = a.by /\ a.at <= m.score + Delay
    BY DEF WindowInvariant, PlacesAreKept
  <1>2. m.score \in Nat /\ a.at \in Nat /\ now \in Nat /\ clock \in Nat /\ Window \in Nat /\ Delay \in Nat
    BY RateLimitsAssumption DEF WindowInvariant, RateLimitsTypeOK, Members, Clock
  <1>3. m.score + Window > now
    BY <1>1, <1>2
  <1> QED
    BY <1>1, <1>3 DEF InWindow

\* The request that consume admits, and those admitted before it in the window,
\* have places of their own among the members that were counted.
LEMMA ConsumeIsGood ==
  ASSUME WindowInvariant, NEW r \in Logins, Consume(r)
  PROVE  WindowInvariant'
  <1> DEFINE now == login[r].now
             members == InWindow(attempts, now) \cup {[score |-> now, by |-> r]}
             a0 == [at |-> clock, by |-> r]
  <1> USE RateLimitsAssumption
  <1>0. /\ RateLimitsTypeOK /\ ClocksAreRecent /\ AdmittedOnce /\ PlacesAreKept /\ WindowHeld
        /\ IsFiniteSet(attempts) /\ IsFiniteSet(admitted)
        /\ login[r].step = "consume" /\ attempts' = members
        /\ expiry' = [expiry EXCEPT !["attempts"] = clock + Window]
        /\ UNCHANGED <<clock, failures>>
        /\ {Window, Delay, MaxClock, IpLimit} \subseteq Nat /\ Window > Delay
    BY DEF WindowInvariant, Consume
  <1>1. /\ now \in Clock /\ now <= clock /\ clock <= now + Delay /\ clock \in Clock
        /\ Clock \subseteq Nat
    BY <1>0 DEF RateLimitsTypeOK, ClocksAreRecent, Clock
  <1>2. members \subseteq Members /\ IsFiniteSet(members)
    <2>1. InWindow(attempts, now) \subseteq attempts
      BY DEF InWindow
    <2>2. IsFiniteSet(InWindow(attempts, now))
      BY <1>0, <2>1, FS_Subset
    <2>3. IsFiniteSet(members)
      BY <2>2, FS_AddElement
    <2> QED
      BY <1>0, <1>1, <2>1, <2>3 DEF RateLimitsTypeOK, Members
  <1>3. \/ /\ Cardinality(members) <= IpLimit
           /\ login' = [login EXCEPT ![r].step = "peek"] /\ admitted' = admitted \cup {a0}
        \/ login' = [login EXCEPT ![r].step = "refused"] /\ admitted' = admitted
    BY DEF Consume, Go
  <1>4. \A a \in admitted : a.by # r /\ a.at \in Nat /\ a.at <= clock
    BY <1>0, <1>1 DEF AdmittedOnce, RateLimitsTypeOK
  <1>5. /\ a0 \in [at: Clock, by: Logins] /\ a0.at = clock /\ a0.by = r
        /\ [score |-> now, by |-> r] \in members
    BY <1>1
  <1>6. ASSUME NEW a \in admitted, a.at + Window > clock + Delay
        PROVE  \E m \in members : m.by = a.by /\ a.at <= m.score + Delay
    BY <1>1, <1>6, PlaceSurvives
  <1>7. expiry' \in [{"attempts", "failures"} -> 0 .. (MaxClock + Window)] /\ expiry'["attempts"] = clock + Window
    BY <1>0, <1>1 DEF RateLimitsTypeOK, Clock
  <1> HIDE DEF now, members, a0
  <1>8. /\ login' \in [Logins -> [step: {"new", "consume", "refused", "peek", "look", "verify", "done"},
                                  now: Clock]]
        /\ login'[r].step = IF admitted' = admitted /\ login'[r].step = "refused" THEN "refused" ELSE "peek"
        /\ \A o \in Logins : o # r => login'[o] = login[o]
    BY <1>0, <1>1, <1>3, OneLoginSteps DEF now
  <1>9. RateLimitsTypeOK' /\ IsFiniteSet(attempts') /\ IsFiniteSet(admitted')
    <2>1. admitted' \subseteq [at: Clock, by: Logins] /\ IsFiniteSet(admitted')
      BY <1>0, <1>3, <1>5, FS_AddElement DEF RateLimitsTypeOK
    <2> QED
      BY <1>0, <1>2, <1>7, <1>8, <2>1 DEF RateLimitsTypeOK, Clock, Members
  <1>10. ClocksAreRecent'
    BY <1>0, <1>8 DEF ClocksAreRecent
  <1>11. AdmittedOnce'
    <2>1. CASE admitted' = admitted
      BY <1>0, <1>4, <1>8, <2>1 DEF AdmittedOnce, RateLimitsTypeOK
    <2>2. CASE login' = [login EXCEPT ![r].step = "peek"] /\ admitted' = admitted \cup {a0}
      <3>1. login'[r].step = "peek"
        BY <1>0, <2>2 DEF RateLimitsTypeOK
      <3> QED
        BY <1>0, <1>1, <1>4, <1>5, <1>8, <2>2, <3>1 DEF AdmittedOnce, RateLimitsTypeOK
    <2> QED
      BY <1>3, <2>1, <2>2
  <1>12. PlacesAreKept'
    <2> SUFFICES ASSUME NEW a \in admitted'
                 PROVE  /\ a.at + Window > clock + Delay =>
                              \E m \in members : m.by = a.by /\ a.at <= m.score + Delay
                        /\ a.at + Window <= clock + Window
      BY <1>0, <1>7 DEF PlacesAreKept
    <2>1. CASE a \in admitted
      <3>1. a.at + Window > clock + Delay => \E m \in members : m.by = a.by /\ a.at <= m.score + Delay
        BY <1>6, <2>1
      <3>2. a.at + Window <= clock + Window
        <4>1. a.at \in Nat /\ a.at <= clock
          BY <1>4, <2>1
        <4>2. clock \in Nat /\ Window \in Nat
          BY <1>1
        <4> QED
          BY <4>1, <4>2
      <3> QED
        BY <3>1, <3>2
    <2>2. CASE a = a0
      <3>1. [score |-> now, by |-> r].by = r /\ [score |-> now, by |-> r].score = now
        OBVIOUS
      <3> QED
        BY <1>0, <1>1, <1>5, <2>2, <3>1
    <2> QED
      BY <1>3, <2>1, <2>2
  <1>13. WindowHeld'
    <2>1. CASE admitted' = admitted
      BY <1>0, <2>1 DEF WindowHeld, AdmittedIn
    <2>2. CASE Cardinality(members) <= IpLimit /\ admitted' = admitted \cup {a0}
      <3> SUFFICES ASSUME NEW t \in 0 .. clock
                   PROVE  Cardinality(AdmittedIn(t)') <= IpLimit
        BY <1>0 DEF WindowHeld, AdmittedIn
      <3>1. CASE t # clock
        <4>1. AdmittedIn(t)' = AdmittedIn(t)
          BY <1>0, <1>1, <1>5, <2>2, <3>1 DEF AdmittedIn
        <4> QED
          BY <1>0, <4>1 DEF WindowHeld
      <3>2. CASE t = clock
        <4> DEFINE S == AdmittedIn(t)'
                   PlaceOf(a) == CHOOSE m \in members : m.by = a.by
                   f == [a \in S |-> PlaceOf(a)]
        <4>1. ASSUME NEW a \in S PROVE \E m \in members : m.by = a.by
          <5>1. a = a0 \/ (a \in admitted /\ a.at + Window > clock + Delay)
            BY <1>0, <2>2, <3>2 DEF AdmittedIn
          <5>2. [score |-> now, by |-> r].by = r
            OBVIOUS
          <5> QED
            BY <1>5, <1>6, <5>1, <5>2
        <4>2. \A a \in S : PlaceOf(a) \in members /\ PlaceOf(a).by = a.by
          BY <4>1
        <4>3. S \subseteq admitted'
          BY DEF AdmittedIn
        <4>4. \A a, b \in S : a.by = b.by => a = b
          BY <1>11, <4>3 DEF AdmittedOnce
        <4> HIDE DEF S, PlaceOf
        <4>5. f \in Injection(S, members)
          BY <4>2, <4>4 DEF Injection, IsInjective
        <4>6. IsFiniteSet(S) /\ Cardinality(S) <= Cardinality(members)
          BY <1>2, <4>5, FS_Injection
        <4>7. Cardinality(S) \in Nat /\ Cardinality(members) \in Nat
          BY <1>2, <4>6, FS_CardinalityType
        <4> QED
          BY <1>0, <2>2, <4>6, <4>7 DEF S
      <3> QED
        BY <3>1, <3>2
    <2> QED
      BY <1>3, <2>1, <2>2
  <1> QED
    BY <1>9, <1>10, <1>11, <1>12, <1>13 DEF WindowInvariant

\* The other steps take no place that counts.
LEMMA WindowStepIsGood == WindowInvariant /\ [RateLimitsNext]_rateVars => WindowInvariant'
  <1> SUFFICES ASSUME WindowInvariant, [RateLimitsNext]_rateVars PROVE WindowInvariant'
    OBVIOUS
  <1> USE RateLimitsAssumption
  <1>0. /\ RateLimitsTypeOK /\ ClocksAreRecent /\ AdmittedOnce /\ PlacesAreKept /\ WindowHeld
        /\ IsFiniteSet(attempts) /\ IsFiniteSet(admitted)
        /\ {Window, Delay, MaxClock, IpLimit} \subseteq Nat /\ Window > Delay
        /\ clock \in Clock /\ Clock \subseteq Nat
    BY DEF WindowInvariant, RateLimitsTypeOK, Clock
  <1>1. ASSUME NEW r \in Logins, ReadClock(r) PROVE WindowInvariant'
    <2>1. /\ UNCHANGED <<clock, attempts, failures, expiry, admitted>>
          /\ \/ login[r].step = "new" /\ login' = [login EXCEPT ![r] = [step |-> "consume", now |-> clock]]
             \/ login[r].step = "peek" /\ login' = [login EXCEPT ![r] = [step |-> "look", now |-> clock]]
      BY <1>1 DEF ReadClock
    <2>2. /\ login' \in [Logins -> [step: {"new", "consume", "refused", "peek", "look", "verify", "done"},
                                    now: Clock]]
          /\ login'[r].now = clock
          /\ \/ login[r].step = "new" /\ login'[r].step = "consume"
             \/ login[r].step = "peek" /\ login'[r].step = "look"
          /\ \A o \in Logins : o # r => login'[o] = login[o]
      BY <1>0, <2>1, OneLoginSteps
    <2>3. RateLimitsTypeOK'
      BY <1>0, <2>1, <2>2 DEF RateLimitsTypeOK, Clock, Members
    <2>4. ClocksAreRecent'
      BY <1>0, <2>1, <2>2 DEF ClocksAreRecent
    <2>5. AdmittedOnce'
      BY <1>0, <2>1, <2>2 DEF AdmittedOnce, RateLimitsTypeOK
    <2> QED
      BY <1>0, <2>1, <2>3, <2>4, <2>5 DEF WindowInvariant, PlacesAreKept, WindowHeld, AdmittedIn
  <1>2. ASSUME NEW r \in Logins, Consume(r) PROVE WindowInvariant'
    BY <1>2, ConsumeIsGood
  <1>3. ASSUME NEW r \in Logins, NEW step \in {"verify", "done"}, login' = [login EXCEPT ![r].step = step],
               UNCHANGED <<clock, admitted>>, expiry' \in [{"attempts", "failures"} -> 0 .. (MaxClock + Window)],
               expiry'["attempts"] = expiry["attempts"],
               failures' \subseteq Members, attempts' \subseteq attempts,
               \A m \in attempts : (\E a \in admitted : a.by = m.by) => m \in attempts'
        PROVE  WindowInvariant'
    <2>1. /\ login' \in [Logins -> [step: {"new", "consume", "refused", "peek", "look", "verify", "done"},
                                    now: Clock]]
          /\ login'[r].step = step
          /\ \A o \in Logins : o # r => login'[o] = login[o]
      <3>1. login[r].now \in Clock
        BY <1>0 DEF RateLimitsTypeOK
      <3> QED
        BY <1>0, <1>3, <3>1, OneLoginSteps
    <2>2. RateLimitsTypeOK' /\ IsFiniteSet(attempts') /\ IsFiniteSet(admitted')
      BY <1>0, <1>3, <2>1, FS_Subset DEF RateLimitsTypeOK, Clock, Members
    <2>3. ClocksAreRecent'
      BY <1>0, <1>3, <2>1 DEF ClocksAreRecent
    <2>4. AdmittedOnce'
      BY <1>0, <1>3, <2>1 DEF AdmittedOnce, RateLimitsTypeOK
    <2>5. PlacesAreKept'
      BY <1>0, <1>3 DEF PlacesAreKept
    <2> QED
      BY <1>0, <1>3, <2>2, <2>3, <2>4, <2>5 DEF WindowInvariant, WindowHeld, AdmittedIn
  <1>4. ASSUME NEW r \in Logins, GiveBack(r) PROVE WindowInvariant'
    <2>1. /\ login[r].step = "refused" /\ attempts' = {m \in attempts : m.by # r}
          /\ login' = [login EXCEPT ![r].step = "done"]
          /\ UNCHANGED <<clock, failures, expiry, admitted>>
      BY <1>4 DEF GiveBack, Go
    <2>2. \A a \in admitted : a.by # r
      BY <1>0, <2>1 DEF AdmittedOnce
    <2>3. expiry' \in [{"attempts", "failures"} -> 0 .. (MaxClock + Window)] /\ failures' \subseteq Members
      BY <1>0, <2>1 DEF RateLimitsTypeOK
    <2> QED
      BY <1>3, <2>1, <2>2, <2>3
  <1>5. ASSUME NEW r \in Logins, Peek(r) PROVE WindowInvariant'
    <2>1. /\ \/ login' = [login EXCEPT ![r].step = "verify"] \/ login' = [login EXCEPT ![r].step = "done"]
          /\ failures' \subseteq failures /\ UNCHANGED <<clock, attempts, expiry, admitted>>
      BY <1>5 DEF Peek, Go, InWindow
    <2>2. expiry' \in [{"attempts", "failures"} -> 0 .. (MaxClock + Window)] /\ failures' \subseteq Members
      BY <1>0, <2>1 DEF RateLimitsTypeOK
    <2> QED
      BY <1>3, <2>1, <2>2
  <1>6. ASSUME NEW r \in Logins, Verify(r) PROVE WindowInvariant'
    <2>1. /\ login' = [login EXCEPT ![r].step = "done"] /\ UNCHANGED <<clock, attempts, admitted>>
          /\ failures' \subseteq failures \cup {[score |-> clock, by |-> r]}
          /\ expiry' = expiry \/ expiry' = [expiry EXCEPT !["failures"] = clock + Window]
      BY <1>6 DEF Verify, Go
    <2>2. /\ expiry' \in [{"attempts", "failures"} -> 0 .. (MaxClock + Window)]
          /\ expiry'["attempts"] = expiry["attempts"]
      BY <1>0, <2>1 DEF RateLimitsTypeOK, Clock
    <2>3. failures' \subseteq Members
      BY <1>0, <2>1 DEF RateLimitsTypeOK, Members
    <2> QED
      BY <1>3, <2>1, <2>2, <2>3
  <1>7. CASE KeyExpires
    <2>1. /\ UNCHANGED <<clock, expiry, login, admitted>>
          /\ \/ attempts' = attempts
             \/ clock >= expiry["attempts"] /\ attempts' = {}
          /\ failures' \subseteq failures
      BY <1>7 DEF KeyExpires
    <2>2. RateLimitsTypeOK' /\ IsFiniteSet(attempts') /\ IsFiniteSet(admitted')
      BY <1>0, <2>1, FS_EmptySet DEF RateLimitsTypeOK, Clock, Members
    <2>3. PlacesAreKept'
      <3>1. CASE attempts' = attempts
        BY <1>0, <2>1, <3>1 DEF PlacesAreKept
      <3>2. ASSUME clock >= expiry["attempts"], NEW a \in admitted PROVE ~(a.at + Window > clock + Delay)
        <4>1. a.at + Window <= expiry["attempts"] /\ a.at \in Nat /\ expiry["attempts"] \in Nat
          BY <1>0, <3>2 DEF PlacesAreKept, RateLimitsTypeOK
        <4> QED
          BY <1>0, <3>2, <4>1
      <3> QED
        BY <1>0, <2>1, <3>1, <3>2 DEF PlacesAreKept
    <2> QED
      BY <1>0, <2>1, <2>2, <2>3
         DEF WindowInvariant, ClocksAreRecent, AdmittedOnce, WindowHeld, AdmittedIn
  <1>8. CASE Tick
    <2>1. /\ clock < MaxClock /\ clock' = clock + 1
          /\ \A r \in Logins : login[r].step \in {"consume", "look"} => clock < login[r].now + Delay
          /\ UNCHANGED <<attempts, failures, expiry, login, admitted>>
      BY <1>8 DEF Tick
    <2>2. RateLimitsTypeOK'
      BY <1>0, <2>1 DEF RateLimitsTypeOK, Clock, Members
    <2>3. \A r \in Logins : login[r].now \in Nat
      BY <1>0 DEF RateLimitsTypeOK
    <2>4. \A a \in admitted : a.at \in Nat
      BY <1>0 DEF RateLimitsTypeOK
    <2>5. ClocksAreRecent'
      BY <1>0, <2>1, <2>3 DEF ClocksAreRecent
    <2>6. AdmittedOnce'
      BY <1>0, <2>1, <2>4 DEF AdmittedOnce
    <2>7. PlacesAreKept'
      BY <1>0, <2>1, <2>4 DEF PlacesAreKept
    <2>8. WindowHeld'
      <3> SUFFICES ASSUME NEW t \in 0 .. clock + 1 PROVE Cardinality(AdmittedIn(t)) <= IpLimit
        BY <1>0, <2>1 DEF WindowHeld, AdmittedIn
      <3>1. CASE t <= clock
        BY <1>0, <3>1 DEF WindowHeld
      <3>2. CASE t = clock + 1
        <4>1. AdmittedIn(t) \subseteq AdmittedIn(clock) /\ AdmittedIn(clock) \subseteq admitted
          BY <1>0, <2>4, <3>2 DEF AdmittedIn, AdmittedOnce
        <4>2. IsFiniteSet(AdmittedIn(clock))
          BY <1>0, <4>1, FS_Subset
        <4>3. IsFiniteSet(AdmittedIn(t)) /\ Cardinality(AdmittedIn(t)) <= Cardinality(AdmittedIn(clock))
          BY <4>1, <4>2, FS_Subset
        <4>4. Cardinality(AdmittedIn(t)) \in Nat /\ Cardinality(AdmittedIn(clock)) \in Nat
          BY <4>2, <4>3, FS_CardinalityType
        <4> QED
          BY <1>0, <4>3, <4>4 DEF WindowHeld
      <3> QED
        BY <1>0, <3>1, <3>2
    <2> QED
      BY <1>0, <2>1, <2>2, <2>5, <2>6, <2>7, <2>8 DEF WindowInvariant
  <1>9. CASE UNCHANGED rateVars
    BY <1>0, <1>9 DEF rateVars, WindowInvariant, RateLimitsTypeOK, ClocksAreRecent, AdmittedOnce,
                      PlacesAreKept, WindowHeld, AdmittedIn, Clock, Members
  <1> QED
    BY <1>1, <1>2, <1>4, <1>5, <1>6, <1>7, <1>8, <1>9 DEF RateLimitsNext

\* For every number of requests, limit, window and delay: a request that counts
\* in the window has its place in Redis, and those that have one are within the
\* limit.
THEOREM WindowInvariantHolds == RateLimitsSpec => []WindowInvariant
  BY WindowInvariantAtStart, WindowStepIsGood, PTL DEF RateLimitsSpec

\* No window of time, less the delay of a request, admits more than the limit.
THEOREM WindowAlwaysHolds == RateLimitsSpec => []WindowHolds
  <1>1. WindowInvariant => WindowHolds
    <2> SUFFICES ASSUME WindowInvariant, NEW t \in Clock PROVE Cardinality(AdmittedIn(t)) <= IpLimit
      BY DEF WindowHolds, AdmittedIn
    <2>1. /\ RateLimitsTypeOK /\ IsFiniteSet(admitted) /\ WindowHeld /\ clock \in Nat /\ t \in Nat
          /\ {Window, Delay, IpLimit} \subseteq Nat
          /\ \A a \in admitted : a.at \in Nat /\ a.at <= clock
      BY RateLimitsAssumption DEF WindowInvariant, RateLimitsTypeOK, AdmittedOnce, Clock
    <2>2. CASE t <= clock
      BY <2>1, <2>2 DEF WindowHeld
    <2>3. CASE t > clock
      <3>1. AdmittedIn(t) \subseteq AdmittedIn(clock) /\ AdmittedIn(clock) \subseteq admitted
        BY <2>1, <2>3 DEF AdmittedIn
      <3>2. IsFiniteSet(AdmittedIn(clock))
        BY <2>1, <3>1, FS_Subset
      <3>3. IsFiniteSet(AdmittedIn(t)) /\ Cardinality(AdmittedIn(t)) <= Cardinality(AdmittedIn(clock))
        BY <3>1, <3>2, FS_Subset
      <3>4. Cardinality(AdmittedIn(t)) \in Nat /\ Cardinality(AdmittedIn(clock)) \in Nat
        BY <3>2, <3>3, FS_CardinalityType
      <3>5. Cardinality(AdmittedIn(clock)) <= IpLimit
        BY <2>1 DEF WindowHeld
      <3> QED
        BY <2>1, <3>3, <3>4, <3>5
    <2> QED
      BY <2>1, <2>2, <2>3
  <1> QED
    BY WindowInvariantHolds, <1>1, PTL
=============================================================================
