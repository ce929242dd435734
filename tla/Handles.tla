------------------------------ MODULE Handles ------------------------------
(***************************************************************************)
(* Handles: the address each account has, the quarantine of the one it     *)
(* left, and the wait between two changes (apps/api/src/profile and        *)
(* handles; the forms that ask for a handle are in apps/web).              *)
(*                                                                         *)
(* A request is one browser page with at most one call in flight.  signup  *)
(* and changeHandle are transactions of READ COMMITTED: `writes` holds what*)
(* one has done and not committed.  PostgreSQL is modelled by what the     *)
(* code leans on: SELECT ... FOR UPDATE, the unique index on users.handle, *)
(* which makes a transaction wait for another that is taking or giving up  *)
(* the same handle, and its deadlock detector.                             *)
(***************************************************************************)
EXTENDS Naturals, FiniteSets

CONSTANTS
    Users, HandlePages,     \* accounts that can exist; browser pages
    HandleNames,            \* the handles people ask for
    ReservedHandles,        \* RESERVED_HANDLES
    MalformedHandles,       \* those HANDLE_PATTERN refuses
    Quarantine, Cooldown,   \* HANDLE_QUARANTINE_DAYS, HANDLE_CHANGE_COOLDOWN_DAYS
    MaxTime,                \* bound: days the clock runs
    Nobody, NoHandle

ASSUME HandlesAssumption ==
    /\ Quarantine \in Nat /\ Cooldown \in Nat /\ MaxTime \in Nat
    /\ Nobody \notin Users /\ NoHandle \notin HandleNames
    /\ Quarantine <= Cooldown      \* both are 30

VARIABLES
    handle,    \* users.handle as committed; NoHandle: no such account yet
    reserved,  \* handle_reservations: handle -> [user, expires]
    changed,   \* per user, when the last profile.handle_changed row was written
    day,       \* the clock
    call       \* per page, the call in flight and its transaction

handleVars == <<handle, reserved, changed, day, call>>

Days == 0 .. MaxTime
NoReservation == [user |-> Nobody, expires |-> 0]
NoCall == [step |-> "idle", user |-> Nobody, to |-> NoHandle, now |-> 0, from |-> NoHandle]

HandleTypeOK ==
    /\ handle \in [Users -> HandleNames \cup {NoHandle}]
    /\ reserved \in [HandleNames -> [user: Users \cup {Nobody}, expires: 0 .. (MaxTime + Quarantine)]]
    /\ changed \in [Users -> SUBSET Days]
    /\ day \in Days
    /\ call \in [HandlePages ->
            [step: {"idle", "lock", "wait", "claim", "commit"},
             user: Users \cup {Nobody}, to: HandleNames \cup {NoHandle}, now: Days,
             from: HandleNames \cup {NoHandle}]]

HandlesInit ==
    /\ handle = [u \in Users |-> NoHandle]
    /\ reserved = [h \in HandleNames |-> NoReservation]
    /\ changed = [u \in Users |-> {}]
    /\ day = 0
    /\ call = [p \in HandlePages |-> NoCall]
-----------------------------------------------------------------------------
(* What the code asks about a handle. *)

\* handleProblem: the reserved names come before the format.
HandleProblem(h) ==
    IF h \in ReservedHandles THEN "reserved"
    ELSE IF h \in MalformedHandles THEN "invalid" ELSE "none"

IsReservedForOthers(h, u, now) ==
    reserved[h].user \notin {Nobody, u} /\ reserved[h].expires > now

\* useHandleAvailability and isHandleBlocked: a form sends a handle its last
\* answer did not refuse.  The answer may be up to 15 s old, or missing
\* ('unknown'): only what the form decides by itself is sure.
FormAccepts(h, current) == h # current /\ HandleProblem(h) = "none"

\* handleChangeAllowedAt: the last change, 30 days, and the time of the process.
CoolingDown(u) == \E d \in changed[u] : d + Cooldown > day
-----------------------------------------------------------------------------
(* The transactions. *)

Working == {p \in HandlePages : call[p].step # "idle"}

\* Transactions that have updated or inserted the row and not ended.
Wrote(p) == call[p].step \in {"wait", "claim", "commit"}

Finish(p) == call' = [call EXCEPT ![p] = NoCall]

Submit(p) ==
    /\ call[p].step = "idle"
    /\ \E u \in Users, h \in HandleNames :
         /\ FormAccepts(h, handle[u])
         /\ handle[u] = NoHandle => \A q \in Working : call[q].user # u
         /\ call' = [call EXCEPT ![p] =
               [step |-> IF handle[u] = NoHandle THEN "wait" ELSE "lock",
                user |-> u, to |-> h, now |-> day, from |-> NoHandle]]
    /\ UNCHANGED <<handle, reserved, changed, day>>

\* Mutant: the row is read without FOR UPDATE.
RowIsRead(p) == call[p].user = call[p].user

\* SELECT ... FOR UPDATE: one change of a user at a time.
RowIsFree(p) == \A q \in HandlePages \ {p} :
    call[q].user = call[p].user => call[q].step \in {"idle", "lock"}

\* Then the UPDATE: as with the INSERT of a signup, the old version of the row
\* is dead for this transaction and the new one goes into the unique index.
LockUser(p) ==
    /\ call[p].step = "lock"
    /\ RowIsFree(p)
    /\ IF handle[call[p].user] = call[p].to
       THEN Finish(p)
       ELSE call' = [call EXCEPT ![p].step = "wait", ![p].from = handle[call[p].user]]
    /\ UNCHANGED <<handle, reserved, changed, day>>

\* Mutant: nothing waits for a handle that is being given up.
BlocksTakers(q, p) ==
    q # p /\ Wrote(q) /\ call[q].to = call[p].to /\ call[q].step # "wait"

\* The index makes p wait for q, which takes or gives up the handle p wants.
\* Of two that take it, the one whose entry came second waits.
Blocks(q, p) ==
    /\ q # p /\ Wrote(q)
    /\ \/ call[q].from = call[p].to
       \/ call[q].to = call[p].to /\ call[q].step # "wait"

\* users_handle_unique: a row the others see and nobody is giving up.
Taken(p) == \E v \in Users :
    /\ handle[v] = call[p].to
    /\ \A q \in HandlePages : Wrote(q) /\ call[q].user = v => call[q].from # call[p].to

IndexAccepts(p) ==
    /\ call[p].step = "wait"
    /\ \A q \in HandlePages : ~Blocks(q, p)
    /\ IF Taken(p) THEN Finish(p) ELSE call' = [call EXCEPT ![p].step = "claim"]
    /\ UNCHANGED <<handle, reserved, changed, day>>

\* Two transactions that wait for each other: PostgreSQL ends one of them.
BreakDeadlock(p) ==
    /\ call[p].step = "wait"
    /\ \E q \in HandlePages : call[q].step = "wait" /\ Blocks(q, p) /\ Blocks(p, q)
    /\ Finish(p)
    /\ UNCHANGED <<handle, reserved, changed, day>>

\* HandleReservationsService.claim, with now() of the transaction, and the
\* 30 days, which going back does not wait for, with the time of the process.
Claim(p) ==
    LET c == call[p]
        r == reserved[c.to]
    IN  /\ c.step = "claim"
        /\ IF \/ IsReservedForOthers(c.to, c.user, c.now)
              \/ /\ c.from # NoHandle
                 /\ ~(r.user = c.user /\ r.expires > day)
                 /\ CoolingDown(c.user)
           THEN Finish(p)
           ELSE call' = [call EXCEPT ![p].step = "commit"]
        /\ UNCHANGED <<handle, reserved, changed, day>>

\* Mutant: claim leaves the reservation of the owner that comes back.
RereservedOnLeaving(c) == [h \in HandleNames |->
    IF h = c.from THEN [user |-> c.user, expires |-> c.now + Quarantine] ELSE reserved[h]]

\* The DELETE of claim and the upsert of reserve.
Rereserved(c) == [h \in HandleNames |->
    CASE h = c.from -> [user |-> c.user, expires |-> c.now + Quarantine]
      [] h = c.to /\ (reserved[h].user = c.user \/ reserved[h].expires <= c.now) -> NoReservation
      [] OTHER -> reserved[h]]

CommitHandle(p) ==
    LET c == call[p]
    IN  /\ c.step = "commit"
        /\ handle' = [handle EXCEPT ![c.user] = c.to]
        /\ reserved' = Rereserved(c)
        /\ changed' = IF c.from = NoHandle THEN changed
                      ELSE [changed EXCEPT ![c.user] = @ \cup {c.now}]
        /\ Finish(p)
        /\ UNCHANGED day

\* The API process dies, or a statement fails.
AbortHandle(p) ==
    /\ call[p].step # "idle"
    /\ Finish(p)
    /\ UNCHANGED <<handle, reserved, changed, day>>

\* gcHandleReservations
CollectReservations ==
    /\ reserved' = [h \in HandleNames |->
          IF reserved[h].user # Nobody /\ reserved[h].expires < day THEN NoReservation ELSE reserved[h]]
    /\ reserved' # reserved
    /\ UNCHANGED <<handle, changed, day, call>>

\* A call takes less than a day.
DayPasses ==
    /\ day < MaxTime
    /\ \A p \in Working : call[p].now = day
    /\ day' = day + 1
    /\ UNCHANGED <<handle, reserved, changed, call>>

HandlesNext ==
    \/ \E p \in HandlePages :
         \/ Submit(p) \/ LockUser(p) \/ IndexAccepts(p)
         \/ BreakDeadlock(p) \/ Claim(p) \/ CommitHandle(p) \/ AbortHandle(p)
    \/ CollectReservations
    \/ DayPasses

HandlesSpec == HandlesInit /\ [][HandlesNext]_handleVars
-----------------------------------------------------------------------------
(* Properties. *)

\* A handle in quarantine is nobody's but its former owner's, and no two
\* accounts share a handle, whatever transactions give it up and take it at
\* once (HandleReservationsService: "reservado ao dono por 30 dias"; claim
\* reads the reservations only after its INSERT or UPDATE); and an account has
\* one address at most to go back to.
QuarantineHolds ==
    /\ \A u, v \in Users : handle[u] = handle[v] /\ handle[u] # NoHandle => u = v
    /\ \A h \in HandleNames, u \in Users :
          handle[u] = h /\ reserved[h].expires > day => reserved[h].user \in {Nobody, u}
    /\ \A u \in Users :
          Cardinality({h \in HandleNames : reserved[h].user = u /\ reserved[h].expires > day}) <= 1

\* Between two changes of a user lie 30 days, except to go back to the handle
\* in quarantine, even when two pages change it at once (changeHandle's lock).
ChangesAreSpaced == [][\A u \in Users :
    handle'[u] # handle[u] /\ handle[u] # NoHandle /\ CoolingDown(u)
        => reserved[handle'[u]].user = u]_handleVars

Registry == INSTANCE HandleRegistry

\* Whatever the transactions of signup and changeHandle read before they wait
\* for each other, each that commits gives one account a handle that was free,
\* keeps the one it leaves and lets go of the one it takes, at one instant; the
\* others, ended by the index, a claim, a deadlock or a crash, leave no trace.
ActsAsRegistry == Registry!RegistrySpec
=============================================================================
