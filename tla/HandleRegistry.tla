--------------------------- MODULE HandleRegistry ---------------------------
(***************************************************************************)
(* What Handles promises, whatever transactions run at once: an account is *)
(* given a handle, or changes it, in one step that finds the handle free.  *)
(* There are no pages, locks, index entries or deadlocks here.             *)
(*                                                                         *)
(* `now` is the day the transaction began, which may be the one before.    *)
(***************************************************************************)
EXTENDS Naturals

CONSTANTS Users, HandleNames, Quarantine, Cooldown, Nobody, NoHandle

VARIABLES
    handle,     \* per account, its handle; NoHandle: no such account yet
    reserved,   \* per handle, who may go back to it and until when
    changed,    \* per account, the days of its changes
    day

registry == <<handle, reserved, changed, day>>

Unreserved == [user |-> Nobody, expires |-> 0]

RegistryInit ==
    /\ handle = [u \in Users |-> NoHandle]
    /\ reserved = [h \in HandleNames |-> Unreserved]
    /\ changed = [u \in Users |-> {}]
    /\ day = 0

\* Nobody has h, and nobody else may go back to it.
IsFree(h, u, now) ==
    /\ \A v \in Users : handle[v] # h
    /\ reserved[h].user \in {Nobody, u} \/ reserved[h].expires <= now

SignUp(u, h, now) ==
    /\ handle[u] = NoHandle
    /\ IsFree(h, u, now)
    /\ handle' = [handle EXCEPT ![u] = h]
    /\ reserved' = [reserved EXCEPT ![h] = Unreserved]
    /\ UNCHANGED <<changed, day>>

\* The wait since the last change is over, or the account goes back.
MayChange(u, h, now) ==
    \/ \A d \in changed[u] : d + Cooldown <= day
    \/ reserved[h].user = u /\ reserved[h].expires > now

Change(u, h, now) ==
    /\ handle[u] # NoHandle
    /\ IsFree(h, u, now)
    /\ MayChange(u, h, now)
    /\ handle' = [handle EXCEPT ![u] = h]
    /\ reserved' = [reserved EXCEPT ![h] = Unreserved,
                                    ![handle[u]] = [user |-> u, expires |-> now + Quarantine]]
    /\ changed' = [changed EXCEPT ![u] = @ \cup {now}]
    /\ UNCHANGED day

\* Reservations that are over are forgotten.
Lapse ==
    /\ \E H \in SUBSET {h \in HandleNames : reserved[h].expires < day} :
          reserved' = [h \in HandleNames |-> IF h \in H THEN Unreserved ELSE reserved[h]]
    /\ UNCHANGED <<handle, changed, day>>

NextDay == day' = day + 1 /\ UNCHANGED <<handle, reserved, changed>>

RegistryNext ==
    \/ \E u \in Users, h \in HandleNames, now \in {day, day - 1} \cap Nat :
          SignUp(u, h, now) \/ Change(u, h, now)
    \/ Lapse
    \/ NextDay

RegistrySpec == RegistryInit /\ [][RegistryNext]_registry
=============================================================================
