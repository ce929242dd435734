----------------------------- MODULE RateLimits -----------------------------
(***************************************************************************)
(* Sliding windows in Redis and the login route that uses two of them      *)
(* (apps/api/src/rate-limit and auth): every attempt of an IP takes a      *)
(* place in the first; the second counts only wrong passwords of that IP   *)
(* for one email, and a right one empties it.                              *)
(*                                                                         *)
(* A process reads its clock, and Redis runs the MULTI up to Delay later.  *)
(***************************************************************************)
EXTENDS Naturals, FiniteSets

CONSTANTS
    Logins,                     \* the requests; each is made once
    IpLimit, FailureLimit,      \* the limits of loginByIp and LOGIN_FAILURES
    Window,                     \* their window, in ticks
    Delay,                      \* bound: from Date.now() to the MULTI, in ticks
    MaxClock                    \* bound: ticks

ASSUME RateLimitsAssumption ==
    /\ {IpLimit, FailureLimit, Window, Delay, MaxClock} \subseteq Nat
    /\ IpLimit > 0 /\ FailureLimit > 0 /\ Window > Delay

VARIABLES
    clock,
    attempts,   \* rl:login:ip:<ip>, a set of [score, by]
    failures,   \* rl:login:ip-email:<ip>:<sha256>
    expiry,     \* PEXPIRE of the two keys
    login,      \* per request, where it is and the clock it read
    admitted    \* history: [at, by] of the attempts that got a place

rateVars == <<clock, attempts, failures, expiry, login, admitted>>

Clock == 0 .. MaxClock
Members == [score: Clock, by: Logins]

RateLimitsTypeOK ==
    /\ clock \in Clock
    /\ attempts \subseteq Members /\ failures \subseteq Members
    /\ expiry \in [{"attempts", "failures"} -> 0 .. (MaxClock + Window)]
    /\ login \in [Logins -> [step: {"new", "consume", "refused", "peek", "look", "verify", "done"},
                             now: Clock]]
    /\ admitted \subseteq [at: Clock, by: Logins]

RateLimitsInit ==
    /\ clock = 0
    /\ attempts = {} /\ failures = {}
    /\ expiry = [k \in {"attempts", "failures"} |-> 0]
    /\ login = [r \in Logins |-> [step |-> "new", now |-> 0]]
    /\ admitted = {}
-----------------------------------------------------------------------------
\* Mutant: a place is given up one tick early.
InShorterWindow(members, now) == {m \in members : m.score + Window > now + 1}

\* ZREMRANGEBYSCORE 0 .. now - window
InWindow(members, now) == {m \in members : m.score + Window > now}

Go(r, step) == login' = [login EXCEPT ![r].step = step]

\* RateLimitGuard takes the rules in order; each begins with Date.now().
ReadClock(r) ==
    /\ \/ login[r].step = "new" /\ login' = [login EXCEPT ![r] = [step |-> "consume", now |-> clock]]
       \/ login[r].step = "peek" /\ login' = [login EXCEPT ![r] = [step |-> "look", now |-> clock]]
    /\ UNCHANGED <<clock, attempts, failures, expiry, admitted>>

\* consume: the request is in the window before it is counted.
Consume(r) ==
    LET members == InWindow(attempts, login[r].now) \cup {[score |-> login[r].now, by |-> r]}
    IN  /\ login[r].step = "consume"
        /\ attempts' = members
        /\ expiry' = [expiry EXCEPT !["attempts"] = clock + Window]
        /\ IF Cardinality(members) <= IpLimit
           THEN Go(r, "peek") /\ admitted' = admitted \cup {[at |-> clock, by |-> r]}
           ELSE Go(r, "refused") /\ UNCHANGED admitted
        /\ UNCHANGED <<clock, failures>>

\* The second MULTI of consume gives the place back, and the answer is 429.
GiveBack(r) ==
    /\ login[r].step = "refused"
    /\ attempts' = {m \in attempts : m.by # r}
    /\ Go(r, "done")
    /\ UNCHANGED <<clock, failures, expiry, admitted>>

Peek(r) ==
    /\ login[r].step = "look"
    /\ failures' = InWindow(failures, login[r].now)
    /\ Go(r, IF Cardinality(failures') < FailureLimit THEN "verify" ELSE "done")
    /\ UNCHANGED <<clock, attempts, expiry, admitted>>

\* AuthService.login: argon2 takes its time, then the failure is recorded with
\* the clock of that moment, or all of them are forgotten.
Verify(r) ==
    /\ login[r].step = "verify"
    /\ \/ failures' = failures \cup {[score |-> clock, by |-> r]}
          /\ expiry' = [expiry EXCEPT !["failures"] = clock + Window]
       \/ failures' = {} /\ UNCHANGED expiry
    /\ Go(r, "done")
    /\ UNCHANGED <<clock, attempts, admitted>>

\* Redis drops a key whose PEXPIRE has passed, with all its members.
KeyExpires ==
    /\ \/ attempts # {} /\ clock >= expiry["attempts"] /\ attempts' = {} /\ UNCHANGED failures
       \/ failures # {} /\ clock >= expiry["failures"] /\ failures' = {} /\ UNCHANGED attempts
    /\ UNCHANGED <<clock, expiry, login, admitted>>

Tick ==
    /\ clock < MaxClock
    /\ \A r \in Logins : login[r].step \in {"consume", "look"} => clock < login[r].now + Delay
    /\ clock' = clock + 1
    /\ UNCHANGED <<attempts, failures, expiry, login, admitted>>

RateLimitsNext ==
    \/ \E r \in Logins : ReadClock(r) \/ Consume(r) \/ GiveBack(r) \/ Peek(r) \/ Verify(r)
    \/ KeyExpires
    \/ Tick

RateLimitsSpec == RateLimitsInit /\ [][RateLimitsNext]_rateVars
-----------------------------------------------------------------------------
\* The limit holds in every interval of the window less the delay, although
\* the members are placed by clocks read before the MULTI and a late request
\* clears the window by an old one (RateLimitService.consume).
WindowHolds == \A t \in Clock :
    Cardinality({a \in admitted : a.at <= t /\ a.at + Window > t + Delay}) <= IpLimit
=============================================================================
