------------------------------ MODULE WebClient ------------------------------
(***************************************************************************)
(* The HTTP client and the session of one browser tab (apps/web/src/lib/api*)
(* with SessionGate, the forms that log in and out and the middleware of   *)
(* Next): access token in memory, refresh shared by the calls in flight,   *)
(* one repetition of a call, bootstrap of a page, and what the tab shows.  *)
(*                                                                         *)
(* The API and the other tabs are the environment: they change the cookie. *)
(* A token is the number of its issue; 0 is null.                          *)
(***************************************************************************)
EXTENDS Naturals, FiniteSets

CONSTANTS Calls,        \* calls of apiFetch that can be in flight together
          MaxTokens     \* bound: access tokens issued

ASSUME WebClientAssumption == MaxTokens \in Nat

VARIABLES
    route,      \* the page: a public one ("login") or a protected one ("app")
    status,     \* sessionStore.status
    token,      \* sessionStore.accessToken
    refresh,    \* refreshInFlight: is POST /auth/refresh in flight?
    bootstrap,  \* the promise of bootstrapSession: none, waiting, or settled
    fetches,    \* per call, its step, what it is for, and the token it carries
    cookie,     \* cb_refresh and its marker: "none", "good", or "refused" by the API
    accepted,   \* the tokens the API still accepts
    issued      \* how many it has issued

clientVars == <<route, status, token, refresh, bootstrap, fetches, cookie, accepted, issued>>

NoFetch == [step |-> "idle", kind |-> "data", used |-> 0]
Purposes == {"data", "login", "logout", "logoutAll"}

WebClientTypeOK ==
    /\ route \in {"login", "app"}
    /\ status \in {"unknown", "authenticated", "anonymous", "unavailable"}
    /\ status = "authenticated" <=> token # 0
    /\ refresh \in BOOLEAN /\ bootstrap \in {"none", "waiting", "settled"}
    /\ fetches \in [Calls -> [step: {"idle", "sent", "waiting", "again"},
                              kind: Purposes, used: 0 .. issued]]
    /\ cookie \in {"none", "good", "refused"}
    /\ issued \in 0 .. MaxTokens /\ token \in 0 .. issued /\ accepted \subseteq 1 .. issued

\* A page just loaded: the middleware sends who has the marker to the app, and
\* who has none to the login.
WebClientInit ==
    /\ cookie \in {"none", "good", "refused"}
    /\ route = IF cookie = "none" THEN "login" ELSE "app"
    /\ status = "unknown" /\ token = 0
    /\ refresh = FALSE /\ bootstrap = "none"
    /\ fetches = [c \in Calls |-> NoFetch]
    /\ accepted = {} /\ issued = 0

\* window.location.assign: the memory of the page is gone.
Reload(jar) ==
    /\ route' = IF jar = "none" THEN "login" ELSE "app"
    /\ status' = "unknown" /\ token' = 0
    /\ refresh' = FALSE /\ bootstrap' = "none"
    /\ fetches' = [c \in Calls |-> NoFetch]
-----------------------------------------------------------------------------
(* The API and the other tabs. *)

\* AuthGuard and AccessTokenService.verify: past its 15 minutes, or with its
\* session in the denylist, a token is refused for good.
TokenExpires ==
    /\ \E t \in accepted : accepted' = accepted \ {t}
    /\ UNCHANGED <<route, status, token, refresh, bootstrap, fetches, cookie, issued>>

\* Another tab logs in or out, or the session is revoked elsewhere.
CookieChanges ==
    /\ cookie' \in {"none", "good", "refused"} \ {cookie}
    /\ cookie' = "refused" => cookie = "good"
    /\ UNCHANGED <<route, status, token, refresh, bootstrap, fetches, accepted, issued>>
-----------------------------------------------------------------------------
(* apiFetch. *)

SetFetch(c, f) == fetches' = [fetches EXCEPT ![c] = f]

\* SessionGate mounts the app only with a token; the login form has none.
Send(c, kind) ==
    /\ fetches[c].step = "idle"
    /\ IF kind = "login" THEN route = "login" ELSE route = "app" /\ status = "authenticated"
    /\ \A d \in Calls : fetches[d].step # "idle" => fetches[d].kind = "data"
    /\ SetFetch(c, [step |-> "sent", kind |-> kind, used |-> token])
    /\ UNCHANGED <<route, status, token, refresh, bootstrap, cookie, accepted, issued>>

\* Mutant: every 401 asks for a refresh, also when another call has brought a token.
UnauthorizedRefreshes(c) ==
    /\ fetches[c].step = "sent" /\ fetches[c].kind \in {"data", "logoutAll"}
    /\ fetches[c].used \notin accepted
    /\ SetFetch(c, [fetches[c] EXCEPT !.step = "waiting"]) /\ refresh' = TRUE
    /\ UNCHANGED <<route, status, token, bootstrap, cookie, accepted, issued>>

\* A 401 is repeated with the token another call has brought meanwhile, or
\* joins the refresh.
Unauthorized(c) ==
    /\ fetches[c].step = "sent" /\ fetches[c].kind \in {"data", "logoutAll"}
    /\ fetches[c].used \notin accepted
    /\ IF token # 0 /\ token # fetches[c].used
       THEN SetFetch(c, [fetches[c] EXCEPT !.step = "again", !.used = token]) /\ UNCHANGED refresh
       ELSE SetFetch(c, [fetches[c] EXCEPT !.step = "waiting"]) /\ refresh' = TRUE
    /\ UNCHANGED <<route, status, token, bootstrap, cookie, accepted, issued>>

\* The call ends: answered, refused a second time, or without an answer.
Settle(c) ==
    /\ fetches[c].kind = "data"
    /\ fetches[c].step \in {"sent", "again"}
    /\ SetFetch(c, NoFetch)
    /\ UNCHANGED <<route, status, token, refresh, bootstrap, cookie, accepted, issued>>

\* login, signup: setAccessToken, then router.replace.
LoggedIn(c) ==
    /\ fetches[c].step = "sent" /\ fetches[c].kind = "login"
    /\ issued < MaxTokens
    /\ issued' = issued + 1 /\ accepted' = accepted \cup {issued'}
    /\ status' = "authenticated" /\ token' = issued'
    /\ cookie' = "good" /\ route' = "app"
    /\ SetFetch(c, NoFetch)
    /\ UNCHANGED <<refresh, bootstrap>>

LoginRefused(c) ==
    /\ fetches[c].step = "sent" /\ fetches[c].kind = "login"
    /\ SetFetch(c, NoFetch)
    /\ UNCHANGED <<route, status, token, refresh, bootstrap, cookie, accepted, issued>>

\* logout and logoutAll that the API answers: useLeave loads the login page.
LoggedOut(c) ==
    /\ \/ fetches[c].step = "sent" /\ fetches[c].kind = "logout"
       \/ /\ fetches[c].step \in {"sent", "again"} /\ fetches[c].kind = "logoutAll"
          /\ fetches[c].used \in accepted
    /\ cookie' = "none"
    /\ accepted' = IF fetches[c].kind = "logoutAll" THEN {} ELSE accepted
    /\ Reload("none")
    /\ UNCHANGED issued

\* Without an answer logout clears the session all the same, logoutAll does
\* not; useLeave shows the error and stays.
LeaveFails(c) ==
    /\ fetches[c].step \in {"sent", "again"} /\ fetches[c].kind \in {"logout", "logoutAll"}
    /\ SetFetch(c, NoFetch)
    /\ IF fetches[c].kind = "logout" THEN status' = "anonymous" /\ token' = 0
       ELSE UNCHANGED <<status, token>>
    /\ UNCHANGED <<route, refresh, bootstrap, cookie, accepted, issued>>
-----------------------------------------------------------------------------
(* refreshSession, bootstrapSession and SessionGate. *)

Open ==
    /\ route = "app" /\ status = "unknown" /\ bootstrap = "none"
    /\ bootstrap' = "waiting" /\ refresh' = TRUE
    /\ UNCHANGED <<route, status, token, fetches, cookie, accepted, issued>>

RefreshOk ==
    /\ refresh /\ cookie = "good" /\ issued < MaxTokens
    /\ issued' = issued + 1 /\ accepted' = accepted \cup {issued'}
    /\ status' = "authenticated" /\ token' = issued'
    /\ refresh' = FALSE
    /\ bootstrap' = IF bootstrap = "waiting" THEN "settled" ELSE bootstrap
    /\ fetches' = [c \in Calls |-> IF fetches[c].step # "waiting" THEN fetches[c]
                                   ELSE [fetches[c] EXCEPT !.step = "again", !.used = issued']]
    /\ UNCHANGED <<route, cookie>>

\* 401: the API has cleared the cookie.  A call that waited loads the login.
RefreshRefused ==
    /\ refresh /\ cookie # "good"
    /\ cookie' = "none"
    /\ IF \E c \in Calls : fetches[c].step = "waiting" THEN Reload("none")
       ELSE /\ status' = "anonymous" /\ token' = 0 /\ refresh' = FALSE
            /\ bootstrap' = IF bootstrap = "waiting" THEN "settled" ELSE bootstrap
            /\ UNCHANGED <<route, fetches>>
    /\ UNCHANGED <<accepted, issued>>

\* Mutant: a refresh without an answer ends the session.
UnavailableIsOver ==
    /\ refresh
    /\ refresh' = FALSE
    /\ status' = "anonymous" /\ token' = 0 /\ bootstrap' = "none"
    /\ fetches' = [c \in Calls |-> IF fetches[c].step = "waiting" THEN NoFetch ELSE fetches[c]]
    /\ UNCHANGED <<route, cookie, accepted, issued>>

\* No answer, 429 or 5xx (whose route may have cleared the cookie): the waiting
\* calls fail, and a page that was opening says so and can try again.
RefreshUnavailable ==
    /\ refresh
    /\ refresh' = FALSE
    /\ IF bootstrap = "waiting" THEN status' = "unavailable" /\ token' = 0 /\ bootstrap' = "none"
       ELSE UNCHANGED <<status, token, bootstrap>>
    /\ fetches' = [c \in Calls |-> IF fetches[c].step = "waiting" THEN NoFetch ELSE fetches[c]]
    /\ cookie' \in {cookie, "none"}
    /\ UNCHANGED <<route, accepted, issued>>

TryAgain ==
    /\ route = "app" /\ status = "unavailable"
    /\ status' = "unknown"
    /\ UNCHANGED <<route, token, refresh, bootstrap, fetches, cookie, accepted, issued>>

\* router.replace(loginUrl): the middleware sends it back to /app while the
\* marker is there.
ToLogin ==
    /\ route = "app" /\ status = "anonymous" /\ cookie = "none"
    /\ route' = "login"
    /\ UNCHANGED <<status, token, refresh, bootstrap, fetches, cookie, accepted, issued>>

LoadPage == Reload(cookie) /\ UNCHANGED <<cookie, accepted, issued>>

WebClientNext ==
    \/ \E c \in Calls :
         \/ \E kind \in Purposes : Send(c, kind)
         \/ Unauthorized(c) \/ Settle(c)
         \/ LoggedIn(c) \/ LoginRefused(c) \/ LoggedOut(c) \/ LeaveFails(c)
    \/ Open \/ RefreshOk \/ RefreshRefused \/ RefreshUnavailable \/ TryAgain \/ ToLogin
    \/ LoadPage \/ TokenExpires \/ CookieChanges

WebClientSpec == WebClientInit /\ [][WebClientNext]_clientVars
-----------------------------------------------------------------------------
(* Properties. *)

\* A refresh, which uses up the cookie's token, is sent only while the token in
\* memory is one the API refuses, or there is none: calls refused together, or
\* late, share one (apiFetch, refreshSession).
RefreshIsNeeded == [][refresh' /\ ~refresh => token \notin accepted]_clientVars

\* An open page keeps its session through failures of the network: it gives it
\* up only when the API has refused the cookie, or a logout was asked for
\* (RefreshResult: "unavailable" leaves the session as it is).
KeptWhenUnsure == [][
    status = "authenticated" /\ status' \in {"anonymous", "unavailable"}
        => cookie' = "none" \/ \E c \in Calls : fetches[c].kind = "logout"]_clientVars
=============================================================================
