---------------------------- MODULE BrowserProofs ----------------------------
(***************************************************************************)
(* What six parts of the page guarantee for every number of calls, tabs,   *)
(* files and rows: WebClient, whose calls share a refresh and keep the     *)
(* session when in doubt; Profiles, whose form saves what it shows although*)
(* it sends only what changed; BrowserUploads, whose pump leaves no file   *)
(* waiting while there is room, and whose lanes stop with their upload;    *)
(* LibraryList, whose pages neither repeat nor skip a row that stays;      *)
(* Problems, whose screens tell every failure, whatever became of it;      *)
(* PageControls, whose drops are heard by two handlers and taken by one.   *)
(***************************************************************************)
EXTENDS WebClient, Profiles, BrowserUploads, LibraryList, Problems,
        PageControls, ListFacts

-----------------------------------------------------------------------------
(* WebClient. *)

\* A page that opens has no session yet, and no call of the app.
OpeningIsFirst == bootstrap = "waiting" => status = "unknown" /\ route = "app"

\* Who logs in or out does it alone, on the page it is done from.
CallsFitThePage ==
    /\ \A c \in Calls : fetches[c].step # "idle" =>
          /\ fetches[c].kind = "login" => route = "login"
          /\ fetches[c].kind = "logout" => status \in {"authenticated", "anonymous"}
    /\ \A c, d \in Calls : fetches[c].step # "idle" /\ fetches[d].step # "idle" /\ c # d =>
          fetches[c].kind = "data" \/ fetches[d].kind = "data"
    /\ \A c \in Calls : fetches[c].step = "idle" => fetches[c].kind = "data"

ClientInvariant == WebClientTypeOK /\ OpeningIsFirst /\ CallsFitThePage
-----------------------------------------------------------------------------
(* Profiles. *)

\* A request is a record; a tab that waits for no answer has sent no form.
RequestIsWhole(q) ==
    /\ q = [step |-> q.step, kind |-> q.kind, patch |-> q.patch, etag |-> q.etag, image |-> q.image]
    /\ q.etag \in Nat
    /\ q.step \in {"none", "delete", "clear"} => q.kind # "form"
    /\ q.step \in {"delete", "clear"} => q.image # NoImage

RowIsWhole(p) ==
    p = [bio |-> p.bio, roles |-> p.roles, avatar |-> p.avatar, onboarded |-> p.onboarded,
         version |-> p.version]

\* The ETag is the version, and identifies the row; the one a request carries is
\* not newer than what its tab has read since.
VersionIdentifies(t) ==
    /\ me[t].version \in Nat /\ me[t].version <= profile.version
    /\ me[t].version = profile.version => me[t] = profile
    /\ sent[t].etag <= me[t].version

\* On the row it was made for, the patch of a form gives what the form shows.
PatchGivesForm(t) == sent[t].kind = "form" /\ sent[t].etag = profile.version
    => Text(Apply(profile, sent[t].patch)) = Parsed(form[t])

\* The row is locked while it is written, and is the one If-Match names.
LockProtects(t) == sent[t].step = "write" => lockedBy = t /\ sent[t].etag = profile.version

TabIsGood(t) == /\ RequestIsWhole(sent[t]) /\ VersionIdentifies(t)
                /\ PatchGivesForm(t) /\ LockProtects(t)

ProfileInvariant ==
    /\ RowIsWhole(profile) /\ profile.version \in Nat
    /\ sent = [t \in Tabs |-> sent[t]]
    /\ me = [t \in Tabs |-> me[t]] /\ form = [t \in Tabs |-> form[t]]
    /\ \A t \in Tabs : TabIsGood(t)
-----------------------------------------------------------------------------
(* BrowserUploads. *)

AtWork == Active \ {"waiting"}

\* A file at work has a controller, and one that is active is in the list.
RunsAreControlled == \A i \in Items : controller[i] # "none" <=> Status(i) \in AtWork
ActiveIsShown == \A i \in Items : Status(i) \in Active => i \in Range(shown)

\* Parts are on lanes of an upload, and in flight while nobody has aborted it.
LanesAreOfUploads == \A i \in Items, p \in Parts :
    /\ part[i][p].step \in {"put", "renew", "sleep"} => Status(i) = "uploading"
    /\ part[i][p].step = "put" => Live(i)

RenewalsAreBounded == \A i \in Items : urls[i].renewing => urls[i].age < MaxRenewals

ListIsWhole == shown \in Seq(Items) /\ controller \in [Items -> {"none", "live", "aborted"}]

UploadsInvariant ==
    /\ BrowserUploadsTypeOK /\ ListIsWhole
    /\ RunsAreControlled /\ ActiveIsShown /\ LanesAreOfUploads /\ RenewalsAreBounded
    /\ WaitingHasAReason
-----------------------------------------------------------------------------
(* Problems. *)

\* What is known of a response of the API: a failure of its own comes without a
\* detail or with the time to wait, and any other with its detail.
ResponseIsPlain(r) ==
    /\ DOMAIN r = DOMAIN NoAnswer /\ r.status \in Nat
    /\ r.problem => IF r.status < 500 THEN r.detail = "own"
                    ELSE IF r.type = "serviceUnavailable" THEN r.retryAfter ELSE r.detail = "none"

\* The error thrown is read from the last response.
ErrorIsOfAnswer == stage \in {"thrown", "told"} =>
    /\ error.api => error = FromResponse(answer)
    /\ ~error.api => error.status = 200
    /\ stage = "thrown" => error.message # "none"

\* While a call is on its way the notice of the one before is gone.
CallsAreClean == stage \in {"sent", "answered", "thrown"} => notice = "none" /\ tries <= 2

ProblemsInvariant ==
    /\ page \in Pages /\ tries \in Nat /\ tries <= 3 /\ (page # "query" => tries = 0)
    /\ inUse \in BOOLEAN /\ (inUse => page = "delete")
    /\ ResponseIsPlain(answer)
    /\ ErrorIsOfAnswer /\ CallsAreClean /\ FailuresAreTold
-----------------------------------------------------------------------------
(* PageControls. *)

\* The highlight is on an option wherever there is one.
MenuIsSound ==
    /\ menu = [value |-> menu.value, open |-> menu.open, query |-> menu.query, active |-> menu.active]
    /\ menu.value \in DOMAIN Zones /\ menu.query \in Queries /\ menu.active \in Int
    /\ HighlightIsListed

TagsAreSound ==
    /\ tags = [value |-> tags.value, draft |-> tags.draft]
    /\ tags.value \in Seq(Texts) /\ tags.draft \in Texts
    /\ RolesAreTakeable

\* Before a drop nothing is taken; the zone has taken the files when the window
\* is about to hear of them, and the page has not.
DragIsSound ==
    /\ drag = [at |-> drag.at, files |-> drag.files, under |-> drag.under, depth |-> drag.depth,
               covered |-> drag.covered, over |-> drag.over, zone |-> drag.zone, taken |-> drag.taken]
    /\ drag.under \in Seq(Elements)
    /\ drag.at = "window" => drag.taken = 0
    /\ drag.at = "zone" /\ drag.files => drag.taken = 1
    /\ drag.at = "page" => drag.taken = 0
    /\ drag.at = "dropped" /\ drag.files => drag.taken = 1

NoticeIsSound ==
    link = [status |-> link.status, shown |-> link.shown, timer |-> link.timer] /\ NoticeCatchesUp

ControlsInvariant == MenuIsSound /\ TagsAreSound /\ DragIsSound /\ NoticeIsSound
-----------------------------------------------------------------------------
LEMMA ClientInvariantAtStart == WebClientInit => ClientInvariant
  <1> SUFFICES ASSUME WebClientInit PROVE ClientInvariant
    OBVIOUS
  <1>1. fetches = [c \in Calls |-> [step |-> "idle", kind |-> "data", used |-> 0]] /\ issued = 0
    BY DEF WebClientInit, NoFetch
  <1>2. WebClientTypeOK
    <2>1. fetches \in [Calls -> [step: {"idle", "sent", "waiting", "again"}, kind: Purposes, used: 0 .. issued]]
      BY <1>1 DEF Purposes
    <2>2. route \in {"login", "app"} /\ cookie \in {"none", "good", "refused"}
      BY DEF WebClientInit
    <2>3. issued \in 0 .. MaxTokens /\ token \in 0 .. issued /\ accepted \subseteq 1 .. issued
      BY <1>1, WebClientAssumption DEF WebClientInit
    <2> QED
      BY <2>1, <2>2, <2>3 DEF WebClientInit, WebClientTypeOK
  <1> QED
    BY <1>1, <1>2 DEF WebClientInit, ClientInvariant, OpeningIsFirst, CallsFitThePage

\* What a loaded page begins with.
LEMMA ReloadIsGood ==
  ASSUME ClientInvariant, NEW jar, Reload(jar), issued' = issued, accepted' \subseteq accepted,
         cookie' \in {"none", "good", "refused"}
  PROVE  ClientInvariant'
  <1>1. fetches' = [c \in Calls |-> [step |-> "idle", kind |-> "data", used |-> 0]]
    BY DEF Reload, NoFetch
  <1>2. WebClientTypeOK'
    <2>1. fetches' \in [Calls -> [step: {"idle", "sent", "waiting", "again"},
                                  kind: Purposes, used: 0 .. issued]]
      BY <1>1, WebClientAssumption DEF ClientInvariant, WebClientTypeOK, Purposes
    <2>2. /\ route' \in {"login", "app"} /\ status' = "unknown" /\ token' = 0
          /\ refresh' = FALSE /\ bootstrap' = "none"
      BY DEF Reload
    <2>3. issued \in 0 .. MaxTokens /\ issued \in Nat /\ accepted \subseteq 1 .. issued
      BY WebClientAssumption DEF ClientInvariant, WebClientTypeOK
    <2>4. token' \in 0 .. issued' /\ accepted' \subseteq 1 .. issued'
      BY <2>2, <2>3
    <2> QED
      BY <2>1, <2>2, <2>3, <2>4 DEF WebClientTypeOK
  <1>3. OpeningIsFirst' /\ CallsFitThePage'
    BY <1>1 DEF Reload, OpeningIsFirst, CallsFitThePage
  <1> QED
    BY <1>2, <1>3 DEF ClientInvariant

\* What a step does to the calls in flight.
CallsAt(n) == [Calls -> [step: {"idle", "sent", "waiting", "again"}, kind: Purposes, used: 0 .. n]]

LEMMA OneCallSteps ==
  ASSUME ClientInvariant, NEW c \in Calls,
         NEW step \in {"idle", "sent", "waiting", "again"}, NEW kind \in Purposes, NEW used \in 0 .. issued,
         \/ SetFetch(c, [step |-> step, kind |-> kind, used |-> used])
         \/ /\ kind = fetches[c].kind /\ used = fetches[c].used
            /\ SetFetch(c, [fetches[c] EXCEPT !.step = step])
         \/ /\ kind = fetches[c].kind
            /\ SetFetch(c, [fetches[c] EXCEPT !.step = step, !.used = used])
  PROVE  /\ fetches' \in CallsAt(issued)
         /\ fetches'[c] = [step |-> step, kind |-> kind, used |-> used]
         /\ \A d \in Calls : d # c => fetches'[d] = fetches[d]
  <1> DEFINE g == [step |-> step, kind |-> kind, used |-> used]
             Fetches == [step: {"idle", "sent", "waiting", "again"}, kind: Purposes, used: 0 .. issued]
  <1>1. fetches \in [Calls -> Fetches] /\ fetches[c] \in Fetches /\ g \in Fetches
    BY DEF ClientInvariant, WebClientTypeOK
  <1>2. /\ kind = fetches[c].kind => [fetches[c] EXCEPT !.step = step, !.used = used] = g
        /\ kind = fetches[c].kind /\ used = fetches[c].used => [fetches[c] EXCEPT !.step = step] = g
    <2>1. [fetches[c] EXCEPT !.step = step]
              = [step |-> step, kind |-> fetches[c].kind, used |-> fetches[c].used]
      BY <1>1
    <2>2. [fetches[c] EXCEPT !.step = step, !.used = used]
              = [step |-> step, kind |-> fetches[c].kind, used |-> used]
      <3> DEFINE q == [fetches[c] EXCEPT !.step = step, !.used = used]
      <3>1. q.step = step /\ q.used = used /\ q.kind = fetches[c].kind
        BY <1>1
      <3>2. q \in Fetches
        BY <1>1
      <3>3. q = [step |-> q.step, kind |-> q.kind, used |-> q.used]
        <4> HIDE DEF q
        <4> QED
          BY <3>2
      <3> QED
        BY <3>1, <3>3
    <2> QED
      BY <2>1, <2>2
  <1>3. fetches' = [fetches EXCEPT ![c] = g]
    BY <1>2 DEF SetFetch
  <1> QED
    BY <1>1, <1>3 DEF CallsAt

\* A call that changes step alone disturbs no other.
LEMMA FetchStepIsGood ==
  ASSUME ClientInvariant, NEW c \in Calls, NEW step \in {"idle", "sent", "waiting", "again"},
         NEW kind \in Purposes, NEW used \in 0 .. issued,
         fetches' \in CallsAt(issued), fetches'[c] = [step |-> step, kind |-> kind, used |-> used],
         \A d \in Calls : d # c => fetches'[d] = fetches[d],
         \/ step = "idle" /\ kind = "data"
         \/ step # "idle" /\ fetches[c].step # "idle" /\ kind = fetches[c].kind,
         UNCHANGED <<route, status, token, bootstrap, cookie, accepted, issued>>, refresh' \in BOOLEAN
  PROVE  ClientInvariant'
  <1>1. WebClientTypeOK'
    BY DEF ClientInvariant, WebClientTypeOK, CallsAt
  <1>2. fetches'[c].step = step /\ fetches'[c].kind = kind
    OBVIOUS
  <1>3. OpeningIsFirst' /\ CallsFitThePage'
    BY <1>2 DEF ClientInvariant, OpeningIsFirst, CallsFitThePage
  <1> QED
    BY <1>1, <1>3 DEF ClientInvariant

LEMMA SendIsGood ==
  ASSUME ClientInvariant, NEW c \in Calls, NEW kind \in Purposes, Send(c, kind)
  PROVE  ClientInvariant'
  <1>0. /\ fetches[c].step = "idle"
        /\ kind = "login" => route = "login"
        /\ kind # "login" => route = "app" /\ status = "authenticated"
        /\ \A d \in Calls : fetches[d].step # "idle" => fetches[d].kind = "data"
        /\ SetFetch(c, [step |-> "sent", kind |-> kind, used |-> token])
        /\ UNCHANGED <<route, status, token, refresh, bootstrap, cookie, accepted, issued>>
        /\ WebClientTypeOK /\ token \in 0 .. issued
    BY DEF Send, ClientInvariant, WebClientTypeOK
  <1>1. /\ fetches' \in CallsAt(issued) /\ fetches'[c].step = "sent" /\ fetches'[c].kind = kind
        /\ \A d \in Calls : d # c => fetches'[d] = fetches[d]
    <2>1. /\ fetches' \in CallsAt(issued) /\ fetches'[c] = [step |-> "sent", kind |-> kind, used |-> token]
          /\ \A d \in Calls : d # c => fetches'[d] = fetches[d]
      BY <1>0, OneCallSteps
    <2> QED
      BY <2>1
  <1>2. WebClientTypeOK'
    BY <1>0, <1>1 DEF WebClientTypeOK, CallsAt
  <1>3. OpeningIsFirst' /\ CallsFitThePage'
    BY <1>0, <1>1 DEF ClientInvariant, OpeningIsFirst, CallsFitThePage
  <1> QED
    BY <1>2, <1>3 DEF ClientInvariant

LEMMA UnauthorizedIsGood ==
  ASSUME ClientInvariant, NEW c \in Calls, Unauthorized(c)
  PROVE  ClientInvariant'
  <1>0. /\ fetches[c].step = "sent" /\ fetches[c].kind \in Purposes /\ fetches[c].used \in 0 .. issued
        /\ token \in 0 .. issued /\ refresh \in BOOLEAN
        /\ UNCHANGED <<route, status, token, bootstrap, cookie, accepted, issued>>
    BY DEF Unauthorized, ClientInvariant, WebClientTypeOK
  <1>1. \/ SetFetch(c, [fetches[c] EXCEPT !.step = "again", !.used = token]) /\ refresh' = refresh
        \/ SetFetch(c, [fetches[c] EXCEPT !.step = "waiting"]) /\ refresh' = TRUE
    BY DEF Unauthorized
  <1>2. CASE SetFetch(c, [fetches[c] EXCEPT !.step = "again", !.used = token]) /\ refresh' = refresh
    <2>1. /\ fetches' \in CallsAt(issued)
          /\ fetches'[c] = [step |-> "again", kind |-> fetches[c].kind, used |-> token]
          /\ \A d \in Calls : d # c => fetches'[d] = fetches[d]
      BY <1>0, <1>2, OneCallSteps
    <2> QED
      BY <1>0, <1>2, <2>1, FetchStepIsGood
  <1>3. CASE SetFetch(c, [fetches[c] EXCEPT !.step = "waiting"]) /\ refresh' = TRUE
    <2>1. /\ fetches' \in CallsAt(issued)
          /\ fetches'[c] = [step |-> "waiting", kind |-> fetches[c].kind, used |-> fetches[c].used]
          /\ \A d \in Calls : d # c => fetches'[d] = fetches[d]
      BY <1>0, <1>3, OneCallSteps
    <2> QED
      BY <1>0, <1>3, <2>1, FetchStepIsGood
  <1> QED
    BY <1>1, <1>2, <1>3

\* A call that is over.
LEMMA OverIsGood ==
  ASSUME ClientInvariant, NEW c \in Calls, SetFetch(c, NoFetch)
  PROVE  /\ fetches' \in CallsAt(issued) /\ fetches'[c] = [step |-> "idle", kind |-> "data", used |-> 0]
         /\ \A d \in Calls : d # c => fetches'[d] = fetches[d]
  <1>1. 0 \in 0 .. issued /\ "data" \in Purposes
    BY WebClientAssumption DEF ClientInvariant, WebClientTypeOK, Purposes
  <1> QED
    BY <1>1, OneCallSteps DEF NoFetch

LEMMA LoggedInIsGood ==
  ASSUME ClientInvariant, NEW c \in Calls, LoggedIn(c)
  PROVE  ClientInvariant'
  <1>0. /\ fetches[c].step = "sent" /\ fetches[c].kind = "login" /\ issued < MaxTokens
        /\ issued' = issued + 1 /\ accepted' = accepted \cup {issued + 1}
        /\ status' = "authenticated" /\ token' = issued + 1
        /\ cookie' = "good" /\ route' = "app" /\ UNCHANGED <<refresh, bootstrap>>
        /\ WebClientTypeOK /\ OpeningIsFirst /\ CallsFitThePage
        /\ issued \in Nat /\ MaxTokens \in Nat
    BY WebClientAssumption DEF LoggedIn, ClientInvariant, WebClientTypeOK
  <1>1. /\ fetches' \in CallsAt(issued) /\ fetches'[c] = [step |-> "idle", kind |-> "data", used |-> 0]
        /\ \A d \in Calls : d # c => fetches'[d] = fetches[d]
    BY OverIsGood DEF LoggedIn
  <1>2. fetches' \in CallsAt(issued + 1)
    BY <1>0, <1>1 DEF CallsAt
  <1>3. WebClientTypeOK'
    BY <1>0, <1>2 DEF WebClientTypeOK, CallsAt
  <1>4. bootstrap # "waiting"
    BY <1>0 DEF OpeningIsFirst, CallsFitThePage
  <1>5. \A d \in Calls : d # c /\ fetches[d].step # "idle" => fetches[d].kind = "data"
    BY <1>0 DEF CallsFitThePage
  <1>6. OpeningIsFirst' /\ CallsFitThePage'
    BY <1>0, <1>1, <1>4, <1>5 DEF OpeningIsFirst, CallsFitThePage
  <1> QED
    BY <1>3, <1>6 DEF ClientInvariant

LEMMA LeaveFailsIsGood ==
  ASSUME ClientInvariant, NEW c \in Calls, LeaveFails(c)
  PROVE  ClientInvariant'
  <1>0. /\ fetches[c].step # "idle" /\ WebClientTypeOK /\ OpeningIsFirst /\ CallsFitThePage
        /\ UNCHANGED <<route, refresh, bootstrap, cookie, accepted, issued>>
    BY DEF LeaveFails, ClientInvariant
  <1>1. /\ fetches' \in CallsAt(issued) /\ fetches'[c] = [step |-> "idle", kind |-> "data", used |-> 0]
        /\ \A d \in Calls : d # c => fetches'[d] = fetches[d]
    BY OverIsGood DEF LeaveFails
  <1>2. CASE UNCHANGED <<status, token>>
    BY <1>0, <1>1, <1>2, FetchStepIsGood, WebClientAssumption DEF WebClientTypeOK, Purposes
  <1>3. CASE fetches[c].kind = "logout" /\ status' = "anonymous" /\ token' = 0
    <2>1. WebClientTypeOK'
      BY <1>0, <1>1, <1>3, WebClientAssumption DEF WebClientTypeOK, CallsAt
    <2>2. OpeningIsFirst' /\ CallsFitThePage'
      BY <1>0, <1>1, <1>3 DEF OpeningIsFirst, CallsFitThePage
    <2> QED
      BY <2>1, <2>2 DEF ClientInvariant
  <1> QED
    BY <1>2, <1>3 DEF LeaveFails

\* The answers of POST /auth/refresh.
LEMMA RefreshIsGood ==
  ASSUME ClientInvariant, RefreshOk \/ RefreshRefused \/ RefreshUnavailable
  PROVE  ClientInvariant'
  <1>0. WebClientTypeOK /\ OpeningIsFirst /\ CallsFitThePage /\ issued \in Nat /\ MaxTokens \in Nat
        /\ fetches \in CallsAt(issued)
    BY WebClientAssumption DEF ClientInvariant, WebClientTypeOK, CallsAt
  <1>1. CASE RefreshOk
    <2>1. /\ issued < MaxTokens /\ issued' = issued + 1 /\ accepted' = accepted \cup {issued + 1}
          /\ status' = "authenticated" /\ token' = issued + 1 /\ refresh' = FALSE
          /\ bootstrap' = IF bootstrap = "waiting" THEN "settled" ELSE bootstrap
          /\ UNCHANGED <<route, cookie>>
          /\ fetches' = [c \in Calls |-> IF fetches[c].step # "waiting" THEN fetches[c]
                             ELSE [fetches[c] EXCEPT !.step = "again", !.used = issued + 1]]
      BY <1>1 DEF RefreshOk
    <2>2. ASSUME NEW c \in Calls
          PROVE  /\ fetches'[c] \in [step: {"idle", "sent", "waiting", "again"}, kind: Purposes,
                                     used: 0 .. issued + 1]
                 /\ fetches'[c].kind = fetches[c].kind
                 /\ fetches'[c].step = "idle" <=> fetches[c].step = "idle"
      <3>1. fetches[c] \in [step: {"idle", "sent", "waiting", "again"}, kind: Purposes, used: 0 .. issued]
        BY <1>0 DEF CallsAt
      <3>2. CASE fetches[c].step # "waiting"
        <4>1. fetches'[c] = fetches[c]
          BY <2>1, <3>2
        <4> QED
          BY <1>0, <3>1, <4>1
      <3>3. CASE fetches[c].step = "waiting"
        <4>1. fetches'[c] = [fetches[c] EXCEPT !.step = "again", !.used = issued + 1]
          BY <2>1, <3>3
        <4>2. fetches'[c] = [step |-> "again", kind |-> fetches[c].kind, used |-> issued + 1]
          BY <3>1, <4>1
        <4> QED
          BY <1>0, <3>1, <3>3, <4>2
      <3> QED
        BY <3>2, <3>3
    <2>3. fetches' \in CallsAt(issued + 1)
      BY <2>1, <2>2 DEF CallsAt
    <2>4. WebClientTypeOK'
      <3>1. bootstrap' \in {"none", "settled"}
        BY <1>0, <2>1 DEF WebClientTypeOK
      <3>2. /\ issued' \in 0 .. MaxTokens /\ token' \in 0 .. issued' /\ accepted' \subseteq 1 .. issued'
            /\ token' # 0
        <4>1. /\ accepted \subseteq 1 .. issued /\ issued \in Nat /\ MaxTokens \in Nat /\ issued < MaxTokens
              /\ issued' = issued + 1 /\ token' = issued + 1 /\ accepted' = accepted \cup {issued + 1}
          BY <1>0, <2>1 DEF WebClientTypeOK
        <4>2. issued' \in 0 .. MaxTokens /\ token' \in 0 .. issued' /\ token' # 0
          BY <4>1
        <4>3. ASSUME NEW i \in accepted' PROVE i \in 1 .. issued'
          BY <4>1, <4>3
        <4> QED
          BY <4>2, <4>3
      <3> QED
        BY <1>0, <2>1, <2>3, <3>1, <3>2 DEF WebClientTypeOK, CallsAt
    <2>5. OpeningIsFirst'
      BY <2>1 DEF OpeningIsFirst
    <2>6. CallsFitThePage'
      <3>1. status' = "authenticated" /\ route' = route
        BY <2>1
      <3> QED
        BY <1>0, <2>2, <3>1 DEF CallsFitThePage
    <2> QED
      BY <2>4, <2>5, <2>6 DEF ClientInvariant
  <1>2. CASE RefreshRefused
    <2>1. cookie' = "none" /\ UNCHANGED <<accepted, issued>>
      BY <1>2 DEF RefreshRefused
    <2>2. CASE Reload("none")
      BY <2>1, <2>2, ReloadIsGood
    <2>3. CASE /\ status' = "anonymous" /\ token' = 0 /\ refresh' = FALSE
               /\ bootstrap' = IF bootstrap = "waiting" THEN "settled" ELSE bootstrap
               /\ UNCHANGED <<route, fetches>>
      <3>1. WebClientTypeOK'
        <4>1. bootstrap' \in {"none", "settled"} /\ token' \in 0 .. issued'
          BY <1>0, <2>1, <2>3 DEF WebClientTypeOK
        <4> QED
          BY <1>0, <2>1, <2>3, <4>1 DEF WebClientTypeOK
      <3>2. OpeningIsFirst' /\ CallsFitThePage'
        BY <1>0, <2>1, <2>3 DEF OpeningIsFirst, CallsFitThePage
      <3> QED
        BY <3>1, <3>2 DEF ClientInvariant
    <2> QED
      BY <1>2, <2>2, <2>3 DEF RefreshRefused
  <1>3. CASE RefreshUnavailable
    <2>1. /\ refresh' = FALSE /\ cookie' \in {cookie, "none"} /\ UNCHANGED <<route, accepted, issued>>
          /\ fetches' = [c \in Calls |-> IF fetches[c].step = "waiting" THEN NoFetch ELSE fetches[c]]
          /\ \/ bootstrap = "waiting" /\ status' = "unavailable" /\ token' = 0 /\ bootstrap' = "none"
             \/ bootstrap # "waiting" /\ UNCHANGED <<status, token, bootstrap>>
      BY <1>3 DEF RefreshUnavailable
    <2>2. NoFetch = [step |-> "idle", kind |-> "data", used |-> 0] /\ 0 \in 0 .. issued /\ "data" \in Purposes
      BY <1>0 DEF NoFetch, Purposes
    <2>3. fetches' \in CallsAt(issued)
      BY <1>0, <2>1, <2>2 DEF CallsAt
    <2>4. \A c \in Calls : fetches'[c] = fetches[c] \/ fetches'[c] = [step |-> "idle", kind |-> "data", used |-> 0]
      BY <2>1, <2>2
    <2>5. WebClientTypeOK'
      <3>1. \/ status' = "unavailable" /\ token' = 0 /\ bootstrap' = "none"
            \/ UNCHANGED <<status, token, bootstrap>>
        BY <2>1
      <3>2. token' \in 0 .. issued' /\ (status' = "authenticated" <=> token' # 0)
        BY <1>0, <2>1, <3>1 DEF WebClientTypeOK
      <3>3. status' \in {"unknown", "authenticated", "anonymous", "unavailable"}
            /\ bootstrap' \in {"none", "waiting", "settled"} /\ cookie' \in {"none", "good", "refused"}
        BY <1>0, <2>1, <3>1 DEF WebClientTypeOK
      <3> QED
        BY <1>0, <2>1, <2>3, <3>2, <3>3 DEF WebClientTypeOK, CallsAt
    <2>6. OpeningIsFirst'
      BY <1>0, <2>1 DEF OpeningIsFirst
    <2>7. CallsFitThePage'
      BY <1>0, <2>1, <2>4 DEF OpeningIsFirst, CallsFitThePage
    <2> QED
      BY <2>5, <2>6, <2>7 DEF ClientInvariant
  <1> QED
    BY <1>1, <1>2, <1>3

LEMMA ClientStepIsGood == ClientInvariant /\ [WebClientNext]_clientVars => ClientInvariant'
  <1> SUFFICES ASSUME ClientInvariant, [WebClientNext]_clientVars PROVE ClientInvariant'
    OBVIOUS
  <1>0. WebClientTypeOK /\ OpeningIsFirst /\ CallsFitThePage
    BY DEF ClientInvariant
  <1>1. ASSUME NEW c \in Calls, Settle(c) \/ LoginRefused(c) PROVE ClientInvariant'
    <2>1. /\ UNCHANGED <<route, status, token, refresh, bootstrap, cookie, accepted, issued>>
          /\ SetFetch(c, NoFetch)
      BY <1>1 DEF Settle, LoginRefused
    <2> QED
      BY <1>0, <2>1, OverIsGood, FetchStepIsGood, WebClientAssumption DEF WebClientTypeOK, Purposes
  <1>2. ASSUME NEW c \in Calls, LoggedOut(c) PROVE ClientInvariant'
    BY <1>0, <1>2, ReloadIsGood DEF LoggedOut
  <1>3. CASE LoadPage
    BY <1>0, <1>3, ReloadIsGood DEF LoadPage, WebClientTypeOK
  <1>4. CASE Open
    BY <1>0, <1>4 DEF Open, ClientInvariant, WebClientTypeOK, OpeningIsFirst, CallsFitThePage
  <1>5. CASE TryAgain
    BY <1>0, <1>5 DEF TryAgain, ClientInvariant, WebClientTypeOK, OpeningIsFirst, CallsFitThePage
  <1>6. CASE ToLogin
    BY <1>0, <1>6 DEF ToLogin, ClientInvariant, WebClientTypeOK, OpeningIsFirst, CallsFitThePage
  <1>7. CASE TokenExpires \/ CookieChanges
    BY <1>0, <1>7 DEF TokenExpires, CookieChanges, ClientInvariant, WebClientTypeOK, OpeningIsFirst,
                      CallsFitThePage
  <1>8. CASE UNCHANGED clientVars
    BY <1>0, <1>8 DEF clientVars, ClientInvariant, WebClientTypeOK, OpeningIsFirst, CallsFitThePage
  <1> QED
    BY <1>1, <1>2, <1>3, <1>4, <1>5, <1>6, <1>7, <1>8, SendIsGood, UnauthorizedIsGood, LoggedInIsGood,
       LeaveFailsIsGood, RefreshIsGood DEF WebClientNext

\* For every number of calls and tokens: a page that opens has no session, and
\* who logs in or out does it alone.
THEOREM ClientInvariantHolds == WebClientSpec => []ClientInvariant
  BY ClientInvariantAtStart, ClientStepIsGood, PTL DEF WebClientSpec

\* The cookie's token is used up only for an access token that is refused.
THEOREM RefreshIsAlwaysNeeded == WebClientSpec => RefreshIsNeeded
  <1>1. ClientInvariant /\ [WebClientNext]_clientVars
            => [refresh' /\ ~refresh => token \notin accepted]_clientVars
    <2> SUFFICES ASSUME ClientInvariant, WebClientNext, refresh', ~refresh PROVE token \notin accepted
      OBVIOUS
    <2>0. token = 0 => token \notin accepted
      BY DEF ClientInvariant, WebClientTypeOK
    <2>1. ASSUME NEW c \in Calls, Unauthorized(c) PROVE token \notin accepted
      BY <2>0, <2>1 DEF Unauthorized
    <2>2. CASE Open
      BY <2>0, <2>2 DEF Open, ClientInvariant, WebClientTypeOK
    <2>3. ASSUME NEW c \in Calls, NEW kind \in Purposes, Send(c, kind) PROVE FALSE
      BY <2>3 DEF Send
    <2>4. ASSUME NEW c \in Calls,
                 Settle(c) \/ LoggedIn(c) \/ LoginRefused(c) \/ LoggedOut(c) \/ LeaveFails(c)
          PROVE  FALSE
      BY <2>4 DEF Settle, LoggedIn, LoginRefused, LoggedOut, LeaveFails, Reload
    <2>5. CASE RefreshOk \/ RefreshRefused \/ RefreshUnavailable \/ TryAgain \/ ToLogin
      BY <2>5 DEF RefreshOk, RefreshRefused, RefreshUnavailable, TryAgain, ToLogin
    <2>6. CASE LoadPage \/ TokenExpires \/ CookieChanges
      BY <2>6 DEF LoadPage, Reload, TokenExpires, CookieChanges
    <2> QED
      BY <2>1, <2>2, <2>3, <2>4, <2>5, <2>6 DEF WebClientNext
  <1> QED
    BY ClientInvariantHolds, <1>1, PTL DEF WebClientSpec, RefreshIsNeeded

\* An open session is given up for a cookie that was refused or a logout only.
THEOREM SessionIsKeptWhenUnsure == WebClientSpec => KeptWhenUnsure
  <1> DEFINE Kept == status = "authenticated" /\ status' \in {"anonymous", "unavailable"}
                       => cookie' = "none" \/ \E c \in Calls : fetches[c].kind = "logout"
  <1>1. ClientInvariant /\ [WebClientNext]_clientVars => [Kept]_clientVars
    <2> SUFFICES ASSUME ClientInvariant, WebClientNext,
                        status = "authenticated", status' \in {"anonymous", "unavailable"}
                 PROVE  cookie' = "none" \/ \E c \in Calls : fetches[c].kind = "logout"
      OBVIOUS
    <2>1. ASSUME NEW c \in Calls, LeaveFails(c) PROVE fetches[c].kind = "logout"
      BY <2>1 DEF LeaveFails
    <2>2. CASE RefreshRefused
      BY <2>2 DEF RefreshRefused
    <2>3. CASE RefreshUnavailable
      BY <2>3 DEF RefreshUnavailable, ClientInvariant, OpeningIsFirst
    <2>4. ASSUME NEW c \in Calls, NEW kind \in Purposes, Send(c, kind) PROVE FALSE
      BY <2>4 DEF Send
    <2>5. ASSUME NEW c \in Calls,
                 Unauthorized(c) \/ Settle(c) \/ LoggedIn(c) \/ LoginRefused(c) \/ LoggedOut(c)
          PROVE  FALSE
      BY <2>5 DEF Unauthorized, Settle, LoggedIn, LoginRefused, LoggedOut, Reload
    <2>6. CASE Open \/ RefreshOk \/ TryAgain \/ ToLogin
      BY <2>6 DEF Open, RefreshOk, TryAgain, ToLogin
    <2>7. CASE LoadPage \/ TokenExpires \/ CookieChanges
      BY <2>7 DEF LoadPage, Reload, TokenExpires, CookieChanges
    <2> QED
      BY <2>1, <2>2, <2>3, <2>4, <2>5, <2>6, <2>7 DEF WebClientNext
  <1> QED
    BY ClientInvariantHolds, <1>1, PTL DEF WebClientSpec, KeptWhenUnsure
-----------------------------------------------------------------------------
(* Profiles: the tabs one by one. *)

\* A tab that takes no part in a step is disturbed by none: the row it works
\* on is its own while it writes, and another version otherwise.
LEMMA OtherTabIsGood ==
  ASSUME NEW u \in Tabs, TabIsGood(u), profile.version \in Nat,
         sent'[u] = sent[u], me'[u] = me[u], form'[u] = form[u],
         \/ profile' = profile /\ (lockedBy' = lockedBy \/ sent[u].step # "write")
         \/ profile'.version = profile.version + 1 /\ sent[u].step # "write"
  PROVE  TabIsGood(u)'
  <1>0. /\ RequestIsWhole(sent[u]) /\ VersionIdentifies(u) /\ PatchGivesForm(u) /\ LockProtects(u)
        /\ sent[u].etag \in Nat
    BY DEF TabIsGood, RequestIsWhole
  <1>1. RequestIsWhole(sent[u])'
    BY <1>0
  <1>2. CASE profile' = profile /\ (lockedBy' = lockedBy \/ sent[u].step # "write")
    <2>1. VersionIdentifies(u)'
      BY <1>0, <1>2 DEF VersionIdentifies
    <2>2. PatchGivesForm(u)'
      BY <1>0, <1>2 DEF PatchGivesForm
    <2>3. LockProtects(u)'
      BY <1>0, <1>2 DEF LockProtects
    <2> QED
      BY <1>1, <2>1, <2>2, <2>3 DEF TabIsGood
  <1>3. CASE profile'.version = profile.version + 1 /\ sent[u].step # "write"
    <2>1. VersionIdentifies(u)'
      BY <1>0, <1>3 DEF VersionIdentifies
    <2>2. sent'[u].etag # profile'.version
      BY <1>0, <1>3 DEF VersionIdentifies
    <2>3. PatchGivesForm(u)' /\ LockProtects(u)'
      BY <1>3, <2>2 DEF PatchGivesForm, LockProtects
    <2> QED
      BY <1>1, <2>1, <2>3 DEF TabIsGood
  <1> QED
    BY <1>2, <1>3

\* A tab that reads the row again, or changes its form between two requests.
LEMMA ReadingIsGood ==
  ASSUME NEW t \in Tabs, TabIsGood(t), profile.version \in Nat,
         UNCHANGED <<profile, lockedBy>>, sent'[t] = sent[t],
         me'[t] \in {me[t], profile}, form'[t] = form[t] \/ Idle(t)
  PROVE  TabIsGood(t)'
  <1>0. RequestIsWhole(sent[t]) /\ VersionIdentifies(t) /\ PatchGivesForm(t) /\ LockProtects(t)
    BY DEF TabIsGood
  <1>1. RequestIsWhole(sent[t])' /\ LockProtects(t)'
    BY <1>0 DEF LockProtects
  <1>2. VersionIdentifies(t)'
    BY <1>0 DEF VersionIdentifies, RequestIsWhole
  <1>3. PatchGivesForm(t)'
    <2>1. CASE form'[t] = form[t]
      BY <1>0, <2>1 DEF PatchGivesForm
    <2>2. CASE Idle(t)
      BY <1>0, <2>2 DEF PatchGivesForm, RequestIsWhole, Idle
    <2> QED
      BY <2>1, <2>2
  <1> QED
    BY <1>1, <1>2, <1>3 DEF TabIsGood

\* What changedFields leaves out is what the answer it was compared with says.
LEMMA ChangesGiveForm ==
  ASSUME NEW t \in Tabs, me[t] = profile
  PROVE  Text(Apply(profile, ChangedFields(t))) = Parsed(form[t])
  <1> DEFINE v == Parsed(form[t])
             d == ChangedFields(t)
  <1>1. v = [bio |-> v.bio, roles |-> v.roles]
    BY DEF Parsed
  <1>2. \A x : /\ With(EmptyPatch, "bio", x).names = {"bio"}
               /\ With(EmptyPatch, "bio", x).bio = x
    BY DEF With, EmptyPatch
  <1>3. \A y : /\ With(EmptyPatch, "roles", y).names = {"roles"}
               /\ With(EmptyPatch, "roles", y).roles = y
    BY DEF With, EmptyPatch
  <1>4. \A x, y : /\ With(With(EmptyPatch, "bio", x), "roles", y).names = {"bio", "roles"}
                  /\ With(With(EmptyPatch, "bio", x), "roles", y).bio = x
                  /\ With(With(EmptyPatch, "bio", x), "roles", y).roles = y
    BY DEF With, EmptyPatch
  <1>5. EmptyPatch.names = {}
    BY DEF EmptyPatch
  <1>6. /\ v.bio # profile.bio => "bio" \in d.names /\ d.bio = v.bio
        /\ v.bio = profile.bio => "bio" \notin d.names
        /\ v.roles # profile.roles => "roles" \in d.names /\ d.roles = v.roles
        /\ v.roles = profile.roles => "roles" \notin d.names
    BY <1>2, <1>3, <1>4, <1>5 DEF ChangedFields
  <1> HIDE DEF v, d
  <1>7. Apply(profile, d).bio = v.bio /\ Apply(profile, d).roles = v.roles
    BY <1>6 DEF Apply
  <1>8. Text(Apply(profile, d)) = [bio |-> v.bio, roles |-> v.roles]
    BY <1>7 DEF Text
  <1> QED
    BY <1>1, <1>8 DEF v, d

\* A new request carries the version of the answer it was made from.
LEMMA RequestIsGood ==
  ASSUME NEW t \in Tabs, TabIsGood(t), UNCHANGED <<profile, me, form>>, Idle(t),
         NEW kind, NEW patch, kind = "form" => patch = ChangedFields(t),
         sent'[t] = [step |-> "lock", kind |-> kind, patch |-> patch, etag |-> me[t].version,
                     image |-> NoImage]
  PROVE  TabIsGood(t)'
  <1>0. VersionIdentifies(t)
    BY DEF TabIsGood
  <1>1. /\ sent'[t].step = "lock" /\ sent'[t].kind = kind /\ sent'[t].patch = patch
        /\ sent'[t].etag = me[t].version
    OBVIOUS
  <1>2. RequestIsWhole(sent[t])'
    BY <1>0 DEF RequestIsWhole, VersionIdentifies
  <1>3. VersionIdentifies(t)' /\ LockProtects(t)'
    BY <1>0, <1>1 DEF VersionIdentifies, LockProtects
  <1>4. PatchGivesForm(t)'
    <2> SUFFICES ASSUME kind = "form", me[t].version = profile.version
                 PROVE  Text(Apply(profile', sent'[t].patch)) = Parsed(form'[t])
      BY <1>1 DEF PatchGivesForm
    <2>1. me[t] = profile
      BY <1>0 DEF VersionIdentifies
    <2> QED
      BY <1>1, <2>1, ChangesGiveForm
  <1> QED
    BY <1>2, <1>3, <1>4 DEF TabIsGood

\* A tab whose request is over.
LEMMA RefusedIsGood ==
  ASSUME NEW t \in Tabs, profile'.version \in Nat, sent'[t] = NothingSent,
         \/ me'[t] = profile'
         \/ /\ VersionIdentifies(t) /\ profile.version \in Nat /\ me'[t] = me[t]
            /\ profile' = profile \/ profile'.version = profile.version + 1
  PROVE  TabIsGood(t)'
  <1>1. /\ sent'[t].step = "none" /\ sent'[t].kind = "none" /\ sent'[t].etag = 0
        /\ RequestIsWhole(sent[t])'
    BY DEF NothingSent, RequestIsWhole
  <1>2. VersionIdentifies(t)'
    BY <1>1 DEF VersionIdentifies
  <1> QED
    BY <1>1, <1>2 DEF TabIsGood, PatchGivesForm, LockProtects
-----------------------------------------------------------------------------
(* Profiles: the steps. *)

LEMMA OneTabChanges ==
  ASSUME NEW f, NEW g, f = [u \in Tabs |-> f[u]], NEW t \in Tabs, NEW x, g = [f EXCEPT ![t] = x]
  PROVE  g = [u \in Tabs |-> g[u]] /\ g[t] = x /\ \A u \in Tabs : u # t => g[u] = f[u]
  OBVIOUS

LEMMA ProfileInvariantAtStart == ProfilesInit => ProfileInvariant
  <1> SUFFICES ASSUME ProfilesInit PROVE ProfileInvariant
    OBVIOUS
  <1>1. RowIsWhole(profile) /\ profile.version = 0
    BY DEF ProfilesInit, RowIsWhole
  <1>2. /\ sent = [t \in Tabs |-> sent[t]] /\ me = [t \in Tabs |-> me[t]]
        /\ form = [t \in Tabs |-> form[t]]
    BY DEF ProfilesInit
  <1>3. ASSUME NEW t \in Tabs PROVE TabIsGood(t)
    <2>1. me[t] = profile /\ sent[t] = NothingSent
      BY DEF ProfilesInit
    <2>2. /\ sent[t].step = "none" /\ sent[t].kind = "none" /\ sent[t].etag = 0
          /\ RequestIsWhole(sent[t])
      BY <2>1 DEF NothingSent, RequestIsWhole
    <2> QED
      BY <1>1, <2>1, <2>2 DEF TabIsGood, VersionIdentifies, PatchGivesForm, LockProtects
  <1> QED
    BY <1>1, <1>2, <1>3 DEF ProfileInvariant

LEMMA ReadStepIsGood ==
  ASSUME ProfileInvariant, NEW t \in Tabs,
         \/ Refetch(t) \/ TypeBio(t) \/ ToggleRole(t) \/ SkipRoles(t) \/ GateRedirects(t) \/ ReloadForm(t)
  PROVE  ProfileInvariant'
  <1>0. /\ RowIsWhole(profile) /\ profile.version \in Nat /\ sent = [u \in Tabs |-> sent[u]]
        /\ me = [u \in Tabs |-> me[u]] /\ form = [u \in Tabs |-> form[u]]
        /\ \A u \in Tabs : TabIsGood(u)
    BY DEF ProfileInvariant
  <1>1. UNCHANGED <<profile, lockedBy, sent>>
    BY DEF Refetch, TypeBio, ToggleRole, SkipRoles, GateRedirects, ReloadForm
  <1>2. me' = me \/ me' = [me EXCEPT ![t] = profile]
    BY DEF Refetch, TypeBio, ToggleRole, SkipRoles, GateRedirects, ReloadForm
  <1>3. form' = form \/ (Idle(t) /\ \E x : form' = [form EXCEPT ![t] = x])
    <2>1. CASE Refetch(t)
      BY <2>1 DEF Refetch
    <2>2. CASE TypeBio(t)
      <3>1. PICK raw \in Typed : form' = [form EXCEPT ![t].bio = raw]
        BY <2>2 DEF TypeBio
      <3>2. form' = [form EXCEPT ![t] = [form[t] EXCEPT !.bio = raw]]
        BY <3>1
      <3> QED
        BY <2>2, <3>2 DEF TypeBio
    <2>3. CASE ToggleRole(t)
      <3>1. PICK rs : form' = [form EXCEPT ![t].roles = rs]
        BY <2>3 DEF ToggleRole
      <3>2. form' = [form EXCEPT ![t] = [form[t] EXCEPT !.roles = rs]]
        BY <3>1
      <3> QED
        BY <2>3, <3>2 DEF ToggleRole
    <2>4. CASE SkipRoles(t) \/ GateRedirects(t) \/ ReloadForm(t)
      BY <2>4 DEF SkipRoles, GateRedirects, ReloadForm, Fill
    <2> QED
      BY <2>1, <2>2, <2>3, <2>4
  <1>4. /\ me' = [u \in Tabs |-> me'[u]] /\ me'[t] \in {me[t], profile}
        /\ \A u \in Tabs : u # t => me'[u] = me[u]
    BY <1>0, <1>2, OneTabChanges
  <1>5. /\ form' = [u \in Tabs |-> form'[u]] /\ (form'[t] = form[t] \/ Idle(t))
        /\ \A u \in Tabs : u # t => form'[u] = form[u]
    BY <1>0, <1>3, OneTabChanges
  <1>6. ASSUME NEW u \in Tabs PROVE TabIsGood(u)'
    <2>1. CASE u = t
      BY <1>0, <1>1, <1>4, <1>5, <2>1, ReadingIsGood
    <2>2. CASE u # t
      BY <1>0, <1>1, <1>4, <1>5, <2>2, OtherTabIsGood
    <2> QED
      BY <2>1, <2>2
  <1> QED
    BY <1>0, <1>1, <1>4, <1>5, <1>6 DEF ProfileInvariant

\* A step that changes the request of one tab, and neither row nor form.
LEMMA SentStepIsGood ==
  ASSUME ProfileInvariant, NEW t \in Tabs, NEW x, sent' = [sent EXCEPT ![t] = x],
         UNCHANGED <<profile, me, form>>, lockedBy' = lockedBy \/ lockedBy = NoTab,
         sent'[t] = x => TabIsGood(t)'
  PROVE  ProfileInvariant'
  <1>0. /\ RowIsWhole(profile) /\ profile.version \in Nat /\ sent = [u \in Tabs |-> sent[u]]
        /\ me = [u \in Tabs |-> me[u]] /\ form = [u \in Tabs |-> form[u]]
        /\ \A u \in Tabs : TabIsGood(u)
    BY DEF ProfileInvariant
  <1>1. sent' = [u \in Tabs |-> sent'[u]] /\ sent'[t] = x /\ \A u \in Tabs : u # t => sent'[u] = sent[u]
    BY <1>0, OneTabChanges
  <1>2. ASSUME NEW u \in Tabs PROVE TabIsGood(u)'
    <2>1. CASE u = t
      BY <1>1, <2>1
    <2>2. CASE u # t
      <3>1. lockedBy' = lockedBy \/ sent[u].step # "write"
        BY <1>0, ProfilesAssumption DEF TabIsGood, LockProtects
      <3> QED
        BY <1>0, <1>1, <2>2, <3>1, OtherTabIsGood
    <2> QED
      BY <2>1, <2>2
  <1> QED
    BY <1>0, <1>1, <1>2 DEF ProfileInvariant

LEMMA RequestStepIsGood ==
  ASSUME ProfileInvariant, NEW t \in Tabs,
         SubmitForm(t) \/ SaveRoles(t) \/ FinishOnboarding(t) \/ PickAvatar(t)
  PROVE  ProfileInvariant'
  <1>1. UNCHANGED <<profile, lockedBy, me, form>> /\ Idle(t) /\ TabIsGood(t)
    BY DEF SubmitForm, SaveRoles, FinishOnboarding, PickAvatar, ProfileInvariant
  <1>2. PICK kind, patch : Request(t, kind, patch) /\ (kind = "form" => patch = ChangedFields(t))
    BY DEF SubmitForm, SaveRoles, FinishOnboarding, PickAvatar
  <1> DEFINE x == [step |-> "lock", kind |-> kind, patch |-> patch, etag |-> me[t].version,
                   image |-> NoImage]
  <1>3. sent' = [sent EXCEPT ![t] = x]
    BY <1>2 DEF Request
  <1>4. sent'[t] = x => TabIsGood(t)'
    BY <1>1, <1>2, RequestIsGood
  <1> HIDE DEF x
  <1> QED
    BY <1>1, <1>3, <1>4, SentStepIsGood

LEMMA RemoveImageIsGood ==
  ASSUME ProfileInvariant, NEW t \in Tabs, RemoveImage(t)
  PROVE  ProfileInvariant'
  <1>1. UNCHANGED <<profile, lockedBy, me, form>> /\ VersionIdentifies(t) /\ profile.version \in Nat
    BY DEF RemoveImage, ProfileInvariant, TabIsGood
  <1>2. PICK m \in Images : sent' = [sent EXCEPT ![t] = [NothingSent EXCEPT !.step = "delete", !.image = m]]
    BY DEF RemoveImage
  <1> DEFINE x == [NothingSent EXCEPT !.step = "delete", !.image = m]
  <1>3. x = [step |-> "delete", kind |-> "none", patch |-> EmptyPatch, etag |-> 0, image |-> m]
    <2>1. x \in [step: {"none", "delete"}, kind: {"none"}, patch: {EmptyPatch}, etag: {0},
                 image: {NoImage, m}]
      BY DEF NothingSent
    <2>2. x.step = "delete" /\ x.kind = "none" /\ x.patch = EmptyPatch /\ x.etag = 0 /\ x.image = m
      BY DEF NothingSent
    <2> HIDE DEF x
    <2> QED
      BY <2>1, <2>2
  <1> HIDE DEF x
  <1>4. ASSUME sent'[t] = x PROVE TabIsGood(t)'
    <2>1. /\ sent'[t].step = "delete" /\ sent'[t].kind = "none" /\ sent'[t].etag = 0
          /\ RequestIsWhole(sent[t])'
      BY <1>3, <1>4, ProfilesAssumption DEF RequestIsWhole
    <2>2. VersionIdentifies(t)'
      BY <1>1, <2>1 DEF VersionIdentifies
    <2> QED
      BY <2>1, <2>2 DEF TabIsGood, PatchGivesForm, LockProtects
  <1> QED
    BY <1>1, <1>2, <1>4, SentStepIsGood DEF x

LEMMA LockProfileIsGood ==
  ASSUME ProfileInvariant, NEW t \in Tabs, LockProfile(t)
  PROVE  ProfileInvariant'
  <1>0. /\ RequestIsWhole(sent[t]) /\ VersionIdentifies(t) /\ PatchGivesForm(t) /\ profile.version \in Nat
        /\ sent[t].step = "lock" /\ lockedBy = NoTab /\ UNCHANGED <<profile, me, form>>
    BY DEF LockProfile, ProfileInvariant, TabIsGood
  <1>1. CASE Refuse(t) /\ UNCHANGED lockedBy
    <2>1. sent'[t] = NothingSent => TabIsGood(t)'
      BY <1>0, RefusedIsGood
    <2> QED
      BY <1>0, <1>1, <2>1, SentStepIsGood DEF Refuse
  <1>2. CASE sent' = [sent EXCEPT ![t].step = "write"] /\ lockedBy' = t /\ sent[t].etag = profile.version
    <2> DEFINE x == [sent[t] EXCEPT !.step = "write"]
    <2>1. sent' = [sent EXCEPT ![t] = x]
      BY <1>2
    <2>2. x = [step |-> "write", kind |-> sent[t].kind, patch |-> sent[t].patch,
               etag |-> sent[t].etag, image |-> sent[t].image]
      BY <1>0 DEF RequestIsWhole
    <2> HIDE DEF x
    <2>3. ASSUME sent'[t] = x PROVE TabIsGood(t)'
      <3>1. /\ sent'[t].step = "write" /\ sent'[t].kind = sent[t].kind /\ sent'[t].patch = sent[t].patch
            /\ sent'[t].etag = sent[t].etag /\ RequestIsWhole(sent[t])'
        BY <1>0, <2>2, <2>3 DEF RequestIsWhole
      <3>2. VersionIdentifies(t)' /\ LockProtects(t)'
        BY <1>0, <1>2, <3>1 DEF VersionIdentifies, LockProtects
      <3>3. PatchGivesForm(t)'
        BY <1>0, <3>1 DEF PatchGivesForm
      <3> QED
        BY <3>1, <3>2, <3>3 DEF TabIsGood
    <2> QED
      BY <1>0, <2>1, <2>3, SentStepIsGood
  <1> QED
    BY <1>1, <1>2 DEF LockProfile

LEMMA DeleteAssetIsGood ==
  ASSUME ProfileInvariant, NEW t \in Tabs, DeleteAsset(t)
  PROVE  ProfileInvariant'
  <1>0. /\ RequestIsWhole(sent[t]) /\ VersionIdentifies(t) /\ PatchGivesForm(t) /\ profile.version \in Nat
        /\ sent[t].step = "delete" /\ UNCHANGED <<profile, lockedBy, me, form>>
    BY DEF DeleteAsset, ProfileInvariant, TabIsGood
  <1>1. CASE Refuse(t)
    <2>1. sent'[t] = NothingSent => TabIsGood(t)'
      BY <1>0, RefusedIsGood
    <2> QED
      BY <1>0, <1>1, <2>1, SentStepIsGood DEF Refuse
  <1>2. CASE sent' = [sent EXCEPT ![t].step = "clear"]
    <2> DEFINE x == [sent[t] EXCEPT !.step = "clear"]
    <2>1. sent' = [sent EXCEPT ![t] = x]
      BY <1>2
    <2>2. x = [step |-> "clear", kind |-> sent[t].kind, patch |-> sent[t].patch,
               etag |-> sent[t].etag, image |-> sent[t].image]
      BY <1>0 DEF RequestIsWhole
    <2> HIDE DEF x
    <2>3. ASSUME sent'[t] = x PROVE TabIsGood(t)'
      <3>1. /\ sent'[t].step = "clear" /\ sent'[t].kind # "form" /\ sent'[t].etag = sent[t].etag
            /\ RequestIsWhole(sent[t])'
        BY <1>0, <2>2, <2>3 DEF RequestIsWhole
      <3>2. VersionIdentifies(t)'
        BY <1>0, <3>1 DEF VersionIdentifies
      <3> QED
        BY <3>1, <3>2 DEF TabIsGood, PatchGivesForm, LockProtects
    <2> QED
      BY <1>0, <2>1, <2>3, SentStepIsGood
  <1> QED
    BY <1>1, <1>2 DEF DeleteAsset

\* A write gives what the request asks for, under the next version unless
\* nothing changes.
LEMMA WrittenIsWhole ==
  ASSUME NEW t \in Tabs, RowIsWhole(profile), profile.version \in Nat
  PROVE  /\ RowIsWhole(Written(t)) /\ Text(Written(t)) = Text(Apply(profile, sent[t].patch))
         /\ Written(t) = profile \/ Written(t).version = profile.version + 1
  <1> DEFINE next == Apply(profile, sent[t].patch)
  <1>1. CASE next = Fresh(profile)
    <2>1. Written(t) = profile
      BY <1>1 DEF Written
    <2>2. next.bio = profile.bio /\ next.roles = profile.roles
      BY <1>1 DEF Fresh
    <2> HIDE DEF next
    <2>3. Text(profile) = Text(next)
      BY <2>2 DEF Text
    <2> QED
      BY <2>1, <2>3 DEF next
  <1>2. CASE next # Fresh(profile)
    <2>1. Written(t) = [bio |-> next.bio, roles |-> next.roles, avatar |-> next.avatar,
                        onboarded |-> next.onboarded, version |-> profile.version + 1]
      BY <1>2 DEF Written
    <2> HIDE DEF next
    <2>2. /\ Written(t).bio = next.bio /\ Written(t).roles = next.roles
          /\ Written(t).version = profile.version + 1
      BY <2>1
    <2>3. RowIsWhole(Written(t))
      BY <2>1 DEF RowIsWhole
    <2>4. Text(Written(t)) = Text(next)
      BY <2>2 DEF Text
    <2> QED
      BY <2>2, <2>3, <2>4 DEF next
  <1> QED
    BY <1>1, <1>2

LEMMA CommitProfileIsGood ==
  ASSUME ProfileInvariant, NEW t \in Tabs, CommitProfile(t)
  PROVE  ProfileInvariant'
  <1>0. /\ RowIsWhole(profile) /\ profile.version \in Nat /\ sent = [u \in Tabs |-> sent[u]]
        /\ me = [u \in Tabs |-> me[u]] /\ form = [u \in Tabs |-> form[u]]
        /\ \A u \in Tabs : TabIsGood(u)
    BY DEF ProfileInvariant
  <1>1. /\ sent[t].step = "write" /\ profile' = Written(t) /\ lockedBy' = NoTab
        /\ sent' = [sent EXCEPT ![t] = NothingSent] /\ me' = [me EXCEPT ![t] = profile']
        /\ form' = form \/ \E x : form' = [form EXCEPT ![t] = x]
    BY DEF CommitProfile, Refuse, Fill
  <1>2. RowIsWhole(profile)' /\ (profile' = profile \/ profile'.version = profile.version + 1)
    <2>1. RowIsWhole(Written(t)) /\ (Written(t) = profile \/ Written(t).version = profile.version + 1)
      BY <1>0, WrittenIsWhole
    <2>2. RowIsWhole(profile')
      BY <1>1, <2>1
    <2> QED
      BY <1>1, <2>1, <2>2
  <1>3. profile'.version \in Nat
    BY <1>0, <1>2
  <1>4. /\ sent' = [u \in Tabs |-> sent'[u]] /\ sent'[t] = NothingSent
        /\ \A u \in Tabs : u # t => sent'[u] = sent[u]
    BY <1>0, <1>1, OneTabChanges
  <1>5. /\ me' = [u \in Tabs |-> me'[u]] /\ me'[t] = profile'
        /\ \A u \in Tabs : u # t => me'[u] = me[u]
    BY <1>0, <1>1, OneTabChanges
  <1>6. form' = [u \in Tabs |-> form'[u]] /\ \A u \in Tabs : u # t => form'[u] = form[u]
    BY <1>0, <1>1, OneTabChanges
  <1>7. ASSUME NEW u \in Tabs PROVE TabIsGood(u)'
    <2>1. CASE u = t
      BY <1>3, <1>4, <1>5, <2>1, RefusedIsGood
    <2>2. CASE u # t
      <3>1. sent[u].step # "write"
        BY <1>0, <1>1, <2>2 DEF TabIsGood, LockProtects
      <3> QED
        BY <1>0, <1>2, <1>4, <1>5, <1>6, <2>2, <3>1, OtherTabIsGood
    <2> QED
      BY <2>1, <2>2
  <1> QED
    BY <1>2, <1>3, <1>4, <1>5, <1>6, <1>7 DEF ProfileInvariant

LEMMA ClearAvatarIsGood ==
  ASSUME ProfileInvariant, NEW t \in Tabs, ClearAvatar(t)
  PROVE  ProfileInvariant'
  <1>0. /\ RowIsWhole(profile) /\ profile.version \in Nat /\ sent = [u \in Tabs |-> sent[u]]
        /\ me = [u \in Tabs |-> me[u]] /\ form = [u \in Tabs |-> form[u]]
        /\ \A u \in Tabs : TabIsGood(u)
    BY DEF ProfileInvariant
  <1>1. /\ sent[t].step = "clear" /\ sent' = [sent EXCEPT ![t] = NothingSent]
        /\ UNCHANGED <<lockedBy, me, form>>
    BY DEF ClearAvatar, Refuse
  <1>2. \/ UNCHANGED profile
        \/ lockedBy = NoTab /\ profile' = [profile EXCEPT !.avatar = NoImage, !.version = @ + 1]
    BY DEF ClearAvatar
  <1>3. CASE UNCHANGED profile
    <2>1. sent'[t] = NothingSent => TabIsGood(t)'
      BY <1>0, <1>1, <1>3, RefusedIsGood DEF TabIsGood
    <2> QED
      BY <1>1, <1>3, <2>1, SentStepIsGood
  <1>4. CASE lockedBy = NoTab /\ profile' = [profile EXCEPT !.avatar = NoImage, !.version = @ + 1]
    <2>1. profile' = [bio |-> profile.bio, roles |-> profile.roles, avatar |-> NoImage,
                      onboarded |-> profile.onboarded, version |-> profile.version + 1]
      BY <1>0, <1>4 DEF RowIsWhole
    <2>2. profile'.version = profile.version + 1 /\ profile'.version \in Nat
      BY <1>0, <2>1
    <2>3. RowIsWhole(profile)'
      BY <2>1 DEF RowIsWhole
    <2>4. /\ sent' = [u \in Tabs |-> sent'[u]] /\ sent'[t] = NothingSent
          /\ \A u \in Tabs : u # t => sent'[u] = sent[u]
      BY <1>0, <1>1, OneTabChanges
    <2>5. ASSUME NEW u \in Tabs PROVE TabIsGood(u)'
      <3>1. CASE u = t
        BY <1>0, <1>1, <2>2, <2>4, <3>1, RefusedIsGood DEF TabIsGood
      <3>2. CASE u # t
        <4>1. sent[u].step # "write"
          BY <1>0, <1>4, ProfilesAssumption DEF TabIsGood, LockProtects
        <4> QED
          BY <1>0, <1>1, <2>2, <2>4, <3>2, <4>1, OtherTabIsGood
      <3> QED
        BY <3>1, <3>2
    <2> QED
      BY <1>0, <1>1, <2>2, <2>3, <2>4, <2>5 DEF ProfileInvariant
  <1> QED
    BY <1>2, <1>3, <1>4

LEMMA ProfileStepIsGood == ProfileInvariant /\ [ProfilesNext]_profileVars => ProfileInvariant'
  <1> SUFFICES ASSUME ProfileInvariant, [ProfilesNext]_profileVars PROVE ProfileInvariant'
    OBVIOUS
  <1>1. CASE UNCHANGED profileVars
    <2>1. ASSUME NEW t \in Tabs PROVE TabIsGood(t)'
      BY <1>1, OtherTabIsGood DEF profileVars, ProfileInvariant
    <2> QED
      BY <1>1, <2>1 DEF profileVars, ProfileInvariant
  <1>2. CASE ProfilesNext
    BY <1>2, ReadStepIsGood, RequestStepIsGood, RemoveImageIsGood, LockProfileIsGood,
       CommitProfileIsGood, DeleteAssetIsGood, ClearAvatarIsGood DEF ProfilesNext
  <1> QED
    BY <1>1, <1>2

\* For every number of tabs: a version identifies the row, the patch of a form
\* gives what the form shows on the row it was made from, and that row is
\* locked while the patch is applied (changedFields, If-Match, FOR UPDATE).
THEOREM ProfileInvariantHolds == ProfilesSpec => []ProfileInvariant
  BY ProfileInvariantAtStart, ProfileStepIsGood, PTL DEF ProfilesSpec

\* A save of the settings form leaves the server with the text the form shows,
\* whatever the other tabs saved meanwhile.
THEOREM FormIsSavedAsShown == ProfilesSpec => SavedAsShown
  <1> DEFINE Ends(t) == sent[t].kind = "form" /\ sent[t].step = "write" /\ sent'[t].step = "none"
             Saved == \A t \in Tabs : Ends(t) => Text(profile') = Parsed(form[t])
  <1>1. ProfileInvariant /\ [ProfilesNext]_profileVars => [Saved]_profileVars
    <2> SUFFICES ASSUME ProfileInvariant, ProfilesNext, NEW t \in Tabs, Ends(t)
                 PROVE  Text(profile') = Parsed(form[t])
      OBVIOUS
    <2>0. PICK u \in Tabs :
             \/ Refetch(u) \/ TypeBio(u) \/ ToggleRole(u) \/ SubmitForm(u)
             \/ SaveRoles(u) \/ SkipRoles(u) \/ FinishOnboarding(u) \/ GateRedirects(u)
             \/ PickAvatar(u) \/ RemoveImage(u) \/ ReloadForm(u)
             \/ LockProfile(u) \/ CommitProfile(u) \/ DeleteAsset(u) \/ ClearAvatar(u)
      BY DEF ProfilesNext
    <2>1. sent' # sent
      OBVIOUS
    <2>2. u = t
      <3>1. \E x : sent' = [sent EXCEPT ![u] = x]
        <4>1. CASE LockProfile(u)
          <5>1. sent' = [sent EXCEPT ![u] = [sent[u] EXCEPT !.step = "write"]] \/ Refuse(u)
            BY <4>1 DEF LockProfile
          <5> QED
            BY <5>1 DEF Refuse
        <4>2. CASE DeleteAsset(u)
          <5>1. sent' = [sent EXCEPT ![u] = [sent[u] EXCEPT !.step = "clear"]] \/ Refuse(u)
            BY <4>2 DEF DeleteAsset
          <5> QED
            BY <5>1 DEF Refuse
        <4>3. CASE CommitProfile(u) \/ ClearAvatar(u)
          BY <4>3 DEF CommitProfile, ClearAvatar, Refuse
        <4>4. CASE SubmitForm(u) \/ SaveRoles(u) \/ FinishOnboarding(u) \/ PickAvatar(u) \/ RemoveImage(u)
          BY <4>4 DEF SubmitForm, SaveRoles, FinishOnboarding, PickAvatar, RemoveImage, Request
        <4> QED
          BY <2>0, <2>1, <4>1, <4>2, <4>3, <4>4 DEF Refetch, TypeBio, ToggleRole, SkipRoles,
                                                    GateRedirects, ReloadForm
      <3>2. sent = [v \in Tabs |-> sent[v]]
        BY DEF ProfileInvariant
      <3>3. t # u => sent'[t] = sent[t]
        BY <3>1, <3>2, OneTabChanges
      <3> QED
        BY <3>3
    <2>3. CommitProfile(t)
      BY <2>0, <2>1, <2>2 DEF Refetch, TypeBio, ToggleRole, SubmitForm, SaveRoles, SkipRoles,
         FinishOnboarding, GateRedirects, PickAvatar, RemoveImage, ReloadForm, LockProfile,
         DeleteAsset, ClearAvatar, Idle
    <2>4. /\ RowIsWhole(profile) /\ profile.version \in Nat
          /\ Text(Apply(profile, sent[t].patch)) = Parsed(form[t])
      BY DEF ProfileInvariant, TabIsGood, PatchGivesForm, LockProtects
    <2>5. profile' = Written(t)
      BY <2>3 DEF CommitProfile
    <2> QED
      BY <2>4, <2>5, WrittenIsWhole
  <1> QED
    BY ProfileInvariantHolds, <1>1, PTL DEF ProfilesSpec, SavedAsShown
\* A request that writes was made from what its tab has still read last.
LEMMA WriterHasReadTheRow ==
  ASSUME ProfileInvariant, NEW t \in Tabs, sent[t].step = "write"
  PROVE  me[t] = profile
  <1>1. /\ VersionIdentifies(t) /\ LockProtects(t) /\ RequestIsWhole(sent[t]) /\ profile.version \in Nat
    BY DEF ProfileInvariant, TabIsGood
  <1>2. sent[t].etag = profile.version /\ sent[t].etag <= me[t].version /\ me[t].version <= profile.version
        /\ me[t].version \in Nat
    BY <1>1 DEF VersionIdentifies, LockProtects
  <1> QED
    BY <1>1, <1>2 DEF VersionIdentifies

\* A step that changes the row is a commit or the removal of an image; one that
\* changes only what a tab has read, a read.
LEMMA StepIsShared ==
  ASSUME ProfileInvariant, NEW t \in Tabs,
         \/ Refetch(t) \/ TypeBio(t) \/ ToggleRole(t) \/ SubmitForm(t)
         \/ SaveRoles(t) \/ SkipRoles(t) \/ FinishOnboarding(t) \/ GateRedirects(t)
         \/ PickAvatar(t) \/ RemoveImage(t) \/ ReloadForm(t)
         \/ LockProfile(t) \/ CommitProfile(t) \/ DeleteAsset(t) \/ ClearAvatar(t)
  PROVE  Shared!SharedNext \/ UNCHANGED <<profile, me>>
  <1>1. CASE \/ TypeBio(t) \/ ToggleRole(t) \/ SubmitForm(t) \/ SaveRoles(t) \/ SkipRoles(t)
             \/ FinishOnboarding(t) \/ GateRedirects(t) \/ PickAvatar(t) \/ RemoveImage(t)
             \/ LockProfile(t) \/ DeleteAsset(t)
    BY <1>1 DEF TypeBio, ToggleRole, SubmitForm, SaveRoles, SkipRoles, FinishOnboarding,
       GateRedirects, PickAvatar, RemoveImage, LockProfile, DeleteAsset
  <1>2. CASE Refetch(t) \/ ReloadForm(t)
    BY <1>2 DEF Refetch, ReloadForm, Shared!SharedNext, Shared!Read
  <1>3. CASE CommitProfile(t)
    <2>1. /\ me[t] = profile /\ RowIsWhole(profile) /\ profile.version \in Nat /\ me = [u \in Tabs |-> me[u]]
      BY <1>3, WriterHasReadTheRow DEF CommitProfile, ProfileInvariant
    <2>2. profile' = Written(t) /\ me' = [me EXCEPT ![t] = profile']
      BY <1>3 DEF CommitProfile
    <2>3. CASE profile' = profile
      BY <2>1, <2>2, <2>3
    <2>4. CASE profile' # profile
      <3>1. profile' = [bio |-> Apply(profile, sent[t].patch).bio,
                        roles |-> Apply(profile, sent[t].patch).roles,
                        avatar |-> Apply(profile, sent[t].patch).avatar,
                        onboarded |-> Apply(profile, sent[t].patch).onboarded,
                        version |-> profile.version + 1]
        BY <2>2, <2>4 DEF Written
      <3>2. profile'.version = profile.version + 1
            /\ profile'.onboarded = Apply(profile, sent[t].patch).onboarded
        BY <3>1
      <3>3. profile.onboarded => profile'.onboarded
        BY <3>2 DEF Apply
      <3> QED
        BY <2>1, <2>2, <3>2, <3>3 DEF Shared!SharedNext, Shared!Save
    <2> QED
      BY <2>3, <2>4
  <1>4. CASE ClearAvatar(t)
    <2>1. sent[t].image # NoImage
      BY <1>4 DEF ClearAvatar, ProfileInvariant, TabIsGood, RequestIsWhole
    <2> QED
      BY <1>4, <2>1 DEF ClearAvatar, Shared!SharedNext, Shared!DropAvatar
  <1> QED
    BY <1>1, <1>2, <1>3, <1>4

\* Profiles implements SharedProfile for every number of tabs: each save is a
\* compare-and-swap of the row against what its tab has read, whatever is read,
\* typed, refused or removed between the request and the commit.
THEOREM ProfileSavesOverWhatWasRead == ProfilesSpec => SavesOverWhatWasRead
  <1>1. ProfilesInit => Shared!SharedInit
    BY DEF ProfilesInit, Shared!SharedInit
  <1>2. ProfileInvariant /\ [ProfilesNext]_profileVars => [Shared!SharedNext]_(Shared!shared)
    BY StepIsShared DEF ProfilesNext, profileVars, Shared!shared
  <1> QED
    BY <1>1, <1>2, ProfileInvariantHolds, PTL DEF ProfilesSpec, SavesOverWhatWasRead, Shared!SharedSpec
-----------------------------------------------------------------------------
(* BrowserUploads: what pump starts. *)

LEMMA ListWithoutOne ==
  ASSUME NEW i \in Items, shown \in Seq(Items), i \in Range(shown),
         \A k, l \in DOMAIN shown : shown[k] = shown[l] => k = l
  PROVE  /\ ListWithout(i) \in Seq(Items)
         /\ \A k, l \in DOMAIN ListWithout(i) : ListWithout(i)[k] = ListWithout(i)[l] => k = l
         /\ Range(ListWithout(i)) = Range(shown) \ {i}
  BY RemoveOne DEF ListWithout, Without

(* What the pump leaves.  A file whose run ends (free = 1) has lost its       *)
(* controller when the next ones are counted.                                 *)
Kept(items, free) ==
    [j \in Items |-> IF free = 1 /\ items[j] # item[j] THEN "none" ELSE controller[j]]

ItemRecords == [status: Statuses, file: BOOLEAN, retries: 0 .. MaxRetries]
PartRecords == [step: {"queued", "put", "renew", "sleep", "sent"},
                attempt: 1 .. Attempts, url: 0 .. MaxRenewals]

PartsAreGood ==
    /\ part \in [Items -> [Parts -> PartRecords]]
    /\ urls \in [Items -> [age: 0 .. MaxRenewals, renewing: BOOLEAN]]
    /\ \A i \in Items : Cardinality(InLanes(i)) <= Lanes
    /\ RenewalsAreBounded

LEMMA InvariantParts ==
  UploadsInvariant <=>
    /\ shown \in Seq(Items) /\ \A k, l \in DOMAIN shown : shown[k] = shown[l] => k = l
    /\ item \in [Items -> ItemRecords] /\ controller \in [Items -> {"none", "live", "aborted"}]
    /\ running \in 0 .. ParallelFiles
    /\ running = Cardinality({i \in Items : controller[i] # "none"})
    /\ PartsAreGood /\ RunsAreControlled /\ ActiveIsShown /\ LanesAreOfUploads /\ WaitingHasAReason
  BY DEF UploadsInvariant, BrowserUploadsTypeOK, ListIsWhole, PartsAreGood, ItemRecords,
         PartRecords, InLanes

LEMMA PumpIsGood ==
  ASSUME controller \in [Items -> {"none", "live", "aborted"}],
         NEW list \in Seq(Items), \A k, l \in DOMAIN list : list[k] = list[l] => k = l,
         NEW items \in [Items -> ItemRecords], NEW free \in {0, 1}, running - free \in 0 .. ParallelFiles,
         Cardinality({j \in Items : Kept(items, free)[j] # "none"}) = running - free,
         \A j \in Items : Kept(items, free)[j] # "none" <=> items[j].status \in AtWork,
         \A j \in Items : items[j].status \in Active => j \in Range(list),
         \A j \in Items : items[j].status = "waiting" => controller[j] = "none",
         \A j \in Items, p \in Parts :
             /\ part'[j][p].step \in {"put", "renew", "sleep"} => items[j].status = "uploading"
             /\ part'[j][p].step = "put" => Kept(items, free)[j] = "live",
         PartsAreGood',
         Pump(list, items, free)
  PROVE  UploadsInvariant'
  <1> DEFINE W == {j \in Items : items[j].status = "waiting" /\ controller[j] = "none"}
             room == ParallelFiles - (running - free)
             S == FirstOnes(list, W, room)
             kept == Kept(items, free)
             old == {j \in Items : kept[j] # "none"}
  <1>1. room \in Nat /\ ParallelFiles \in Nat /\ IsFiniteSet(Items)
    BY BrowserUploadsAssumption
  <1>2. /\ IsFiniteSet(S) /\ S \subseteq W \cap Range(list) /\ Cardinality(S) <= room
        /\ \A x \in (W \cap Range(list)) \ S : Cardinality(S) = room
    <2> HIDE DEF W, room
    <2> QED
      BY <1>1, FirstOnesFillRoom
  <1>3. Started(list, items, room) = S
    BY DEF Started, FirstOnes, Before
  <1>4. /\ shown' = list
        /\ item' = [i \in Items |-> IF i \in S THEN [items[i] EXCEPT !.status = "hashing"] ELSE items[i]]
        /\ running' = running - free + Cardinality(S)
        /\ controller' = [i \in Items |-> IF i \in S THEN "live" ELSE kept[i]]
    <2>1. /\ shown' = list
          /\ item' = [i \in Items |-> IF i \in Started(list, items, room)
                                     THEN [items[i] EXCEPT !.status = "hashing"] ELSE items[i]]
          /\ running' = running - free + Cardinality(Started(list, items, room))
          /\ controller' = [i \in Items |-> IF i \in Started(list, items, room) THEN "live"
                                ELSE IF free = 1 /\ items[i] # item[i] THEN "none" ELSE controller[i]]
      BY DEF Pump
    <2> HIDE DEF S
    <2>2. ASSUME NEW i \in Items
          PROVE  kept[i] = IF free = 1 /\ items[i] # item[i] THEN "none" ELSE controller[i]
      BY DEF Kept
    <2> HIDE DEF kept
    <2> QED
      BY <1>3, <2>1, <2>2
  <1>5. ASSUME NEW j \in Items
        PROVE  /\ j \in S => /\ items[j].status = "waiting" /\ kept[j] = "none"
                             /\ item'[j].status = "hashing" /\ controller'[j] = "live"
               /\ j \notin S => item'[j] = items[j] /\ controller'[j] = kept[j]
               /\ item'[j] \in ItemRecords /\ controller'[j] \in {"none", "live", "aborted"}
    <2>0. items[j] \in ItemRecords /\ kept[j] \in {"none", "live", "aborted"}
      BY DEF Kept
    <2>1. CASE j \in S
      <3>1. items[j].status = "waiting"
        BY <1>2, <2>1
      <3>2. kept[j] = "none"
        BY <3>1 DEF AtWork
      <3>3. item'[j] = [items[j] EXCEPT !.status = "hashing"] /\ controller'[j] = "live"
        BY <1>4, <2>1
      <3>4. [items[j] EXCEPT !.status = "hashing"] \in ItemRecords
            /\ [items[j] EXCEPT !.status = "hashing"].status = "hashing"
        BY <2>0 DEF ItemRecords, Statuses, Active
      <3> QED
        BY <2>1, <3>1, <3>2, <3>3, <3>4
    <2>2. CASE j \notin S
      <3>1. item'[j] = items[j] /\ controller'[j] = kept[j]
        BY <1>4, <2>2
      <3> QED
        BY <2>0, <2>2, <3>1
    <2> QED
      BY <2>1, <2>2
  <1> HIDE DEF kept, S
  <1>6. item' \in [Items -> ItemRecords] /\ controller' \in [Items -> {"none", "live", "aborted"}]
    BY <1>4, <1>5
  <1>7. RunsAreControlled'
    <2> SUFFICES ASSUME NEW j \in Items PROVE controller'[j] # "none" <=> item'[j].status \in AtWork
      BY DEF RunsAreControlled, Status
    <2> QED
      BY <1>5 DEF AtWork, Active, kept
  <1>8. running' \in 0 .. ParallelFiles /\ running' = Cardinality({i \in Items : controller'[i] # "none"})
    <2>1. {i \in Items : controller'[i] # "none"} = old \cup S
      BY <1>2, <1>5
    <2>2. old \cap S = {}
      BY <1>5
    <2>3. IsFiniteSet(old) /\ Cardinality(old) = running - free /\ Cardinality(S) \in Nat
      BY <1>1, <1>2, FS_Subset, FS_CardinalityType DEF kept
    <2>4. Cardinality(old \cup S) = Cardinality(old) + Cardinality(S)
      <3> HIDE DEF old
      <3> QED
        <4>1. Cardinality(old \cup S) = Cardinality(old) + Cardinality(S) - Cardinality(old \cap S)
          BY <1>2, <2>3, FS_Union
        <4>2. Cardinality(old \cap S) = 0 /\ Cardinality(old) \in Nat
          BY <2>2, <2>3, FS_EmptySet, FS_CardinalityType
        <4> QED
          BY <2>3, <4>1, <4>2
    <2>5. running' = Cardinality(old \cup S)
      BY <1>4, <2>3, <2>4
    <2>6. running' \in 0 .. ParallelFiles
      <3> HIDE DEF old
      <3>1. running - free \in Nat /\ Cardinality(S) <= ParallelFiles - (running - free)
        BY <1>1, <1>2
      <3> QED
        BY <1>1, <1>4, <2>3, <3>1
    <2> QED
      BY <2>1, <2>5, <2>6
  <1>9. ActiveIsShown'
    <2> SUFFICES ASSUME NEW j \in Items, item'[j].status \in Active PROVE j \in Range(list)
      BY <1>4 DEF ActiveIsShown, Status
    <2> QED
      BY <1>5 DEF Active
  <1>10. LanesAreOfUploads'
    <2> SUFFICES ASSUME NEW j \in Items, NEW p \in Parts
                 PROVE  /\ part'[j][p].step \in {"put", "renew", "sleep"} => item'[j].status = "uploading"
                        /\ part'[j][p].step = "put" => controller'[j] = "live"
      BY DEF LanesAreOfUploads, Status, Live
    <2> QED
      BY <1>5 DEF kept
  <1>11. WaitingHasAReason'
    <2> SUFFICES ASSUME NEW j \in Items, item'[j].status = "waiting" PROVE running' = ParallelFiles
      BY DEF WaitingHasAReason, Status
    <2>1. j \notin S /\ items[j].status = "waiting"
      BY <1>5
    <2>2. j \in (W \cap Range(list)) \ S
      BY <2>1 DEF Active
    <2>3. Cardinality(S) = ParallelFiles - (running - free)
      BY <1>2, <2>2
    <2> QED
      BY <1>1, <1>4, <2>3
  <1>12. shown' \in Seq(Items) /\ \A k, l \in DOMAIN shown' : shown'[k] = shown'[l] => k = l
    BY <1>4
  <1> QED
    BY <1>6, <1>7, <1>8, <1>9, <1>10, <1>11, <1>12
       DEF UploadsInvariant, BrowserUploadsTypeOK, ListIsWhole, PartsAreGood, ItemRecords, PartRecords, InLanes

\* The ways an action writes to one item.
ItemWrites(i, s, f, r) ==
    {[item EXCEPT ![i].status = s, ![i].file = f, ![i].retries = r],
     [item EXCEPT ![i].status = s, ![i].retries = r],
     [item EXCEPT ![i].status = s, ![i].file = f],
     [item EXCEPT ![i].status = s],
     [item EXCEPT ![i] = [status |-> s, file |-> f, retries |-> r]]}

LEMMA ItemChanges ==
  ASSUME item \in [Items -> ItemRecords], NEW i \in Items, NEW s \in Statuses, NEW f \in BOOLEAN,
         NEW r \in 0 .. MaxRetries, NEW items \in ItemWrites(i, s, f, r)
  PROVE  /\ items \in [Items -> ItemRecords] /\ items[i].status = s
         /\ \A j \in Items : j # i => items[j] = item[j]
  <1>1. item[i] \in ItemRecords
    OBVIOUS
  <1>2. ASSUME NEW a \in [Items -> ItemRecords], \A j \in Items : j # i => a[j] = item[j]
        PROVE  /\ [a EXCEPT ![i].status = s] \in [Items -> ItemRecords]
               /\ [a EXCEPT ![i].status = s][i].status = s
               /\ [a EXCEPT ![i].file = f] \in [Items -> ItemRecords]
               /\ [a EXCEPT ![i].file = f][i].status = a[i].status
               /\ [a EXCEPT ![i].retries = r] \in [Items -> ItemRecords]
               /\ [a EXCEPT ![i].retries = r][i].status = a[i].status
               /\ \A j \in Items : j # i => /\ [a EXCEPT ![i].status = s][j] = item[j]
                                            /\ [a EXCEPT ![i].file = f][j] = item[j]
                                            /\ [a EXCEPT ![i].retries = r][j] = item[j]
    <2>1. a[i] \in ItemRecords
      OBVIOUS
    <2>2. /\ [a[i] EXCEPT !.status = s] \in ItemRecords /\ [a[i] EXCEPT !.status = s].status = s
          /\ [a[i] EXCEPT !.file = f] \in ItemRecords /\ [a[i] EXCEPT !.file = f].status = a[i].status
          /\ [a[i] EXCEPT !.retries = r] \in ItemRecords
          /\ [a[i] EXCEPT !.retries = r].status = a[i].status
      BY <2>1 DEF ItemRecords
    <2> HIDE DEF ItemRecords
    <2> QED
      BY <1>2, <2>2
  <1> DEFINE a1 == [item EXCEPT ![i].status = s]
             a2 == [a1 EXCEPT ![i].file = f]
             a3 == [a2 EXCEPT ![i].retries = r]
             a4 == [a1 EXCEPT ![i].retries = r]
             a5 == [item EXCEPT ![i] = [status |-> s, file |-> f, retries |-> r]]
             Good(a) == /\ a \in [Items -> ItemRecords] /\ a[i].status = s
                        /\ \A j \in Items : j # i => a[j] = item[j]
  <1>3. Good(a1)
    BY <1>2
  <1>4. Good(a2) /\ Good(a4)
    <2> HIDE DEF a1
    <2> QED
      BY <1>2, <1>3
  <1>5. Good(a3)
    <2> HIDE DEF a2
    <2> QED
      BY <1>2, <1>4
  <1>6. Good(a5)
    BY DEF ItemRecords
  <1>7. items \in {a1, a2, a3, a4, a5}
    BY DEF ItemWrites
  <1> HIDE DEF a1, a2, a3, a4, a5
  <1> QED
    BY <1>3, <1>4, <1>5, <1>6, <1>7

\* A file begins, or begins again, to wait for the pump.
LEMMA JoinIsGood ==
  ASSUME UploadsInvariant, NEW i \in Items, Status(i) \notin Active,
         NEW list \in Seq(Items), \A k, l \in DOMAIN list : list[k] = list[l] => k = l,
         Range(shown) \cup {i} \subseteq Range(list),
         NEW items \in [Items -> ItemRecords], items[i].status \in {"waiting", "failed"},
         \A j \in Items : j # i => items[j] = item[j],
         Pump(list, items, 0), UNCHANGED <<part, urls>>
  PROVE  UploadsInvariant'
  <1>0. /\ controller \in [Items -> {"none", "live", "aborted"}] /\ item \in [Items -> ItemRecords]
        /\ running \in 0 .. ParallelFiles /\ running = Cardinality({j \in Items : controller[j] # "none"})
        /\ PartsAreGood /\ RunsAreControlled /\ ActiveIsShown /\ LanesAreOfUploads
    BY InvariantParts
  <1>1. /\ Status(i) \notin AtWork /\ controller[i] = "none" /\ items[i].status \notin AtWork
        /\ Status(i) # "uploading"
    BY <1>0 DEF RunsAreControlled, AtWork, Active
  <1>2. \A j \in Items : Kept(items, 0)[j] = controller[j]
    BY DEF Kept
  <1>3. {j \in Items : Kept(items, 0)[j] # "none"} = {j \in Items : controller[j] # "none"}
    BY <1>2
  <1>4. running - 0 \in 0 .. ParallelFiles /\ 0 \in {0, 1}
        /\ Cardinality({j \in Items : Kept(items, 0)[j] # "none"}) = running - 0
    <2>1. running - 0 = running
      BY <1>0, BrowserUploadsAssumption
    <2> QED
      BY <1>0, <1>3, <2>1
  <1>5. \A j \in Items : Kept(items, 0)[j] # "none" <=> items[j].status \in AtWork
    BY <1>0, <1>1, <1>2 DEF RunsAreControlled, Status
  <1>6. \A j \in Items : items[j].status \in Active => j \in Range(list)
    BY <1>0 DEF ActiveIsShown, Status
  <1>7. \A j \in Items : items[j].status = "waiting" => controller[j] = "none"
    BY <1>0, <1>1 DEF RunsAreControlled, Status, AtWork
  <1>8. \A j \in Items, p \in Parts :
             /\ part'[j][p].step \in {"put", "renew", "sleep"} => items[j].status = "uploading"
             /\ part'[j][p].step = "put" => Kept(items, 0)[j] = "live"
    BY <1>0, <1>1, <1>2 DEF LanesAreOfUploads, Status, Live
  <1>9. PartsAreGood'
    BY <1>0 DEF PartsAreGood, InLanes, RenewalsAreBounded
  <1> HIDE DEF Kept, AtWork, Active, PartsAreGood, ItemRecords
  <1> QED
    BY <1>0, <1>4, <1>5, <1>6, <1>7, <1>8, <1>9, PumpIsGood

LEMMA EnqueueIsGood == ASSUME UploadsInvariant, NEW i \in Items, Enqueue(i) PROVE UploadsInvariant'
  <1>0. PICK f \in Files :
         Pump(Append(shown, i),
              [item EXCEPT ![i].status = IF UploadProblem(f) = "none" THEN "waiting" ELSE "failed",
                           ![i].file = UploadProblem(f) = "none",
                           ![i].retries = IF UploadProblem(f) = "none" THEN 0 ELSE MaxRetries],
              0)
    BY DEF Enqueue
  <1> DEFINE fits == UploadProblem(f) = "none"
             items == [item EXCEPT ![i].status = IF fits THEN "waiting" ELSE "failed",
                                   ![i].file = fits, ![i].retries = IF fits THEN 0 ELSE MaxRetries]
  <1>1. item \in [Items -> ItemRecords] /\ shown \in Seq(Items)
        /\ \A k, l \in DOMAIN shown : shown[k] = shown[l] => k = l
    BY InvariantParts
  <1>2. fits \in BOOLEAN /\ (IF fits THEN "waiting" ELSE "failed") \in {"waiting", "failed"}
        /\ {"waiting", "failed"} \subseteq Statuses
        /\ (IF fits THEN 0 ELSE MaxRetries) \in 0 .. MaxRetries
    <2> HIDE DEF fits
    <2>1. fits \in BOOLEAN
      BY DEF fits
    <2> QED
      BY <2>1, BrowserUploadsAssumption DEF Statuses, Active
  <1>3. /\ items \in [Items -> ItemRecords] /\ items[i].status \in {"waiting", "failed"}
        /\ \A j \in Items : j # i => items[j] = item[j]
    <2> DEFINE s == IF fits THEN "waiting" ELSE "failed"
               r == IF fits THEN 0 ELSE MaxRetries
    <2>1. items \in ItemWrites(i, s, fits, r)
      BY DEF ItemWrites
    <2>2. s \in Statuses /\ r \in 0 .. MaxRetries /\ s \in {"waiting", "failed"}
      BY <1>2
    <2> HIDE DEF fits, s, r, items
    <2> QED
      BY <1>1, <1>2, <2>1, <2>2, ItemChanges
  <1>4. i \notin Range(shown) /\ Status(i) \notin Active /\ UNCHANGED <<part, urls>>
    BY DEF Enqueue, Active
  <1>5. Pump(Append(shown, i), items, 0)
    BY <1>0
  <1> HIDE DEF items
  <1>6. /\ Append(shown, i) \in Seq(Items)
        /\ \A k, l \in DOMAIN Append(shown, i) : Append(shown, i)[k] = Append(shown, i)[l] => k = l
        /\ Range(shown) \cup {i} \subseteq Range(Append(shown, i))
    BY <1>1, <1>4, AppendOne
  <1> QED
    BY <1>3, <1>4, <1>5, <1>6, JoinIsGood

LEMMA RetryIsGood == ASSUME UploadsInvariant, NEW i \in Items, Retry(i) PROVE UploadsInvariant'
  <1> DEFINE items == [item EXCEPT ![i].status = "waiting", ![i].retries = item[i].retries + 1]
  <1>1. item \in [Items -> ItemRecords] /\ shown \in Seq(Items)
        /\ \A k, l \in DOMAIN shown : shown[k] = shown[l] => k = l
    BY InvariantParts
  <1>2. /\ i \in Range(shown) /\ Status(i) \notin Active /\ UNCHANGED <<part, urls>>
        /\ item[i].retries < MaxRetries
    BY DEF Retry, Active
  <1>3. item[i].retries + 1 \in 0 .. MaxRetries /\ item[i].file \in BOOLEAN /\ "waiting" \in Statuses
    BY <1>1, <1>2, BrowserUploadsAssumption DEF ItemRecords, Statuses, Active
  <1>4. /\ items \in [Items -> ItemRecords] /\ items[i].status = "waiting"
        /\ \A j \in Items : j # i => items[j] = item[j]
    <2>1. items \in ItemWrites(i, "waiting", item[i].file, item[i].retries + 1)
      BY DEF ItemWrites
    <2> HIDE DEF items
    <2> QED
      BY <1>1, <1>3, <2>1, ItemChanges
  <1>5. Pump(shown, items, 0)
    <2>1. [item EXCEPT ![i].status = "waiting", ![i].retries = @ + 1] = items
      BY <1>1 DEF ItemRecords
    <2> QED
      BY <2>1 DEF Retry
  <1> HIDE DEF items
  <1> QED
    BY <1>1, <1>2, <1>4, <1>5, JoinIsGood

\* The parts of one file change.
LEMMA PartsOfOneChange ==
  ASSUME PartsAreGood, NEW i \in Items, NEW q \in [Parts -> PartRecords],
         part' = [part EXCEPT ![i] = q],
         Cardinality({p \in Parts : q[p].step \in {"put", "renew", "sleep"}}) <= Lanes,
         urls' \in [Items -> [age: 0 .. MaxRenewals, renewing: BOOLEAN]], RenewalsAreBounded'
  PROVE  PartsAreGood' /\ part'[i] = q /\ \A j \in Items : j # i => part'[j] = part[j]
  <1>1. /\ part' \in [Items -> [Parts -> PartRecords]] /\ part'[i] = q
        /\ \A j \in Items : j # i => part'[j] = part[j]
    BY DEF PartsAreGood
  <1>2. ASSUME NEW j \in Items PROVE Cardinality(InLanes(j)') <= Lanes
    <2>1. CASE j = i
      BY <1>1, <2>1 DEF InLanes
    <2>2. CASE j # i
      <3>1. InLanes(j)' = InLanes(j)
        BY <1>1, <2>2 DEF InLanes
      <3> QED
        BY <3>1 DEF PartsAreGood
    <2> QED
      BY <2>1, <2>2
  <1> QED
    BY <1>1, <1>2 DEF PartsAreGood

LEMMA NothingIsSentYet ==
  /\ Unsent \in [Parts -> PartRecords]
  /\ \A p \in Parts : Unsent[p].step = "queued"
  /\ Cardinality({p \in Parts : Unsent[p].step \in {"put", "renew", "sleep"}}) <= Lanes
  <1>1. /\ Unsent \in [Parts -> PartRecords]
        /\ \A p \in Parts : Unsent[p].step = "queued"
    <2>1. 1 \in 1 .. Attempts /\ 0 \in 0 .. MaxRenewals
      BY BrowserUploadsAssumption
    <2> QED
      BY <2>1 DEF Unsent, NoPart, PartRecords
  <1>2. {p \in Parts : Unsent[p].step \in {"put", "renew", "sleep"}} = {}
    BY <1>1
  <1>3. Lanes \in Nat
    BY BrowserUploadsAssumption
  <1> QED
    BY <1>1, <1>2, <1>3, FS_EmptySet

LEMMA EndRunIsGood ==
  ASSUME UploadsInvariant, NEW i \in Items, controller[i] # "none",
         NEW end \in {"duplicate", "failed", "cancelled", "done"}, NEW keep \in BOOLEAN,
         EndRun(i, end, keep)
  PROVE  UploadsInvariant'
  <1> DEFINE items == [item EXCEPT ![i].status = end, ![i].file = keep]
             list == IF end = "done" THEN ListWithout(i) ELSE shown
             held == {j \in Items : controller[j] # "none"}
  <1>0. /\ controller \in [Items -> {"none", "live", "aborted"}] /\ item \in [Items -> ItemRecords]
        /\ shown \in Seq(Items) /\ \A k, l \in DOMAIN shown : shown[k] = shown[l] => k = l
        /\ running \in 0 .. ParallelFiles /\ running = Cardinality(held)
        /\ PartsAreGood /\ RunsAreControlled /\ ActiveIsShown /\ LanesAreOfUploads
    BY InvariantParts
  <1>1. /\ item[i].status \in AtWork /\ i \in Range(shown) /\ item[i].retries \in 0 .. MaxRetries
        /\ end \notin Active /\ end \in Statuses /\ AtWork \subseteq Active
    BY <1>0 DEF RunsAreControlled, ActiveIsShown, Status, AtWork, Active, Statuses, ItemRecords
  <1>2. /\ items \in [Items -> ItemRecords] /\ items[i].status = end
        /\ \A j \in Items : j # i => items[j] = item[j]
    <2>1. items \in ItemWrites(i, end, keep, item[i].retries)
      BY DEF ItemWrites
    <2> HIDE DEF items
    <2> QED
      BY <1>0, <1>1, <2>1, ItemChanges
  <1>3. /\ list \in Seq(Items) /\ \A k, l \in DOMAIN list : list[k] = list[l] => k = l
        /\ \A x \in Range(shown) : x # i => x \in Range(list)
        /\ end # "done" => i \in Range(list)
    <2>1. CASE end = "done"
      <3>1. list = ListWithout(i)
        BY <2>1
      <3>2. /\ list \in Seq(Items) /\ \A k, l \in DOMAIN list : list[k] = list[l] => k = l
            /\ Range(list) = Range(shown) \ {i}
        BY <1>0, <1>1, <3>1, ListWithoutOne
      <3> QED
        BY <2>1, <3>2
    <2>2. CASE end # "done"
      BY <1>0, <1>1, <2>2
    <2> QED
      BY <2>1, <2>2
  <1>4. /\ Pump(list, items, 1) /\ part' = [part EXCEPT ![i] = Unsent]
        /\ urls' = [urls EXCEPT ![i] = [age |-> 0, renewing |-> FALSE]]
    BY DEF EndRun
  <1> HIDE DEF items, list
  <1>5. Kept(items, 1)[i] = "none" /\ \A j \in Items : j # i => Kept(items, 1)[j] = controller[j]
    <2>1. items[i] # item[i]
      BY <1>1, <1>2
    <2> QED
      BY <1>2, <2>1 DEF Kept
  <1>6. /\ running - 1 \in 0 .. ParallelFiles /\ 1 \in {0, 1}
        /\ Cardinality({j \in Items : Kept(items, 1)[j] # "none"}) = running - 1
    <2>1. {j \in Items : Kept(items, 1)[j] # "none"} = held \ {i}
      BY <1>5
    <2>2. IsFiniteSet(held) /\ i \in held
      BY BrowserUploadsAssumption, FS_Subset
    <2> HIDE DEF held
    <2>3. Cardinality(held \ {i}) = Cardinality(held) - 1 /\ Cardinality(held \ {i}) \in Nat
      <3>1. IsFiniteSet(held \ {i}) /\ Cardinality(held \ {i}) = Cardinality(held) - 1
        BY <2>2, FS_RemoveElement
      <3>2. Cardinality(held \ {i}) \in Nat
        BY <3>1, FS_CardinalityType
      <3> QED
        BY <3>1, <3>2
    <2>4. running \in Nat /\ running <= ParallelFiles /\ ParallelFiles \in Nat
      BY <1>0, BrowserUploadsAssumption
    <2>5. running - 1 \in Nat /\ running - 1 <= ParallelFiles
      BY <1>0, <2>3, <2>4
    <2>6. running - 1 \in 0 .. ParallelFiles
      BY <2>4, <2>5
    <2>7. Cardinality({j \in Items : Kept(items, 1)[j] # "none"}) = running - 1
      BY <1>0, <2>1, <2>3
    <2> QED
      BY <2>6, <2>7
  <1>7. \A j \in Items : Kept(items, 1)[j] # "none" <=> items[j].status \in AtWork
    <2> SUFFICES ASSUME NEW j \in Items PROVE Kept(items, 1)[j] # "none" <=> items[j].status \in AtWork
      OBVIOUS
    <2>1. CASE j = i
      BY <1>1, <1>2, <1>5, <2>1
    <2>2. CASE j # i
      BY <1>0, <1>2, <1>5, <2>2 DEF RunsAreControlled, Status
    <2> QED
      BY <2>1, <2>2
  <1>8. \A j \in Items : items[j].status \in Active => j \in Range(list)
    BY <1>0, <1>1, <1>2, <1>3 DEF ActiveIsShown, Status
  <1>9. \A j \in Items : items[j].status = "waiting" => controller[j] = "none"
    BY <1>0, <1>2 DEF RunsAreControlled, Status, AtWork
  <1>10. urls' \in [Items -> [age: 0 .. MaxRenewals, renewing: BOOLEAN]] /\ RenewalsAreBounded'
    <2>1. urls \in [Items -> [age: 0 .. MaxRenewals, renewing: BOOLEAN]] /\ RenewalsAreBounded
          /\ 0 \in 0 .. MaxRenewals
      BY <1>0, BrowserUploadsAssumption DEF PartsAreGood
    <2> QED
      BY <1>4, <2>1 DEF RenewalsAreBounded
  <1>11. PartsAreGood' /\ part'[i] = Unsent /\ \A j \in Items : j # i => part'[j] = part[j]
    BY <1>0, <1>4, <1>10, NothingIsSentYet, PartsOfOneChange
  <1>12. \A j \in Items, p \in Parts :
             /\ part'[j][p].step \in {"put", "renew", "sleep"} => items[j].status = "uploading"
             /\ part'[j][p].step = "put" => Kept(items, 1)[j] = "live"
    <2> SUFFICES ASSUME NEW j \in Items, NEW p \in Parts
                 PROVE  /\ part'[j][p].step \in {"put", "renew", "sleep"} => items[j].status = "uploading"
                        /\ part'[j][p].step = "put" => Kept(items, 1)[j] = "live"
      OBVIOUS
    <2>1. CASE j = i
      BY <1>11, <2>1, NothingIsSentYet
    <2>2. CASE j # i
      BY <1>0, <1>2, <1>5, <1>11, <2>2 DEF LanesAreOfUploads, Status, Live
    <2> QED
      BY <2>1, <2>2
  <1> HIDE DEF held
  <1> QED
    BY <1>0, <1>2, <1>3, <1>4, <1>6, <1>7, <1>8, <1>9, <1>11, <1>12, PumpIsGood

\* The lanes of an upload go on.
LEMMA LanesStepIsGood ==
  ASSUME UploadsInvariant, NEW i \in Items, Uploading(i), NEW q \in [Parts -> PartRecords],
         part' = [part EXCEPT ![i] = q],
         Cardinality({p \in Parts : q[p].step \in {"put", "renew", "sleep"}}) <= Lanes,
         \A p \in Parts : q[p].step = "put" => Live(i),
         urls' \in [Items -> [age: 0 .. MaxRenewals, renewing: BOOLEAN]], RenewalsAreBounded',
         UNCHANGED <<shown, item, running, controller>>
  PROVE  UploadsInvariant'
  <1>0. /\ controller \in [Items -> {"none", "live", "aborted"}] /\ item \in [Items -> ItemRecords]
        /\ shown \in Seq(Items) /\ \A k, l \in DOMAIN shown : shown[k] = shown[l] => k = l
        /\ running \in 0 .. ParallelFiles /\ running = Cardinality({j \in Items : controller[j] # "none"})
        /\ PartsAreGood /\ RunsAreControlled /\ ActiveIsShown /\ LanesAreOfUploads /\ WaitingHasAReason
    BY InvariantParts
  <1>1. PartsAreGood' /\ part'[i] = q /\ \A j \in Items : j # i => part'[j] = part[j]
    BY <1>0, PartsOfOneChange
  <1>2. LanesAreOfUploads'
    <2> SUFFICES ASSUME NEW j \in Items, NEW p \in Parts
                 PROVE  /\ part'[j][p].step \in {"put", "renew", "sleep"} => item[j].status = "uploading"
                        /\ part'[j][p].step = "put" => controller[j] = "live"
      BY DEF LanesAreOfUploads, Status, Live
    <2>1. CASE j = i
      BY <1>1, <2>1 DEF Uploading, Status, Live
    <2>2. CASE j # i
      BY <1>0, <1>1, <2>2 DEF LanesAreOfUploads, Status, Live
    <2> QED
      BY <2>1, <2>2
  <1>3. RunsAreControlled' /\ ActiveIsShown' /\ WaitingHasAReason'
    BY <1>0 DEF RunsAreControlled, ActiveIsShown, WaitingHasAReason, Status
  <1>4. PartsAreGood'
    BY <1>1
  <1> QED
    BY <1>0, <1>2, <1>3, <1>4
       DEF UploadsInvariant, BrowserUploadsTypeOK, ListIsWhole, PartsAreGood, ItemRecords, PartRecords, InLanes

\* One part of it steps, and keeps its lane, or the lane was free.
LEMMA OnePartStepIsGood ==
  ASSUME UploadsInvariant, NEW i \in Items, Uploading(i), NEW p \in Parts, NEW x \in PartRecords,
         SetPart(i, p, x), x.step = "put" => Live(i),
         \/ p \in InLanes(i) \/ x.step \notin {"put", "renew", "sleep"} \/ Cardinality(InLanes(i)) < Lanes,
         urls' \in [Items -> [age: 0 .. MaxRenewals, renewing: BOOLEAN]], RenewalsAreBounded',
         UNCHANGED <<shown, item, running, controller>>
  PROVE  UploadsInvariant'
  <1> DEFINE q == [part[i] EXCEPT ![p] = x]
             lanes == {r \in Parts : q[r].step \in {"put", "renew", "sleep"}}
  <1>0. PartsAreGood /\ LanesAreOfUploads /\ Lanes \in Nat /\ IsFiniteSet(Parts)
    BY InvariantParts, BrowserUploadsAssumption
  <1>1. /\ part \in [Items -> [Parts -> PartRecords]] /\ part[i] \in [Parts -> PartRecords]
        /\ Cardinality(InLanes(i)) <= Lanes
    BY <1>0 DEF PartsAreGood
  <1>2. q \in [Parts -> PartRecords] /\ q[p] = x /\ \A r \in Parts : r # p => q[r] = part[i][r]
    BY <1>1
  <1>3. part' = [part EXCEPT ![i] = q]
    BY <1>1 DEF SetPart
  <1> HIDE DEF q
  <1>4. Cardinality(lanes) <= Lanes
    <2>1. IsFiniteSet(InLanes(i)) /\ Cardinality(InLanes(i)) \in Nat
      <3>1. InLanes(i) \subseteq Parts
        BY DEF InLanes
      <3> QED
        BY <1>0, <3>1, FS_Subset, FS_CardinalityType
    <2>2. CASE p \in InLanes(i) \/ x.step \notin {"put", "renew", "sleep"}
      <3>1. lanes \subseteq InLanes(i)
        BY <1>2, <2>2 DEF InLanes
      <3> HIDE DEF lanes
      <3>2. Cardinality(lanes) <= Cardinality(InLanes(i)) /\ Cardinality(lanes) \in Nat
        BY <2>1, <3>1, FS_Subset, FS_CardinalityType
      <3> QED
        BY <1>0, <1>1, <2>1, <3>2
    <2>3. CASE Cardinality(InLanes(i)) < Lanes
      <3> DEFINE more == InLanes(i) \cup {p}
      <3>1. lanes \subseteq more
        BY <1>2 DEF InLanes
      <3>2. IsFiniteSet(more) /\ Cardinality(more) <= Cardinality(InLanes(i)) + 1
        <4> DEFINE old == InLanes(i)
        <4>1. IsFiniteSet(old) /\ Cardinality(old) \in Nat
          BY <2>1
        <4> HIDE DEF old
        <4>2. /\ IsFiniteSet(old \cup {p})
              /\ Cardinality(old \cup {p}) = IF p \in old THEN Cardinality(old) ELSE Cardinality(old) + 1
          BY <4>1, FS_AddElement
        <4>3. Cardinality(old \cup {p}) <= Cardinality(old) + 1
          BY <4>1, <4>2
        <4> QED
          BY <4>2, <4>3 DEF old
      <3> HIDE DEF lanes, more
      <3>3. Cardinality(lanes) <= Cardinality(more) /\ Cardinality(lanes) \in Nat
            /\ Cardinality(more) \in Nat
        BY <3>1, <3>2, FS_Subset, FS_CardinalityType
      <3> QED
        BY <1>0, <2>1, <2>3, <3>2, <3>3
    <2> QED
      BY <2>2, <2>3
  <1>5. \A r \in Parts : q[r].step = "put" => Live(i)
    BY <1>0, <1>2 DEF LanesAreOfUploads
  <1> QED
    BY <1>2, <1>3, <1>4, <1>5, LanesStepIsGood

LEMMA UrlsStay ==
  ASSUME UploadsInvariant, urls' = urls
  PROVE  urls' \in [Items -> [age: 0 .. MaxRenewals, renewing: BOOLEAN]] /\ RenewalsAreBounded'
  BY InvariantParts DEF PartsAreGood, RenewalsAreBounded

LEMMA PutIsGood ==
  ASSUME UploadsInvariant, NEW i \in Items, Uploading(i), Live(i), NEW p \in Parts, PutPart(i, p),
         p \in InLanes(i) \/ Cardinality(InLanes(i)) < Lanes,
         UNCHANGED <<shown, item, running, controller, urls>>
  PROVE  UploadsInvariant'
  <1> DEFINE x == [part[i][p] EXCEPT !.step = "put", !.url = urls[i].age]
  <1>1. part[i][p] \in PartRecords /\ urls[i].age \in 0 .. MaxRenewals
    BY InvariantParts DEF PartsAreGood
  <1>2. x \in PartRecords
    BY <1>1 DEF PartRecords
  <1>3. SetPart(i, p, x)
    BY DEF PutPart
  <1> HIDE DEF x
  <1> QED
    BY <1>2, <1>3, UrlsStay, OnePartStepIsGood

LEMMA TakePartIsGood == ASSUME UploadsInvariant, NEW i \in Items, TakePart(i) PROVE UploadsInvariant'
  <1> DEFINE queued == {p \in Parts : part[i][p].step = "queued"}
             first == CHOOSE p \in queued : \A q \in queued : p <= q
  <1>1. queued # {} /\ queued \in SUBSET Nat
    BY BrowserUploadsAssumption DEF TakePart
  <1>2. \E p \in queued : \A q \in queued : p <= q
    BY <1>1, LeastOf
  <1>3. first \in Parts
    BY <1>2
  <1>4. /\ Uploading(i) /\ Live(i) /\ PutPart(i, first) /\ Cardinality(InLanes(i)) < Lanes
        /\ UNCHANGED <<shown, item, running, controller, urls>>
    BY DEF TakePart
  <1> QED
    BY <1>3, <1>4, PutIsGood

LEMMA PartStepIsGood ==
  ASSUME UploadsInvariant, NEW i \in Items, NEW p \in Parts,
         PartSent(i, p) \/ PartFails(i, p) \/ WakeUp(i, p)
  PROVE  UploadsInvariant'
  <1>0. /\ part[i][p] \in PartRecords /\ urls[i] \in [age: 0 .. MaxRenewals, renewing: BOOLEAN]
        /\ urls \in [Items -> [age: 0 .. MaxRenewals, renewing: BOOLEAN]] /\ RenewalsAreBounded
        /\ MaxRenewals \in Nat /\ Attempts \in Nat
    BY InvariantParts, BrowserUploadsAssumption DEF PartsAreGood
  <1>1. CASE PartSent(i, p)
    <2> DEFINE x == [part[i][p] EXCEPT !.step = "sent"]
    <2>1. x \in PartRecords /\ x.step = "sent"
      BY <1>0 DEF PartRecords
    <2>2. Uploading(i) /\ SetPart(i, p, x) /\ UNCHANGED <<shown, item, running, controller, urls>>
      BY <1>1 DEF PartSent
    <2> HIDE DEF x
    <2> QED
      BY <2>1, <2>2, UrlsStay, OnePartStepIsGood
  <1>2. CASE PartFails(i, p)
    <2> DEFINE again == [part[i][p] EXCEPT !.attempt = @ + 1]
    <2>1. /\ Uploading(i) /\ Live(i) /\ part[i][p].step = "put" /\ part[i][p].attempt < Attempts
          /\ UNCHANGED <<shown, item, running, controller>> /\ p \in InLanes(i)
      BY <1>2 DEF PartFails, InLanes
    <2>2. again \in PartRecords
      BY <1>0, <2>1 DEF PartRecords
    <2>3. \/ SetPart(i, p, [again EXCEPT !.step = "sleep"]) /\ UNCHANGED urls
          \/ SetPart(i, p, [again EXCEPT !.url = urls[i].age]) /\ UNCHANGED urls
          \/ /\ urls[i].age < MaxRenewals
             /\ SetPart(i, p, [again EXCEPT !.step = "renew"])
             /\ urls' = [urls EXCEPT ![i].renewing = TRUE]
      BY <1>2 DEF PartFails
    <2> HIDE DEF again
    <2>4. CASE SetPart(i, p, [again EXCEPT !.step = "sleep"]) /\ UNCHANGED urls
      <3>1. [again EXCEPT !.step = "sleep"] \in PartRecords
        BY <2>2 DEF PartRecords
      <3> QED
        BY <2>1, <2>4, <3>1, UrlsStay, OnePartStepIsGood
    <2>5. CASE SetPart(i, p, [again EXCEPT !.url = urls[i].age]) /\ UNCHANGED urls
      <3>1. [again EXCEPT !.url = urls[i].age] \in PartRecords
        BY <1>0, <2>2 DEF PartRecords
      <3> QED
        BY <2>1, <2>5, <3>1, UrlsStay, OnePartStepIsGood
    <2>6. CASE /\ urls[i].age < MaxRenewals
               /\ SetPart(i, p, [again EXCEPT !.step = "renew"])
               /\ urls' = [urls EXCEPT ![i].renewing = TRUE]
      <3>1. [again EXCEPT !.step = "renew"] \in PartRecords
        BY <2>2 DEF PartRecords
      <3>2. urls' \in [Items -> [age: 0 .. MaxRenewals, renewing: BOOLEAN]]
        BY <1>0, <2>6
      <3>3. RenewalsAreBounded'
        BY <1>0, <2>6 DEF RenewalsAreBounded
      <3> QED
        BY <2>1, <2>6, <3>1, <3>2, <3>3, OnePartStepIsGood
    <2> QED
      BY <2>3, <2>4, <2>5, <2>6
  <1>3. CASE WakeUp(i, p)
    BY <1>3, PutIsGood DEF WakeUp, InLanes
  <1> QED
    BY <1>1, <1>2, <1>3

LEMMA RenewedIsGood == ASSUME UploadsInvariant, NEW i \in Items, Renewed(i) PROVE UploadsInvariant'
  <1> DEFINE q == [p \in Parts |-> IF part[i][p].step = "renew"
                       THEN [part[i][p] EXCEPT !.step = "put", !.url = urls[i].age + 1] ELSE part[i][p]]
  <1>0. /\ PartsAreGood /\ MaxRenewals \in Nat /\ IsFiniteSet(Parts) /\ Lanes \in Nat
        /\ Uploading(i) /\ Live(i) /\ urls[i].renewing
        /\ urls' = [urls EXCEPT ![i] = [age |-> urls[i].age + 1, renewing |-> FALSE]]
        /\ UNCHANGED <<shown, item, running, controller>>
    BY InvariantParts, BrowserUploadsAssumption DEF Renewed
  <1>1. /\ part \in [Items -> [Parts -> PartRecords]]
        /\ urls \in [Items -> [age: 0 .. MaxRenewals, renewing: BOOLEAN]]
        /\ urls[i] \in [age: 0 .. MaxRenewals, renewing: BOOLEAN]
        /\ Cardinality(InLanes(i)) <= Lanes /\ RenewalsAreBounded /\ urls[i].age < MaxRenewals
    BY <1>0 DEF PartsAreGood, RenewalsAreBounded
  <1>2. urls[i].age + 1 \in 0 .. MaxRenewals
    BY <1>0, <1>1
  <1>3. ASSUME NEW p \in Parts
        PROVE  /\ q[p] \in PartRecords
               /\ q[p].step \in {"put", "renew", "sleep"} => part[i][p].step \in {"put", "renew", "sleep"}
    <2>1. part[i][p] \in PartRecords
      BY <1>1
    <2>2. CASE part[i][p].step = "renew"
      <3>1. q[p] = [part[i][p] EXCEPT !.step = "put", !.url = urls[i].age + 1]
        BY <2>2
      <3> HIDE DEF q
      <3>2. [part[i][p] EXCEPT !.step = "put", !.url = urls[i].age + 1] \in PartRecords
        BY <1>2, <2>1 DEF PartRecords
      <3> QED
        BY <2>2, <3>1, <3>2
    <2>3. CASE part[i][p].step # "renew"
      <3>1. q[p] = part[i][p]
        BY <2>3
      <3> HIDE DEF q
      <3> QED
        BY <2>1, <3>1
    <2> QED
      BY <2>2, <2>3
  <1>4. q \in [Parts -> PartRecords]
    BY <1>3
  <1>5. part' = [part EXCEPT ![i] = q]
    BY <1>1 DEF Renewed
  <1> HIDE DEF q
  <1>6. Cardinality({p \in Parts : q[p].step \in {"put", "renew", "sleep"}}) <= Lanes
    <2> DEFINE lanes == {p \in Parts : q[p].step \in {"put", "renew", "sleep"}}
    <2>1. lanes \subseteq InLanes(i) /\ InLanes(i) \subseteq Parts
      BY <1>3 DEF InLanes
    <2> HIDE DEF lanes
    <2>2. /\ Cardinality(lanes) <= Cardinality(InLanes(i))
          /\ Cardinality(lanes) \in Nat /\ Cardinality(InLanes(i)) \in Nat
      <3>1. IsFiniteSet(InLanes(i))
        BY <1>0, <2>1, FS_Subset
      <3>2. IsFiniteSet(lanes) /\ Cardinality(lanes) <= Cardinality(InLanes(i))
        BY <2>1, <3>1, FS_Subset
      <3> QED
        BY <3>1, <3>2, FS_CardinalityType
    <2>3. Cardinality(lanes) <= Lanes
      BY <1>0, <1>1, <2>2
    <2> QED
      BY <2>3 DEF lanes
  <1>7. urls' \in [Items -> [age: 0 .. MaxRenewals, renewing: BOOLEAN]] /\ RenewalsAreBounded'
    BY <1>0, <1>1, <1>2 DEF RenewalsAreBounded
  <1> QED
    BY <1>0, <1>4, <1>5, <1>6, <1>7, LanesStepIsGood

\* A file changes its status and nobody begins or stops to work.
LEMMA StatusStepIsGood ==
  ASSUME UploadsInvariant, NEW i \in Items, NEW s \in Statuses \ {"waiting"}, InLanes(i) = {},
         item' = [item EXCEPT ![i].status = s], s \in AtWork <=> controller[i] # "none",
         s \in Active => i \in Range(shown),
         UNCHANGED <<shown, running, controller, part, urls>>
  PROVE  UploadsInvariant'
  <1>0. /\ controller \in [Items -> {"none", "live", "aborted"}] /\ item \in [Items -> ItemRecords]
        /\ shown \in Seq(Items) /\ \A k, l \in DOMAIN shown : shown[k] = shown[l] => k = l
        /\ running \in 0 .. ParallelFiles /\ running = Cardinality({j \in Items : controller[j] # "none"})
        /\ PartsAreGood /\ RunsAreControlled /\ ActiveIsShown /\ LanesAreOfUploads /\ WaitingHasAReason
    BY InvariantParts
  <1>1. /\ item' \in [Items -> ItemRecords] /\ item'[i].status = s
        /\ \A j \in Items : j # i => item'[j] = item[j]
    <2>1. item' \in ItemWrites(i, s, item[i].file, item[i].retries)
      BY DEF ItemWrites
    <2>2. item[i].file \in BOOLEAN /\ item[i].retries \in 0 .. MaxRetries
      BY <1>0 DEF ItemRecords
    <2> QED
      BY <1>0, <2>1, <2>2, ItemChanges
  <1>2. RunsAreControlled'
    BY <1>0, <1>1 DEF RunsAreControlled, Status
  <1>3. ActiveIsShown'
    BY <1>0, <1>1 DEF ActiveIsShown, Status
  <1>4. LanesAreOfUploads'
    BY <1>0, <1>1 DEF LanesAreOfUploads, Status, Live, InLanes
  <1>5. WaitingHasAReason'
    BY <1>0, <1>1 DEF WaitingHasAReason, Status
  <1>6. PartsAreGood'
    BY <1>0 DEF PartsAreGood, InLanes, RenewalsAreBounded
  <1> QED
    BY <1>0, <1>1, <1>2, <1>3, <1>4, <1>5, <1>6
       DEF UploadsInvariant, BrowserUploadsTypeOK, ListIsWhole, PartsAreGood, ItemRecords, PartRecords, InLanes

LEMMA RunGoesOn ==
  ASSUME UploadsInvariant, NEW i \in Items, Hashed(i) \/ Created(i) \/ PartsSent(i)
  PROVE  UploadsInvariant'
  <1> DEFINE s == item'[i].status
  <1>0. RunsAreControlled /\ ActiveIsShown /\ LanesAreOfUploads /\ item \in [Items -> ItemRecords]
    BY InvariantParts
  <1>1. /\ controller[i] # "none" /\ Status(i) \in AtWork /\ InLanes(i) = {}
        /\ \E t \in {"creating", "uploading", "finishing"} : item' = [item EXCEPT ![i].status = t]
        /\ UNCHANGED <<shown, running, controller, part, urls>>
    <2>1. CASE Hashed(i) \/ Created(i)
      BY <1>0, <2>1 DEF Hashed, Created, Goes, Live, Status, AtWork, Active, LanesAreOfUploads, InLanes
    <2>2. CASE PartsSent(i)
      BY <2>2 DEF PartsSent, Uploading, Status, AtWork, Active
    <2> QED
      BY <2>1, <2>2
  <1>2. PICK t \in {"creating", "uploading", "finishing"} : item' = [item EXCEPT ![i].status = t]
    BY <1>1
  <1>3. t \in Statuses \ {"waiting"} /\ t \in AtWork /\ i \in Range(shown)
    BY <1>0, <1>1 DEF Statuses, AtWork, Active, ActiveIsShown
  <1> QED
    BY <1>1, <1>2, <1>3, StatusStepIsGood

LEMMA CancelIsGood == ASSUME UploadsInvariant, NEW i \in Items, Cancel(i) PROVE UploadsInvariant'
  <1>0. /\ controller \in [Items -> {"none", "live", "aborted"}] /\ item \in [Items -> ItemRecords]
        /\ shown \in Seq(Items) /\ \A k, l \in DOMAIN shown : shown[k] = shown[l] => k = l
        /\ running \in 0 .. ParallelFiles /\ running = Cardinality({j \in Items : controller[j] # "none"})
        /\ PartsAreGood /\ RunsAreControlled /\ ActiveIsShown /\ LanesAreOfUploads /\ WaitingHasAReason
        /\ UNCHANGED <<shown, running, urls>>
    BY InvariantParts DEF Cancel
  <1>1. CASE controller[i] = "none"
    <2>1. /\ item' = [item EXCEPT ![i].status = "cancelled"] /\ UNCHANGED <<controller, part>>
      BY <1>1 DEF Cancel
    <2>2. "cancelled" \in Statuses \ {"waiting"} /\ "cancelled" \notin Active /\ "cancelled" \notin AtWork
      BY DEF Statuses, Active, AtWork
    <2>3. InLanes(i) = {}
      BY <1>0, <1>1 DEF RunsAreControlled, LanesAreOfUploads, InLanes, AtWork, Active
    <2> QED
      BY <1>0, <1>1, <2>1, <2>2, <2>3, StatusStepIsGood
  <1>2. CASE controller[i] # "none"
    <2> DEFINE q == [p \in Parts |-> IF part[i][p].step = "put" THEN NoPart ELSE part[i][p]]
    <2>1. /\ controller' = [controller EXCEPT ![i] = "aborted"] /\ UNCHANGED item
          /\ part' = [part EXCEPT ![i] = q]
      BY <1>0, <1>2 DEF Cancel, PartsAreGood
    <2>2. /\ part[i] \in [Parts -> PartRecords] /\ Cardinality(InLanes(i)) <= Lanes /\ NoPart \in PartRecords
          /\ NoPart.step = "queued" /\ IsFiniteSet(Parts) /\ Lanes \in Nat
      BY <1>0, BrowserUploadsAssumption DEF PartsAreGood, NoPart, PartRecords
    <2>3. /\ q \in [Parts -> PartRecords]
          /\ \A p \in Parts : /\ q[p].step # "put"
                              /\ q[p].step \in {"renew", "sleep"} => q[p] = part[i][p]
      BY <2>2
    <2> HIDE DEF q
    <2>4. Cardinality({p \in Parts : q[p].step \in {"put", "renew", "sleep"}}) <= Lanes
      <3> DEFINE lanes == {p \in Parts : q[p].step \in {"put", "renew", "sleep"}}
      <3>1. lanes \subseteq InLanes(i) /\ InLanes(i) \subseteq Parts
        BY <2>3 DEF InLanes
      <3> HIDE DEF lanes
      <3>2. IsFiniteSet(InLanes(i))
        BY <2>2, <3>1, FS_Subset
      <3>3. IsFiniteSet(lanes) /\ Cardinality(lanes) <= Cardinality(InLanes(i))
        BY <3>1, <3>2, FS_Subset
      <3>4. Cardinality(lanes) \in Nat /\ Cardinality(InLanes(i)) \in Nat
        BY <3>2, <3>3, FS_CardinalityType
      <3>5. Cardinality(lanes) <= Lanes
        BY <2>2, <3>3, <3>4
      <3> QED
        BY <3>5 DEF lanes
    <2>5. PartsAreGood' /\ part'[i] = q /\ \A j \in Items : j # i => part'[j] = part[j]
      BY <1>0, <2>1, <2>3, <2>4, UrlsStay, PartsOfOneChange
    <2>6. /\ controller' \in [Items -> {"none", "live", "aborted"}]
          /\ \A j \in Items : controller'[j] # "none" <=> controller[j] # "none"
          /\ \A j \in Items : j # i => controller'[j] = controller[j]
      BY <1>0, <1>2, <2>1
    <2>7. running' = Cardinality({j \in Items : controller'[j] # "none"})
      <3>1. {j \in Items : controller'[j] # "none"} = {j \in Items : controller[j] # "none"}
        BY <2>6
      <3> QED
        BY <1>0, <3>1
    <2>8. RunsAreControlled' /\ ActiveIsShown' /\ WaitingHasAReason'
      BY <1>0, <2>1, <2>6 DEF RunsAreControlled, ActiveIsShown, WaitingHasAReason, Status
    <2>9. LanesAreOfUploads'
      <3> SUFFICES ASSUME NEW j \in Items, NEW p \in Parts
                   PROVE  /\ part'[j][p].step \in {"put", "renew", "sleep"} => item[j].status = "uploading"
                          /\ part'[j][p].step = "put" => controller'[j] = "live"
        BY <2>1 DEF LanesAreOfUploads, Status, Live
      <3>1. CASE j = i
        BY <1>0, <2>3, <2>5, <3>1 DEF LanesAreOfUploads, Status
      <3>2. CASE j # i
        BY <1>0, <2>5, <2>6, <3>2 DEF LanesAreOfUploads, Status, Live
      <3> QED
        BY <3>1, <3>2
    <2>10. PartsAreGood' /\ UNCHANGED <<shown, item, running>>
      BY <1>0, <2>1, <2>5
    <2> QED
      BY <1>0, <2>6, <2>7, <2>8, <2>9, <2>10
         DEF UploadsInvariant, BrowserUploadsTypeOK, ListIsWhole, PartsAreGood, ItemRecords, PartRecords,
             InLanes
  <1> QED
    BY <1>1, <1>2

LEMMA DismissIsGood == ASSUME UploadsInvariant, NEW i \in Items, Dismiss(i) PROVE UploadsInvariant'
  <1>0. /\ controller \in [Items -> {"none", "live", "aborted"}] /\ item \in [Items -> ItemRecords]
        /\ shown \in Seq(Items) /\ \A k, l \in DOMAIN shown : shown[k] = shown[l] => k = l
        /\ running \in 0 .. ParallelFiles /\ running = Cardinality({j \in Items : controller[j] # "none"})
        /\ PartsAreGood /\ RunsAreControlled /\ ActiveIsShown /\ LanesAreOfUploads /\ WaitingHasAReason
        /\ i \in Range(shown) /\ Status(i) \notin Active
        /\ shown' = ListWithout(i) /\ UNCHANGED <<running, controller, part, urls>>
        /\ item' = [item EXCEPT ![i] = [status |-> "done", file |-> FALSE, retries |-> MaxRetries]]
    BY InvariantParts DEF Dismiss
  <1>1. /\ shown' \in Seq(Items) /\ \A k, l \in DOMAIN shown' : shown'[k] = shown'[l] => k = l
        /\ Range(shown') = Range(shown) \ {i}
    BY <1>0, ListWithoutOne
  <1>2. /\ item' \in [Items -> ItemRecords] /\ item'[i].status = "done"
        /\ \A j \in Items : j # i => item'[j] = item[j]
    <2>1. item' \in ItemWrites(i, "done", FALSE, MaxRetries)
      BY <1>0 DEF ItemWrites
    <2>2. MaxRetries \in 0 .. MaxRetries /\ "done" \in Statuses
      BY BrowserUploadsAssumption DEF Statuses
    <2> QED
      BY <1>0, <2>1, <2>2, ItemChanges
  <1>3. RunsAreControlled'
    BY <1>0, <1>2 DEF RunsAreControlled, Status, AtWork, Active
  <1>4. ActiveIsShown'
    BY <1>0, <1>1, <1>2 DEF ActiveIsShown, Status, Active
  <1>5. LanesAreOfUploads'
    BY <1>0, <1>2 DEF LanesAreOfUploads, Status, Live, Active
  <1>6. WaitingHasAReason'
    BY <1>0, <1>2 DEF WaitingHasAReason, Status
  <1>7. PartsAreGood'
    BY <1>0 DEF PartsAreGood, InLanes, RenewalsAreBounded
  <1> QED
    BY <1>0, <1>1, <1>2, <1>3, <1>4, <1>5, <1>6, <1>7
       DEF UploadsInvariant, BrowserUploadsTypeOK, ListIsWhole, PartsAreGood, ItemRecords, PartRecords, InLanes

LEMMA RunEndsIsGood ==
  ASSUME UploadsInvariant, NEW i \in Items, Duplicate(i) \/ Completed(i) \/ RunFails(i) \/ UploadStops(i)
  PROVE  UploadsInvariant'
  <1>1. item[i].file \in BOOLEAN
    BY InvariantParts DEF ItemRecords
  <1>2. CASE Duplicate(i)
    BY <1>2, EndRunIsGood DEF Duplicate, Live
  <1>3. CASE Completed(i)
    BY <1>3, EndRunIsGood DEF Completed
  <1>4. CASE RunFails(i) \/ UploadStops(i)
    <2>1. controller[i] # "none" /\ EndRun(i, IF Live(i) THEN "failed" ELSE "cancelled", item[i].file)
      BY <1>4 DEF RunFails, UploadStops, Uploading
    <2> QED
      BY <1>1, <2>1, EndRunIsGood
  <1> QED
    BY <1>2, <1>3, <1>4

LEMMA UploadsInvariantAtStart == BrowserUploadsInit => UploadsInvariant
  <1> SUFFICES ASSUME BrowserUploadsInit PROVE UploadsInvariant
    OBVIOUS
  <1>0. /\ shown = <<>> /\ running = 0 /\ controller = [i \in Items |-> "none"]
        /\ item = [i \in Items |-> [status |-> "done", file |-> FALSE, retries |-> 0]]
        /\ part = [i \in Items |-> Unsent]
        /\ urls = [i \in Items |-> [age |-> 0, renewing |-> FALSE]]
        /\ MaxRetries \in Nat /\ MaxRenewals \in Nat /\ ParallelFiles \in Nat
    BY BrowserUploadsAssumption DEF BrowserUploadsInit
  <1>1. item \in [Items -> ItemRecords] /\ \A i \in Items : Status(i) = "done"
    BY <1>0 DEF ItemRecords, Statuses, Status
  <1>2. running \in 0 .. ParallelFiles /\ running = Cardinality({i \in Items : controller[i] # "none"})
    <2>1. {i \in Items : controller[i] # "none"} = {}
      BY <1>0
    <2>2. 0 \in 0 .. ParallelFiles /\ Cardinality({}) = 0
      BY <1>0, FS_EmptySet
    <2> QED
      BY <1>0, <2>1, <2>2
  <1>3. PartsAreGood
    <2>1. \A i \in Items : InLanes(i) = {p \in Parts : Unsent[p].step \in {"put", "renew", "sleep"}}
      BY <1>0 DEF InLanes
    <2>2. \A i \in Items : Cardinality(InLanes(i)) <= Lanes
      BY <2>1, NothingIsSentYet
    <2>3. part \in [Items -> [Parts -> PartRecords]]
      BY <1>0, NothingIsSentYet
    <2>4. urls \in [Items -> [age: 0 .. MaxRenewals, renewing: BOOLEAN]]
      BY <1>0
    <2>5. RenewalsAreBounded
      BY <1>0 DEF RenewalsAreBounded
    <2> QED
      BY <2>2, <2>3, <2>4, <2>5 DEF PartsAreGood
  <1>4. LanesAreOfUploads
    BY <1>0, NothingIsSentYet DEF LanesAreOfUploads
  <1>5. RunsAreControlled /\ ActiveIsShown /\ WaitingHasAReason
    BY <1>0, <1>1 DEF RunsAreControlled, ActiveIsShown, WaitingHasAReason, AtWork, Active
  <1>6. /\ shown \in Seq(Items) /\ \A k, l \in DOMAIN shown : shown[k] = shown[l] => k = l
        /\ controller \in [Items -> {"none", "live", "aborted"}]
    BY <1>0
  <1> QED
    BY <1>1, <1>2, <1>3, <1>4, <1>5, <1>6, InvariantParts

LEMMA UploadsStepIsGood == UploadsInvariant /\ [BrowserUploadsNext]_uploadsVars => UploadsInvariant'
  <1> SUFFICES ASSUME UploadsInvariant, [BrowserUploadsNext]_uploadsVars PROVE UploadsInvariant'
    OBVIOUS
  <1>1. CASE UNCHANGED uploadsVars
    BY <1>1 DEF uploadsVars, UploadsInvariant, BrowserUploadsTypeOK, ListIsWhole, RunsAreControlled,
       ActiveIsShown, LanesAreOfUploads, RenewalsAreBounded, WaitingHasAReason, Status, Live
  <1>2. CASE BrowserUploadsNext
    BY <1>2, EnqueueIsGood, RetryIsGood, CancelIsGood, DismissIsGood, RunGoesOn, RunEndsIsGood,
       TakePartIsGood, RenewedIsGood, PartStepIsGood DEF BrowserUploadsNext
  <1> QED
    BY <1>1, <1>2

\* For every number of files, parts and lanes: the counter of pump is the
\* number of runs at work, never above PARALLEL_FILES; a file that is active is
\* in the list; parts are on lanes, never more than UPLOAD_CONCURRENCY, only
\* while their file is uploading (uploads.ts, multipart.ts).
THEOREM UploadsInvariantHolds == BrowserUploadsSpec => []UploadsInvariant
  BY UploadsInvariantAtStart, UploadsStepIsGood, PTL DEF BrowserUploadsSpec

\* A file of the list waits only while PARALLEL_FILES others run: enqueue,
\* retry and every end of a run start the next one.
THEOREM WaitingAlwaysHasAReason == BrowserUploadsSpec => []WaitingHasAReason
  BY UploadsInvariantHolds, PTL DEF UploadsInvariant

\* No part of a file that failed, was cancelled or was dismissed is in flight.
THEOREM StoppedAlwaysSendsNothing == BrowserUploadsSpec => []StoppedSendsNothing
  <1>1. UploadsInvariant => StoppedSendsNothing
    BY DEF UploadsInvariant, LanesAreOfUploads, StoppedSendsNothing
  <1> QED
    BY <1>1, UploadsInvariantHolds, PTL
-----------------------------------------------------------------------------
(* The library of LibraryList.                                             *)

\* A page is some rows and their states; a cursor, no row, a row or none left.
LibraryPages == UNION {[S -> States] : S \in SUBSET Assets}
Cursors == [at : {Start, End}] \cup [at : {"row"}, row : Assets]
Told == [id : Assets, state : States]

\* The pages of a list that a row is on, and those rows that come after them.
On(ps, a) == {k \in DOMAIN ps : a \in DOMAIN ps[k]}
Further(a, c) == c.at = "row" /\ Newer(c.row, a)

\* Of the rows in U, which all match, each that the cursor has passed is there
\* once, and the others are not there yet.
OnceEach(ps, c, U) ==
    \A a \in U : /\ a \in Visible(row, filter)
                 /\ IF Further(a, c) THEN On(ps, a) = {} ELSE \E k \in On(ps, a) : On(ps, a) = {k}
MatchesFilter(ps) == \A k \in DOMAIN ps : \A a \in DOMAIN ps[k] : Matches(ps[k][a], filter)

ShownOnce == IF pages = <<>> THEN untouched.pages = {} /\ cursor.at = Start
             ELSE cursor.at # Start /\ OnceEach(pages, cursor, untouched.pages)
FetchedOnce == fetch.left > 0 =>
    IF fetch.cursor.at = Start THEN fetch.got = <<>>
    ELSE fetch.cursor.at = "row" /\ OnceEach(fetch.got, fetch.cursor, untouched.fetch)

LibraryTypes ==
    /\ row \in [Assets -> States \cup {"absent", "deleted"}]
    /\ filter \in States \cup {"all"} /\ changes \in 0 .. MaxChanges
    /\ pages \in Seq(LibraryPages) /\ cursor \in Cursors
    /\ fetch \in [left : Nat, more : BOOLEAN, got : Seq(LibraryPages), cursor : Cursors]
    /\ untouched \in [pages : SUBSET Assets, fetch : SUBSET Assets]
    /\ events \in Seq(Told) /\ details \in Seq(Told)
    /\ Len(events) <= MaxEvents /\ Len(details) <= MaxDetails

LibraryInvariant ==
    /\ LibraryTypes
    /\ MatchesFilter(pages) /\ MatchesFilter(fetch.got)
    /\ ShownOnce /\ FetchedOnce
-----------------------------------------------------------------------------
LEMMA NewerIsTotal ==
  /\ \A a, b \in Assets : a # b => Newer(a, b) \/ Newer(b, a)
  /\ \A a, b \in Assets : Newer(a, b) => ~Newer(b, a)
  /\ \A a, b, c \in Assets : Newer(a, b) /\ Newer(b, c) => Newer(a, c)
  <1>1. /\ \A a \in Assets : a \in Nat /\ CreatedAt[a] \in Nat
    BY LibraryListAssumption
  <1> QED
    BY <1>1 DEF Newer

\* Some rows have a newest and an oldest: the last or first instant, and of
\* those of one instant the greatest or least id.
LEMMA NewestAndOldest ==
  ASSUME NEW S \in SUBSET Assets, S # {}
  PROVE  /\ \E m \in S : \A a \in S \ {m} : Newer(m, a)
         /\ \E m \in S : \A a \in S \ {m} : Newer(a, m)
  <1> DEFINE f == [a \in S |-> CreatedAt[a]]
             T == {CreatedAt[a] : a \in S}
             Of(t) == {a \in S : CreatedAt[a] = t}
  <1>1. IsFiniteSet(S) /\ (\A a \in S : a \in Nat /\ CreatedAt[a] \in Nat)
    BY LibraryListAssumption, FS_Subset
  <1>2. IsFiniteSet(T) /\ T \in SUBSET Nat /\ T # {}
    <2>1. IsFiniteSet(T)
      <3>1. f \in Surjection(S, T)
        BY DEF Surjection
      <3> HIDE DEF f, T
      <3> QED
        BY <1>1, <3>1, FS_Surjection
    <2> QED
      BY <1>1, <2>1
  <1>3. \A t : IsFiniteSet(Of(t)) /\ Of(t) \in SUBSET Nat
    BY <1>1, FS_Subset
  <1>4. \A t \in T : Of(t) # {}
    OBVIOUS
  <1>5. PICK t \in T : \A u \in T : u <= t
    <2> HIDE DEF T
    <2> QED
      BY <1>2, GreatestOf
  <1>6. PICK s \in T : \A u \in T : s <= u
    <2> HIDE DEF T
    <2> QED
      BY <1>2, LeastOf
  <1>7. PICK m \in Of(t) : \A a \in Of(t) : a <= m
    <2> HIDE DEF Of
    <2> QED
      BY <1>3, <1>4, <1>5, GreatestOf
  <1>8. PICK l \in Of(s) : \A a \in Of(s) : l <= a
    <2> HIDE DEF Of
    <2> QED
      BY <1>3, <1>4, <1>6, LeastOf
  <1>9. \A a \in S \ {m} : Newer(m, a)
    BY <1>1, <1>5, <1>7 DEF Newer
  <1>10. \A a \in S \ {l} : Newer(a, l)
    <2> SUFFICES ASSUME NEW a \in S, a # l PROVE Newer(a, l)
      OBVIOUS
    <2>1. l \in S /\ CreatedAt[l] = s /\ s <= CreatedAt[a] /\ (CreatedAt[a] = s => l <= a)
      BY <1>6, <1>8
    <2> QED
      BY <1>1, <2>1 DEF Newer
  <1> QED
    BY <1>7, <1>8, <1>9, <1>10

\* A page has the newest of the rows after the cursor, and its next cursor is
\* what the rows that are left come after.
LEMMA PageIsTheNewest ==
  ASSUME row \in [Assets -> States \cup {"absent", "deleted"}], NEW c \in Cursors
  PROVE  LET reply == ListPage(c)
             found == {a \in Visible(row, filter) : AfterCursor(a, c)}
         IN  /\ reply.items \in LibraryPages
             /\ \A a \in DOMAIN reply.items : a \in found /\ Matches(reply.items[a], filter)
             /\ reply.next \in Cursors /\ reply.next.at # Start
             /\ reply.next.at = "row" => reply.next.row \in found
             /\ \A a \in found : a \in DOMAIN reply.items <=> ~Further(a, reply.next)
  <1> DEFINE found == {a \in Visible(row, filter) : AfterCursor(a, c)}
             above(a) == {b \in found : Newer(b, a)}
             onePage == {a \in found : Cardinality(above(a)) < PageSize}
             oldest == CHOOSE a \in onePage : \A b \in onePage \ {a} : Newer(b, a)
             items == [a \in onePage |-> row[a]]
             next == IF onePage # found THEN [at |-> "row", row |-> oldest] ELSE [at |-> End]
  <1>1. found \subseteq Assets /\ onePage \subseteq found /\ IsFiniteSet(found)
    <2>1. found \subseteq Assets
      BY DEF Visible
    <2> QED
      BY <2>1, LibraryListAssumption, FS_Subset
  <1>2. \A a \in found : row[a] \in States /\ Matches(row[a], filter)
    BY DEF Visible
  <1>3. \A a : IsFiniteSet(above(a)) /\ Cardinality(above(a)) \in Nat
    <2>1. \A a : IsFiniteSet(above(a))
      BY <1>1, FS_Subset
    <2> QED
      BY <2>1, FS_CardinalityType
  <1>4. ASSUME NEW a \in found \ onePage, NEW b \in onePage PROVE Newer(b, a)
    <2> SUFFICES ASSUME ~Newer(b, a) PROVE FALSE
      OBVIOUS
    <2>1. Newer(a, b)
      BY <1>1, NewerIsTotal
    <2>2. above(a) \subseteq above(b)
      BY <1>1, <2>1, NewerIsTotal
    <2>3. Cardinality(above(a)) <= Cardinality(above(b))
      BY <1>3, <2>2, FS_Subset
    <2>4. Cardinality(above(b)) < PageSize /\ ~(Cardinality(above(a)) < PageSize)
      OBVIOUS
    <2> DEFINE n == Cardinality(above(a))
               m == Cardinality(above(b))
    <2>5. n \in Nat /\ m \in Nat /\ PageSize \in Nat /\ n <= m /\ m < PageSize /\ ~(n < PageSize)
      BY <1>3, <2>3, <2>4, LibraryListAssumption
    <2> HIDE DEF n, m
    <2> QED
      BY <2>5
  <1>5. found # {} => onePage # {}
    <2> SUFFICES ASSUME found # {} PROVE onePage # {}
      OBVIOUS
    <2>1. PICK m \in found : \A a \in found \ {m} : Newer(m, a)
      <3> HIDE DEF found
      <3> QED
        BY <1>1, NewestAndOldest
    <2>2. above(m) = {}
      <3>1. \A a \in Assets : ~Newer(a, a)
        BY NewerIsTotal
      <3> QED
        BY <1>1, <2>1, <3>1, NewerIsTotal
    <2>3. Cardinality(above(m)) = 0
      BY <2>2, FS_EmptySet
    <2>4. 0 < PageSize
      BY LibraryListAssumption
    <2> QED
      BY <2>1, <2>3, <2>4
  <1>6. onePage # {} => oldest \in onePage /\ \A b \in onePage \ {oldest} : Newer(b, oldest)
    <2> HIDE DEF onePage
    <2>1. onePage # {} => \E a \in onePage : \A b \in onePage \ {a} : Newer(b, a)
      BY <1>1, NewestAndOldest
    <2> QED
      BY <2>1
  <1>7. ListPage(c) = [items |-> items, next |-> next]
    BY DEF ListPage
  <1> HIDE DEF onePage, oldest
  <1>8. items \in LibraryPages
    <2>1. onePage \in SUBSET Assets /\ items \in [onePage -> States]
      BY <1>1, <1>2
    <2> HIDE DEF items
    <2> QED
      BY <2>1 DEF LibraryPages
  <1>9. next \in Cursors /\ next.at # Start /\ (next.at = "row" => next.row \in found)
    BY <1>1, <1>5, <1>6 DEF Cursors, Start, End
  <1>10. ASSUME NEW a \in found PROVE a \in onePage <=> ~Further(a, next)
    <2>1. CASE onePage = found
      BY <2>1 DEF Further, End
    <2>2. CASE onePage # found
      <3>1. onePage # {} /\ oldest \in onePage /\ oldest \in Assets
        BY <1>1, <1>5, <1>6, <2>2
      <3>2. next.at = "row" /\ next.row = oldest
        BY <2>2
      <3>3. ASSUME a \in onePage PROVE ~Newer(oldest, a)
        BY <1>1, <1>6, <3>1, <3>3, NewerIsTotal
      <3>4. ASSUME a \notin onePage PROVE Newer(oldest, a)
        BY <1>4, <3>1, <3>4
      <3> QED
        BY <3>2, <3>3, <3>4 DEF Further
    <2> QED
      BY <2>1, <2>2
  <1> HIDE DEF next
  <1>11. \A a \in DOMAIN items : a \in found /\ Matches(items[a], filter)
    BY <1>1, <1>2
  <1>12. DOMAIN items = onePage
    OBVIOUS
  <1> HIDE DEF items, found
  <1> QED
    BY <1>7, <1>8, <1>9, <1>10, <1>11, <1>12 DEF found

\* The library after something was said of one row: only that row moves.
EditOf(a, ps) ==
    /\ ps \in Seq(LibraryPages) /\ DOMAIN ps = DOMAIN pages
    /\ \A b \in Assets \ {a} : On(ps, b) = On(pages, b)
    /\ MatchesFilter(ps)

LEMMA PagesWithIsEdit ==
  ASSUME LibraryInvariant, NEW a \in Assets, NEW state \in States, Matches(state, filter)
  PROVE  EditOf(a, PagesWith(a, state))
  <1> DEFINE holders == IF Places(a) = {} THEN {1} ELSE Places(a)
             on(k) == DOMAIN pages[k] \cup {a}
             onePage(k) == IF k \in holders THEN [b \in on(k) |-> IF b = a THEN state ELSE pages[k][b]]
                        ELSE pages[k]
             ps == [k \in DOMAIN pages |-> onePage(k)]
  <1>1. pages \in Seq(LibraryPages) /\ DOMAIN pages = 1 .. Len(pages) /\ Len(pages) \in Nat
    BY DEF LibraryInvariant, LibraryTypes
  <1>2. ASSUME NEW k \in DOMAIN pages
        PROVE  /\ pages[k] \in [DOMAIN pages[k] -> States] /\ DOMAIN pages[k] \in SUBSET Assets
               /\ \A b \in DOMAIN pages[k] : Matches(pages[k][b], filter)
    <2>1. pages[k] \in LibraryPages
      BY <1>1
    <2> QED
      BY <2>1 DEF LibraryPages, LibraryInvariant, MatchesFilter
  <1>3. PagesWith(a, state) = ps
    BY DEF PagesWith
  <1> HIDE DEF holders
  <1>4. ASSUME NEW k \in DOMAIN pages
        PROVE  /\ onePage(k) \in LibraryPages
               /\ \A b \in DOMAIN onePage(k) : Matches(onePage(k)[b], filter)
               /\ \A b \in Assets \ {a} : b \in DOMAIN onePage(k) <=> b \in DOMAIN pages[k]
    <2>1. CASE k \in holders
      <3> DEFINE new == [b \in on(k) |-> IF b = a THEN state ELSE pages[k][b]]
      <3>1. onePage(k) = new
        BY <2>1
      <3>2. new \in [on(k) -> States] /\ on(k) \in SUBSET Assets
        BY <1>2
      <3>3. new \in LibraryPages
        <4> HIDE DEF new, on
        <4> QED
          BY <3>2 DEF LibraryPages
      <3>4. \A b \in on(k) : Matches(new[b], filter)
        BY <1>2
      <3>5. DOMAIN new = on(k)
        OBVIOUS
      <3> HIDE DEF new, onePage
      <3> QED
        BY <3>1, <3>3, <3>4, <3>5
    <2>2. CASE k \notin holders
      BY <1>1, <1>2, <2>2
    <2> QED
      BY <2>1, <2>2
  <1> HIDE DEF onePage
  <1>5. ps \in Seq(LibraryPages) /\ DOMAIN ps = DOMAIN pages
    BY <1>1, <1>4
  <1>6. \A k \in DOMAIN ps : ps[k] = onePage(k)
    OBVIOUS
  <1> HIDE DEF ps
  <1>7. \A b \in Assets \ {a} : On(ps, b) = On(pages, b)
    BY <1>4, <1>5, <1>6 DEF On
  <1>8. MatchesFilter(ps)
    BY <1>4, <1>5, <1>6 DEF MatchesFilter
  <1> QED
    BY <1>3, <1>5, <1>7, <1>8 DEF EditOf

LEMMA PagesWithoutIsEdit ==
  ASSUME LibraryInvariant, NEW a \in Assets
  PROVE  EditOf(a, PagesWithout(a))
  <1> DEFINE onePage(k) == Restrict(pages[k], DOMAIN pages[k] \ {a})
             ps == [k \in DOMAIN pages |-> onePage(k)]
  <1>1. pages \in Seq(LibraryPages) /\ DOMAIN pages = 1 .. Len(pages) /\ Len(pages) \in Nat
    BY DEF LibraryInvariant, LibraryTypes
  <1>2. ASSUME NEW k \in DOMAIN pages
        PROVE  /\ onePage(k) \in LibraryPages
               /\ \A b \in DOMAIN onePage(k) : Matches(onePage(k)[b], filter)
               /\ \A b \in Assets \ {a} : b \in DOMAIN onePage(k) <=> b \in DOMAIN pages[k]
    <2> DEFINE left == DOMAIN pages[k] \ {a}
    <2>1. pages[k] \in LibraryPages
      BY <1>1
    <2>2. /\ pages[k] \in [DOMAIN pages[k] -> States] /\ DOMAIN pages[k] \in SUBSET Assets
          /\ \A b \in DOMAIN pages[k] : Matches(pages[k][b], filter)
      BY <2>1 DEF LibraryPages, LibraryInvariant, MatchesFilter
    <2>3. onePage(k) = [b \in left |-> pages[k][b]]
      BY DEF Restrict
    <2>4. onePage(k) \in [left -> States] /\ left \in SUBSET Assets /\ DOMAIN onePage(k) = left
      BY <2>2, <2>3
    <2>5. onePage(k) \in LibraryPages
      <3> HIDE DEF onePage, left
      <3> QED
        BY <2>4 DEF LibraryPages
    <2>6. \A b \in left : onePage(k)[b] = pages[k][b]
      BY <2>3
    <2> HIDE DEF onePage
    <2> QED
      BY <2>2, <2>4, <2>5, <2>6
  <1>3. PagesWithout(a) = ps
    BY DEF PagesWithout
  <1> HIDE DEF onePage
  <1>5. ps \in Seq(LibraryPages) /\ DOMAIN ps = DOMAIN pages
    BY <1>1, <1>2
  <1>6. \A k \in DOMAIN ps : ps[k] = onePage(k)
    OBVIOUS
  <1> HIDE DEF ps
  <1>7. \A b \in Assets \ {a} : On(ps, b) = On(pages, b)
    BY <1>2, <1>5, <1>6 DEF On
  <1>8. MatchesFilter(ps)
    BY <1>2, <1>5, <1>6 DEF MatchesFilter
  <1> QED
    BY <1>3, <1>5, <1>7, <1>8 DEF EditOf

LEMMA UpsertedIsEdit ==
  ASSUME LibraryInvariant, NEW a \in Assets, NEW state \in States
  PROVE  EditOf(a, Upserted(a, state)) /\ EditOf(a, pages)
  <1>1. EditOf(a, pages)
    BY DEF EditOf, LibraryInvariant, LibraryTypes
  <1> QED
    BY <1>1, PagesWithIsEdit, PagesWithoutIsEdit DEF Upserted

\* A row that something was done to or said about is nobody's any more; of the
\* others, the pages have what they had.
LEMMA ForgettingIsGood ==
  ASSUME LibraryInvariant, NEW a \in Assets, Forget(a), EditOf(a, pages'),
         UNCHANGED <<filter, cursor, fetch>>,
         row' \in [Assets -> States \cup {"absent", "deleted"}],
         \A b \in Assets \ {a} : row'[b] = row[b]
  PROVE  /\ untouched' \in [pages : SUBSET Assets, fetch : SUBSET Assets]
         /\ pages' \in Seq(LibraryPages)
         /\ MatchesFilter(pages)' /\ MatchesFilter(fetch.got)' /\ ShownOnce' /\ FetchedOnce'
  <1> DEFINE U == untouched.pages \ {a}
             V == untouched.fetch \ {a}
  <1>1. untouched' = [pages |-> U, fetch |-> V]
        /\ untouched \in [pages : SUBSET Assets, fetch : SUBSET Assets]
    BY DEF Forget, LibraryInvariant, LibraryTypes
  <1>2. untouched'.pages = U /\ untouched'.fetch = V /\ U \in SUBSET Assets /\ V \in SUBSET Assets
        /\ U \subseteq untouched.pages /\ V \subseteq untouched.fetch /\ a \notin U /\ a \notin V
    BY <1>1
  <1>3. \A b \in Assets \ {a} : b \in Visible(row, filter) => b \in Visible(row', filter')
    BY DEF Visible
  <1>4. MatchesFilter(pages)' /\ MatchesFilter(fetch.got)'
    BY DEF EditOf, MatchesFilter, LibraryInvariant
  <1>5. pages' = <<>> <=> pages = <<>>
    <2>1. pages \in Seq(LibraryPages) /\ pages' \in Seq(LibraryPages) /\ DOMAIN pages' = DOMAIN pages
      BY DEF EditOf, LibraryInvariant, LibraryTypes
    <2> QED
      BY <2>1
  <1> HIDE DEF U, V
  <1>6. ShownOnce'
    <2>1. CASE pages = <<>>
      BY <1>2, <1>5, <2>1 DEF ShownOnce, LibraryInvariant
    <2>2. CASE pages # <<>>
      <3>1. cursor.at # Start /\ OnceEach(pages, cursor, untouched.pages)
        BY <2>2 DEF ShownOnce, LibraryInvariant
      <3>2. \A b \in U : On(pages, b)' = On(pages, b)
        <4>1. \A b \in U : On(pages', b) = On(pages, b)
          BY <1>2 DEF EditOf
        <4> QED
          BY <4>1 DEF On
      <3>3. OnceEach(pages, cursor, untouched.pages)'
        BY <1>2, <1>3, <3>1, <3>2 DEF OnceEach, Further, Newer
      <3> QED
        BY <1>5, <2>2, <3>1, <3>3 DEF ShownOnce
    <2> QED
      BY <2>1, <2>2
  <1>7. FetchedOnce'
    <2>1. FetchedOnce
      BY DEF LibraryInvariant
    <2>2. OnceEach(fetch.got, fetch.cursor, untouched.fetch) => OnceEach(fetch.got, fetch.cursor, untouched.fetch)'
      BY <1>2, <1>3 DEF OnceEach, Further, Newer, On
    <2> QED
      BY <2>1, <2>2 DEF FetchedOnce
  <1> QED
    BY <1>1, <1>2, <1>4, <1>6, <1>7 DEF EditOf

\* A step that does something to one row, or says something about it.
LEMMA RowStepIsGood ==
  ASSUME LibraryInvariant, NEW a \in Assets, Forget(a), EditOf(a, pages'),
         UNCHANGED <<filter, cursor, fetch>>,
         row' \in [Assets -> States \cup {"absent", "deleted"}],
         \A b \in Assets \ {a} : row'[b] = row[b],
         changes' \in 0 .. MaxChanges,
         events' \in Seq(Told) /\ Len(events') <= MaxEvents,
         details' \in Seq(Told) /\ Len(details') <= MaxDetails
  PROVE  LibraryInvariant'
  BY ForgettingIsGood DEF LibraryInvariant, LibraryTypes

LEMMA ChangeIsGood ==
  ASSUME LibraryInvariant, NEW a \in Assets, NEW state \in States \cup {"deleted"}, Change(a, state)
  PROVE  /\ Forget(a) /\ UNCHANGED <<filter, cursor, fetch, details>>
         /\ row' \in [Assets -> States \cup {"absent", "deleted"}] /\ row'[a] = state
         /\ \A b \in Assets \ {a} : row'[b] = row[b]
         /\ changes' \in 0 .. MaxChanges
         /\ details' \in Seq(Told) /\ Len(details') <= MaxDetails
  BY LibraryListAssumption DEF Change, LibraryInvariant, LibraryTypes

LEMMA PublishIsGood ==
  ASSUME LibraryInvariant, NEW a \in Assets, row'[a] \in States, Publish(a)
  PROVE  events' \in Seq(Told) /\ Len(events') <= MaxEvents
  <1> DEFINE e == [id |-> a, state |-> row'[a]]
  <1>1. e \in Told
    BY DEF Told
  <1>2. events \in Seq(Told) /\ Len(events) \in Nat /\ Len(events) < MaxEvents /\ MaxEvents \in Nat
    BY LibraryListAssumption DEF Publish, LibraryInvariant, LibraryTypes
  <1>3. events' = Append(events, e)
    BY DEF Publish
  <1> HIDE DEF e
  <1> QED
    BY <1>1, <1>2, <1>3

LEMMA RowChangeIsGood ==
  ASSUME LibraryInvariant, NEW a \in Assets, Insert(a) \/ Process(a) \/ RetryAsset(a) \/ Delete(a) \/ Rename(a)
  PROVE  LibraryInvariant'
  <1>0. EditOf(a, pages) /\ "processing" \in States /\ events \in Seq(Told) /\ Len(events) <= MaxEvents
    BY UpsertedIsEdit DEF States, LibraryInvariant, LibraryTypes
  <1>1. CASE Insert(a)
    <2>1. Change(a, "processing") /\ EditOf(a, pages') /\ UNCHANGED events
      BY <1>0, <1>1, UpsertedIsEdit DEF Insert
    <2> QED
      BY <1>0, <2>1, ChangeIsGood, RowStepIsGood
  <1>2. CASE Process(a)
    <2>1. PICK state \in {"ready", "failed"} : Change(a, state)
      BY <1>2 DEF Process
    <2>2. state \in States /\ Publish(a) /\ EditOf(a, pages')
      BY <1>0, <1>2 DEF Process, States
    <2>3. row'[a] = state
      BY <2>1, <2>2, ChangeIsGood
    <2>4. events' \in Seq(Told) /\ Len(events') <= MaxEvents
      BY <2>2, <2>3, PublishIsGood
    <2> QED
      BY <2>1, <2>2, <2>4, ChangeIsGood, RowStepIsGood
  <1>3. CASE RetryAsset(a)
    <2>1. Change(a, "processing") /\ EditOf(a, pages') /\ Publish(a)
      BY <1>0, <1>3, UpsertedIsEdit DEF RetryAsset
    <2>2. row'[a] = "processing"
      BY <1>0, <2>1, ChangeIsGood
    <2>3. events' \in Seq(Told) /\ Len(events') <= MaxEvents
      BY <1>0, <2>1, <2>2, PublishIsGood
    <2> QED
      BY <1>0, <2>1, <2>3, ChangeIsGood, RowStepIsGood
  <1>4. CASE Delete(a)
    <2>1. Change(a, "deleted") /\ EditOf(a, pages') /\ UNCHANGED events
      BY <1>0, <1>4, PagesWithoutIsEdit DEF Delete
    <2> QED
      BY <1>0, <2>1, ChangeIsGood, RowStepIsGood
  <1>5. CASE Rename(a)
    <2>1. EditOf(a, pages') /\ Forget(a) /\ UNCHANGED <<row, changes, filter, cursor, fetch, events, details>>
      BY <1>5, UpsertedIsEdit DEF Rename
    <2> QED
      BY <2>1, RowStepIsGood DEF LibraryInvariant, LibraryTypes
  <1> QED
    BY <1>1, <1>2, <1>3, <1>4, <1>5

LEMMA EventIsGood == ASSUME LibraryInvariant, EventArrives PROVE LibraryInvariant'
  <1> DEFINE e == Head(events)
             ask == e.state \in {"ready", "failed"} /\ row[e.id] \in States
             reply == [id |-> e.id, state |-> row[e.id]]
  <1>1. events \in Seq(Told) /\ events # <<>> /\ details \in Seq(Told) /\ Len(events) <= MaxEvents
        /\ Len(details) <= MaxDetails /\ MaxEvents \in Nat /\ MaxDetails \in Nat
    BY LibraryListAssumption DEF EventArrives, LibraryInvariant, LibraryTypes
  <1>2. e \in Told
    BY <1>1
  <1>3. e.id \in Assets /\ e.state \in States
    BY <1>2 DEF Told
  <1>4. EditOf(e.id, pages')
    BY <1>3, UpsertedIsEdit DEF EventArrives
  <1>5. events' \in Seq(Told) /\ Len(events') <= MaxEvents
    <2>1. events' = Tail(events)
      BY DEF EventArrives
    <2>2. Tail(events) \in Seq(Told) /\ Len(Tail(events)) = Len(events) - 1 /\ Len(events) \in Nat
      BY <1>1
    <2> QED
      BY <1>1, <2>1, <2>2
  <1>6. details' \in Seq(Told) /\ Len(details') <= MaxDetails
    <2>1. CASE ask
      <3>1. reply \in Told
        BY <1>3, <2>1 DEF Told
      <3>2. details' = Append(details, reply) /\ Len(details) < MaxDetails
        BY <2>1 DEF EventArrives
      <3>3. Len(details) \in Nat
        BY <1>1
      <3> HIDE DEF reply
      <3> QED
        BY <1>1, <3>1, <3>2, <3>3
    <2>2. CASE ~ask
      BY <1>1, <2>2 DEF EventArrives
    <2> QED
      BY <2>1, <2>2
  <1>7. Forget(e.id) /\ UNCHANGED <<row, changes, filter, cursor, fetch>>
    BY DEF EventArrives
  <1> HIDE DEF e
  <1> QED
    BY <1>3, <1>4, <1>5, <1>6, <1>7, RowStepIsGood DEF LibraryInvariant, LibraryTypes

LEMMA DetailIsGood == ASSUME LibraryInvariant, DetailArrives PROVE LibraryInvariant'
  <1>1. PICK k \in DOMAIN details :
          /\ details' = RemoveAt(details, k)
          /\ pages' \in {pages, Upserted(details[k].id, details[k].state)}
          /\ Forget(details[k].id)
          /\ UNCHANGED <<row, changes, filter, cursor, fetch, events>>
    BY DEF DetailArrives
  <1>2. details \in Seq(Told) /\ Len(details) \in Nat /\ Len(details) <= MaxDetails /\ MaxDetails \in Nat
        /\ k \in 1 .. Len(details)
    BY <1>1, LibraryListAssumption DEF LibraryInvariant, LibraryTypes
  <1>3. details[k] \in Told
    BY <1>2
  <1>4. details[k].id \in Assets /\ details[k].state \in States
    BY <1>3 DEF Told
  <1>5. EditOf(details[k].id, pages')
    BY <1>1, <1>4, UpsertedIsEdit
  <1>6. details' \in Seq(Told) /\ Len(details') <= MaxDetails
    <2> DEFINE n == Len(details)
               u == SubSeq(details, 1, k - 1)
               v == SubSeq(details, k + 1, n)
    <2>1. u \in Seq(Told) /\ Len(u) = k - 1 /\ v \in Seq(Told) /\ Len(v) = n - k
      BY <1>2
    <2>2. details' = u \o v
      BY <1>1 DEF RemoveAt
    <2> HIDE DEF n, u, v
    <2>3. n \in Nat /\ k \in 1 .. n /\ n <= MaxDetails
      BY <1>2 DEF n
    <2> QED
      BY <1>2, <2>1, <2>2, <2>3
  <1> QED
    BY <1>1, <1>4, <1>5, <1>6, RowStepIsGood DEF LibraryInvariant, LibraryTypes
-----------------------------------------------------------------------------
\* A page that is answered goes after those of the same fetch: it brings once
\* each row between the two cursors, and none that the first had passed.
LEMMA AppendedOnce ==
  ASSUME LibraryInvariant, fetch.left > 0
  PROVE  LET reply == ListPage(fetch.cursor)
             got == Append(fetch.got, reply.items)
             since == IF fetch.cursor.at = Start THEN untouched.fetch \cap Visible(row, filter)
                      ELSE untouched.fetch
         IN  /\ got \in Seq(LibraryPages) /\ got # <<>> /\ MatchesFilter(got)
             /\ reply.next \in Cursors /\ reply.next.at # Start
             /\ since \in SUBSET Assets /\ OnceEach(got, reply.next, since)
  <1> DEFINE c == fetch.cursor
             g == fetch.got
             reply == ListPage(c)
             items == reply.items
             next == reply.next
             got == Append(g, items)
             since == IF c.at = Start THEN untouched.fetch \cap Visible(row, filter) ELSE untouched.fetch
             found == {a \in Visible(row, filter) : AfterCursor(a, c)}
  <1>1. c \in Cursors /\ g \in Seq(LibraryPages) /\ untouched.fetch \in SUBSET Assets
        /\ row \in [Assets -> States \cup {"absent", "deleted"}] /\ MatchesFilter(g)
    BY DEF LibraryInvariant, LibraryTypes
  <1>2. /\ items \in LibraryPages
        /\ \A a \in DOMAIN items : a \in found /\ Matches(items[a], filter)
        /\ next \in Cursors /\ next.at # Start
        /\ next.at = "row" => next.row \in found
        /\ \A a \in found : a \in DOMAIN items <=> ~Further(a, next)
    BY <1>1, PageIsTheNewest
  <1>3. IF c.at = Start THEN g = <<>> ELSE c.at = "row" /\ OnceEach(g, c, untouched.fetch)
    BY DEF LibraryInvariant, FetchedOnce
  <1> HIDE DEF g, c, reply, items, next
  <1> DEFINE n == Len(g) + 1
  <1>4. /\ got \in Seq(LibraryPages) /\ n \in Nat /\ DOMAIN got = 1 .. n /\ got[n] = items
        /\ DOMAIN g = 1 .. n - 1 /\ \A k \in 1 .. n - 1 : got[k] = g[k]
    BY <1>1, <1>2
  <1> HIDE DEF got, n
  <1>5. \A k \in 1 .. n : k = n \/ k \in 1 .. n - 1
    BY <1>4
  <1>6. MatchesFilter(got)
    BY <1>1, <1>2, <1>4, <1>5 DEF MatchesFilter
  <1>7. n \in 1 .. n /\ got # <<>> /\ n \notin 1 .. n - 1 /\ (\A k \in 1 .. n - 1 : k \in 1 .. n)
    <2>1. n >= 1
      BY <1>1, <1>4 DEF n
    <2> QED
      BY <1>4, <2>1
  <1>8. \A a : On(got, a) = On(g, a) \cup (IF a \in DOMAIN items THEN {n} ELSE {})
    BY <1>4, <1>5, <1>7 DEF On
  <1>9. since \in SUBSET Assets
    BY <1>1
  <1>10. \A a : n \notin On(g, a)
    BY <1>4, <1>7 DEF On
  <1>11. ASSUME NEW a \in since
         PROVE  /\ a \in Visible(row, filter)
                /\ IF Further(a, next) THEN On(got, a) = {} ELSE \E k \in On(got, a) : On(got, a) = {k}
    <2>1. CASE c.at = Start
      <3>1. a \in found /\ g = <<>> /\ On(g, a) = {} /\ a \in Visible(row, filter)
        BY <1>3, <2>1 DEF AfterCursor, On
      <3>2. a \in DOMAIN items <=> ~Further(a, next)
        BY <1>2, <3>1
      <3> QED
        BY <1>8, <3>1, <3>2
    <2>2. CASE c.at # Start
      <3>1. c.at = "row" /\ a \in untouched.fetch /\ OnceEach(g, c, untouched.fetch)
        BY <1>3, <2>2
      <3>2. /\ a \in Visible(row, filter) /\ a \in Assets
            /\ IF Further(a, c) THEN On(g, a) = {} ELSE \E k \in On(g, a) : On(g, a) = {k}
        BY <1>1, <3>1 DEF OnceEach
      <3>3. a \in found <=> Further(a, c)
        BY <2>2, <3>1, <3>2 DEF Further, AfterCursor
      <3>4. CASE Further(a, c)
        <4>1. a \in DOMAIN items <=> ~Further(a, next)
          BY <1>2, <3>3, <3>4
        <4> QED
          BY <1>8, <3>2, <3>4, <4>1
      <3>5. CASE ~Further(a, c)
        <4>1. a \notin DOMAIN items
          BY <1>2, <3>3, <3>5
        <4>2. ~Further(a, next)
          <5> SUFFICES ASSUME Further(a, next) PROVE FALSE
            OBVIOUS
          <5>1. next.at = "row" /\ Newer(next.row, a) /\ next.row \in found
            BY <1>2 DEF Further
          <5>2. next.row \in Assets /\ c.row \in Assets /\ Newer(c.row, next.row)
            BY <1>1, <3>1, <5>1, <2>2 DEF AfterCursor, Visible, Cursors, Start, End
          <5>3. Newer(c.row, a)
            BY <3>2, <5>1, <5>2, NewerIsTotal
          <5> QED
            BY <3>1, <3>5, <5>3 DEF Further
        <4> QED
          BY <1>8, <3>2, <3>5, <4>1, <4>2
      <3> QED
        BY <3>4, <3>5
    <2> QED
      BY <2>1, <2>2
  <1> HIDE DEF since
  <1>12. OnceEach(got, next, since)
    BY <1>11 DEF OnceEach
  <1> QED
    BY <1>2, <1>4, <1>6, <1>7, <1>9, <1>12 DEF got, since, next, items, reply, g, c

LEMMA PageArrivesIsGood == ASSUME LibraryInvariant, PageArrives PROVE LibraryInvariant'
  <1> DEFINE onePage == ListPage(fetch.cursor)
             got == Append(fetch.got, onePage.items)
             since == IF fetch.cursor.at = Start THEN untouched.fetch \cap Visible(row, filter)
                      ELSE untouched.fetch
  <1>1. /\ got \in Seq(LibraryPages) /\ got # <<>> /\ MatchesFilter(got)
        /\ onePage.next \in Cursors /\ onePage.next.at # Start
        /\ since \in SUBSET Assets /\ OnceEach(got, onePage.next, since) /\ fetch.left > 0
    BY AppendedOnce DEF PageArrives
  <1>2. IF fetch.left = 1 \/ onePage.next.at = End
        THEN /\ pages' = got /\ cursor' = onePage.next
             /\ fetch' = NoListFetch
             /\ untouched' = [pages |-> since, fetch |-> {}]
        ELSE /\ fetch' = [fetch EXCEPT !.left = @ - 1, !.got = got, !.cursor = onePage.next]
             /\ untouched' = [untouched EXCEPT !.fetch = since]
             /\ UNCHANGED <<pages, cursor>>
    BY DEF PageArrives
  <1>3. UNCHANGED <<row, changes, filter, events, details>>
    BY DEF PageArrives
  <1>4. LibraryInvariant
    OBVIOUS
  <1>5. fetch \in [left : Nat, more : BOOLEAN, got : Seq(LibraryPages), cursor : Cursors]
        /\ untouched \in [pages : SUBSET Assets, fetch : SUBSET Assets]
    BY DEF LibraryInvariant, LibraryTypes
  <1> DEFINE next == onePage.next
  <1> HIDE DEF got, since, next
  <1>6. OnceEach(got, next, since) /\ next \in Cursors /\ next.at # Start
    BY <1>1 DEF next
  <1>7. \A g, n, U : OnceEach(g, n, U) => (UNCHANGED <<row, filter>> => \A a \in U : a \in Visible(row', filter'))
    BY DEF OnceEach, Visible
  <1>8. CASE fetch.left = 1 \/ onePage.next.at = End
    <2>1. pages' = got /\ cursor' = next /\ fetch' = NoListFetch /\ untouched' = [pages |-> since, fetch |-> {}]
      BY <1>2, <1>8 DEF next
    <2>2. fetch' \in [left : Nat, more : BOOLEAN, got : Seq(LibraryPages), cursor : Cursors]
          /\ fetch'.left = 0 /\ fetch'.got = <<>>
      BY <2>1 DEF NoListFetch, Cursors
    <2>3. untouched' \in [pages : SUBSET Assets, fetch : SUBSET Assets] /\ untouched'.pages = since
      BY <1>1, <2>1
    <2>4. LibraryTypes'
      BY <1>1, <1>3, <1>4, <1>6, <2>1, <2>2, <2>3 DEF LibraryInvariant, LibraryTypes
    <2>5. MatchesFilter(pages)' /\ MatchesFilter(fetch.got)'
      BY <1>1, <1>3, <2>1, <2>2 DEF MatchesFilter
    <2>6. ShownOnce'
      BY <1>1, <1>3, <1>6, <2>1, <2>3 DEF ShownOnce, OnceEach, On, Further, Visible, Newer
    <2>7. FetchedOnce'
      BY <2>2 DEF FetchedOnce
    <2> QED
      BY <2>4, <2>5, <2>6, <2>7 DEF LibraryInvariant
  <1>9. CASE ~(fetch.left = 1 \/ onePage.next.at = End)
    <2>1. /\ fetch' = [fetch EXCEPT !.left = @ - 1, !.got = got, !.cursor = next]
          /\ untouched' = [untouched EXCEPT !.fetch = since]
          /\ UNCHANGED <<pages, cursor>>
      BY <1>2, <1>9 DEF next
    <2>2. fetch' \in [left : Nat, more : BOOLEAN, got : Seq(LibraryPages), cursor : Cursors]
          /\ fetch'.got = got /\ fetch'.cursor = next
      <3>1. fetch.left - 1 \in Nat
        BY <1>1, <1>5
      <3> QED
        BY <1>1, <1>5, <1>6, <2>1, <3>1
    <2>3. untouched' \in [pages : SUBSET Assets, fetch : SUBSET Assets] /\ untouched'.fetch = since
          /\ untouched'.pages = untouched.pages
      BY <1>1, <1>5, <2>1
    <2>4. LibraryTypes'
      BY <1>3, <1>4, <2>1, <2>2, <2>3 DEF LibraryInvariant, LibraryTypes
    <2>5. MatchesFilter(pages)' /\ MatchesFilter(fetch.got)'
      BY <1>1, <1>3, <1>4, <2>1, <2>2 DEF MatchesFilter, LibraryInvariant
    <2>6. ShownOnce'
      BY <1>3, <1>4, <2>1, <2>3 DEF ShownOnce, OnceEach, On, Further, Visible, Newer, LibraryInvariant
    <2>7. FetchedOnce'
      <3>1. next.at = "row"
        BY <1>6, <1>9 DEF next, Cursors
      <3> QED
        BY <1>3, <1>6, <2>2, <2>3, <3>1 DEF FetchedOnce, OnceEach, On, Further, Visible, Newer, Start
    <2> QED
      BY <2>4, <2>5, <2>6, <2>7 DEF LibraryInvariant
  <1> QED
    BY <1>8, <1>9

LEMMA FetchStepsAreGood ==
  ASSUME LibraryInvariant, FetchNextPage \/ RefetchList \/ FetchFails \/ Reconnect
  PROVE  LibraryInvariant'
  <1>1. UNCHANGED <<row, changes, filter, pages, cursor, details>> /\ untouched'.pages = untouched.pages
        /\ untouched' \in [pages : SUBSET Assets, fetch : SUBSET Assets] /\ pages # <<>>
    BY DEF FetchNextPage, RefetchList, FetchFails, Reconnect, Refetched, LibraryInvariant, LibraryTypes
  <1>2. events' \in Seq(Told) /\ Len(events') <= MaxEvents
    <2>1. CASE Reconnect
      <3>1. events' = <<>> /\ MaxEvents \in Nat
        BY <2>1, LibraryListAssumption DEF Reconnect
      <3> QED
        BY <3>1
    <2>2. CASE ~Reconnect
      BY <2>2 DEF FetchNextPage, RefetchList, FetchFails, LibraryInvariant, LibraryTypes
    <2> QED
      BY <2>1, <2>2
  <1>3. MatchesFilter(pages)' /\ ShownOnce'
    BY <1>1 DEF ShownOnce, OnceEach, On, Further, Visible, Newer, MatchesFilter, LibraryInvariant
  <1>4. pages \in Seq(LibraryPages) /\ cursor \in Cursors /\ Len(pages) \in Nat
        /\ MatchesFilter(pages) /\ (cursor.at # Start /\ OnceEach(pages, cursor, untouched.pages))
    BY <1>1 DEF LibraryInvariant, LibraryTypes, ShownOnce
  <1>5. /\ fetch' \in [left : Nat, more : BOOLEAN, got : Seq(LibraryPages), cursor : Cursors]
        /\ MatchesFilter(fetch.got)' /\ FetchedOnce'
    <2>1. CASE FetchNextPage
      <3>1. /\ fetch' = [left |-> 1, more |-> TRUE, got |-> pages, cursor |-> cursor]
            /\ untouched'.fetch = untouched.pages /\ cursor.at = "row"
        BY <2>1 DEF FetchNextPage, LibraryInvariant, LibraryTypes
      <3> QED
        BY <1>1, <1>4, <3>1 DEF FetchedOnce, OnceEach, On, Further, Visible, Newer, MatchesFilter, Start
    <2>2. CASE RefetchList \/ Reconnect
      <3>1. fetch' = [left |-> Len(pages), more |-> FALSE, got |-> <<>>, cursor |-> [at |-> Start]]
        BY <2>2 DEF RefetchList, Reconnect, Refetched
      <3>2. [at |-> Start] \in Cursors
        BY DEF Cursors
      <3> QED
        BY <1>4, <3>1, <3>2 DEF FetchedOnce, MatchesFilter
    <2>3. CASE FetchFails
      <3>1. fetch' = NoListFetch
        BY <2>3 DEF FetchFails
      <3>2. [at |-> Start] \in Cursors
        BY DEF Cursors
      <3> QED
        BY <3>1, <3>2 DEF FetchedOnce, MatchesFilter, NoListFetch
    <2> QED
      BY <2>1, <2>2, <2>3
  <1> QED
    BY <1>1, <1>2, <1>3, <1>5 DEF LibraryInvariant, LibraryTypes

LEMMA LibraryInvariantAtStart == LibraryListInit => LibraryInvariant
  <1> SUFFICES ASSUME LibraryListInit PROVE LibraryInvariant
    OBVIOUS
  <1>1. [at |-> Start] \in Cursors
    BY DEF Cursors
  <1>2. fetch \in [left : Nat, more : BOOLEAN, got : Seq(LibraryPages), cursor : Cursors]
        /\ fetch.got = <<>> /\ fetch.cursor.at = Start
    <2>1. fetch = [left |-> 1, more |-> FALSE, got |-> <<>>, cursor |-> [at |-> Start]]
      BY DEF LibraryListInit, NoListFetch
    <2> QED
      BY <1>1, <2>1
  <1>3. LibraryTypes
    BY <1>1, <1>2, LibraryListAssumption DEF LibraryListInit, LibraryTypes, States
  <1> QED
    BY <1>2, <1>3 DEF LibraryListInit, LibraryInvariant, MatchesFilter, ShownOnce, FetchedOnce

LEMMA LibraryStepIsGood == LibraryInvariant /\ [LibraryListNext]_listVars => LibraryInvariant'
  <1> SUFFICES ASSUME LibraryInvariant, [LibraryListNext]_listVars PROVE LibraryInvariant'
    OBVIOUS
  <1>1. CASE FetchNextPage \/ RefetchList \/ FetchFails \/ Reconnect
    BY <1>1, FetchStepsAreGood
  <1>2. CASE PageArrives
    BY <1>2, PageArrivesIsGood
  <1>3. CASE \E a \in Assets : Insert(a) \/ Process(a) \/ RetryAsset(a) \/ Delete(a) \/ Rename(a)
    BY <1>3, RowChangeIsGood
  <1>4. CASE EventArrives
    BY <1>4, EventIsGood
  <1>5. CASE DetailArrives
    BY <1>5, DetailIsGood
  <1>6. CASE UNCHANGED listVars
    <2>1. UNCHANGED <<row, changes, filter, pages, cursor, fetch, untouched, events, details>>
      BY <1>6 DEF listVars
    <2>2. LibraryTypes' /\ MatchesFilter(pages)' /\ MatchesFilter(fetch.got)'
      BY <2>1 DEF LibraryInvariant, LibraryTypes, MatchesFilter
    <2>3. ShownOnce' /\ FetchedOnce'
      BY <2>1 DEF LibraryInvariant, ShownOnce, FetchedOnce, OnceEach, On, Further, Visible, Newer
    <2> QED
      BY <2>2, <2>3 DEF LibraryInvariant
  <1> QED
    BY <1>1, <1>2, <1>3, <1>4, <1>5, <1>6 DEF LibraryListNext

\* What the pages of the list, and of a fetch under way, hold of the rows that
\* nothing was done to or said about since the first page was read: once each
\* that the cursor has passed, and none of the others.
THEOREM LibraryInvariantHolds == LibraryListSpec => []LibraryInvariant
  BY LibraryInvariantAtStart, LibraryStepIsGood, PTL DEF LibraryListSpec

\* The pages hold rows of the account that match the filter, whatever event,
\* answer or page comes when.
THEOREM LibraryTypesHold == LibraryListSpec => []LibraryListTypeOK
  <1>1. LibraryInvariant => LibraryListTypeOK
    <2> SUFFICES ASSUME LibraryInvariant PROVE LibraryListTypeOK
      OBVIOUS
    <2>1. \A k \in DOMAIN pages : pages[k] \in LibraryPages
      BY DEF LibraryInvariant, LibraryTypes
    <2>2. \A k \in DOMAIN pages : DOMAIN pages[k] \subseteq Assets
      BY <2>1 DEF LibraryPages
    <2>3. cursor.at \in {Start, "row", End} /\ fetch.left \in Nat
      BY DEF LibraryInvariant, LibraryTypes, Cursors
    <2> QED
      BY <2>2, <2>3 DEF LibraryInvariant, LibraryTypes, LibraryListTypeOK, MatchesFilter
  <1> QED
    BY <1>1, LibraryInvariantHolds, PTL

\* A list scrolled to its end shows each row that stayed as it was exactly once
\* (upsertAsset, removeAsset and MediaService.list's cursor together).
THEOREM PagesAreAlwaysComplete == LibraryListSpec => []PagesAreComplete
  <1>1. LibraryInvariant => PagesAreComplete
    BY DEF LibraryInvariant, ShownOnce, OnceEach, Further, On, Places, PagesAreComplete, Start, End
  <1> QED
    BY <1>1, LibraryInvariantHolds, PTL
-----------------------------------------------------------------------------
(* Problems. *)

LEMMA IntentReasons ==
  ASSUME NEW f \in PickedFiles
  PROVE  /\ CheckUploadIntent(f, FALSE) \in {"raw", "unsupported_type", "video_disabled", "too_large", "ok"}
         /\ LocalProblem(f) \in {"empty", "raw", "unsupported_type", "video_disabled", "too_large", "ok"}
  <1>1. f.raw \in BOOLEAN /\ f.kind \in {"image", "video", "none"}
    BY DEF PickedFiles
  <1>2. CheckUploadIntent(f, FALSE) \in {"raw", "unsupported_type", "video_disabled", "too_large", "ok"}
    BY <1>1 DEF CheckUploadIntent
  <1> QED
    BY <1>2 DEF LocalProblem

Refusal(e) == e.class \in {"problem", "http"} /\ e.status \in 400 .. 499

LEMMA MadeRefusals ==
  /\ \A s \in 400 .. 499 : \A t, x : Refusal(Problem(s, t, x))
  /\ \A s \in 400 .. 499 : Refusal(Http(s))
  BY DEF Refusal, Problem, Http

\* A handler throws a refusal, or fails by a fault of its own or of a dependency.
LEMMA WhatIsThrown ==
  ASSUME NEW e \in Thrown
  PROVE  \/ Refusal(e)
         \/ e.class \in {"bug"} \cup Dependencies /\ e.status = 500
  <1>1. CASE e \in Others
    BY <1>1 DEF Others
  <1>2. CASE e \in PipeRefuses
    <2>1. PICK fs \in ValuesRefused : e = Validation(fs)
      BY <1>2 DEF PipeRefuses
    <2> QED
      BY <2>1, MadeRefusals DEF Validation
  <1>3. ASSUME e \in IntentRefused PROVE Refusal(e)
    <2>1. PICK reason : reason \in {"raw", "unsupported_type", "video_disabled", "too_large"} /\ e = IntentProblem(reason)
      BY <1>3, IntentReasons DEF IntentRefused
    <2> QED
      BY <2>1, MadeRefusals DEF IntentProblem, Validation
  <1>4. \A s \in {401, 404, 409, 422, 428, 429} : s \in 400 .. 499
    OBVIOUS
  <1>5. ASSUME \/ e \in AuthGuard \/ e \in NoAccount \/ e \in NotFound \/ e \in SignupConflicts
               \/ e \in HandleReserved \/ e \in HandleConflicts \/ e \in TooSoon
               \/ e \in WrongPassword \/ e \in ProfileConflicts \/ e \in AvatarNotFound
               \/ e \in RateLimited \/ e \in MediaConflicts \/ e \in InUse
               \/ e \in UploadIncomplete \/ e \in InvalidCursor
        PROVE  Refusal(e)
    BY <1>4, <1>5, MadeRefusals
       DEF AuthGuard, NoAccount, NotFound, SignupConflicts, HandleReserved, HandleConflicts, TooSoon,
           WrongPassword, ProfileConflicts, AvatarNotFound, RateLimited, MediaConflicts, InUse,
           UploadIncomplete, InvalidCursor, Validation
  <1> QED
    BY <1>1, <1>2, <1>3, <1>5 DEF Thrown

LEMMA ThrownIsToldPlainly ==
  ASSUME NEW e \in Thrown
  PROVE  ResponseIsPlain(ToProblem(AsServiceUnavailable(e)))
  <1> DEFINE x == AsServiceUnavailable(e)
             r == ToProblem(x)
  <1> SUFFICES ResponseIsPlain(r)
    OBVIOUS
  <1>1. /\ r.status = x.status /\ r.type = (IF Internal(x) THEN "about:blank" ELSE x.type)
        /\ r.detail = (IF Internal(x) THEN "none" ELSE "own") /\ r.retryAfter = x.retryAfter
        /\ DOMAIN r = DOMAIN NoAnswer
    BY DEF ToProblem, NoAnswer
  <1>2. CASE e.class \in Dependencies
    <2>1. Problem(503, "serviceUnavailable", {})
             = [class |-> "problem", status |-> 503, type |-> "serviceUnavailable", errors |-> {},
                retryAfter |-> 503 = 429]
      BY DEF Problem
    <2>2. /\ x.class = "problem" /\ x.status = 503 /\ x.type = "serviceUnavailable"
          /\ x.retryAfter = TRUE
      BY <1>2, <2>1 DEF AsServiceUnavailable
    <2> HIDE DEF x, r
    <2> QED
      BY <1>1, <2>2 DEF Internal, ResponseIsPlain
  <1>3. CASE e.class \notin Dependencies
    <2>1. x = e
      BY <1>3 DEF AsServiceUnavailable
    <2>2. \/ e.class # "bug" /\ e.status \in Nat /\ e.status < 500
          \/ e.class = "bug" /\ e.status = 500
      BY <1>3, WhatIsThrown DEF Refusal
    <2> HIDE DEF x, r
    <2> QED
      BY <1>1, <2>1, <2>2 DEF Internal, ResponseIsPlain
  <1> QED
    BY <1>2, <1>3

LEMMA ArrivalsArePlain ==
  ASSUME ResponseIsPlain(answer), NEW r \in Arrivals
  PROVE  ResponseIsPlain(r)
  <1> USE DEF NoAnswer, ResponseIsPlain
  <1>1. CASE r = answer
    BY <1>1
  <1>2. CASE r = Gateway
    BY <1>2 DEF Gateway
  <1>3. CASE r = [NoAnswer EXCEPT !.status = 0]
    BY <1>3
  <1>4. CASE r = [answer EXCEPT !.whole = FALSE]
    BY <1>4
  <1> QED
    BY <1>1, <1>2, <1>3, <1>4 DEF Arrivals

LEMMA FailuresSpeak ==
  ASSUME NEW r, ResponseIsPlain(r), r.status # 200
  PROVE  MessageFor(r) # "none"
  BY DEF ResponseIsPlain, MessageFor, ReadProblem

LEMMA ProblemsStart == ProblemsInit => ProblemsInvariant
  <1> SUFFICES ASSUME ProblemsInit PROVE ProblemsInvariant
    OBVIOUS
  <1> USE DEF ProblemsInit
  <1>1. ResponseIsPlain(answer)
    BY DEF ResponseIsPlain, NoAnswer
  <1>2. ErrorIsOfAnswer /\ CallsAreClean
    BY DEF ErrorIsOfAnswer, CallsAreClean
  <1>3. FailuresAreTold
    BY DEF FailuresAreTold, NoAnswer
  <1>4. page \in Pages /\ tries = 0
    OBVIOUS
  <1>5. inUse \in BOOLEAN /\ ~inUse
    OBVIOUS
  <1> HIDE DEF ProblemsInit
  <1> QED
    BY <1>1, <1>2, <1>3, <1>4, <1>5 DEF ProblemsInvariant

LEMMA CallsKeep ==
  ProblemsInvariant /\ (CallApi \/ SkipProfileStep) => ProblemsInvariant'
  BY DEF ProblemsInvariant, ResponseIsPlain, ErrorIsOfAnswer, CallsAreClean,
         FailuresAreTold, NoAnswer, NoError, CallApi, SkipProfileStep

LEMMA RefusalsKeep ==
  ASSUME ProblemsInvariant,
         \/ RefuseHere \/ NothingChanged \/ BlockHere
         \/ page = "upload" /\ \E f \in PickedFiles : LocalProblem(f) # "ok" /\ RefuseUpload(LocalProblem(f))
  PROVE  ProblemsInvariant'
  <1> USE DEF ProblemsInvariant, ResponseIsPlain, ErrorIsOfAnswer, CallsAreClean, FailuresAreTold,
              NoAnswer, NoError
  <1>0. "delete" \notin DOMAIN FieldsOf
    BY DEF FieldsOf
  <1>1. CASE RefuseHere
    BY <1>0, <1>1 DEF RefuseHere
  <1>2. CASE NothingChanged
    BY <1>2 DEF NothingChanged
  <1>3. CASE BlockHere
    BY <1>3 DEF BlockHere, Blocked
  <1>4. CASE page = "upload" /\ \E f \in PickedFiles : LocalProblem(f) # "ok" /\ RefuseUpload(LocalProblem(f))
    <2>1. PICK f \in PickedFiles : RefuseUpload(LocalProblem(f))
      BY <1>4
    <2>2. LocalProblem(f) # "none"
      BY IntentReasons
    <2> QED
      BY <1>4, <2>1, <2>2 DEF RefuseUpload
  <1> QED
    BY <1>1, <1>2, <1>3, <1>4

LEMMA ScreensKeep ==
  ASSUME ProblemsInvariant,
         TypeHandle \/ AvailabilityAnswered \/ CancelDelete \/ DismissToast \/ ExpireToast
  PROVE  ProblemsInvariant'
  <1> USE DEF ProblemsInvariant, ErrorIsOfAnswer, CallsAreClean, FailuresAreTold, ReadProblem
  <1>1. CASE TypeHandle
    BY <1>1 DEF TypeHandle, Editing
  <1>2. CASE AvailabilityAnswered
    BY <1>2 DEF AvailabilityAnswered, Blocked
  <1>3. CASE CancelDelete
    BY <1>3 DEF CancelDelete, Editing
  <1>4. CASE DismissToast
    BY <1>4 DEF DismissToast, Editing
  <1>5. CASE ExpireToast
    BY <1>5 DEF ExpireToast, Blocked
  <1> QED
    BY <1>1, <1>2, <1>3, <1>4, <1>5

LEMMA HandlersKeep ==
  ASSUME ProblemsInvariant, HandlerThrows \/ HandlerAnswers
  PROVE  ProblemsInvariant'
  <1>1. stage' = "answered" /\ stage = "sent" /\ UNCHANGED <<page, check, error, OnScreen, inUse, tries, submits>>
    BY DEF HandlerThrows, HandlerAnswers
  <1>2. ResponseIsPlain(NoAnswer)
    BY DEF ResponseIsPlain, NoAnswer
  <1>3. ResponseIsPlain(answer')
    BY <1>2, ThrownIsToldPlainly DEF HandlerThrows, HandlerAnswers
  <1> QED
    BY <1>1, <1>3 DEF ProblemsInvariant, ErrorIsOfAnswer, CallsAreClean, FailuresAreTold, OnScreen, ResponseIsPlain

LEMMA ArrivalKeeps ==
  ASSUME ProblemsInvariant, ResponseArrives
  PROVE  ProblemsInvariant'
  <1>1. PICK r \in Arrivals :
          /\ answer' = r
          /\ IF r.status = 200 /\ (r.whole \/ ~Awaited)
             THEN stage' = "done" /\ error' = NoError
             ELSE /\ stage' = "thrown"
                  /\ error' = IF r.status = 200 THEN [NoError EXCEPT !.message = "somethingWrong"]
                              ELSE FromResponse(r)
    BY DEF ResponseArrives
  <1>2. ResponseIsPlain(r)
    BY ArrivalsArePlain DEF ProblemsInvariant
  <1>3. ErrorIsOfAnswer'
    BY <1>1, <1>2, FailuresSpeak DEF ErrorIsOfAnswer, FromResponse, NoError
  <1>4. CallsAreClean'
    BY <1>1 DEF ResponseArrives, ProblemsInvariant, CallsAreClean
  <1>5. FailuresAreTold'
    BY <1>1, <1>2 DEF ResponseArrives, ProblemsInvariant, CallsAreClean, FailuresAreTold, ResponseIsPlain
  <1> QED
    BY <1>1, <1>2, <1>3, <1>4, <1>5 DEF ResponseArrives, ProblemsInvariant

LEMMA TellsKeep ==
  ASSUME ProblemsInvariant,
         \/ FormTells \/ ProfileConflict \/ RolesTell \/ DetailsTell \/ DeleteTells
         \/ AvatarTells \/ RetryTells \/ LeaveTells \/ UploadTells
  PROVE  ProblemsInvariant'
  <1>1. /\ stage = "thrown" /\ stage' = "told"
        /\ UNCHANGED <<page, check, answer, error, tries, submits>>
    BY DEF FormTells, ProfileConflict, RolesTell, DetailsTell, DeleteTells, AvatarTells,
           RetryTells, LeaveTells, UploadTells, ApplyApiError, Tell
  <1>2. error.message # "none"
    BY <1>1 DEF ProblemsInvariant, ErrorIsOfAnswer
  <1>3. ErrorIsOfAnswer' /\ CallsAreClean'
    BY <1>1 DEF ProblemsInvariant, ErrorIsOfAnswer, CallsAreClean
  <1>4. inUse' = inUse \/ (page = "delete" /\ inUse' = (Usage \/ inUse))
    BY <1>1 DEF FormTells, ProfileConflict, RolesTell, DetailsTell, DeleteTells, AvatarTells,
           RetryTells, LeaveTells, UploadTells, ApplyApiError, Tell
  <1>5. fields' # {} \/ notice' # "none" \/ "danger" \in toasts' \/ inUse'
    BY <1>2 DEF FormTells, ProfileConflict, RolesTell, DetailsTell, DeleteTells, AvatarTells,
           RetryTells, LeaveTells, UploadTells, ApplyApiError, Tell
  <1>6. ASSUME error.api, ReadProblem(answer), page \in DOMAIN FieldsOf, notice' # "conflict"
        PROVE  answer.errors \cap FieldsOf[page] \subseteq fields'
    <2>1. error.fieldErrors = answer.errors
      BY <1>1, <1>6 DEF ProblemsInvariant, ErrorIsOfAnswer, FromResponse
    <2>2. page \notin {"role", "delete", "avatar", "retry", "leave", "upload"}
      BY <1>6 DEF FieldsOf
    <2> QED
      BY <1>6, <2>1, <2>2 DEF FormTells, ProfileConflict, RolesTell, DetailsTell, DeleteTells,
           AvatarTells, RetryTells, LeaveTells, UploadTells, ApplyApiError, Tell, Matched
  <1>7. inUse' /\ "danger" \notin toasts' => error.type = "inUse"
    <2>1. CASE page = "delete"
      <3>1. DeleteTells
        BY <2>1 DEF FormTells, ProfileConflict, RolesTell, DetailsTell, DeleteTells, AvatarTells,
           RetryTells, LeaveTells, UploadTells, ApplyApiError, Tell, Forms, FieldsOf
      <3> QED
        BY <3>1 DEF DeleteTells, Tell, Usage
    <2>2. CASE page # "delete"
      BY <1>4, <2>2 DEF ProblemsInvariant
    <2> QED
      BY <2>1, <2>2
  <1>8. FailuresAreTold'
    BY <1>1, <1>5, <1>6, <1>7 DEF FailuresAreTold, ProblemsInvariant, ReadProblem
  <1>9. inUse' \in BOOLEAN /\ (inUse' => page' = "delete")
    <2>1. inUse \in BOOLEAN /\ (inUse => page = "delete") /\ page' = page
      BY <1>1 DEF ProblemsInvariant
    <2>2. CASE inUse' = inUse
      BY <2>1, <2>2
    <2>3. CASE page = "delete" /\ inUse' = (Usage \/ inUse)
      BY <2>1, <2>3
    <2> QED
      BY <1>4, <2>2, <2>3
  <1> QED
    BY <1>1, <1>3, <1>8, <1>9 DEF ProblemsInvariant

LEMMA QueryKeeps ==
  ASSUME ProblemsInvariant, QueryFails
  PROVE  ProblemsInvariant'
  <1>1. error.message # "none" /\ tries <= 2 /\ notice = "none"
    BY DEF QueryFails, ProblemsInvariant, ErrorIsOfAnswer, CallsAreClean
  <1>2. ErrorIsOfAnswer' /\ CallsAreClean'
    BY <1>1 DEF QueryFails, ProblemsInvariant, ErrorIsOfAnswer, CallsAreClean
  <1>3. page \notin DOMAIN FieldsOf
    BY DEF QueryFails, FieldsOf
  <1>4. stage' = "sent" => error.status \notin 400 .. 499
    <2> SUFFICES ASSUME stage' = "sent" PROVE error.status \notin 400 .. 499
      OBVIOUS
    <2>1. MayPass
      BY DEF QueryFails
    <2>2. error.api => error.status = answer.status
      BY DEF QueryFails, ProblemsInvariant, ErrorIsOfAnswer, FromResponse
    <2> QED
      BY <2>1, <2>2 DEF MayPass, QueryFails, ProblemsInvariant, ErrorIsOfAnswer, ResponseIsPlain
  <1>5. FailuresAreTold'
    BY <1>1, <1>3, <1>4 DEF QueryFails, FailuresAreTold, ProblemsInvariant, ReadProblem
  <1> QED
    BY <1>1, <1>2, <1>5 DEF QueryFails, ProblemsInvariant

LEMMA ProblemsStep == ProblemsInvariant /\ [ProblemsNext]_problemVars => ProblemsInvariant'
  <1> SUFFICES ASSUME ProblemsInvariant, [ProblemsNext]_problemVars PROVE ProblemsInvariant'
    OBVIOUS
  <1>1. CASE \/ SubmitSignup \/ SubmitLogin \/ SubmitPassword \/ SubmitHandle \/ SubmitProfile
             \/ FinishProfileStep \/ SkipProfileStep \/ SubmitRoles \/ SaveAvatar \/ SaveDetails
             \/ RemoveFile \/ RetryFile \/ LeaveAccount \/ RequestPage
    BY <1>1, CallsKeep, RefusalsKeep
       DEF SubmitSignup, SubmitLogin, SubmitPassword, SubmitHandle, SubmitProfile, FinishProfileStep,
           SubmitRoles, SaveAvatar, SaveDetails, RemoveFile, RetryFile, LeaveAccount, RequestPage
  <1>2. CASE SendFile
    BY <1>2, CallsKeep, RefusalsKeep DEF SendFile
  <1>3. CASE RefuseHere \/ BlockHere
    BY <1>3, RefusalsKeep
  <1>4. CASE TypeHandle \/ AvailabilityAnswered \/ CancelDelete \/ DismissToast \/ ExpireToast
    BY <1>4, ScreensKeep
  <1>5. CASE HandlerThrows \/ HandlerAnswers
    BY <1>5, HandlersKeep
  <1>6. CASE ResponseArrives
    BY <1>6, ArrivalKeeps
  <1>7. CASE \/ FormTells \/ ProfileConflict \/ RolesTell \/ DetailsTell \/ DeleteTells
             \/ AvatarTells \/ RetryTells \/ LeaveTells \/ UploadTells
    BY <1>7, TellsKeep
  <1>8. CASE QueryFails
    BY <1>8, QueryKeeps
  <1>9. CASE UNCHANGED problemVars
    BY <1>9 DEF problemVars, ProblemsInvariant, ResponseIsPlain, ErrorIsOfAnswer, CallsAreClean,
                FailuresAreTold, ReadProblem, Blocked
  <1> QED
    BY <1>1, <1>2, <1>3, <1>4, <1>5, <1>6, <1>7, <1>8, <1>9 DEF ProblemsNext

\* Every failure is told where the person who caused it sees it, with all that
\* the API says of the fields and nothing of what happened inside it, whatever
\* becomes of the response and however many calls are made.
THEOREM FailuresAreAlwaysTold == ProblemsSpec => []FailuresAreTold
  <1>1. ProblemsInvariant => FailuresAreTold
    BY DEF ProblemsInvariant
  <1> QED
    BY <1>1, ProblemsStart, ProblemsStep, PTL DEF ProblemsSpec
-----------------------------------------------------------------------------
(* PageControls. *)

LEMMA NoQueryFindsAll == NoQuery \in Queries /\ Found[NoQuery] = [i \in DOMAIN Zones |-> i]
  BY PageControlsAssumption DEF NoQuery, Queries

LEMMA GreaterOf ==
  ASSUME NEW a \in Int, NEW b \in Int
  PROVE  Max({a, b}) = IF a >= b THEN a ELSE b
  <1>1. \E x \in {a, b} : \A y \in {a, b} : x >= y
    OBVIOUS
  <1> DEFINE m == CHOOSE x \in {a, b} : \A y \in {a, b} : x >= y
  <1>2. m \in {a, b} /\ \A y \in {a, b} : m >= y
    BY <1>1
  <1> HIDE DEF m
  <1>3. m = IF a >= b THEN a ELSE b
    BY <1>2
  <1> QED
    BY <1>3 DEF Max, m

LEMMA LesserOf ==
  ASSUME NEW a \in Int, NEW b \in Int
  PROVE  Min({a, b}) = IF a <= b THEN a ELSE b
  <1>1. \E x \in {a, b} : \A y \in {a, b} : x =< y
    OBVIOUS
  <1> DEFINE m == CHOOSE x \in {a, b} : \A y \in {a, b} : x =< y
  <1>2. m \in {a, b} /\ \A y \in {a, b} : m =< y
    BY <1>1
  <1> HIDE DEF m
  <1>3. m = IF a <= b THEN a ELSE b
    BY <1>2
  <1> QED
    BY <1>3 DEF Min, m

LEMMA ControlsStart == PageControlsInit => ControlsInvariant
  <1> SUFFICES ASSUME PageControlsInit PROVE ControlsInvariant
    OBVIOUS
  <1> USE DEF PageControlsInit
  <1>1. MenuIsSound
    <2>1. 1 \in DOMAIN Zones
      BY PageControlsAssumption
    <2> QED
      BY <2>1, NoQueryFindsAll DEF MenuIsSound, HighlightIsListed, Listed
  <1>2. TagsAreSound
    BY PageControlsAssumption DEF TagsAreSound, RolesAreTakeable, IsInjective
  <1>3. DragIsSound
    BY DEF DragIsSound, NoDrag
  <1>4. NoticeIsSound
    BY DEF NoticeIsSound, NoticeCatchesUp
  <1> HIDE DEF PageControlsInit
  <1> QED
    BY <1>1, <1>2, <1>3, <1>4 DEF ControlsInvariant

LEMMA ComboboxKeeps ==
  ASSUME MenuIsSound,
         \/ Arrow(1) \/ Arrow(-1) \/ PressEnter
         \/ \E q \in Queries : Search(q)
         \/ \E i \in DOMAIN Zones : Hover(i) \/ Point(i)
         \/ ClickField \/ LeaveField
  PROVE  MenuIsSound'
  <1> USE DEF MenuIsSound, HighlightIsListed
  <1>0. Listed \in Seq(DOMAIN Zones) /\ Len(Listed) \in Nat /\ DOMAIN Listed = 1 .. Len(Listed)
    BY PageControlsAssumption DEF Listed, Queries
  <1>1. menu' = Opened => MenuIsSound'
    <2> SUFFICES ASSUME menu' = Opened PROVE MenuIsSound'
      OBVIOUS
    <2>1. menu' = [value |-> menu.value, open |-> TRUE, query |-> NoQuery, active |-> menu.value - 1]
      BY DEF Opened
    <2>0. menu.value \in Nat /\ (menu.value - 1) + 1 = menu.value
      <3>1. DOMAIN Zones = 1 .. Len(Zones)
        BY PageControlsAssumption
      <3> QED
        BY <3>1
    <2>2. Listed' = Found[NoQuery]
      BY <2>1 DEF Listed
    <2> QED
      BY <2>0, <2>1, <2>2, NoQueryFindsAll
  <1>2. menu' = Closed(menu) => MenuIsSound'
    BY NoQueryFindsAll DEF Closed
  <1>3. ASSUME NEW i \in Int, menu' = Chosen(i) PROVE MenuIsSound'
    <2>1. CASE i \in DOMAIN Listed
      <3>1. Listed[i] \in DOMAIN Zones
        BY <1>0, <2>1
      <3> QED
        BY <1>3, <2>1, <3>1, NoQueryFindsAll DEF Chosen, Closed
    <2>2. CASE i \notin DOMAIN Listed
      BY <1>2, <1>3, <2>2 DEF Chosen
    <2> QED
      BY <2>1, <2>2
  <1>4. ASSUME NEW step \in {1, -1}, Arrow(step) PROVE MenuIsSound'
    <2>1. CASE ~menu.open
      BY <1>1, <1>4, <2>1 DEF Arrow
    <2>2. CASE menu.open
      <3> DEFINE a == Max({0, menu.active + step})
                 b == Min({Len(Listed) - 1, a})
      <3>0. menu.active + step \in Int /\ Len(Listed) - 1 \in Int
        BY <1>0
      <3>1. a \in Nat
        <4> DEFINE x == menu.active + step
        <4>1. x \in Int
          BY <3>0
        <4> HIDE DEF x
        <4>2. Max({0, x}) = IF 0 >= x THEN 0 ELSE x
          BY <4>1, 0 \in Int, GreaterOf, Zenon
        <4> QED
          BY <4>1, <4>2 DEF x
      <3>2. b \in Int /\ (Len(Listed) > 0 => b + 1 \in 1 .. Len(Listed))
        <4>1. a \in Int
          BY <3>1
        <4> HIDE DEF a
        <4>2. b = IF Len(Listed) - 1 <= a THEN Len(Listed) - 1 ELSE a
          BY <3>0, <4>1, LesserOf
        <4> HIDE DEF b
        <4> QED
          BY <1>0, <3>1, <4>2
      <3>3. menu' = [menu EXCEPT !.active = b]
        BY <1>4, <2>2 DEF Arrow
      <3> HIDE DEF a, b
      <3>4. /\ menu' = [value |-> menu.value, open |-> menu.open, query |-> menu.query, active |-> b]
            /\ Listed' = Listed
        BY <3>3 DEF Listed
      <3> QED
        BY <1>0, <3>2, <3>4
    <2> QED
      BY <2>1, <2>2
  <1>5. ASSUME NEW q \in Queries, Search(q) PROVE MenuIsSound'
    <2>1. menu' = [value |-> menu.value, open |-> TRUE, query |-> q, active |-> 0]
      BY <1>5 DEF Search
    <2>2. Listed' \in Seq(DOMAIN Zones)
      BY <2>1, PageControlsAssumption DEF Listed, Queries
    <2> QED
      BY <2>1, <2>2
  <1>6. ASSUME NEW i \in DOMAIN Zones, Hover(i) PROVE MenuIsSound'
    <2>1. /\ menu' = [value |-> menu.value, open |-> menu.open, query |-> menu.query, active |-> i - 1]
          /\ Listed' = Listed /\ i \in 1 .. Len(Listed)
      BY <1>0, <1>6 DEF Hover, Listed
    <2> QED
      BY <1>0, <2>1
  <1>7. ASSUME NEW i \in DOMAIN Zones, Point(i) PROVE MenuIsSound'
    <2>1. i \in Int
      BY PageControlsAssumption
    <2> QED
      BY <1>3, <1>7, <2>1 DEF Point
  <1>8. CASE PressEnter
    <2>1. menu.active + 1 \in Int
      OBVIOUS
    <2> QED
      BY <1>3, <1>8, <2>1 DEF PressEnter
  <1>9. CASE ClickField
    <2>1. CASE menu.open
      BY <1>9, <2>1 DEF ClickField, Listed
    <2> QED
      BY <1>1, <1>9, <2>1 DEF ClickField
  <1> QED
    BY <1>2, <1>4, <1>5, <1>6, <1>7, <1>8, <1>9 DEF LeaveField

LEMMA RemoveAtPlace ==
  ASSUME NEW X, NEW s \in Seq(X), NEW i \in DOMAIN s, IsInjective(s)
  PROVE  RemoveAt(s, i) \in Seq(X) /\ IsInjective(RemoveAt(s, i)) /\ Len(RemoveAt(s, i)) = Len(s) - 1
  <1>1. s[i] \in Range(s) /\ i = CHOOSE k \in DOMAIN s : s[k] = s[i]
    BY DEF IsInjective, Range
  <1>2. RemoveAt(s, i) = Without(s, s[i])
    BY <1>1 DEF Without
  <1>3. RemoveAt(s, i) \in Seq(X) /\ IsInjective(RemoveAt(s, i))
    <2>1. \A k, l \in DOMAIN s : s[k] = s[l] => k = l
      BY DEF IsInjective
    <2> DEFINE w == Without(s, s[i])
    <2>2. w \in Seq(X) /\ \A k, l \in DOMAIN w : w[k] = w[l] => k = l
      BY <1>1, <2>1, RemoveOne
    <2> HIDE DEF w
    <2> QED
      BY <1>2, <2>2 DEF IsInjective, w
  <1> DEFINE a == SubSeq(s, 1, i - 1)
             b == SubSeq(s, i + 1, Len(s))
  <1>4. a \in Seq(X) /\ b \in Seq(X) /\ Len(a) = i - 1 /\ Len(b) = Len(s) - i /\ i \in 1 .. Len(s)
    OBVIOUS
  <1> HIDE DEF a, b
  <1>5. Len(a \o b) = Len(s) - 1
    BY <1>4
  <1> QED
    BY <1>3, <1>5 DEF RemoveAt, a, b

LEMMA TagsKeep ==
  ASSUME TagsAreSound,
         TypeTag \/ (\E i \in DOMAIN tags.value : RemoveTag(i)) \/ (\E r \in SavedRoles : ReloadTags(r))
  PROVE  TagsAreSound'
  <1> DEFINE v == tags.value
  <1>1. v \in Seq(Texts) /\ tags.draft \in Texts /\ IsInjective(v) /\ Len(v) <= TagLimit /\ TagLimit \in Nat
    BY PageControlsAssumption DEF TagsAreSound, RolesAreTakeable
  <1>2. ASSUME NEW w \in Seq(Texts), NEW d \in Texts, IsInjective(w), Len(w) <= TagLimit,
               tags' = [value |-> w, draft |-> d]
        PROVE  TagsAreSound'
    BY <1>2 DEF TagsAreSound, RolesAreTakeable
  <1>3. tags = [value |-> v, draft |-> tags.draft]
    BY DEF TagsAreSound
  <1> HIDE DEF v
  <1>4. CASE \E t \in Texts : tags' = [tags EXCEPT !.draft = t]
    BY <1>1, <1>2, <1>3, <1>4
  <1>5. CASE Add /\ Len(v) < TagLimit
    <2> DEFINE tag == Trimmed[tags.draft]
               new == tag # NoText /\ tag \notin Range(v) /\ Len(v) < TagLimit
    <2>1. tag \in Texts /\ NoText \in Texts
      BY <1>1, PageControlsAssumption
    <2>2. tags' = [value |-> IF new THEN Append(v, tag) ELSE v, draft |-> NoText]
      BY <1>5 DEF Add, v
    <2> HIDE DEF tag
    <2>3. CASE new
      <3>1. Append(v, tag) \in Seq(Texts) /\ IsInjective(Append(v, tag))
        BY <1>1, <2>1, <2>3, AppendOne DEF IsInjective
      <3>2. Len(Append(v, tag)) <= TagLimit
        BY <1>1, <2>1, <2>3
      <3> QED
        BY <1>2, <2>1, <2>2, <2>3, <3>1, <3>2
    <2>4. CASE ~new
      BY <1>1, <1>2, <2>1, <2>2, <2>4
    <2> QED
      BY <2>3, <2>4
  <1>6. CASE v # <<>> /\ tags' = [tags EXCEPT !.value = Front(@)]
    <2>1. tags' = [value |-> Front(v), draft |-> tags.draft]
      BY <1>3, <1>6
    <2>2. Front(v) \in Seq(Texts) /\ IsInjective(Front(v)) /\ Len(Front(v)) = Len(v) - 1
      BY <1>1, <1>6, FrontOne DEF Front, IsInjective
    <2> QED
      BY <1>1, <1>2, <2>1, <2>2
  <1>7. ASSUME NEW i \in DOMAIN v, RemoveTag(i) PROVE TagsAreSound'
    <2>1. tags' = [value |-> RemoveAt(v, i), draft |-> tags.draft]
      BY <1>3, <1>7 DEF RemoveTag
    <2>2. RemoveAt(v, i) \in Seq(Texts) /\ IsInjective(RemoveAt(v, i)) /\ Len(RemoveAt(v, i)) = Len(v) - 1
      BY <1>1, RemoveAtPlace
    <2> QED
      BY <1>1, <1>2, <2>1, <2>2
  <1>8. ASSUME NEW r \in SavedRoles, ReloadTags(r) PROVE TagsAreSound'
    <2>1. tags' = [value |-> r, draft |-> tags.draft]
      BY <1>3, <1>8 DEF ReloadTags
    <2> QED
      BY <1>1, <1>2, <2>1, PageControlsAssumption
  <1> QED
    BY <1>4, <1>5, <1>6, <1>7, <1>8 DEF TypeTag, v

LEMMA DragKeeps ==
  ASSUME DragIsSound,
         \/ StartDrag \/ HoverZone \/ LeaveElement \/ Abandon \/ ZoneComesOrGoes \/ Drop \/ WindowHears
         \/ \E e \in Elements : Enter(e)
  PROVE  DragIsSound'
  <1> USE DEF DragIsSound, NoDrag
  <1> DEFINE Now(at, files, under, taken) ==
               /\ drag' = [at |-> drag'.at, files |-> drag'.files, under |-> drag'.under, depth |-> drag'.depth,
                           covered |-> drag'.covered, over |-> drag'.over, zone |-> drag'.zone,
                           taken |-> drag'.taken]
               /\ drag'.at = at /\ drag'.files = files /\ drag'.under = under /\ drag'.taken = taken
  <1>1. CASE StartDrag
    <2>1. PICK f : drag' = [drag EXCEPT !.at = "window", !.files = f, !.under = <<>>, !.taken = 0]
      BY <1>1 DEF StartDrag
    <2>2. Now("window", f, <<>>, 0)
      BY <2>1
    <2> QED
      BY <2>2
  <1>2. CASE HoverZone
    BY <1>2 DEF HoverZone
  <1>3. CASE LeaveElement
    <2>1. Tail(drag.under) \in Seq(Elements)
      BY <1>3 DEF LeaveElement
    <2> QED
      BY <1>3, <2>1 DEF LeaveElement
  <1>4. CASE Abandon
    BY <1>4 DEF Abandon
  <1>5. CASE ZoneComesOrGoes
    <2>1. <<"page">> \in Seq(Elements) /\ <<>> \in Seq(Elements)
      BY DEF Elements
    <2> QED
      BY <1>5, <2>1 DEF ZoneComesOrGoes
  <1>6. CASE Drop
    <2>1. Head(drag.under) \in {"page", "zone"}
      BY <1>6 DEF Drop, Elements
    <2>2. Now(Head(drag.under), drag.files, drag.under,
                      IF Head(drag.under) = "zone" /\ drag.files THEN drag.taken + 1 ELSE drag.taken)
      BY <1>6 DEF Drop
    <2>3. drag.taken = 0
      BY <1>6 DEF Drop
    <2> QED
      BY <2>1, <2>2, <2>3
  <1>7. CASE WindowHears
    <2>1. CASE drag.files
      <3>1. Now("dropped", drag.files, drag.under, IF drag.at = "zone" THEN drag.taken ELSE drag.taken + 1)
        BY <1>7, <2>1 DEF WindowHears
      <3> QED
        BY <1>7, <2>1, <3>1 DEF WindowHears, Given
    <2>2. CASE ~drag.files
      <3>1. Now("dropped", drag.files, drag.under, drag.taken)
        BY <1>7, <2>2 DEF WindowHears
      <3> QED
        BY <2>2, <3>1
    <2> QED
      BY <2>1, <2>2
  <1>8. ASSUME NEW e \in Elements, Enter(e) PROVE DragIsSound'
    <2>1. Append(drag.under, e) \in Seq(Elements)
      OBVIOUS
    <2> QED
      BY <1>8, <2>1 DEF Enter
  <1> QED
    BY <1>1, <1>2, <1>3, <1>4, <1>5, <1>6, <1>7, <1>8

LEMMA ControlsStep == ControlsInvariant /\ [PageControlsNext]_controlVars => ControlsInvariant'
  <1> SUFFICES ASSUME ControlsInvariant, [PageControlsNext]_controlVars PROVE ControlsInvariant'
    OBVIOUS
  <1>1. /\ UNCHANGED menu => MenuIsSound'
        /\ UNCHANGED tags => TagsAreSound'
        /\ UNCHANGED drag => DragIsSound'
        /\ UNCHANGED link => NoticeIsSound'
    BY DEF ControlsInvariant, NoticeIsSound, MenuIsSound, TagsAreSound, DragIsSound, NoticeCatchesUp,
           HighlightIsListed, Listed, RolesAreTakeable
  <1>2. CASE UseCombobox
    <2>1. MenuIsSound' /\ UNCHANGED <<tags, drag, link>>
      BY <1>2, ComboboxKeeps DEF UseCombobox, ControlsInvariant
    <2> QED
      BY <1>1, <2>1 DEF ControlsInvariant
  <1>3. CASE UseTags
    <2>1. TagsAreSound' /\ UNCHANGED <<menu, drag, link>>
      BY <1>3, TagsKeep DEF UseTags, ControlsInvariant
    <2> QED
      BY <1>1, <2>1 DEF ControlsInvariant
  <1>4. CASE DragFiles
    <2>1. DragIsSound' /\ UNCHANGED <<menu, tags, link>>
      BY <1>4, DragKeeps DEF DragFiles, ControlsInvariant
    <2> QED
      BY <1>1, <2>1 DEF ControlsInvariant
  <1>5. CASE WatchConnection
    <2>1. UNCHANGED <<menu, tags, drag>>
      BY <1>5 DEF WatchConnection
    <2>2. CASE ShowStatus
      <3>1. link' = [status |-> link.status, shown |-> link.status, timer |-> FALSE]
        BY <2>2 DEF ShowStatus, ControlsInvariant, NoticeIsSound
      <3> QED
        BY <1>1, <2>1, <3>1 DEF ControlsInvariant, NoticeIsSound, NoticeCatchesUp
    <2>3. ASSUME NEW t \in LinkStatuses, StatusChanges(t) PROVE ControlsInvariant'
      <3>1. link' = [status |-> t, shown |-> IF t \in Calm THEN t ELSE link.shown, timer |-> t \notin Calm]
        BY <2>3 DEF StatusChanges
      <3> QED
        BY <1>1, <2>1, <3>1 DEF ControlsInvariant, NoticeIsSound, NoticeCatchesUp
    <2> QED
      BY <1>5, <2>2, <2>3 DEF WatchConnection
  <1>6. CASE UNCHANGED controlVars
    BY <1>1, <1>6 DEF controlVars, ControlsInvariant
  <1> QED
    BY <1>2, <1>3, <1>4, <1>5, <1>6 DEF PageControlsNext

\* Files that are dropped are enqueued once, by the zone or by the window; the
\* highlight is on an option; roles are neither repeated nor too many; and what
\* is shown of the connection is its status, or will be: for any options,
\* queries, texts and limits.
THEOREM InputIsAlwaysTakenOnce == PageControlsSpec => []InputIsTakenOnce
  <1>1. ControlsInvariant => InputIsTakenOnce
    BY DEF ControlsInvariant, MenuIsSound, TagsAreSound, DragIsSound, NoticeIsSound, InputIsTakenOnce
  <1> QED
    BY <1>1, ControlsStart, ControlsStep, PTL DEF PageControlsSpec
=============================================================================
