------------------------------ MODULE Problems ------------------------------
(***************************************************************************)
(* How a call that fails reaches the person who made it: the exception of  *)
(* a handler of the API, the Problem Details that ProblemDetailsFilter     *)
(* makes of it, the ApiError that the browser reads from the response, and *)
(* what each screen shows: errors at fields, a notice, a toast, a question.*)
(*                                                                         *)
(* A field error is the field of its first level (`links.0.url` is of      *)
(* `links`), as the forms see it.  What the client sends passes its own    *)
(* copy of the schemas; an API of another version may still refuse values. *)
(***************************************************************************)
EXTENDS Naturals, FiniteSets

CONSTANTS MaxSubmits   \* bound: calls that the screen makes

ASSUME ProblemsAssumption == MaxSubmits \in Nat

VARIABLES
    page,      \* the screen
    check,     \* what useHandleAvailability says of the handle typed
    stage,     \* of the call
    answer,    \* the response, as the API or what stands in front of it sends it
    error,     \* what apiFetch throws, or NoError
    fields,    \* the fields that show an error
    notice,    \* the message of the form, or "none"
    toasts,    \* the tones on display
    inUse,     \* the delete dialog lists the projects that use the file
    tries,  \* of the query, so far
    submits

problemVars == <<page, check, stage, answer, error, fields, notice, toasts, inUse, tries, submits>>

\* Forms of react-hook-form, by their fields; then the form of a file's details.
FieldsOf == [signup |-> {"email", "password", "display_name", "handle"},
             login |-> {"email", "password"},
             password |-> {"current_password", "new_password"},
             handle |-> {"handle"},
             profile |-> {"display_name", "bio", "roles", "links"},
             profileStep |-> {"bio", "roles"},
             edit |-> {"filename", "alt_text"}]
Forms == DOMAIN FieldsOf \ {"edit"}
Pages == DOMAIN FieldsOf \cup {"role", "avatar", "delete", "retry", "leave", "query", "upload"}
SendsAProfile == {"profile", "profileStep", "role", "avatar"}

HandleChecks == {"idle", "invalid", "reserved", "checking", "available", "taken", "unknown"}
NoAnswer == [status |-> 200, problem |-> FALSE, type |-> "none", detail |-> "none",
             errors |-> {}, retryAfter |-> FALSE, whole |-> TRUE]
NoError == [api |-> FALSE, status |-> 200, type |-> "none", message |-> "none", fieldErrors |-> {}, body |-> TRUE]

ProblemsTypeOK ==
    /\ page \in Pages /\ check \in HandleChecks
    /\ stage \in {"idle", "sent", "answered", "thrown", "told", "done"}
    /\ answer.status \in {0, 200} \cup 400 .. 503
    /\ fields \subseteq UNION {FieldsOf[f] : f \in DOMAIN FieldsOf}
    /\ toasts \subseteq {"success", "danger"}
    /\ tries \in 0 .. 3 /\ submits \in 0 .. MaxSubmits

ProblemsInit ==
    /\ page \in Pages /\ check = "idle" /\ stage = "idle"
    /\ answer = NoAnswer /\ error = NoError
    /\ fields = {} /\ notice = "none" /\ toasts = {} /\ inUse = FALSE
    /\ tries = 0 /\ submits = 0
-----------------------------------------------------------------------------
(* The screen makes the call. *)

Editing == stage \in {"idle", "told", "done"}
OnScreen == <<fields, notice, toasts>>

\* handleSubmit clears the errors of the fields, and each form its notice.
CallApi ==
    /\ Editing /\ submits < MaxSubmits
    /\ stage' = "sent" /\ submits' = submits + 1
    /\ answer' = NoAnswer /\ error' = NoError /\ tries' = 0
    /\ fields' = {} /\ notice' = "none"
    /\ UNCHANGED <<page, check, toasts, inUse>>

\* The resolver, or the form itself, refuses a value: nothing is sent.
RefuseHere ==
    /\ Editing /\ page \in DOMAIN FieldsOf
    /\ \E f \in FieldsOf[page] : fields' = {f}
    /\ stage' = "told" /\ answer' = NoAnswer /\ error' = NoError
    /\ notice' = IF page = "edit" THEN notice ELSE "none"
    /\ UNCHANGED <<page, check, toasts, inUse, tries, submits>>

\* Nothing differs from what the server has.
NothingChanged ==
    /\ Editing /\ page = "profile"
    /\ stage' = "idle" /\ fields' = {} /\ notice' = "unchanged" /\ answer' = NoAnswer /\ error' = NoError
    /\ UNCHANGED <<page, check, toasts, inUse, tries, submits>>

\* checkUploadIntent: why a file is refused, or "ok".
PickedFiles == [raw: BOOLEAN, kind: {"image", "video", "none"}, large: BOOLEAN, empty: BOOLEAN]
CheckUploadIntent(file, videoEnabled) ==
    CASE file.raw -> "raw"
      [] ~file.raw /\ file.kind = "none" -> "unsupported_type"
      [] ~file.raw /\ file.kind = "video" /\ ~videoEnabled -> "video_disabled"
      [] OTHER -> IF file.large THEN "too_large" ELSE "ok"

\* localProblem; videos are not enabled in the browser.
LocalProblem(file) == IF file.empty THEN "empty" ELSE CheckUploadIntent(file, FALSE)
RefuseUpload(problem) ==
    /\ Editing /\ stage' = "told" /\ notice' = problem /\ answer' = NoAnswer /\ error' = NoError
    /\ UNCHANGED <<page, check, fields, toasts, inUse, tries, submits>>

\* isHandleBlocked: HandleStatus says why.
Blocked == check \in {"taken", "reserved", "invalid"}
BlockHere ==
    /\ Editing /\ page \in {"signup", "handle"} /\ Blocked
    /\ stage' = "told" /\ fields' = {} /\ notice' = "none" /\ answer' = NoAnswer /\ error' = NoError
    /\ UNCHANGED <<page, check, toasts, inUse, tries, submits>>

SubmitSignup == page = "signup" /\ ~Blocked /\ CallApi
SubmitLogin == page = "login" /\ CallApi
SubmitPassword == page = "password" /\ CallApi
SubmitHandle == page = "handle" /\ ~Blocked /\ CallApi
SubmitProfile == (page = "profile" /\ CallApi) \/ NothingChanged
FinishProfileStep == page = "profileStep" /\ CallApi
\* "Pular por agora" is no submit: the errors at the fields stay.
SkipProfileStep ==
    /\ page = "profileStep" /\ Editing /\ submits < MaxSubmits
    /\ stage' = "sent" /\ submits' = submits + 1
    /\ answer' = NoAnswer /\ error' = NoError /\ notice' = "none"
    /\ UNCHANGED <<page, check, fields, toasts, inUse, tries>>
SubmitRoles == page = "role" /\ CallApi
SaveAvatar == page = "avatar" /\ CallApi
SaveDetails == page = "edit" /\ CallApi
RemoveFile == page = "delete" /\ CallApi
RetryFile == page = "retry" /\ CallApi
LeaveAccount == page = "leave" /\ CallApi
RequestPage == page = "query" /\ CallApi
SendFile ==
    /\ page = "upload"
    /\ \E file \in PickedFiles :
          IF LocalProblem(file) = "ok" THEN CallApi ELSE RefuseUpload(LocalProblem(file))

\* Another handle is typed, and its field validated again: known here, or asked
\* for once the typing stops.
TypeHandle ==
    /\ Editing /\ page \in {"signup", "handle"}
    /\ check' \in {"idle", "invalid", "reserved", "checking"} \ {check}
    /\ stage' = "idle" /\ fields' = fields \ {"handle"}
    /\ UNCHANGED <<page, answer, error, notice, toasts, inUse, tries, submits>>

AvailabilityAnswered ==
    /\ check = "checking"
    /\ check' \in {"available", "taken", "reserved", "unknown"}
    /\ UNCHANGED <<page, stage, answer, error, fields, notice, toasts, inUse, tries, submits>>

CancelDelete ==
    /\ page = "delete" /\ Editing /\ inUse /\ inUse' = FALSE /\ stage' = "idle"
    /\ UNCHANGED <<page, check, answer, error, fields, notice, toasts, tries, submits>>
-----------------------------------------------------------------------------
(* The API. *)

\* ProblemException: its fields are those of the answer.
Problem(status, type, errors) ==
    [class |-> "problem", status |-> status, type |-> type, errors |-> errors, retryAfter |-> status = 429]
Http(status) == [class |-> "http", status |-> status, type |-> "about:blank", errors |-> {}, retryAfter |-> FALSE]

\* ZodValidationPipe: one or two values refused.
Validation(errors) == Problem(422, "validation", errors)
ValuesRefused ==
    IF page \in DOMAIN FieldsOf THEN {fs \in SUBSET FieldsOf[page] : Cardinality(fs) \in {1, 2}}
    ELSE IF page = "upload" THEN {{"filename"}} ELSE {}
PipeRefuses == {Validation(fs) : fs \in ValuesRefused}

\* AuthGuard, and a login or an account that does not exist any more.
AuthGuard == IF page \in {"signup", "login"} THEN {} ELSE {Problem(401, "about:blank", {})}
NoAccount == {Http(401)}
NotFound == {Http(404)}

SignupConflicts == {Problem(409, "conflict", {f}) : f \in {"email", "handle"}}
HandleReserved == {Validation({"handle"})}
HandleConflicts == {Problem(409, "conflict", {"handle"})}
TooSoon == {Problem(409, "handleChangeTooSoon", {})}
WrongPassword == {Validation({"current_password"})}
ProfileConflicts == {Problem(428, "about:blank", {}), Problem(409, "conflict", {})}
AvatarNotFound == {Validation({"avatar_media_id"})}
RateLimited == {Problem(429, "rateLimited", {})}
MediaConflicts == {Problem(409, "invalidTransition", {}), Problem(409, "busy", {})}
InUse == {Problem(409, "inUse", {})}
\* intentProblem and uploadIncomplete.
IntentProblem(reason) ==
    CASE reason = "raw" -> Problem(422, "rawNotSupported", {})
      [] reason = "video_disabled" -> Problem(422, "videoNotAvailable", {})
      [] reason = "unsupported_type" -> Validation({"mime"})
      [] reason = "too_large" -> Validation({"size_bytes"})
IntentRefused ==
    {IntentProblem(reason) : reason \in {CheckUploadIntent(f, FALSE) : f \in PickedFiles} \ {"ok"}}
UploadIncomplete == {Problem(422, "uploadIncomplete", {})}
InvalidCursor == {Validation({"cursor"})}

Dependencies == {"storage timeout", "query canceled"}
Others == {[class |-> c, status |-> 500, type |-> "internal", errors |-> {}, retryAfter |-> FALSE] :
    c \in {"bug"} \cup Dependencies}

Thrown ==
    Others \cup PipeRefuses \cup AuthGuard
    \cup (IF page \in {"login", "password", "handle"} \cup SendsAProfile THEN NoAccount ELSE {})
    \cup (IF page \in {"signup", "login", "password"} THEN RateLimited ELSE {})
    \cup (IF page \in SendsAProfile THEN ProfileConflicts ELSE {})
    \cup (IF page \in {"signup", "handle"} THEN HandleReserved ELSE {})
    \cup (IF page \in {"edit", "delete", "retry", "upload"} THEN NotFound ELSE {})
    \cup CASE page = "signup" -> SignupConflicts
           [] page = "handle" -> HandleConflicts \cup TooSoon
           [] page = "password" -> WrongPassword
           [] page = "avatar" -> AvatarNotFound
           [] page = "retry" -> MediaConflicts
           [] page = "upload" -> IntentRefused \cup UploadIncomplete \cup MediaConflicts
           [] page = "delete" /\ ~inUse -> InUse
           [] page = "query" -> InvalidCursor
           [] OTHER -> {}

\* asServiceUnavailable.
AsServiceUnavailable(e) ==
    IF e.class \in Dependencies
    THEN [Problem(503, "serviceUnavailable", {}) EXCEPT !.retryAfter = TRUE] ELSE e

Internal(e) == e.class = "bug"

\* Mutant: a ProblemException is an HttpException too, and is taken for one.
ToProblemByStatus(e) ==
    [status |-> e.status, problem |-> TRUE, whole |-> TRUE,
     type |-> IF Internal(e) THEN "internal" ELSE "about:blank", detail |-> IF Internal(e) THEN "none" ELSE "own",
     errors |-> {}, retryAfter |-> e.retryAfter]

\* toProblem, and the headers of catch: what is not an HTTP exception is told
\* without a detail.
ToProblem(e) ==
    [status |-> e.status, problem |-> TRUE, whole |-> TRUE,
     type |-> IF Internal(e) THEN "about:blank" ELSE e.type,
     detail |-> IF Internal(e) THEN "none" ELSE "own",
     errors |-> IF e.class = "problem" THEN e.errors ELSE {}, retryAfter |-> e.retryAfter]

HandlerThrows ==
    /\ stage = "sent" /\ stage' = "answered"
    /\ \E e \in Thrown : answer' = ToProblem(AsServiceUnavailable(e))
    /\ UNCHANGED <<page, check, error, OnScreen, inUse, tries, submits>>

HandlerAnswers ==
    /\ stage = "sent" /\ stage' = "answered" /\ answer' = NoAnswer
    /\ UNCHANGED <<page, check, error, OnScreen, inUse, tries, submits>>
-----------------------------------------------------------------------------
(* The response on its way, and ApiError. *)

\* An error page of the proxy in front of an API that is down.
Gateway == [NoAnswer EXCEPT !.status = 502]

\* What has arrived of it; 0 is no response.
Arrivals == {answer, Gateway, [NoAnswer EXCEPT !.status = 0], [answer EXCEPT !.whole = FALSE]}

\* readProblem: a body that cannot be read is as good as none.
ReadProblem(r) == r.problem /\ r.whole

MessageFor(r) ==
    IF r.status = 0 THEN "network"
    ELSE IF r.status = 429 THEN IF r.retryAfter THEN "waitFor" ELSE "waitABit"
    ELSE IF r.status >= 500 THEN "serverFailed"
    ELSE IF ReadProblem(r) THEN r.detail ELSE "httpStatus"

\* ApiError.fromResponse, or ApiError.network.
FromResponse(r) ==
    [api |-> TRUE, status |-> r.status, message |-> MessageFor(r), body |-> ReadProblem(r),
     type |-> IF ReadProblem(r) THEN r.type ELSE "about:blank",
     fieldErrors |-> IF ReadProblem(r) THEN r.errors ELSE {}]

\* apiFetch: a body cut short where one is awaited is not an ApiError.
Awaited == page \notin {"leave", "delete", "password"}
ResponseArrives ==
    /\ stage = "answered"
    /\ \E r \in Arrivals :
         /\ answer' = r
         /\ IF r.status = 200 /\ (r.whole \/ ~Awaited)
            THEN stage' = "done" /\ error' = NoError
            ELSE /\ stage' = "thrown"
                 /\ error' = IF r.status = 200 THEN [NoError EXCEPT !.message = "somethingWrong"]
                             ELSE FromResponse(r)
    /\ toasts' = IF stage' = "done" /\ page \in {"edit", "avatar", "delete"} THEN toasts \cup {"success"} ELSE toasts
    /\ notice' = IF stage' = "done" /\ page \in {"profile", "handle", "password"} THEN "saved" ELSE notice
    /\ inUse' = (inUse /\ stage' # "done")
    \* A form that is saved begins anew, or gives way to another page.
    /\ fields' = IF stage' = "done" THEN {} ELSE fields
    /\ check' = IF stage' = "done" /\ page = "handle" THEN "idle" ELSE check
    /\ UNCHANGED <<page, tries, submits>>
-----------------------------------------------------------------------------
(* The screen tells. *)

Tell(atFields, message, tones, asks) ==
    /\ stage = "thrown" /\ stage' = "told"
    /\ fields' = atFields /\ notice' = message /\ toasts' = toasts \cup tones /\ inUse' = asks
    /\ UNCHANGED <<page, check, answer, error, tries, submits>>

\* applyApiError.
Matched == error.fieldErrors \cap FieldsOf[page]
ApplyApiError == Tell(fields \cup Matched, IF Matched = {} THEN error.message ELSE "none", {}, inUse)

FormTells == page \in Forms /\ ~(page = "profile" /\ error.status = 409) /\ ApplyApiError
ProfileConflict == page = "profile" /\ error.status = 409 /\ Tell({}, "conflict", {}, inUse)
RolesTell == page = "role" /\ Tell({}, error.message, {}, inUse)
DetailsTell ==
    /\ page = "edit"
    /\ IF error.fieldErrors # {} THEN Tell(error.fieldErrors, notice, {}, inUse)
       ELSE Tell(fields, notice, {"danger"}, inUse)
\* deleteMedia: in use, and by what.
Usage == error.api /\ error.type = "inUse" /\ error.body
DeleteTells == page = "delete" /\ Tell(fields, notice, IF Usage THEN {} ELSE {"danger"}, Usage \/ inUse)
AvatarTells == page = "avatar" /\ Tell(fields, notice, {"danger"}, inUse)
RetryTells == page = "retry" /\ Tell(fields, notice, {"danger"}, inUse)
LeaveTells == page = "leave" /\ Tell(fields, notice, {"danger"}, inUse)
UploadTells == page = "upload" /\ Tell(fields, error.message, {}, inUse)

\* The `retry` of the QueryClient: what may have been passing, twice.
MayPass == ~error.api \/ error.status = 0 \/ error.status >= 500
QueryFails ==
    /\ page = "query" /\ stage = "thrown" /\ tries' = tries + 1
    /\ IF tries < 2 /\ MayPass
       THEN stage' = "sent" /\ UNCHANGED <<answer, notice>>
       ELSE stage' = "told" /\ notice' = error.message /\ UNCHANGED answer
    /\ UNCHANGED <<page, check, error, fields, toasts, inUse, submits>>

\* The person closes a toast; time closes the ones that are no error.
DismissToast ==
    /\ Editing
    /\ \E t \in toasts : toasts' = toasts \ {t}
    /\ stage' = "idle" /\ UNCHANGED <<page, check, answer, error, fields, notice, inUse, tries, submits>>
ExpireToast ==
    /\ "success" \in toasts /\ toasts' = toasts \ {"success"}
    /\ UNCHANGED <<page, check, stage, answer, error, fields, notice, inUse, tries, submits>>

ProblemsNext ==
    \/ SubmitSignup \/ SubmitLogin \/ SubmitPassword \/ SubmitHandle \/ SubmitProfile
    \/ FinishProfileStep \/ SkipProfileStep \/ SubmitRoles \/ SaveAvatar \/ SaveDetails
    \/ RemoveFile \/ RetryFile \/ LeaveAccount \/ RequestPage \/ SendFile
    \/ RefuseHere \/ BlockHere \/ TypeHandle \/ AvailabilityAnswered \/ CancelDelete
    \/ HandlerThrows \/ HandlerAnswers \/ ResponseArrives
    \/ FormTells \/ ProfileConflict \/ RolesTell \/ DetailsTell \/ DeleteTells
    \/ AvatarTells \/ RetryTells \/ LeaveTells \/ UploadTells \/ QueryFails
    \/ DismissToast \/ ExpireToast

ProblemsSpec == ProblemsInit /\ [][ProblemsNext]_problemVars
-----------------------------------------------------------------------------
(* Properties. *)

\* Whatever is thrown and whatever becomes of the response: a call that failed
\* is told, by a field, a notice, a toast that stays, a question or the status
\* of the handle; errors of the form's own fields reach them all; no error
\* outlives the call that cures it; a failure inside the API is told without
\* its detail, and one that may pass comes with the time to wait; and a query
\* is repeated twice at most, and only when the last failure may pass.
FailuresAreTold ==
    /\ stage = "told" => fields # {} \/ notice # "none" \/ "danger" \in toasts \/ inUse \/ Blocked
    /\ stage = "told" /\ error.api /\ ReadProblem(answer) /\ page \in DOMAIN FieldsOf /\ notice # "conflict" =>
         answer.errors \cap FieldsOf[page] \subseteq fields
    /\ stage = "told" /\ inUse /\ "danger" \notin toasts => error.type = "inUse"
    /\ stage = "done" => fields = {} /\ notice \in {"none", "saved"}
    /\ answer.problem /\ answer.status >= 500 =>
         IF answer.type = "serviceUnavailable" THEN answer.retryAfter ELSE answer.detail = "none"
    /\ page = "query" => tries <= 3
    /\ page = "query" /\ stage = "sent" /\ tries > 0 => error.status \notin 400 .. 499
=============================================================================
