------------------------------ MODULE Profiles ------------------------------
(***************************************************************************)
(* The profile of one account, edited from several tabs: the settings form,*)
(* the two onboarding steps, the avatar picker and the removal of an image *)
(* (apps/web), against PATCH /me/profile and DELETE /media/:id (apps/api). *)
(*                                                                         *)
(* Two fields stand for the editable ones: `bio`, a text whose empty form  *)
(* is stored as null, and `roles`, a list without repetitions.             *)
(***************************************************************************)
EXTENDS Naturals, Sequences

CONSTANTS
    Tabs, Roles, Images,
    StepRoles, ProfileRoles,  \* MAX_ROLES of the step, PROFILE_ROLES_MAX
    MaxVersion,               \* bound: writes of the row
    NoImage, NoTab

ASSUME ProfilesAssumption ==
    /\ StepRoles \in Nat /\ ProfileRoles \in Nat /\ MaxVersion \in Nat
    /\ NoImage \notin Images /\ NoTab \notin Tabs

VARIABLES
    profile,   \* the row of profiles; version is the ETag (updated_at)
    removed,   \* the user's images with deleted_at
    lockedBy,  \* the tab whose transaction holds the row of profiles
    me,        \* per tab, the answer of /me in the query cache
    form,      \* per tab, what the inputs show
    edited,    \* per tab, whether the bio was touched since the settings form was filled
    screen,    \* per tab, the page it is on
    sent       \* per tab, the request in flight

profileVars == <<profile, removed, lockedBy, me, form, edited, screen, sent>>

Null == "null"
Stored == {Null, "text"}
Typed == {"", "text"}
RoleLists == UNION {[1 .. n -> Roles] : n \in 0 .. ProfileRoles}

\* bioSchema, locationSchema, workTimezoneSchema: trimmed, and empty becomes
\* null; "" stands for blanks too.
BioSchema(raw) == IF raw = "" THEN Null ELSE raw
\* rolesSchema
ValidRoles(rs) ==
    /\ Len(rs) <= ProfileRoles
    /\ \A i, j \in DOMAIN rs : rs[i] = rs[j] => i = j

Text(p) == [bio |-> p.bio, roles |-> p.roles]
ToValues(p) == [bio |-> IF p.bio = Null THEN "" ELSE p.bio, roles |-> p.roles]
Parsed(f) == [bio |-> BioSchema(f.bio), roles |-> f.roles]

\* A patch has a value for the fields it names.
EmptyPatch == [names |-> {}, bio |-> Null, roles |-> <<>>, avatar |-> NoImage]
NothingSent == [step |-> "none", kind |-> "none", patch |-> EmptyPatch, etag |-> 0, image |-> NoImage]

With(d, name, value) == [d EXCEPT !.names = @ \cup {name}, ![name] = value]
Onboarded(d) == [d EXCEPT !.names = @ \cup {"onboarded"}]

Apply(p, d) == [bio |-> IF "bio" \in d.names THEN d.bio ELSE p.bio,
                roles |-> IF "roles" \in d.names THEN d.roles ELSE p.roles,
                avatar |-> IF "avatar" \in d.names THEN d.avatar ELSE p.avatar,
                onboarded |-> p.onboarded \/ "onboarded" \in d.names]

Fresh(p) == [bio |-> p.bio, roles |-> p.roles, avatar |-> p.avatar, onboarded |-> p.onboarded]

ProfilesTypeOK ==
    /\ profile.bio \in Stored /\ profile.roles \in RoleLists /\ ValidRoles(profile.roles)
    /\ profile.avatar \in Images \cup {NoImage} /\ profile.version \in 0 .. MaxVersion
    /\ removed \subseteq Images
    /\ lockedBy \in Tabs \cup {NoTab}
    /\ \A t \in Tabs : /\ form[t].bio \in Typed /\ ValidRoles(form[t].roles)
                       /\ edited[t] \in BOOLEAN
                       /\ screen[t] \in {"role", "profile", "settings"}
                       /\ sent[t].step \in {"none", "lock", "write", "delete", "clear"}
                       /\ sent[t].step = "write" <=> lockedBy = t

\* A tab is at the first onboarding step or, with the onboarding done, in settings.
ProfilesInit ==
    /\ \E done \in BOOLEAN :
         /\ profile = [bio |-> Null, roles |-> <<>>, avatar |-> NoImage,
                       onboarded |-> done, version |-> 0]
         /\ screen = [t \in Tabs |-> IF done THEN "settings" ELSE "role"]
    /\ removed = {}
    /\ lockedBy = NoTab
    /\ me = [t \in Tabs |-> profile]
    /\ form = [t \in Tabs |-> ToValues(profile)]
    /\ edited = [t \in Tabs |-> FALSE]
    /\ sent = [t \in Tabs |-> NothingSent]
-----------------------------------------------------------------------------
(* The browser. *)

Idle(t) == sent[t].step = "none"

Fill(t, p) ==
    /\ form' = [form EXCEPT ![t] = ToValues(p)]
    /\ edited' = [edited EXCEPT ![t] = FALSE]

OnForm(t) == screen[t] \in {"profile", "settings"}

\* useMe: the cache is read again when the tab regains focus or after 30 s.
Refetch(t) ==
    /\ me' = [me EXCEPT ![t] = profile]
    /\ me' # me
    /\ UNCHANGED <<profile, removed, lockedBy, form, edited, screen, sent>>

TypeBio(t) ==
    /\ OnForm(t) /\ Idle(t)
    /\ \E raw \in Typed \ {form[t].bio} : form' = [form EXCEPT ![t].bio = raw]
    /\ edited' = [edited EXCEPT ![t] = screen[t] = "settings"]
    /\ UNCHANGED <<profile, removed, lockedBy, me, screen, sent>>

\* TagInput on a form, RoleCard and 'other role' on the first step: a role is
\* added if it is not there and there is room, or removed.
ToggleRole(t) ==
    /\ Idle(t)
    /\ \E r \in Roles :
         LET rs == form[t].roles
             has == \E i \in DOMAIN rs : rs[i] = r
             room == IF screen[t] = "role" THEN StepRoles ELSE ProfileRoles
         IN  /\ has \/ Len(rs) < room
             /\ form' = [form EXCEPT ![t].roles =
                            IF has THEN SelectSeq(rs, LAMBDA x : x # r) ELSE Append(rs, r)]
    /\ UNCHANGED <<profile, removed, lockedBy, me, edited, screen, sent>>

\* Mutant: If-Match is the version of the row, not that of the answer compared with.
RequestLatest(t, kind, patch) ==
    sent' = [sent EXCEPT ![t] = [step |-> "lock", kind |-> kind, patch |-> patch,
                                 etag |-> profile.version, image |-> NoImage]]

Request(t, kind, patch) ==
    sent' = [sent EXCEPT ![t] = [step |-> "lock", kind |-> kind, patch |-> patch,
                                 etag |-> me[t].version, image |-> NoImage]]

\* changedFields: what the parsed form says against the last answer of the
\* server, whose ETag goes along.
ChangedFields(t) ==
    LET v == Parsed(form[t])
        bio == IF v.bio = me[t].bio THEN EmptyPatch ELSE With(EmptyPatch, "bio", v.bio)
    IN  IF v.roles = me[t].roles THEN bio ELSE With(bio, "roles", v.roles)

SubmitForm(t) ==
    /\ screen[t] = "settings" /\ Idle(t)
    /\ ChangedFields(t) # EmptyPatch
    /\ Request(t, "form", ChangedFields(t))
    /\ UNCHANGED <<profile, removed, lockedBy, me, form, edited, screen>>

\* The role step: 'Continuar' sends the roles, 'Pular por agora' goes on.
SaveRoles(t) ==
    /\ screen[t] = "role" /\ Idle(t)
    /\ form[t].roles # <<>>
    /\ Request(t, "roles", With(EmptyPatch, "roles", form[t].roles))
    /\ UNCHANGED <<profile, removed, lockedBy, me, form, edited, screen>>

\* The profile step mounts its form from the cache.
SkipRoles(t) ==
    /\ screen[t] = "role" /\ Idle(t)
    /\ screen' = [screen EXCEPT ![t] = "profile"]
    /\ Fill(t, me[t])
    /\ UNCHANGED <<profile, removed, lockedBy, me, sent>>

\* finish: every field of the form, or none when it is skipped.
FinishOnboarding(t) ==
    /\ screen[t] = "profile" /\ Idle(t)
    /\ \E skip \in BOOLEAN :
         Request(t, "finish",
              Onboarded(IF skip THEN EmptyPatch
                        ELSE With(With(EmptyPatch, "bio", Parsed(form[t]).bio), "roles", form[t].roles)))
    /\ UNCHANGED <<profile, removed, lockedBy, me, form, edited, screen>>

\* OnboardingGate: who has finished is sent to the app.
GateRedirects(t) ==
    /\ screen[t] \in {"role", "profile"} /\ Idle(t) /\ me[t].onboarded
    /\ screen' = [screen EXCEPT ![t] = "settings"]
    /\ Fill(t, me[t])
    /\ UNCHANGED <<profile, removed, lockedBy, me, sent>>

\* AvatarPicker: the list of ready images may be old.
PickAvatar(t) ==
    /\ OnForm(t) /\ Idle(t)
    /\ \E m \in Images \cup {NoImage} :
         Request(t, "avatar", With(EmptyPatch, "avatar", m))
    /\ UNCHANGED <<profile, removed, lockedBy, me, form, edited, screen>>

RemoveImage(t) ==
    /\ Idle(t) /\ screen[t] = "settings"
    /\ \E m \in Images :
         /\ m \notin removed
         /\ sent' = [sent EXCEPT ![t] = [NothingSent EXCEPT !.step = "delete", !.image = m]]
    /\ UNCHANGED <<profile, removed, lockedBy, me, form, edited, screen>>
-----------------------------------------------------------------------------
(* The API. *)

Refuse(t) == sent' = [sent EXCEPT ![t] = NothingSent]

\* Mutant: SELECT without FOR UPDATE.
LockProfileOfNobody(t) ==
    /\ sent[t].step = "lock"
    /\ IF \/ sent[t].etag # profile.version
          \/ sent[t].patch.avatar # profile.avatar /\ sent[t].patch.avatar \in removed
       THEN Refuse(t) /\ UNCHANGED lockedBy
       ELSE sent' = [sent EXCEPT ![t].step = "write"] /\ lockedBy' = t
    /\ UNCHANGED <<profile, removed, me, form, edited, screen>>

\* 409 and 422 leave the form as it is, with a notice.
LockProfile(t) ==
    /\ sent[t].step = "lock"
    /\ lockedBy = NoTab
    /\ IF \/ sent[t].etag # profile.version
          \/ sent[t].patch.avatar # profile.avatar /\ sent[t].patch.avatar \in removed
       THEN Refuse(t) /\ UNCHANGED lockedBy
       ELSE sent' = [sent EXCEPT ![t].step = "write"] /\ lockedBy' = t
    /\ UNCHANGED <<profile, removed, me, form, edited, screen>>

Written(t) ==
    LET next == Apply(profile, sent[t].patch)
    IN  IF next = Fresh(profile) THEN profile
        ELSE [bio |-> next.bio, roles |-> next.roles, avatar |-> next.avatar,
              onboarded |-> next.onboarded, version |-> profile.version + 1]

\* The UPDATE, the commit and the answer: the form is reset to what came back
\* ('form'), the role step goes on, the profile step goes to the app.
CommitProfile(t) ==
    /\ sent[t].step = "write"
    /\ profile.version < MaxVersion
    /\ profile' = Written(t)
    /\ lockedBy' = NoTab
    /\ Refuse(t)
    /\ me' = [me EXCEPT ![t] = profile']
    /\ IF sent[t].kind = "avatar" THEN UNCHANGED <<form, edited>> ELSE Fill(t, profile')
    /\ screen' = [screen EXCEPT ![t] =
          CASE sent[t].kind = "roles" -> "profile"
            [] sent[t].kind = "finish" -> "settings"
            [] OTHER -> @]
    /\ UNCHANGED removed

\* reloadFromServer, offered after a 409.
ReloadForm(t) ==
    /\ screen[t] = "settings" /\ Idle(t)
    /\ me' = [me EXCEPT ![t] = profile]
    /\ Fill(t, profile)
    /\ <<me, form>>' # <<me, form>>
    /\ UNCHANGED <<profile, removed, lockedBy, screen, sent>>

\* MediaService.remove: the asset, then the avatar of the profile.  The UPDATE
\* of profiles finds its row by the committed avatar; only then does it wait.
DeleteAsset(t) ==
    /\ sent[t].step = "delete"
    /\ \A u \in Tabs : sent[u].step = "clear" => sent[u].image # sent[t].image
    /\ IF sent[t].image \in removed THEN Refuse(t)
       ELSE sent' = [sent EXCEPT ![t].step = "clear"]
    /\ UNCHANGED <<profile, removed, lockedBy, me, form, edited, screen>>

ClearAvatar(t) ==
    LET m == sent[t].image
    IN  /\ sent[t].step = "clear"
        /\ removed' = removed \cup {m}
        /\ IF profile.avatar = m
           THEN /\ lockedBy = NoTab /\ profile.version < MaxVersion
                /\ profile' = [profile EXCEPT !.avatar = NoImage, !.version = @ + 1]
           ELSE UNCHANGED profile
        /\ Refuse(t)
        /\ UNCHANGED <<lockedBy, me, form, edited, screen>>

ProfilesNext ==
    \E t \in Tabs :
         \/ Refetch(t) \/ TypeBio(t) \/ ToggleRole(t) \/ SubmitForm(t)
         \/ SaveRoles(t) \/ SkipRoles(t) \/ FinishOnboarding(t) \/ GateRedirects(t)
         \/ PickAvatar(t) \/ RemoveImage(t) \/ ReloadForm(t)
         \/ LockProfile(t) \/ CommitProfile(t) \/ DeleteAsset(t) \/ ClearAvatar(t)

ProfilesSpec == ProfilesInit /\ [][ProfilesNext]_profileVars
-----------------------------------------------------------------------------
(* Properties. *)

\* A save of the settings form leaves the server with the text the form shows
\* in every field, the ones the patch leaves out included, whatever the other
\* tabs saved meanwhile (changedFields, with the ETag of the same answer).
SavedAsShown == [][\A t \in Tabs :
    sent[t].kind = "form" /\ sent[t].step = "write" /\ sent'[t].step = "none"
        => Text(profile') = Parsed(form[t])]_profileVars

\* A save of the settings form does not change a bio its user left alone
\* (profile-form.tsx: "o envio manda só os que mudaram"; updateProfile: If-Match
\* is there for another tab that "salvou no meio do caminho").
NoLostUpdate == [][\A t \in Tabs :
    sent[t].kind = "form" /\ sent[t].step = "write" /\ sent'[t].step = "none" /\ ~edited[t]
        => profile'.bio = profile.bio]_profileVars

Shared == INSTANCE SharedProfile

\* A tab saves only over the row as it has read it: the ETag sent with a request,
\* compared under the lock of the row, makes the read, the save and its answer
\* one compare-and-swap, although the tab may read again meanwhile.
SavesOverWhatWasRead == Shared!SharedSpec
=============================================================================
