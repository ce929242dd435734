--------------------------- MODULE MCApplication ---------------------------
(***************************************************************************)
(* The instances of the components that share no state with another: each  *)
(* behaviour is one of `focus`, and the others stay where they begin.      *)
(***************************************************************************)
EXTENDS Handles, Profiles, RateLimits, WebClient, BrowserUploads, MediaStream,
        LibraryList, SsimPool, Derivatives, RelayProcess, ImageFiles, SsimFilter, Palette,
        Problems, PageControls, DerivativeStore, TLC

VARIABLE focus

Components == {"handles", "profiles", "rateLimits", "webClient", "uploads", "stream", "list",
               "pool", "derivatives", "relay", "images", "ssim", "palette", "problems",
               "controls", "store"}
-----------------------------------------------------------------------------
(* The values of constants. *)

CreatedAtOf == [a \in Assets |-> IF a = 3 THEN 2 ELSE 1]      \* two of one instant

JobOfTask == [t \in Tasks |-> IF t = "b1" THEN "b" ELSE "a"]

Qualities == [avif |-> [min |-> 55, max |-> 90, ceiling |-> 98],
              webp |-> [min |-> 75, max |-> 95, ceiling |-> 100],
              jpeg |-> [min |-> 75, max |-> 95, ceiling |-> 100]]
\* Smaller than the standard widths; cut by the area; a strip.
ImageSizes == {[w |-> 700, h |-> 500], [w |-> 3000, h |-> 4000], [w |-> 1000, h |-> 30000]}
NeedRange == 50 .. 101

NoIfds == [first |-> 0, at |-> <<>>]
Plain == [heic |-> FALSE, ispe |-> <<>>, colr |-> <<>>, codec |-> "tiff", pixels |-> 1,
          icc |-> "none", cr2 |-> FALSE, ifds |-> NoIfds]
Boxes == [type: {"prof", "nclx"}, whole: BOOLEAN, profile: {"narrow", "wide"}]
\* Three IFDs, each with a SubIFD and a next one, the second or third a RAW or none.
Directories == {[first |-> 1, at |-> [i \in 1 .. 3 |-> [raw |-> i = m, links |-> g[i]]]] :
    m \in 2 .. 4, g \in {[i \in 1 .. 3 |-> IF i = 3 THEN z ELSE IF i = 2 THEN y ELSE x] :
        x, y \in (0 .. 3) \X (0 .. 3), z \in {<<0, 0>>, <<4, 1>>}}}
UploadFiles ==
    {[Plain EXCEPT !.codec = c, !.pixels = p, !.icc = i] :
        c \in {"jpeg", "hevc", "other"}, p \in {1, 3}, i \in {"none", "narrow", "wide"}}
    \cup {[Plain EXCEPT !.heic = TRUE, !.codec = "hevc", !.ispe = s, !.colr = c, !.pixels = p] :
            s \in {<<>>, <<1, 2>>, <<3, 1>>}, p \in {2, 3},
            c \in {<<>>} \cup {<<b>> : b \in Boxes} \cup (Boxes \X Boxes)}
    \cup {[Plain EXCEPT !.cr2 = TRUE]}
    \cup {[Plain EXCEPT !.ifds = d] : d \in Directories}
DecodedFiles == {[size |-> 9, tags |-> <<256, 257>>], [size |-> 8, tags |-> <<256, 34675, 40961>>]}

Binomial == [k \in 0 .. 2 |-> IF k = 1 THEN 2 ELSE 1]
\* SsimPictures that differ in a transparent column only, and others; one smaller
\* than the window.
SsimPictures == {[hasAlpha |-> alpha, at |-> [r \in 0 .. s[1] - 1 |-> [c \in 0 .. s[2] - 1 |->
        [y |-> (k * r * r + c * (r + k) + (IF c = 1 THEN u * 3 ELSE 0)) % 5,
         a |-> IF alpha /\ c = 1 THEN 0 ELSE IF alpha /\ k = 2 /\ r > 1 THEN 1 ELSE 2]]]] :
    s \in {<<5, 4>>, <<2, 3>>}, alpha \in BOOLEAN, k \in 1 .. 2, u \in {0, 1}}
\* Black, white, and colours between them.
Pixels == {[l |-> 0, c |-> 0], [l |-> 12, c |-> 24], [l |-> 60, c |-> 12], [l |-> 96, c |-> 0]}
SmallImages == {<<>>} \cup [1 .. 1 -> Pixels] \cup [1 .. 4 -> Pixels]
\* Texts typed for a role, two of them with blanks.
TypedTexts == [t \in {"", "  ", "cut", " cut", "sound", "light"} |->
                  IF t = "  " THEN "" ELSE IF t = " cut" THEN "cut" ELSE t]
FoundByQuery == [q \in {"", "sao", "zzz"} |->
    CASE q = "" -> <<1, 2, 3, 4>> [] q = "sao" -> <<2, 4>> [] q = "zzz" -> <<>>]
\* TLC evaluates a definition once, and one that replaces a constant each time.
MCCreatedAt == CreatedAtOf
MCJobOf == JobOfTask
MCQuality == Qualities
MCOriginals == ImageSizes
MCNeeds == NeedRange
MCUploads == UploadFiles
MCDecoded == DecodedFiles
MCKernel == Binomial
MCFrames == SsimPictures
MCThumbnails == SmallImages
MCTrimmed == TypedTexts
MCFound == FoundByQuery
MCZones == <<"", "Belem", "Lima", "Sao Paulo">>
MCSavedRoles == {<<>>, <<"cut", "light">>}
-----------------------------------------------------------------------------
(* One component at a time.  Those out of focus have a single beginning. *)

One(S) == CHOOSE x \in S : TRUE
Alone(component, beginning) == focus = component \/ (focus # component /\ beginning)

Init ==
    /\ focus \in Components
    /\ HandlesInit /\ RateLimitsInit /\ BrowserUploadsInit /\ MediaStreamInit /\ SsimPoolInit
    /\ Alone("profiles", screen = [t \in Tabs |-> "settings"]) /\ ProfilesInit
    /\ Alone("webClient", cookie = "none") /\ WebClientInit
    /\ Alone("list", row = [a \in Assets |-> "absent"] /\ filter = "all") /\ LibraryListInit
    /\ Alone("relay", client = [c \in Clients |-> IF c = One(Clients) THEN "connecting" ELSE "unmade"]
                      /\ outbox = [i \in OutboxIds |-> "unwritten"]) /\ RelayProcessInit
    /\ Alone("derivatives", original = One(Originals) /\ format = "avif"
                            /\ needs = [reference |-> One(Needs), elsewhere |-> One(OtherNeeds)]) /\ DerivativesInit
    /\ Alone("images", upload = One(Uploads)) /\ ImageFilesInit
    /\ Alone("ssim", frame = One(Frames) /\ encoded = frame /\ plane = "luma") /\ SsimFilterInit
    /\ Alone("palette", points = <<WhiteHex>>) /\ PaletteInit
    /\ Alone("problems", page = "login") /\ ProblemsInit
    /\ Alone("controls", place = "settings") /\ PageControlsInit
    /\ Alone("store", source = Declared) /\ DerivativeStoreInit

vars == <<focus, handleVars, profileVars, rateVars, clientVars, uploadsVars,
                 streamVars, listVars, poolVars, derivativesVars, relayVars,
                 imageVars, ssimVars, paletteVars, problemVars, controlVars, storeVars>>

Next ==
    \/ /\ focus = "handles" /\ HandlesNext
       /\ UNCHANGED <<focus, profileVars, rateVars, clientVars, uploadsVars,
                      streamVars, listVars, poolVars, derivativesVars, relayVars,
                      imageVars, ssimVars, paletteVars, problemVars,
                      controlVars, storeVars>>
    \/ /\ focus = "profiles" /\ ProfilesNext
       /\ UNCHANGED <<focus, handleVars, rateVars, clientVars, uploadsVars,
                      streamVars, listVars, poolVars, derivativesVars, relayVars,
                      imageVars, ssimVars, paletteVars, problemVars,
                      controlVars, storeVars>>
    \/ /\ focus = "rateLimits" /\ RateLimitsNext
       /\ UNCHANGED <<focus, handleVars, profileVars, clientVars, uploadsVars,
                      streamVars, listVars, poolVars, derivativesVars, relayVars,
                      imageVars, ssimVars, paletteVars, problemVars,
                      controlVars, storeVars>>
    \/ /\ focus = "webClient" /\ WebClientNext
       /\ UNCHANGED <<focus, handleVars, profileVars, rateVars, uploadsVars,
                      streamVars, listVars, poolVars, derivativesVars, relayVars,
                      imageVars, ssimVars, paletteVars, problemVars,
                      controlVars, storeVars>>
    \/ /\ focus = "uploads" /\ BrowserUploadsNext
       /\ UNCHANGED <<focus, handleVars, profileVars, rateVars, clientVars,
                      streamVars, listVars, poolVars, derivativesVars, relayVars,
                      imageVars, ssimVars, paletteVars, problemVars,
                      controlVars, storeVars>>
    \/ /\ focus = "stream" /\ MediaStreamNext
       /\ UNCHANGED <<focus, handleVars, profileVars, rateVars, clientVars,
                      uploadsVars, listVars, poolVars, derivativesVars, relayVars,
                      imageVars, ssimVars, paletteVars, problemVars,
                      controlVars, storeVars>>
    \/ /\ focus = "list" /\ LibraryListNext
       /\ UNCHANGED <<focus, handleVars, profileVars, rateVars, clientVars,
                      uploadsVars, streamVars, poolVars, derivativesVars, relayVars,
                      imageVars, ssimVars, paletteVars, problemVars,
                      controlVars, storeVars>>
    \/ /\ focus = "pool" /\ SsimPoolNext
       /\ UNCHANGED <<focus, handleVars, profileVars, rateVars, clientVars,
                      uploadsVars, streamVars, listVars, derivativesVars, relayVars,
                      imageVars, ssimVars, paletteVars, problemVars,
                      controlVars, storeVars>>
    \/ /\ focus = "derivatives" /\ DerivativesNext
       /\ UNCHANGED <<focus, handleVars, profileVars, rateVars, clientVars,
                      uploadsVars, streamVars, listVars, poolVars, relayVars,
                      imageVars, ssimVars, paletteVars, problemVars,
                      controlVars, storeVars>>
    \/ /\ focus = "relay" /\ RelayProcessNext
       /\ UNCHANGED <<focus, handleVars, profileVars, rateVars, clientVars,
                      uploadsVars, streamVars, listVars, poolVars, derivativesVars,
                      imageVars, ssimVars, paletteVars, problemVars,
                      controlVars, storeVars>>
    \/ /\ focus = "images" /\ ImageFilesNext
       /\ UNCHANGED <<focus, handleVars, profileVars, rateVars, clientVars,
                      uploadsVars, streamVars, listVars, poolVars, derivativesVars,
                      relayVars, ssimVars, paletteVars, problemVars,
                      controlVars, storeVars>>
    \/ /\ focus = "ssim" /\ SsimFilterNext
       /\ UNCHANGED <<focus, handleVars, profileVars, rateVars, clientVars,
                      uploadsVars, streamVars, listVars, poolVars, derivativesVars,
                      relayVars, imageVars, paletteVars, problemVars,
                      controlVars, storeVars>>
    \/ /\ focus = "palette" /\ PaletteNext
       /\ UNCHANGED <<focus, handleVars, profileVars, rateVars, clientVars,
                      uploadsVars, streamVars, listVars, poolVars, derivativesVars,
                      relayVars, imageVars, ssimVars, problemVars,
                      controlVars, storeVars>>
    \/ /\ focus = "problems" /\ ProblemsNext
       /\ UNCHANGED <<focus, handleVars, profileVars, rateVars, clientVars,
                      uploadsVars, streamVars, listVars, poolVars, derivativesVars,
                      relayVars, imageVars, ssimVars, paletteVars, controlVars,
                      storeVars>>
    \/ /\ focus = "controls" /\ PageControlsNext
       /\ UNCHANGED <<focus, handleVars, profileVars, rateVars, clientVars,
                      uploadsVars, streamVars, listVars, poolVars, derivativesVars,
                      relayVars, imageVars, ssimVars, paletteVars, problemVars,
                      storeVars>>
    \/ /\ focus = "store" /\ DerivativeStoreNext
       /\ UNCHANGED <<focus, handleVars, profileVars, rateVars, clientVars,
                      uploadsVars, streamVars, listVars, poolVars, derivativesVars,
                      relayVars, imageVars, ssimVars, paletteVars, problemVars,
                      controlVars>>

Spec == Init /\ [][Next]_vars
-----------------------------------------------------------------------------
\* A state is what is in focus: the rest is as it began.  Two pages, tabs or
\* lanes that change places make the same state: a set of two values, or of the
\* one both have, says which ones there are.  `edited` guards no action, and
\* only NoLostUpdate, which this run leaves out, looks at it.
ASSUME TwoOfEach == Cardinality(HandlePages) = 2 /\ Cardinality(Tabs) = 2
                    /\ ParallelWidths = 2 /\ Cardinality(PutLanes) = 2

View ==
    CASE focus = "handles" -> <<focus, handle, reserved, changed, day, {call[p] : p \in HandlePages}>>
      [] focus = "profiles" -> <<focus, profile, removed,
                                {<<lockedBy = t, me[t], form[t], screen[t], sent[t]>> : t \in Tabs}>>
      [] focus = "rateLimits" -> <<focus, rateVars>>
      [] focus = "webClient" -> <<focus, clientVars>>
      [] focus = "uploads" -> <<focus, uploadsVars>>
      [] focus = "stream" -> <<focus, streamVars>>
      [] focus = "list" -> <<focus, listVars>>
      [] focus = "pool" -> <<focus, poolVars>>
      [] focus = "derivatives" -> <<focus, original, widths, needs, format, search, Range(lanes),
                                   pending, made, failed>>
      [] focus = "relay" -> <<focus, relayVars>>
      [] focus = "images" -> <<focus, imageVars>>
      [] focus = "ssim" -> <<focus, ssimVars>>
      [] focus = "palette" -> <<focus, paletteVars>>
      [] focus = "problems" -> <<focus, problemVars>>
      [] focus = "controls" -> <<focus, controlVars>>
      [] focus = "store" -> <<focus, source, asset, [a \in JobRuns |-> <<runs[a].step, runs[a].made,
                             runs[a].queue, Range(runs[a].stored), Range(putting[a])>>],
                             late, objects, records>>

\* Every variable of the component in focus has its type.
TypeOK ==
    /\ focus \in Components
    /\ focus = "handles" => HandleTypeOK
    /\ focus = "profiles" => ProfilesTypeOK
    /\ focus = "rateLimits" => RateLimitsTypeOK
    /\ focus = "webClient" => WebClientTypeOK
    /\ focus = "uploads" => BrowserUploadsTypeOK
    /\ focus = "stream" => MediaStreamTypeOK
    /\ focus = "list" => LibraryListTypeOK
    /\ focus = "pool" => SsimPoolTypeOK
    /\ focus = "derivatives" => DerivativesTypeOK
    /\ focus = "relay" => RelayProcessTypeOK
    /\ focus = "images" => ImageFilesTypeOK
    /\ focus = "ssim" => SsimFilterTypeOK
    /\ focus = "palette" => PaletteTypeOK
    /\ focus = "problems" => ProblemsTypeOK
    /\ focus = "controls" => PageControlsTypeOK
    /\ focus = "store" => DerivativeStoreTypeOK
=============================================================================
