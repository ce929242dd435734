----------------------------- MODULE Derivatives -----------------------------
(***************************************************************************)
(* The derivatives of one image (apps/worker-image/src/pipeline/           *)
(* derivatives.ts): the widths, the search of the quality at the reference *)
(* width, its application to the other widths by lanes, and the ceiling.   *)
(*                                                                         *)
(* An encode is its SSIM against SSIM_TARGET.  SSIM grows with the quality:*)
(* `needs` is, per width and format, the lowest quality that reaches it.   *)
(* Formats are searched on their own, AVIF and WebP of a width together:   *)
(* here one format at a time, which none of them can tell.                 *)
(***************************************************************************)
EXTENDS Naturals, FiniteSets, Sequences, SequencesExt, FiniteSetsExt

CONSTANTS
    StandardWidths,       \* STANDARD_WIDTHS
    MaxPixels,            \* MAX_DERIVATIVE_PIXELS
    ReferenceWidth,       \* REFERENCE_WIDTH
    Quality,              \* QUALITY: format -> min, max, ceiling
    SearchSteps, Bump, MaxBumps,   \* SEARCH_STEPS, QUALITY_BUMP, MAX_BUMPS
    ParallelWidths,       \* lanes
    Originals,            \* the sizes an image can have: [w, h]
    Needs, OtherNeeds,    \* what `needs` can be, at the reference and elsewhere;
                          \* above every ceiling: never
    NoQuality

Formats == {"avif", "webp", "jpeg"}

\* In k steps a search gets to the end of fewer qualities than Searched[k];
\* of AVIF's, for which SEARCH_STEPS is one short, it leaves at most one.
Searched[k \in Nat] == IF k = 0 THEN 1 ELSE 2 * Searched[k - 1]
Slack(f) == IF f = "avif" THEN 1 ELSE 0

ASSUME DerivativesAssumption ==
    /\ StandardWidths \subseteq Nat \ {0} /\ Originals \subseteq [w: Nat \ {0}, h: Nat \ {0}]
    /\ StandardWidths # {} /\ IsFiniteSet(StandardWidths) /\ MaxPixels \in Nat
    /\ {SearchSteps, Bump, MaxBumps, ParallelWidths} \subseteq Nat
    /\ Quality \in [Formats -> [min: Nat \ {0}, max: Nat, ceiling: Nat]]
    /\ \A f \in Formats :
          /\ Quality[f].min <= Quality[f].max
          /\ Quality[f].max + 1 - Quality[f].min < Searched[SearchSteps + Slack(f)]
    /\ Needs \cup OtherNeeds \subseteq Nat /\ NoQuality \notin Nat

VARIABLES
    original,  \* the size of the image
    widths,    \* the plan
    needs,     \* what each encode of a format needs: at the reference, elsewhere
    format,    \* the format looked at: one of each behaviour
    search,    \* the search: lo, hi, steps made, best, whether max was tried
    lanes,     \* per lane: the width in hand, and the qualities still to try
    pending,   \* the widths no lane has taken
    made,      \* the derivatives: width -> quality and whether it reached
    failed     \* an encode or a measurement has failed

derivativesVars == <<original, widths, needs, format, search, lanes, pending, made, failed>>

\* planWidths.  The last width, the area's, is the largest multiple of 16 that fits.
CeilDiv(a, b) == (a + b - 1) \div b
FitsArea(o, w) == w * CeilDiv(w * o.h, o.w) <= MaxPixels
PlanWidths(o) ==
    LET largest == Max(StandardWidths)
        candidates == {w \in StandardWidths : w <= o.w} \cup (IF o.w < largest THEN {o.w} ELSE {})
        kept == {w \in candidates : FitsArea(o, w)}
        sixteens == {w \in {16 * k : k \in 1 .. (largest \div 16)} : FitsArea(o, w)}
        capped == IF sixteens = {} THEN 0 ELSE Max(sixteens)
    IN  IF kept # candidates /\ capped > (IF kept = {} THEN 0 ELSE Max(kept))
        THEN kept \cup {capped} ELSE kept

\* referenceWidth
ReferenceOf(ws) ==
    LET fits == {w \in ws : w <= ReferenceWidth}
    IN  IF fits # {} THEN Max(fits) ELSE Min(ws)

Span == Quality[format]
TheReference == ReferenceOf(widths)
NeedAt(w) == IF w = TheReference THEN needs.reference ELSE needs.elsewhere
Reaches(w, q) == q >= NeedAt(w)
Round(a) == (a + 1) \div 2     \* Math.round of a half

IdleLane == [width |-> 0, try |-> <<>>]
NewSearch(f) == [lo |-> Quality[f].min, hi |-> Quality[f].max, steps |-> 0,
                 best |-> NoQuality, triedMax |-> FALSE]

DerivativesTypeOK ==
    /\ original \in Originals /\ format \in Formats
    /\ search.steps \in 0 .. SearchSteps /\ search.best \in Nat \cup {NoQuality}
    /\ \A k \in DOMAIN lanes : lanes[k] = IdleLane \/ lanes[k].width \in widths
    /\ DOMAIN made \subseteq widths
    /\ failed \in BOOLEAN

\* Sizes of which every width passes the area would leave nothing to search.
DerivativesInit ==
    /\ original \in Originals
    /\ widths = PlanWidths(original) /\ widths # {}
    /\ format \in Formats
    /\ needs \in [reference: Needs, elsewhere: OtherNeeds]
    /\ search = NewSearch(format)
    /\ lanes = [k \in 1 .. ParallelWidths |-> IdleLane]
    /\ pending = IF format = "jpeg" THEN {} ELSE widths \ {TheReference}
    /\ made = <<>>
    /\ failed = FALSE
-----------------------------------------------------------------------------
(* search *)

Searching == TheReference \notin DOMAIN made /\ ~failed
\* Mutant: a range of one quality is not tried.
MoreThanOneLeft == search.steps < SearchSteps /\ search.lo < search.hi

MoreSteps == search.steps < SearchSteps /\ search.lo <= search.hi

Make(w, q) == made' = [x \in DOMAIN made \cup {w} |-> IF x = w THEN [quality |-> q, met |-> Reaches(w, q)] ELSE made[x]]

SearchStep ==
    LET q == Round(search.lo + search.hi)
    IN  /\ Searching /\ MoreSteps
        /\ search' = [search EXCEPT
              !.steps = @ + 1,
              !.triedMax = @ \/ q = Span.max,
              !.best = IF Reaches(TheReference, q) THEN q ELSE @,
              !.hi = IF Reaches(TheReference, q) THEN q - 1 ELSE @,
              !.lo = IF Reaches(TheReference, q) THEN @ ELSE q + 1]
        /\ UNCHANGED <<original, widths, needs, format, lanes, pending, made, failed>>

\* escalate: the first of the qualities that reaches the target, or the last.
Escalated(w, qualities) ==
    LET good == {k \in DOMAIN qualities : Reaches(w, qualities[k])}
    IN  IF good = {} THEN Last(qualities) ELSE qualities[Min(good)]

EndSearch ==
    /\ Searching /\ ~MoreSteps
    /\ Make(TheReference,
            IF search.best # NoQuality THEN search.best
            ELSE Escalated(TheReference, IF search.triedMax THEN <<Span.ceiling>>
                                         ELSE <<Span.max, Span.ceiling>>))
    /\ UNCHANGED <<original, widths, needs, format, search, lanes, pending, failed>>
-----------------------------------------------------------------------------
(* The lanes. *)

\* apply: the qualities for another width, from the reference's.
Bumped(start, i) == IF start + Bump * i < Span.max THEN start + Bump * i ELSE Span.max
ToTry(start) ==
    IF start >= Span.max THEN <<start, Span.ceiling>>
    ELSE <<start>> \o [i \in 1 .. MaxBumps |-> Bumped(start, i)] \o <<Span.max, Span.ceiling>>

\* The largest first.
TakeWidth(k) ==
    /\ ~Searching /\ ~failed
    /\ lanes[k] = IdleLane /\ pending # {}
    /\ lanes' = [lanes EXCEPT
          ![k] = [width |-> Max(pending), try |-> ToTry(made[TheReference].quality)]]
    /\ pending' = pending \ {Max(pending)}
    /\ UNCHANGED <<original, widths, needs, format, search, made, failed>>

\* attempt gives up once something has failed.
TryQuality(k) ==
    LET w == lanes[k].width
        q == Head(lanes[k].try)
        over == Reaches(w, q) \/ Len(lanes[k].try) = 1
    IN  /\ lanes[k] # IdleLane /\ ~failed
        /\ lanes' = [lanes EXCEPT ![k] = IF over THEN IdleLane ELSE [width |-> w, try |-> Tail(@.try)]]
        /\ IF over THEN Make(w, q) ELSE UNCHANGED made
        /\ UNCHANGED <<original, widths, needs, format, search, pending, failed>>

\* A frame, an encode or a measurement fails: the job fails, and the lanes stop.
EncodeFails ==
    /\ ~failed /\ DOMAIN made # widths
    /\ failed' = TRUE
    /\ UNCHANGED <<original, widths, needs, format, search, lanes, pending, made>>

DerivativesNext ==
    \/ SearchStep \/ EndSearch \/ EncodeFails
    \/ \E k \in DOMAIN lanes : TakeWidth(k) \/ TryQuality(k)

DerivativesSpec == DerivativesInit /\ [][DerivativesNext]_derivativesVars
-----------------------------------------------------------------------------
(* Properties. *)

Over == ~Searching /\ ~failed /\ pending = {} /\ \A k \in DOMAIN lanes : lanes[k] = IdleLane

\* Without a failure each width of the plan is made, none larger than the
\* original or the area, and the reference has the lowest quality that reaches
\* the target, exactly for WebP and JPEG and within one point for AVIF; what
\* its range cannot reach goes to the ceiling, and only a derivative at the
\* ceiling misses the target (the notes of QUALITY and generateDerivatives).
SearchFindsLightest == Over =>
    /\ DOMAIN made = IF format = "jpeg" THEN {TheReference} ELSE widths
    /\ \A w \in DOMAIN made :
         /\ w <= original.w /\ FitsArea(original, w)
         /\ ~made[w].met => made[w].quality = Span.ceiling /\ NeedAt(w) > Span.ceiling
    /\ LET q == made[TheReference].quality
           lowest == Max({Span.min, needs.reference})
       IN  IF lowest > Span.max THEN q = Span.ceiling
           ELSE q = lowest \/ (format = "avif" /\ q = lowest + 1)
=============================================================================
