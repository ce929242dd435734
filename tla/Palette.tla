------------------------------ MODULE Palette ------------------------------
(***************************************************************************)
(* The palette of one image (apps/worker-image/src/pipeline/palette.ts):   *)
(* the k-means of its pixels, the order of its colours, and the background,*)
(* text and accent suggested from them.                                    *)
(*                                                                         *)
(* A colour is a lightness and a chroma on a plane; its luminance is its   *)
(* lightness, and a hex keeps lightness by steps of HexStep.  Coordinates  *)
(* of pixels divide by every possible number of them, so that the mean of  *)
(* a cluster is a colour.  The draws of mulberry32 are any draws.          *)
(***************************************************************************)
EXTENDS Integers, FiniteSets, Sequences, SequencesExt, FiniteSetsExt, Functions

CONSTANTS
    Thumbnails,      \* the pixels that are not transparent: sequences of [l, c]
    PaletteColors,   \* PALETTE_COLORS
    MaxIterations,   \* MAX_ITERATIONS
    White, Flare,    \* the luminance of white, and the 0.05 of WCAG
    HexStep,
    Halvings         \* turns of the search in darkEnough, 20

ASSUME PaletteAssumption ==
    /\ {White, Flare, HexStep, PaletteColors, MaxIterations} \subseteq Nat \ {0}
    /\ Halvings \in Nat

VARIABLES
    points,      \* the pixels
    centers,     \* of the clusters
    assignment,  \* per pixel, its cluster; 0 before the first iteration
    iteration,
    palette      \* the answer, once there is one

paletteVars == <<points, centers, assignment, iteration, palette>>

Colors == [l: 0 .. White, c: Nat]
NoPalette == [colors |-> <<>>]

PaletteTypeOK ==
    /\ points \in Seq(Colors) /\ points # <<>>
    /\ centers \in Seq(Colors)
    /\ assignment \in [DOMAIN points -> 0 .. Len(centers)]
    /\ iteration \in 0 .. MaxIterations

\* An image that is transparent all over has one grey pixel.
PaletteInit ==
    /\ points \in {IF t = <<>> THEN <<[l |-> White \div 2, c |-> 0]>> ELSE t : t \in Thumbnails}
    /\ centers = <<>>
    /\ assignment = [i \in DOMAIN points |-> 0]
    /\ iteration = 0
    /\ palette = NoPalette
-----------------------------------------------------------------------------
(* kmeans *)

Hex(color) == [color EXCEPT !.l = ((@ + HexStep \div 2) \div HexStep) * HexStep]
Dist2(p, q) == (p.l - q.l) * (p.l - q.l) + (p.c - q.c) * (p.c - q.c)

DistinctCount == Cardinality({Hex(p) : p \in Range(points)})
Clusters == Min({PaletteColors, DistinctCount})

\* What a pixel weighs in the draw of the next centre.
DrawWeight(i) == Min({Dist2(points[i], q) : q \in Range(centers)})

\* The first pixel is drawn when random() is 0, the last when the rounded sum
\* of the weights passes them all.
Drawn(i) == centers # <<>> => i \in {1, Len(points)} \/ DrawWeight(i) > 0

SeedCenter(i) ==
    /\ Len(centers) < Clusters /\ Drawn(i)
    /\ centers' = Append(centers, points[i])
    /\ UNCHANGED <<points, assignment, iteration, palette>>

\* The first of the nearest.
NearestCenter(p) == Min({j \in DOMAIN centers :
    \A k \in DOMAIN centers : Dist2(p, centers[j]) <= Dist2(p, centers[k])})

ClusterOf(of, j) == {i \in DOMAIN points : of[i] = j}
MeanOf(S) ==
    LET mean(part(_)) == MapThenSumSet(part, S) \div Cardinality(S)
        l(i) == points[i].l
        c(i) == points[i].c
    IN  [l |-> mean(l), c |-> mean(c)]

Seeded == Len(centers) = Clusters

\* One iteration: every pixel to its nearest centre, and each centre that has
\* pixels to their mean.
Iterate ==
    LET nearest == [i \in DOMAIN points |-> NearestCenter(points[i])]
    IN  /\ Seeded /\ iteration < MaxIterations /\ nearest # assignment
        /\ assignment' = nearest
        /\ centers' = [j \in DOMAIN centers |->
              LET mine == ClusterOf(nearest, j) IN IF mine = {} THEN centers[j] ELSE MeanOf(mine)]
        /\ iteration' = iteration + 1
        /\ UNCHANGED <<points, palette>>

\* The assignment of the last turn stands, whether it changed nothing or was
\* the last allowed.
Converged == \A i \in DOMAIN points : NearestCenter(points[i]) = assignment[i]
-----------------------------------------------------------------------------
(* paletteFromPoints *)

\* wcagContrast(a, b) >= ratio halves
ContrastIs(a, b, halves) ==
    LET light == Max({a.l, b.l})
        dark == Min({a.l, b.l})
    IN  2 * (light + Flare) >= halves * (dark + Flare)
WhiteHex == [l |-> White, c |-> 0]
BlackHex == [l |-> 0, c |-> 0]
BgMinContrast == 9       \* 4.5
AccentMinContrast == 6   \* 3

\* The larger first; of one size, by the hex.
ColorOrder(a, b) ==
    \/ a.size > b.size
    \/ a.size = b.size /\ (a.hex.l < b.hex.l \/ (a.hex.l = b.hex.l /\ a.hex.c < b.hex.c))
SortedColors ==
    LET found == {j \in DOMAIN centers : ClusterOf(assignment, j) # {}}
        color(j) == [hex |-> Hex(centers[j]), size |-> Cardinality(ClusterOf(assignment, j))]
    IN  [k \in 1 .. Cardinality(found) |-> color(SetToSortSeq(found,
            LAMBDA i, j : ColorOrder(color(i), color(j)) \/ (color(i) = color(j) /\ i < j))[k])]

\* What darkEnough has after n turns: [lo, hi].
Reads(color) == ContrastIs(Hex(color), WhiteHex, BgMinContrast)
Narrowed(color) ==
    LET turn[n \in 0 .. Halvings] ==
          IF n = 0 THEN [lo |-> 0, hi |-> color.l]
          ELSE LET last == turn[n - 1]
                   mid == (last.lo + last.hi) \div 2
               IN  IF Reads([color EXCEPT !.l = mid]) THEN [last EXCEPT !.lo = mid] ELSE [last EXCEPT !.hi = mid]
    IN  turn[Halvings]

\* Mutant: darkEnough answers with the end that does not read.
LightEnough(hex) == IF Reads(hex) THEN hex ELSE Hex([hex EXCEPT !.l = Narrowed(hex).hi])

DarkEnough(hex) == IF Reads(hex) THEN hex ELSE Hex([hex EXCEPT !.l = Narrowed(hex).lo])

\* The most saturated that stands out, or the first of the lighter ones of the
\* most saturated that does, or white.
PickAccent(hexes, bg) ==
    LET StandsOut(hex) == ContrastIs(hex, bg, AccentMinContrast)
        good == {k \in DOMAIN hexes : StandsOut(hexes[k])}
        MostSaturated(S) == CHOOSE k \in S : \A j \in S :
            hexes[k].c > hexes[j].c \/ (hexes[k].c = hexes[j].c /\ k <= j)
        top == hexes[MostSaturated(DOMAIN hexes)]
        lighter == {l \in top.l .. White : StandsOut(Hex([top EXCEPT !.l = l]))}
    IN  IF good # {} THEN hexes[MostSaturated(good)]
        ELSE IF lighter # {} THEN Hex([top EXCEPT !.l = Min(lighter)]) ELSE WhiteHex

Suggest ==
    LET colors == SortedColors
        bg == DarkEnough(colors[1].hex)
    IN  /\ Seeded /\ iteration > 0 /\ palette = NoPalette
        /\ Converged \/ iteration = MaxIterations
        /\ palette' = [colors |-> colors, bg |-> bg,
                       fg |-> IF (White + Flare) * Flare >= (bg.l + Flare) * (bg.l + Flare)
                              THEN WhiteHex ELSE BlackHex,
                       accent |-> PickAccent([k \in DOMAIN colors |-> colors[k].hex], bg)]
        /\ UNCHANGED <<points, centers, assignment, iteration>>

PaletteNext ==
    \/ \E i \in DOMAIN points : SeedCenter(i)
    \/ Iterate
    \/ Suggest
-----------------------------------------------------------------------------
(* Properties. *)

\* Whatever was drawn, two equal centres included: the colours share out every
\* pixel, the most common first; when the iterations were enough each is the
\* mean of the pixels nearest to it; white and the suggested text
\* read on the background (darkEnough: "até dar 4,5:1 com texto claro"), which
\* is no darker than that asks, and the accent stands out of it (palette.spec.ts
\* asks as much of one image).
PaletteIsFaithful == palette # NoPalette =>
    /\ palette.colors # <<>> /\ Len(palette.colors) <= PaletteColors
    /\ MapThenSumSet(LAMBDA k : palette.colors[k].size, DOMAIN palette.colors) = Len(points)
    /\ \A k \in DOMAIN palette.colors : palette.colors[k].size > 0
         /\ (k > 1 => palette.colors[k].size <= palette.colors[k - 1].size)
    /\ Converged => \A i \in DOMAIN points :
         LET j == assignment[i]
         IN  /\ centers[j] = MeanOf(ClusterOf(assignment, j))
             /\ \A k \in DOMAIN centers : Dist2(points[i], centers[j]) <= Dist2(points[i], centers[k])
    /\ Reads(palette.bg) /\ ContrastIs(palette.bg, palette.fg, BgMinContrast)
    /\ ContrastIs(palette.accent, palette.bg, AccentMinContrast)
    /\ palette.bg # palette.colors[1].hex => ~Reads([palette.bg EXCEPT !.l = @ + HexStep])
=============================================================================
