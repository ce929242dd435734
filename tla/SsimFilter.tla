----------------------------- MODULE SsimFilter -----------------------------
(***************************************************************************)
(* How one SSIM is measured (apps/worker-image/src/pipeline/ssim.ts): the  *)
(* luma over a grey background, the reference prepared once, and an encode *)
(* filtered against it.  The Gaussian is two passes, and the rows of the   *)
(* first wait for the second in a ring of Side slots.                      *)
(*                                                                         *)
(* Numbers are integers: the kernel is not divided by its sum, alpha goes  *)
(* from 0 to MaxAlpha, a pixel is [y, a].  What is compared are the        *)
(* statistics of each window, from which the index is a quotient.          *)
(***************************************************************************)
EXTENDS Integers, FiniteSets, Sequences, FiniteSetsExt

CONSTANTS
    Side,       \* WINDOW, odd
    Kernel,       \* KERNEL, symmetric: 0 .. Side - 1 -> weight
    MaxAlpha,     \* 255
    Background,   \* ALPHA_BACKGROUND
    Frames,   \* the frames: [hasAlpha, at: row -> column -> pixel]
    Encodes       \* what the encodes decode to

ASSUME SsimFilterAssumption ==
    /\ Side \in Nat /\ Side % 2 = 1 /\ MaxAlpha \in Nat \ {0} /\ Background \in Nat
    /\ Kernel \in [0 .. Side - 1 -> Nat]
    /\ \A i \in 0 .. Side - 1 : Kernel[i] = Kernel[Side - 1 - i]

VARIABLES
    frame, encoded,  \* the pixels of the original and of an encode, of one size
    plane,           \* what is measured, "luma" or "alpha"
    walk,            \* over the rows: "prepare", "measure" or "measured"
    line,            \* the row it is at
    ring,            \* per signal, the filtered rows by their slot
    prepared,        \* per row of windows, mean and variance of the reference
    statistics       \* per row of windows, what the index is made of

ssimVars == <<frame, encoded, plane, walk, line, ring, prepared, statistics>>

\* Rows and columns count from 0, as in the buffers.
Height == Cardinality(DOMAIN frame.at)
Width == Cardinality(DOMAIN frame.at[0])
Small == Width < Side \/ Height < Side
OutWidth == Width - Side + 1
OutHeight == Height - Side + 1

\* lumaFromRaw: with an alpha channel, over the background.
Luma(f, r, c) == LET p == f.at[r][c]
                 IN  IF f.hasAlpha THEN p.y * p.a + Background * (MaxAlpha - p.a) ELSE p.y * MaxAlpha

\* alphaFromRaw; an encode that lost the channel counts as opaque.
Alpha(f, r, c) == IF f.hasAlpha THEN f.at[r][c].a ELSE MaxAlpha
Opaque(f) == \A r \in DOMAIN f.at : \A c \in DOMAIN f.at[r] : Alpha(f, r, c) = MaxAlpha

Value(f, r, c) == IF plane = "luma" THEN Luma(f, r, c) ELSE Alpha(f, r, c)
X(r, c) == Value(frame, r, c)
Y(r, c) == Value(encoded, r, c)

\* What each pass filters.
SignalsOf(p) == IF p = "prepare" THEN {"x", "xx"} ELSE {"y", "yy", "xy"}
Signal(s, r, c) == CASE s = "x"  -> X(r, c)
                     [] s = "xx" -> X(r, c) * X(r, c)
                     [] s = "y"  -> Y(r, c)
                     [] s = "yy" -> Y(r, c) * Y(r, c)
                     [] s = "xy" -> Y(r, c) * X(r, c)

SsimFilterTypeOK ==
    /\ plane \in {"luma", "alpha"} /\ walk \in {"prepare", "measure", "measured"}
    /\ line \in 0 .. Height
    /\ DOMAIN ring \subseteq {"x", "xx", "y", "yy", "xy"}
    /\ \A s \in DOMAIN ring : DOMAIN ring[s] \subseteq 0 .. Side - 1
    /\ ~Small => DOMAIN statistics \subseteq DOMAIN prepared /\ DOMAIN prepared \subseteq 0 .. OutHeight - 1

\* prepareFrame, and measureEncoded for the AVIF: the alpha only of a frame
\* that is not opaque.
SsimFilterInit ==
    /\ frame \in Frames /\ encoded \in Encodes
    /\ Cardinality(DOMAIN encoded.at) = Height /\ Cardinality(DOMAIN encoded.at[0]) = Width
    /\ plane \in {"luma"} \cup (IF Opaque(frame) THEN {} ELSE {"alpha"})
    /\ walk = IF Small THEN "measure" ELSE "prepare"
    /\ line = 0
    /\ ring = [s \in {"x", "xx"} |-> <<>>]
    /\ prepared = <<>> /\ statistics = <<>>
-----------------------------------------------------------------------------
(* The two filters.  Both take the weights in pairs, by their symmetry. *)

Half == (Side - 1) \div 2
Paired(V(_)) == MapThenSumSet(LAMBDA k : Kernel[k] * (V(k) + V(Side - 1 - k)), 0 .. Half - 1)
                + Kernel[Half] * V(Half)

FilterRow(s, r) ==
    [c \in 0 .. OutWidth - 1 |-> LET v(k) == Signal(s, r, c + k) IN Paired(v)]

\* Mutant: the oldest row is taken to be where the last one is.
SlotFromLast(last, k) == (last + k) % Side

Slot(last, k) == (last + 1 + k) % Side
FilterColumn(filtered, last) ==
    [c \in 0 .. OutWidth - 1 |-> LET v(k) == filtered[Slot(last, k)][c] IN Paired(v)]

\* The rings once row r is filtered into its slot.
Filled(r) == [s \in DOMAIN ring |->
    [k \in DOMAIN ring[s] \cup {r % Side} |-> IF k = r % Side THEN FilterRow(s, r) ELSE ring[s][k]]]

\* The kernel weighs Total instead of 1.
Total == LET sum == MapThenSumSet(LAMBDA k : Kernel[k], 0 .. Side - 1) IN sum * sum

AddTo(rows, r, windows) == [k \in DOMAIN rows \cup {r} |-> IF k = r THEN windows ELSE rows[k]]

\* A row of prepareReference.
PrepareRow ==
    /\ walk = "prepare" /\ line < Height
    /\ ring' = Filled(line)
    /\ line' = line + 1
    /\ IF line < Side - 1 THEN UNCHANGED prepared
       ELSE LET m == FilterColumn(ring'["x"], line)
                mm == FilterColumn(ring'["xx"], line)
            IN  prepared' = AddTo(prepared, line - Side + 1,
                    [c \in 0 .. OutWidth - 1 |-> [mean |-> m[c], variance |-> Total * mm[c] - m[c] * m[c]]])
    /\ UNCHANGED <<frame, encoded, plane, walk, statistics>>

\* ssimAgainst begins, with rings of its own.
BeginMeasure ==
    /\ walk = "prepare" /\ line = Height
    /\ walk' = "measure" /\ line' = 0
    /\ ring' = [s \in SignalsOf("measure") |-> <<>>]
    /\ UNCHANGED <<frame, encoded, plane, prepared, statistics>>

\* A row of ssimAgainst.
MeasureRow ==
    /\ walk = "measure" /\ ~Small /\ line < Height
    /\ ring' = Filled(line)
    /\ line' = line + 1
    /\ IF line < Side - 1 THEN UNCHANGED statistics
       ELSE LET of == prepared[line - Side + 1]
                m == FilterColumn(ring'["y"], line)
                mm == FilterColumn(ring'["yy"], line)
                mn == FilterColumn(ring'["xy"], line)
            IN  statistics' = AddTo(statistics, line - Side + 1, [c \in 0 .. OutWidth - 1 |->
                    [mx |-> of[c].mean, vx |-> of[c].variance,
                     my |-> m[c], vy |-> Total * mm[c] - m[c] * m[c],
                     cov |-> Total * mn[c] - of[c].mean * m[c]]])
    /\ walk' = IF line' = Height THEN "measured" ELSE walk
    /\ UNCHANGED <<frame, encoded, plane, prepared>>

\* globalSsim: one window of the size of the image, with equal weights.
SumOf(V(_, _)) == MapThenSumSet(LAMBDA p : V(p[1], p[2]), (0 .. Height - 1) \X (0 .. Width - 1))
MeasureSmall ==
    LET n == Height * Width
        sx == SumOf(X)
        sy == SumOf(Y)
        dx(r, c) == n * X(r, c) - sx
        dy(r, c) == n * Y(r, c) - sy
        xx(r, c) == dx(r, c) * dx(r, c)
        yy(r, c) == dy(r, c) * dy(r, c)
        xy(r, c) == dx(r, c) * dy(r, c)
    IN  /\ walk = "measure" /\ Small
        /\ statistics' = [k \in {0} |-> [c \in {0} |->
              [mx |-> sx, vx |-> SumOf(xx) \div n, my |-> sy, vy |-> SumOf(yy) \div n, cov |-> SumOf(xy) \div n]]]
        /\ walk' = "measured"
        /\ UNCHANGED <<frame, encoded, plane, line, ring, prepared>>

SsimFilterNext == PrepareRow \/ BeginMeasure \/ MeasureRow \/ MeasureSmall
-----------------------------------------------------------------------------
(* Properties. *)

\* The moments of the window at r, c, by their definition: each pixel times
\* its weight in two dimensions.
Weighted(V(_, _), r, c) ==
    MapThenSumSet(LAMBDA p : IF Small THEN V(p[1], p[2]) ELSE Kernel[p[1]] * Kernel[p[2]] * V(r + p[1], c + p[2]),
        IF Small THEN (0 .. Height - 1) \X (0 .. Width - 1) ELSE (0 .. Side - 1) \X (0 .. Side - 1))
Weight == IF Small THEN Height * Width ELSE Total

\* The same picture to the eye: the same alpha, and the same colour where it
\* is not transparent.
SeenAlike == \A r \in DOMAIN frame.at : \A c \in DOMAIN frame.at[r] :
    /\ Alpha(frame, r, c) = Alpha(encoded, r, c)
    /\ Alpha(frame, r, c) > 0 => frame.at[r][c].y = encoded.at[r][c].y

\* The rows and slots line up: the statistics of every window, each compared
\* with the same window of the reference, are the ones of its definition (the
\* header of ssim.ts).  An encode that looks the same, whatever its encoder
\* did under transparent pixels, measures as identical (lumaFromRaw).
StatisticsAreDirect == walk = "measured" =>
    /\ DOMAIN statistics = IF Small THEN {0} ELSE 0 .. OutHeight - 1
    /\ \A r \in DOMAIN statistics : \A c \in DOMAIN statistics[r] :
         LET s == statistics[r][c]
             xx(i, j) == X(i, j) * X(i, j)
             yy(i, j) == Y(i, j) * Y(i, j)
             xy(i, j) == X(i, j) * Y(i, j)
         IN  /\ s.mx = Weighted(X, r, c) /\ s.my = Weighted(Y, r, c)
             /\ s.vx = Weight * Weighted(xx, r, c) - s.mx * s.mx
             /\ s.vy = Weight * Weighted(yy, r, c) - s.my * s.my
             /\ s.cov = Weight * Weighted(xy, r, c) - s.mx * s.my
             /\ SeenAlike => s.mx = s.my /\ s.vx = s.vy /\ s.cov = s.vx
=============================================================================
