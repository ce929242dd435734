----------------------------- MODULE ImageFiles -----------------------------
(***************************************************************************)
(* From the bytes of an upload to the Source of its derivatives (apps/     *)
(* worker-image/src/pipeline: sniff.ts, heic.ts, icc.ts and the part of    *)
(* process-image.ts that calls them): the format by content, the walk of a *)
(* TIFF's directories in search of a RAW, the ceiling of pixels, and the   *)
(* colour of a HEIC carried to the TIFF that stands for it.                *)
(*                                                                         *)
(* A file is what these functions read of it; an IFD is known by its       *)
(* offset, and 0 is no IFD.  A profile is "wide" or "narrow" by the area   *)
(* of its primaries (describeIcc).                                         *)
(***************************************************************************)
EXTENDS Naturals, FiniteSets, Sequences, SequencesExt, Functions

CONSTANTS
    Uploads,        \* the files, each [heic, ispe, colr, codec, pixels, icc, cr2, ifds]
    Decoded,        \* what heif-dec may write: [size, tags], tags being those of its IFD
    MaxIfds,        \* IFDs looked at, 32
    MaxInputPixels, \* MAX_INPUT_PIXELS
    MaxQueue        \* bound: offsets in wait

\* The offsets of IFDs that a file names.
Named(f) == {f.ifds.first} \cup UNION {Range(f.ifds.at[i].links) : i \in DOMAIN f.ifds.at}

ASSUME ImageFilesAssumption ==
    /\ {MaxIfds, MaxInputPixels, MaxQueue} \subseteq Nat /\ MaxIfds > 0
    /\ \A d \in Decoded : d.size \in Nat /\ d.tags \in Seq(Nat) /\ IsInjective(d.tags)
    /\ \A f \in Uploads :
         /\ f.pixels \in Nat /\ f.ifds.first \in Nat /\ IsFiniteSet(Named(f))
         /\ 0 \notin DOMAIN f.ifds.at
         /\ \A i \in DOMAIN f.ifds.at : f.ifds.at[i].links \in Seq(Nat)

TagIccProfile == 34675          \* TAG_ICC_PROFILE

VARIABLES
    upload,     \* the original
    step,       \* where processImage is with it
    offsets,    \* `queue` of isTiffRaw
    visited,    \* `seen` of isTiffRaw
    tiff,       \* the TIFF of a HEIC: its first IFD, the ICC and its place
    refusal,    \* the error, "transient" when it is not a PermanentImageError
    output      \* of the Source: "srgb" or "p3"

imageVars == <<upload, step, offsets, visited, tiff, refusal, output>>

NoTiff == [size |-> 0, tags |-> <<>>, icc |-> "none", iccAt |-> 0, ifdAt |-> 0]

ImageFilesTypeOK ==
    /\ step \in {"heic?", "header", "ifds", "pixels", "decode", "again", "colour", "source", "refused"}
    /\ Len(offsets) <= MaxQueue /\ Cardinality(visited) <= MaxIfds
    /\ refusal \in {"none", "unsupportedFormat", "raw", "tooManyPixels", "unreadable", "transient"}
    /\ output \in {"none", "srgb", "p3"}

ImageFilesInit ==
    /\ upload \in Uploads
    /\ step = "heic?"
    /\ offsets = <<>> /\ visited = {}
    /\ tiff = NoTiff
    /\ refusal = "none" /\ output = "none"

Onward(s) == step' = s /\ UNCHANGED refusal
RefuseFile(why) == step' = "refused" /\ refusal' = why
-----------------------------------------------------------------------------
(* sniff *)

\* The largest `ispe`, by its area; none is an area of 0.
LargestIspe(f) == FoldLeft(LAMBDA m, area : IF area > m THEN area ELSE m, 0, f.ispe)

\* sniffHeic, by the brands of `ftyp`: its own pixels are bounded before
\* anything is decoded.
SniffHeic ==
    /\ step = "heic?"
    /\ IF ~upload.heic THEN Onward("header")
       ELSE IF LargestIspe(upload) = 0 THEN RefuseFile("unreadable")
       ELSE IF LargestIspe(upload) > MaxInputPixels THEN RefuseFile("tooManyPixels")
       ELSE Onward("decode")
    /\ UNCHANGED <<upload, offsets, visited, tiff, output>>

\* classify, by what libvips says of the header.
Classified(codec) == codec \in {"jpeg", "png", "webp", "tiff", "av1", "hevc"}

SniffHeader ==
    /\ step = "header"
    /\ IF ~Classified(upload.codec)
       THEN RefuseFile("unsupportedFormat") /\ UNCHANGED offsets
       ELSE IF upload.codec # "tiff" THEN Onward("pixels") /\ UNCHANGED offsets
       ELSE IF upload.cr2 THEN RefuseFile("raw") /\ UNCHANGED offsets
       ELSE Onward("ifds") /\ offsets' = <<upload.ifds.first>>
    /\ UNCHANGED <<upload, visited, tiff, output>>

\* One turn of the loop of isTiffRaw: an IFD that is not there counts as seen;
\* SubIFDs come before the next IFD.
Skipped(at) == at = 0 \/ at \in visited

WalkIfd ==
    LET at == Head(offsets)
        there == at \in DOMAIN upload.ifds.at
    IN  /\ step = "ifds" /\ offsets # <<>> /\ Cardinality(visited) < MaxIfds
        /\ IF Skipped(at)
           THEN offsets' = Tail(offsets) /\ UNCHANGED <<step, visited, refusal>>
           ELSE /\ visited' = visited \cup {at}
                /\ IF there /\ upload.ifds.at[at].raw
                   THEN RefuseFile("raw") /\ UNCHANGED offsets
                   ELSE /\ offsets' = Tail(offsets) \o (IF there THEN upload.ifds.at[at].links ELSE <<>>)
                        /\ Len(offsets') <= MaxQueue
                        /\ UNCHANGED <<step, refusal>>
        /\ UNCHANGED <<upload, tiff, output>>

WalkIsOver ==
    /\ step = "ifds" /\ (offsets = <<>> \/ Cardinality(visited) >= MaxIfds)
    /\ Onward("pixels")
    /\ UNCHANGED <<upload, offsets, visited, tiff, output>>

\* tooManyPixels.  A HEIC that only libvips recognised is decoded too.
CheckPixels ==
    /\ step = "pixels"
    /\ IF upload.pixels > MaxInputPixels THEN RefuseFile("tooManyPixels")
       ELSE Onward(IF upload.codec = "hevc" THEN "decode" ELSE "colour")
    /\ UNCHANGED <<upload, offsets, visited, tiff, output>>
-----------------------------------------------------------------------------
(* HEIC *)

\* heicColourProfile: the first ICC that is whole; without one, Display P3 if
\* the first `nclx` says so.
HeicProfile(f) ==
    LET whole == SelectSeq(f.colr, LAMBDA b : b.type \in {"prof", "rICC"} /\ b.whole)
        nclx == SelectSeq(f.colr, LAMBDA b : b.type = "nclx")
    IN  IF whole # <<>> THEN Head(whole).profile
        ELSE IF nclx # <<>> /\ Head(nclx).profile = "wide" THEN "wide" ELSE "none"

Even(n) == n + (n % 2)

IccLength == 3

\* Tags, sorted.
InOrder(S) == CHOOSE s \in [1 .. Cardinality(S) -> S] :
    Range(s) = S /\ \A i, j \in DOMAIN s : i < j => s[i] < s[j]

\* Mutant: the new entry goes after the others, whatever its tag.
WithIccLast(d, profile) ==
    LET at == Even(d.size)
    IN  [size |-> d.size, tags |-> Append(d.tags, TagIccProfile), icc |-> profile,
         iccAt |-> at, ifdAt |-> Even(at + IccLength)]

\* injectTiffIcc: the entry replaced, the entries sorted, the profile and then
\* the new IFD at even offsets past the end of the file, and last the pointer.
WithIcc(d, profile) ==
    LET at == Even(d.size)
    IN  [size |-> d.size, tags |-> InOrder(Range(d.tags) \cup {TagIccProfile}), icc |-> profile,
         iccAt |-> at, ifdAt |-> Even(at + IccLength)]

\* decodeHeic: no binary is an error of the deployment; a decoder that fails,
\* or writes nothing, of the file.
DecodeHeic ==
    /\ step = "decode"
    /\ \/ RefuseFile("transient") /\ UNCHANGED tiff
       \/ RefuseFile("unreadable") /\ UNCHANGED tiff
       \/ \E d \in Decoded :
            /\ tiff' = IF HeicProfile(upload) # "none" THEN WithIcc(d, HeicProfile(upload))
                       ELSE [NoTiff EXCEPT !.size = d.size, !.tags = d.tags]
            /\ Onward("again")
    /\ UNCHANGED <<upload, offsets, visited, output>>

\* The TIFF is sniffed in its turn: pixels of the primary image.
SniffAgain ==
    /\ step = "again"
    /\ IF upload.pixels > MaxInputPixels THEN RefuseFile("tooManyPixels") ELSE Onward("colour")
    /\ UNCHANGED <<upload, offsets, visited, tiff, output>>
-----------------------------------------------------------------------------
(* The colour. *)

\* The profile that libvips finds: through the first IFD in a TIFF.
ProfileRead ==
    IF tiff = NoTiff THEN upload.icc
    ELSE IF TagIccProfile \in Range(tiff.tags) THEN tiff.icc ELSE "none"

DescribeIcc ==
    /\ step = "colour"
    /\ output' = IF ProfileRead = "wide" THEN "p3" ELSE "srgb"
    /\ Onward("source")
    /\ UNCHANGED <<upload, offsets, visited, tiff>>

ImageFilesNext ==
    \/ SniffHeic \/ SniffHeader \/ WalkIfd \/ WalkIsOver \/ CheckPixels
    \/ DecodeHeic \/ SniffAgain \/ DescribeIcc

ImageFilesSpec == ImageFilesInit /\ [][ImageFilesNext]_imageVars
-----------------------------------------------------------------------------
(* Properties. *)

\* The IFDs that links lead to, from the first one.
IsClosed(f, S) ==
    f.ifds.first \in S /\ \A i \in S \cap DOMAIN f.ifds.at : Range(f.ifds.at[i].links) \subseteq S
Reachable == {i \in Named(upload) : \A S \in SUBSET Named(upload) : IsClosed(upload, S) => i \in S} \ {0}

\* What becomes a Source is no RAW, whatever loops its directories make, as
\* long as MaxIfds of them are enough to see them all (isTiffRaw); it is
\* within the ceiling of pixels; and it keeps the gamut that its file, or the
\* boxes of its HEIC, declare, read through a TIFF whose tags are in order and
\* whose new parts lie at even offsets past the old ones (injectTiffIcc).
SourceIsFaithful ==
    /\ step = "source" =>
         /\ upload.pixels <= MaxInputPixels
         /\ upload.codec = "tiff" /\ ~upload.heic /\ Cardinality(Reachable) <= MaxIfds =>
              ~upload.cr2 /\ \A i \in Reachable \cap DOMAIN upload.ifds.at : ~upload.ifds.at[i].raw
         /\ LET declared == IF tiff = NoTiff THEN upload.icc ELSE HeicProfile(upload)
            IN  output = IF declared = "wide" THEN "p3" ELSE "srgb"
    /\ refusal = "raw" =>
         upload.cr2 \/ \E i \in Reachable \cap DOMAIN upload.ifds.at : upload.ifds.at[i].raw
    /\ tiff.ifdAt # 0 =>
         /\ tiff.iccAt >= tiff.size /\ tiff.ifdAt >= tiff.iccAt + IccLength
         /\ tiff.iccAt % 2 = 0 /\ tiff.ifdAt % 2 = 0
         /\ \A i, j \in DOMAIN tiff.tags : i < j => tiff.tags[i] < tiff.tags[j]
=============================================================================
