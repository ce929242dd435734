-------------------------- MODULE MCUploadSession --------------------------
(* Instances of UploadSession for TLC. *)
EXTENDS UploadSession, TLC

CONSTANTS f1, a1, a2, r1, r2

OneFile == {f1}
OneAsset == {a1}
TwoAssets == {a1, a2}
OneRequest == {r1}
TwoRequests == {r1, r2}

\* Media ids are drawn at random, and request slots are alike.
UploadSymmetry == Permutations(Assets) \cup Permutations(Requests)
=============================================================================
