-------------------------- MODULE MCMediaPipeline --------------------------
(* Instances of MediaPipeline for TLC. *)
EXTENDS MediaPipeline, TLC

CONSTANTS m1, w1, w2, r1, r2

NoMedias == {}
OneMedia == {m1}
OneWorker == {w1}
TwoWorkers == {w1, w2}
OneRelay == {r1}
TwoRelays == {r1, r2}

WorkerSymmetry == Permutations(Workers)
=============================================================================

