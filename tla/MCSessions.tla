----------------------------- MODULE MCSessions -----------------------------
(***************************************************************************)
(* Sessions on small instances: two families and two or three tokens (two  *)
(* logins, or a login and its rotations), two requests at a time.          *)
(***************************************************************************)
EXTENDS Sessions, TLC

CONSTANTS t1, t2, t3, r1, r2

TwoFamilies == 1..2
TwoTokens == {t1, t2}
ThreeTokens == {t1, t2, t3}
TwoRequests == {r1, r2}

\* Requests differ in nothing; tokens do, Drawn picks one of them.
RequestSymmetry == Permutations(TwoRequests)
=============================================================================
