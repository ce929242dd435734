----------------------------- MODULE MCProfiles -----------------------------
(* The profile of one account on its own, for the property its code breaks. *)
EXTENDS Profiles, TLC

Spec == ProfilesInit /\ [][ProfilesNext]_profileVars

Symmetry == Permutations(Tabs)
=============================================================================
