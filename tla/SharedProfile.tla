--------------------------- MODULE SharedProfile ---------------------------
(***************************************************************************)
(* What Profiles promises of the row that several tabs edit: a tab saves   *)
(* over what it has read, or not at all.  Forms, requests on their way and *)
(* the lock of the row do not appear; only the removal of an image changes *)
(* the row of a tab that has not read it.                                  *)
(***************************************************************************)
EXTENDS Naturals

CONSTANTS Tabs, NoImage

VARIABLES
    profile,    \* the row; its version grows by one with every change
    me          \* per tab, the row as it last read it

shared == <<profile, me>>

SharedInit ==
    /\ profile.version = 0
    /\ me = [t \in Tabs |-> profile]

Read(t) ==
    /\ me' = [me EXCEPT ![t] = profile]
    /\ UNCHANGED profile

\* The onboarding is never taken back.
Save(t) ==
    /\ me[t] = profile
    /\ profile'.version = profile.version + 1
    /\ profile.onboarded => profile'.onboarded
    /\ me' = [me EXCEPT ![t] = profile']

DropAvatar ==
    /\ profile.avatar # NoImage
    /\ profile' = [profile EXCEPT !.avatar = NoImage, !.version = @ + 1]
    /\ UNCHANGED me

SharedNext == DropAvatar \/ \E t \in Tabs : Read(t) \/ Save(t)

SharedSpec == SharedInit /\ [][SharedNext]_shared
=============================================================================
