---------------------------- MODULE ServedImage ----------------------------
(***************************************************************************)
(* What DerivativeStore promises to those who load the derivatives of an   *)
(* image: the whole set of one run is published at once, and neither a set *)
(* that is published nor an object that is there changes by itself.  Runs, *)
(* lanes, and PUTs that fail or come late do not appear.                   *)
(***************************************************************************)
CONSTANTS Sizes, Encodings, StoredOriginals, Declared

VARIABLES
    source,     \* the original
    asset,      \* the state of its row
    kept,       \* the objects of the bucket: key and bytes
    served      \* size and bytes of what the rows of the asset lead to

imageServed == <<source, asset, kept, served>>

ServedInit ==
    /\ source \in StoredOriginals /\ asset = "processing"
    /\ kept = {} /\ served = {}

\* Objects come, under keys of their own, and stay as they are.
Keep ==
    /\ kept \subseteq kept'
    /\ \A o, p \in kept' : o.key = p.key => o = p
    /\ UNCHANGED <<source, asset, served>>

\* A late run that finds the asset ready or failed publishes too.
Publish ==
    /\ source = Declared
    /\ \E bytes \in [Sizes -> Encodings] :
          /\ \A size \in Sizes : \E o \in kept : o.bytes = bytes[size]
          /\ served' = {<<size, bytes[size]>> : size \in Sizes}
    /\ asset' = IF asset = "processing" THEN "ready" ELSE asset
    /\ UNCHANGED <<source, kept>>

Fail == asset = "processing" /\ asset' = "failed" /\ UNCHANGED <<source, kept, served>>

Retry == asset = "failed" /\ asset' = "processing" /\ UNCHANGED <<source, kept, served>>

ServedNext == Keep \/ Publish \/ Fail \/ Retry

ServedSpec == ServedInit /\ [][ServedNext]_imageServed
=============================================================================
