--------------------------- MODULE MCStoreForward ---------------------------
(* Instances of StoreForward: payloads are named after their kind.         *)
EXTENDS StoreForward

MCKeys == {"k1", "k2"}

\* Every kind of payload; the poison and the unstorable fix carry the key of the good
\* one (two fixes of one asset at one instant).
AllPayloads == Kinds
AllKeyOf == [p \in AllPayloads |-> IF p \in {"good", "poison", "unstorable"} THEN "k1" ELSE "k2"]
AllKindOf == [p \in AllPayloads |-> p]

\* A good fix, which the device may send twice, and an entry no drain can deliver.
TwoPayloads == {"good", "invalid", "poison"}
TwoKeyOf == [p \in TwoPayloads |-> "k1"]
TwoKindOf == [p \in TwoPayloads |-> p]
=============================================================================
