--------------------------- MODULE MCRenrDelivery ---------------------------
(* Instances of RenrDelivery for TLC. *)
EXTENDS RenrDelivery, TLC

CONSTANTS d1, m1, m2, w1, w2

OneAlone   == m1 :> d1
TwoOnOne   == m1 :> d1 @@ m2 :> d1

WorkerSymmetry == Permutations(Worker)
=============================================================================
