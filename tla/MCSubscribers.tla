--------------------------- MODULE MCSubscribers ---------------------------
(* An instance of Subscribers for TLC. *)
EXTENDS Subscribers, TLC

CONSTANTS d1, i1, p1, p2

OnlyOne == i1 :> d1

PollerSymmetry == Permutations(Poller)
=============================================================================
