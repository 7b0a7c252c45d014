-------------------------- MODULE MCDeviceManager --------------------------
(* Instances of DeviceManager for TLC. *)
EXTENDS DeviceManager, TLC

CONSTANTS dev1, dev2, c1, c2, p1, p2

Symmetric == Permutations(Client) \cup Permutations(Phone)

Names == <<dev1, dev2, dev2>>
OneName == <<dev1, dev1>>
=============================================================================
