-------------------------- MODULE MCMessageCache --------------------------
(* An instance of MessageCache for TLC: a user chat addressed by LID and a *)
(* group, one contact and the device's own account.                        *)
EXTENDS MessageCache

CONSTANTS k1, k2, k3, ann, me, grp, b1, b2, s1

annLid == [who |-> ann, server |-> "lid"]
annPn  == [who |-> ann, server |-> "pn"]
mePn   == [who |-> me, server |-> "pn"]
chat   == [who |-> grp, server |-> "group"]

Chats    == [k \in Key |-> IF k = k3 THEN chat ELSE annLid]
SentBy   == [k \in Key |-> IF k = k3 THEN {annPn} ELSE {annLid}]
Messages == {[body |-> b1, listed |-> FALSE, depth |-> 1],
             [body |-> b2, listed |-> TRUE,  depth |-> 2]}
Hints    == {NoJid, annPn}
============================================================================
