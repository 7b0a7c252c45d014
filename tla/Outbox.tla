------------------------------- MODULE Outbox -------------------------------
(***************************************************************************)
(* What a persistent outbox promises: a message that was stored is kept    *)
(* until the receiving side has been handed it, whatever happens to the    *)
(* process in between; and a message that is stored again after it was     *)
(* dropped is handed over again before it is dropped again.  Nothing is    *)
(* promised about how often a message is handed over, nor in which order.  *)
(***************************************************************************)

CONSTANT Msg          \* the messages, identified by (device_id, message_id)

VARIABLES stored,     \* the messages the outbox keeps
          handed      \* of these, the ones the receiver was handed since

outboxVars == <<stored, handed>>

TypeOK == /\ stored \subseteq Msg
          /\ handed \subseteq stored

Init == stored = {} /\ handed = {}

Store(m) == /\ m \notin stored
            /\ stored' = stored \cup {m}
            /\ UNCHANGED handed

Hand(m) == /\ m \in stored
           /\ handed' = handed \cup {m}
           /\ UNCHANGED stored

Drop(m) == /\ m \in handed
           /\ stored' = stored \ {m}
           /\ handed' = handed \ {m}

Next == \E m \in Msg : Store(m) \/ Hand(m) \/ Drop(m)

Spec == Init /\ [][Next]_outboxVars
=============================================================================
