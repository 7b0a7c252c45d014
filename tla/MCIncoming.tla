---------------------------- MODULE MCIncoming ----------------------------
(* Instances of Incoming for TLC. *)
EXTENDS Incoming, TLC

CONSTANTS m1, m2, r1, r2, r3, n1, k1

Holds(wraps, fields, quote) == [wraps |-> wraps, fields |-> fields, quote |-> quote]

Key1 == "sender_key_distribution"

\* Two documents of a name, one in eight containers and with a key; a document
\* and an image; a text that quotes this account by its LID; what no user sees;
\* what the converter does not know, or is not given.
Held == {
    m1 :> Holds(0, {"document"}, "none") @@ m2 :> Holds(8, {"document", Key1}, "other"),
    m1 :> Holds(0, {"document"}, "me") @@ m2 :> Holds(2, {"image", Key1}, "none"),
    m1 :> Holds(8, {"text", Key1}, "me_lid") @@ m2 :> Holds(1, {"audio"}, "me"),
    m1 :> Holds(0, {"protocol"}, "none") @@ m2 :> Holds(9, {"text"}, "other"),
    m1 :> Holds(0, {Key1}, "none") @@ m2 :> Holds(1, {"revoke"}, "none"),
    m1 :> Holds(0, {"other", Key1}, "none") @@ m2 :> Holds(1, {"other"}, "other"),
    m1 :> Holds(0, {}, "none") @@ m2 :> Holds(0, {"poll_result"}, "none")}

Sent ==
    m1 :> [from |-> "me", participant |-> FALSE, lid |-> FALSE, mapped |-> FALSE, name |-> n1]
    @@
    m2 :> [from |-> "member", participant |-> TRUE, lid |-> TRUE, mapped |-> TRUE, name |-> n1]

Synced == {<<m1>>, <<m2, m1>>}

Keyed == r1 :> k1 @@ r2 :> k1 @@ r3 :> k1

Configured ==
    {[persistent |-> TRUE, s3 |-> TRUE, numeric |-> TRUE],
     [persistent |-> FALSE, s3 |-> TRUE, numeric |-> TRUE],
     [persistent |-> TRUE, s3 |-> FALSE, numeric |-> FALSE]}
=============================================================================
