----------------------------- MODULE MCRequests -----------------------------
(* Instances of Requests for TLC. *)
EXTENDS Requests, TLC

CONSTANTS c1, c2, d3, q1, x1

KindOf == q1 :> "qr" @@ x1 :> "disconnect"

Of(c, d) == [readable |-> TRUE, channel |-> c, device |-> d]
Garbage  == [readable |-> FALSE, channel |-> None, device |-> None]

\* Both requests are of one channel.
Agree    == q1 :> Of(c1, None) @@ x1 :> Of(c1, c1)
\* One payload is no JSON; the other names no device.
Broken   == q1 :> Garbage @@ x1 :> Of(c1, None)
\* The disconnect request names the device of another channel, one without a
\* channel, or no channel, as the QR request.
Strange  == q1 :> Of(c1, None) @@ x1 :> Of(c2, c1)
Foreign  == q1 :> Of(c1, None) @@ x1 :> Of(c1, d3)
Nowhere  == q1 :> Of(None, None) @@ x1 :> Of(None, c1)

AllLoads == {Agree, Broken, Strange, Foreign, Nowhere}
=============================================================================
