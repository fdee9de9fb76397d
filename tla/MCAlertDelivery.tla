-------------------------- MODULE MCAlertDelivery --------------------------
(***************************************************************************)
(* Small instances of AlertDelivery for TLC.                               *)
(***************************************************************************)
EXTENDS AlertDelivery, TLC

CONSTANTS e1, h1, p1

ChannelOf == [d \in Dests |-> CASE d = h1 -> "webhooks" [] d = p1 -> "whatsapp" [] OTHER -> "email"]

Symmetry == Permutations(Workers)
=============================================================================
