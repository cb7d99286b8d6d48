-------------------------- MODULE MCChannelDelivery --------------------------
(* Small instances of ChannelDelivery; the bounds are in the .cfg files. *)
EXTENDS ChannelDelivery
=============================================================================
