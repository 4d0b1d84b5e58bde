--------------------------- MODULE MCPacketPipeline ---------------------------
(***************************************************************************)
(* The forwarder on small instances; the configurations give the values.   *)
(***************************************************************************)
EXTENDS PacketPipeline
=============================================================================
