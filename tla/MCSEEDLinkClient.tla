--------------------------- MODULE MCSEEDLinkClient ---------------------------
(***************************************************************************)
(* The SEEDLink client on small instances; the configurations give values. *)
(***************************************************************************)
EXTENDS SEEDLinkClient
=============================================================================
