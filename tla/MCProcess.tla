------------------------------ MODULE MCProcess ------------------------------
(***************************************************************************)
(* The process on small instances; the configurations give the values.     *)
(***************************************************************************)
EXTENDS Process
=============================================================================
