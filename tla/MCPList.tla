------------------------------ MODULE MCPList -------------------------------
(* Small instances of PList for TLC.                                       *)
EXTENDS PList
=============================================================================
