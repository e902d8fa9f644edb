----------------------------- MODULE MCWidgets ------------------------------
(* Small instances of Widgets for TLC.                                     *)
EXTENDS Widgets
=============================================================================
