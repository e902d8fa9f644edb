------------------------------ MODULE MCWindow ------------------------------
(* Small instances of Window for TLC.                                      *)
EXTENDS Window
MovingKeys == {"Up", "Down", "PageUp", "PageDown", "Home"}
=============================================================================
