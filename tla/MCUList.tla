------------------------------ MODULE MCUList -------------------------------
(* Small instances of UList for TLC.                                       *)
EXTENDS UList

\* Each tty has its record.
OwnPlaces == {<<1, "tty1">>, <<2, "pts0">>, <<3, "pts1">>}
=============================================================================
