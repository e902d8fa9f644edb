----------------------------- MODULE MCMainLoop -----------------------------
(* Small instances of MainLoop for TLC, with keys as xterm, rxvt, the Linux *)
(* console and vt100 send them.                                            *)
EXTENDS MainLoop

Spelled(key, bytes) == [key |-> key, bytes |-> bytes]

Up == Plain(Arrows[1])

\* Characters only.
Letters == {Spelled(Plain(97), <<97>>)}

AllSpellings ==
  Letters \cup
  {Spelled(Plain(KBD_ESC), <<ESC>>),
   Spelled(Up, <<ESC, CSI, 65>>),
   \* A letter in UTF-8, whose second byte is no key
   Spelled(Plain(195), <<195, 128>>),
   Spelled(Plain(KBD_DEL), <<ESC, CSI, 51, 126>>)}

-----------------------------------------------------------------------------
\* The key that bytes read one by one are decoded to.
Decoded(bytes) ==
  FoldLeft(LAMBDA k, b : Feed([k EXCEPT !.buf = Append(@, b), !.p = @ + 1], b),
           KeyboardInit, bytes).v

\* What terminals send for their keys, by their descriptions in terminfo.
Terminfo ==
  {Spelled(Plain(Arrows[i]), <<ESC, b, 64 + i>>) : i \in 1 .. 4, b \in {CSI, SS3}} \cup
  {Spelled(Plain(Arrows[i]), <<155, 64 + i>>) : i \in 1 .. 4} \cup
  {Spelled(Key(Arrows[i], {"shift"}), <<ESC, CSI, 96 + i>>) : i \in 1 .. 4} \cup
  {Spelled(Plain(KBD_F(n)), <<ESC, CSI, 49, 48 + n, 126>>) : n \in 1 .. 5} \cup
  {Spelled(Plain(KBD_F(n)), <<ESC, SS3, 79 + n>>) : n \in 1 .. 4} \cup
  {Spelled(Plain(KBD_F(n)), <<ESC, CSI, CSI, 64 + n>>) : n \in 1 .. 5} \cup
  {Spelled(Plain(KBD_F(n)), <<155, 50, 40 + n, 126>>) : n \in 11 .. 12} \cup
  {Spelled(Plain(KBD_HOME), <<ESC, CSI, 72>>), Spelled(Plain(KBD_HOME), <<ESC, CSI, 49, 126>>),
   Spelled(Plain(KBD_END), <<ESC, CSI, 70>>), Spelled(Plain(KBD_END), <<ESC, CSI, 52, 126>>),
   Spelled(Plain(KBD_INS), <<ESC, CSI, 50, 126>>),
   Spelled(Plain(KBD_DEL), <<ESC, CSI, 51, 126>>),
   Spelled(Plain(KBD_PAGE_UP), <<ESC, CSI, 53, 126>>),
   Spelled(Plain(KBD_PAGE_DOWN), <<ESC, CSI, 54, 126>>),
   Spelled(Key(KBD_TAB, {"shift"}), <<ESC, CSI, 90>>),
   Spelled(Key(KBD_DEL, {"ctrl"}), <<ESC, CSI, 51, 94>>),
   Spelled(Plain(KBD_BS), <<127>>), Spelled(Plain(KBD_BS), <<8>>),
   Spelled(Plain(KBD_ENTER), <<13>>), Spelled(Plain(KBD_TAB), <<9>>),
   Spelled(Key(75, {"ctrl"}), <<11>>), Spelled(Key(97, {"alt"}), <<ESC, 97>>),
   Spelled(Key(Arrows[1], {"alt"}), <<ESC, ESC, CSI, 65>>)}

ASSUME TerminfoAssumption == \A s \in Terminfo : Decoded(s.bytes) = s.key

\* The hypothesis of the proof that keys stay in order, for the keys of each run,
ASSUME UnmistakableAssumption == Unmistakable(Spellings)

\* and for all of terminfo, when one byte is Backspace.  (After a ^H the byte 127
\* is Delete.)
ASSUME BackspaceAssumption ==
  /\ \A b \in {8, 127} : Unmistakable(Terminfo \ {Spelled(Plain(KBD_BS), <<b>>)})
  /\ ~Unmistakable(Terminfo)
=============================================================================
