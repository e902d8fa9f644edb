------------------------------ MODULE Keyboard ------------------------------
(***************************************************************************)
(* kbd.c: the decoder that getkey() feeds with the bytes of the terminal.  *)
(* A key is one byte or a sequence, "ESC [ 3 ~" say, that may come in      *)
(* several reads; a state function for each place in a sequence takes the  *)
(* next byte.  The record k of the operators below holds the static        *)
(* variables of kbd.c:                                                     *)
(*   state, type, mod, arg, argf, delf   the sequence being decoded,       *)
(*   buf     the bytes from the start of the buffer to e,                  *)
(*   p       how many of them the decoder has taken,                       *)
(*   waitdata                                                              *)
(* and v, the value of the last call.  arg holds the arguments up to argp. *)
(*                                                                         *)
(* A key is its code and the set of its modifiers; a character is its own  *)
(* code.  A key whose code is KBD_NOKEY is none, whatever the modifiers.   *)
(***************************************************************************)
EXTENDS Integers, Sequences

Char == 0 .. 255

KBD_ENTER == 256
KBD_BS == 257
KBD_TAB == 258
KBD_ESC == 259
Arrows == <<262, 263, 261, 260>>         \* KBD_UP, _DOWN, _RIGHT, _LEFT
KBD_INS == 264
KBD_DEL == 265
KBD_HOME == 266
KBD_END == 267
KBD_PAGE_UP == 268
KBD_PAGE_DOWN == 269
KBD_CENTER == 272
KBD_WIN(n) == 272 + n
KBD_F(n) == 287 + n
MSE_RELEASE == 2048
KBD_CPOS == 2304
KBD_DECID == 2305
KBD_TERM_T == 2560
KBD_NOKEY == 0
KBD_MORE == -1
KBD_INCOMPLETE == -3

Mods == {"shift", "alt", "ctrl"}
Key(code, mods) == [code |-> code, mods |-> mods]
Plain(code) == Key(code, {})

\* The bytes the decoder looks for.
ESC == 27
CSI == 91       \* '[', and 0x9B less 64
SS3 == 79       \* 'O', and 0x8F less 64
Digit == 48 .. 57

-----------------------------------------------------------------------------
(* The tables, as functions of the byte or the number that selects a key.  *)

csitbl(c) ==
  LET upper == <<KBD_INS>> \o Arrows \o
        <<KBD_CENTER, KBD_END, KBD_PAGE_DOWN, KBD_HOME, KBD_PAGE_UP, KBD_WIN(1),
          KBD_DEL, KBD_INS>> \o [n \in 1 .. 12 |-> KBD_F(n)] \o <<KBD_HOME>>
  IN  CASE c \in 64 .. 89   -> Plain(upper[c - 63])
        [] c = 90           -> Key(KBD_TAB, {"shift"})
        [] c \in 97 .. 100  -> Key(Arrows[c - 96], {"shift"})
        [] c \in 125 .. 126 -> Plain(KBD_WIN(128 - c))
        [] OTHER            -> Plain(KBD_NOKEY)

ss3tbl(c) ==
  CASE c \in 65 .. 68   -> Plain(Arrows[c - 64])
    [] c = 73           -> Plain(KBD_TAB)
    [] c = 77           -> Plain(KBD_ENTER)
    [] c \in 80 .. 83   -> Plain(KBD_F(c - 79))
    [] c = 88           -> Plain(61)
    [] c \in 97 .. 100  -> Key(Arrows[c - 96], {"ctrl"})
    [] c \in 106 .. 121 -> Plain(c - 64)
    [] OTHER            -> Plain(KBD_NOKEY)

csi_tilde(a) ==
  LET edit == <<KBD_HOME, KBD_INS, KBD_DEL, KBD_END, KBD_PAGE_UP, KBD_PAGE_DOWN>>
  IN  CASE a \in 1 .. 6   -> edit[a]
        [] a \in 7 .. 10  -> KBD_F(a - 6)
        [] a \in 11 .. 15 -> KBD_F(a - 10)
        [] a \in 16 .. 21 -> KBD_F(a - 11)
        [] a \in 23 .. 32 -> KBD_F(a - 12)
        [] OTHER          -> KBD_NOKEY

csi_z(a) ==
  CASE a \in 192 .. 193 -> KBD_F(a - 181)
    [] a = 214          -> KBD_HOME
    [] a = 216          -> KBD_PAGE_UP
    [] a = 218          -> KBD_CENTER
    [] a = 220          -> KBD_END
    [] a = 222          -> KBD_PAGE_DOWN
    [] a \in 224 .. 235 -> KBD_F(a - 223)
    [] a = 247          -> KBD_INS
    [] a = 249          -> KBD_DEL
    [] OTHER            -> KBD_NOKEY

\* The modifiers that the bits of n stand for.
ModBits(n) ==
  LET bit == [shift |-> 1, alt |-> 2, ctrl |-> 4]
  IN  {m \in Mods : (n \div bit[m]) % 2 = 1}

-----------------------------------------------------------------------------
(* The state functions: k after byte c, or after KBD_MORE for no byte.     *)

Say(k, v) == [k EXCEPT !.v = v]
More(k, st) == [k EXCEPT !.state = st, !.v = Plain(KBD_MORE)]
Incomplete(k) == Say(k, Plain(KBD_INCOMPLETE))
With(k, mods) == [k EXCEPT !.v.mods = @ \cup mods]

\* A byte of its own.  After a ^H byte 127 is taken for Del.
ordkey(k, c) ==
  [k EXCEPT
     !.delf = @ \/ c = 8,
     !.v = CASE c = 8            -> Plain(KBD_BS)
             [] c = 9            -> Plain(KBD_TAB)
             [] c = 10           -> Key(KBD_ENTER, {"shift"})
             [] c = 13           -> Plain(KBD_ENTER)
             [] c = ESC          -> Plain(KBD_ESC)
             [] c = 127          -> Plain(IF k.delf THEN KBD_DEL ELSE KBD_BS)
             [] c \in 32 .. 126 \/ c >= 160 -> Plain(c)
             [] OTHER            -> Plain(KBD_NOKEY)]

st_start(k, c) ==
  LET start == [k EXCEPT !.type = 0, !.mod = 0, !.arg = <<0>>, !.argf = FALSE]
  IN  CASE c = ESC          -> More(start, "esc")
        [] c \in {143, 155} -> More([start EXCEPT !.type = c - 64], "csiss3")
        [] OTHER ->
             IF ordkey(k, c).v.code # KBD_NOKEY THEN ordkey(k, c)
             ELSE IF c < 128 THEN With(ordkey(k, c + 64), {"ctrl"})
                             ELSE With(ordkey(k, c - 128), {"alt"})

st_esc(k, c) ==
  CASE c = KBD_MORE      -> Incomplete(k)
    [] c \in {CSI, SS3}  -> More([k EXCEPT !.type = c], "csiss3")
    [] c = ESC           -> IF k.mod # 0 THEN Incomplete(k)
                            ELSE More([k EXCEPT !.mod = c], "esc")
    [] OTHER             -> With(ordkey(k, c), {"alt"})

\* seq.arg[i]
Arg(k, i) == IF i < Len(k.arg) THEN k.arg[i + 1] ELSE 0

\* The label ready: the modifiers that the number m and a second ESC mean.
Ready(k, key, m) ==
  With(Say(k, key), (IF m = 0 THEN {} ELSE ModBits((m - 1) % 8))
                    \cup (IF k.mod = ESC THEN {"alt"} ELSE {}))

\* An answer of the terminal.  Its arguments go into the bits from 16 and from 24
\* on: with the sign bit set, by either, it looks like KBD_MORE.
Answer(k, code, mid, high) ==
  Say(k, Plain(IF mid % 65536 >= 32768 \/ high % 256 >= 128 THEN KBD_MORE ELSE code))

\* A number and one of "~$^@".  Any such key makes byte 127 mean Backspace again.
Tilde(k, c) ==
  LET v == csi_tilde(Arg(k, 0))
      mods == CASE c = 126 -> {}
                [] c = 36  -> {"shift"}
                [] c = 94  -> {"ctrl"}
                [] c = 64  -> {"shift", "ctrl"}
  IN  IF v = KBD_NOKEY THEN Say(k, Plain(v))
      ELSE Ready([k EXCEPT !.delf = FALSE], Key(v, mods), Arg(k, 1))

\* The last byte of a sequence
csiss3(k, c) ==
  LET a == Arg(k, 0)
  IN  CASE k.type = SS3 -> Ready(k, ss3tbl(c), a)
        [] k.type = CSI /\ k.mod = CSI ->
             Ready(k, Plain(IF c - 65 < 12 THEN KBD_F(c - 64) ELSE KBD_NOKEY), a)
        [] k.type = CSI /\ k.mod = 63 ->
             IF c = 99 THEN Answer(k, KBD_DECID, Arg(k, 0), Arg(k, 1))
                       ELSE Say(k, Plain(KBD_NOKEY))
        [] OTHER ->
             CASE k.argf /\ c \in {126, 36, 94, 64} -> Tilde(k, c)
               [] c = 122 -> Ready(k, Plain(IF a < 33 THEN csi_tilde(a) ELSE csi_z(a)),
                                   Arg(k, 1))
               [] c = 82 /\ Len(k.arg) = 2 -> Answer(k, KBD_CPOS, Arg(k, 0), Arg(k, 1))
               [] c = 116 -> Answer(k, KBD_TERM_T + (a % 256), Arg(k, 1), Arg(k, 2))
               [] OTHER -> Ready(k, csitbl(c), a)

st_csiss3(k, c) ==
  CASE c < 32                                -> Incomplete(k)
    [] c \in {CSI, 63} /\ k.type = CSI        -> IF k.mod # 0 THEN Incomplete(k)
                                                 ELSE More([k EXCEPT !.mod = c], "csiss3")
    [] c \in Digit -> More([k EXCEPT !.arg = <<c - 48>>, !.argf = TRUE], "arg")
    [] c = 59      -> More([k EXCEPT !.arg = Append(@, 0), !.argf = TRUE], "arg")
    [] c = 77 /\ k.type = CSI -> More([k EXCEPT !.arg = <<>>], "mouse")
    [] OTHER       -> csiss3(k, c)

st_arg(k, c) ==
  CASE c = KBD_MORE -> Incomplete(k)
    [] c \in Digit  -> More([k EXCEPT !.arg[Len(k.arg)] = 10 * @ + c - 48], "arg")
    [] c = 59       -> IF Len(k.arg) = 16 THEN Say(k, Plain(KBD_NOKEY))
                       ELSE More([k EXCEPT !.arg = Append(@, 0)], "arg")
    [] OTHER        -> csiss3(k, c)

\* Three bytes; of the first the bits of the modifiers are used.
st_mouse(k, c) ==
  LET t == [k EXCEPT !.arg = Append(@, c - 32)]
  IN  IF c = KBD_MORE THEN Incomplete(k)
      ELSE IF Len(t.arg) < 3 THEN More(t, "mouse")
      ELSE Say(t, Key(MSE_RELEASE, ModBits(t.arg[1] \div 4)))

state(k, c) ==
  CASE k.state = "start"  -> st_start(k, c)
    [] k.state = "esc"    -> st_esc(k, c)
    [] k.state = "csiss3" -> st_csiss3(k, c)
    [] k.state = "arg"    -> st_arg(k, c)
    [] k.state = "mouse"  -> st_mouse(k, c)

\* incomplete(): the sequence was none.  Its first byte, or the first two, are
\* a key of their own and the rest is decoded again.  (The comparison with
\* "\0x9BM" is one with a null byte and is never true.)
incomplete(k) ==
  LET b == k.buf
      At(n) == [k EXCEPT !.p = n]
  IN  CASE Len(b) = 1 -> ordkey(At(1), b[1])
        [] Len(b) > 2 /\ SubSeq(b, 1, 3) = <<ESC, CSI, 77>> -> Say(At(3), Plain(KBD_F(1)))
        [] OTHER -> IF b[1] = ESC THEN With(ordkey(At(2), b[2]), {"alt"})
                    ELSE ordkey(At(1), b[1])

-----------------------------------------------------------------------------
(* The parts of getkey().                                                  *)

KeyboardInit ==
  [state |-> "start", type |-> 0, mod |-> 0, arg |-> <<0>>, argf |-> FALSE,
   delf |-> FALSE, buf |-> <<>>, p |-> 0, waitdata |-> FALSE, v |-> Plain(KBD_NOKEY)]

\* p == e
Drained(k) == k.p = Len(k.buf)

\* (Mutant of Taken: what follows the key is forgotten.)
TakenAll(k) == [KeyboardInit EXCEPT !.delf = k.delf, !.v = k.v]

\* (Mutant of Taken: waitdata is not cleared.)
TakenWaiting(k) ==
  [KeyboardInit EXCEPT !.delf = k.delf, !.v = k.v, !.waitdata = k.waitdata,
                       !.buf = SubSeq(k.buf, k.p + 1, Len(k.buf))]

\* The bytes of a key are removed from the buffer.  (What is left in the fields
\* of the sequence is forgotten here: st_start() writes them before they are
\* read.)
Taken(k) ==
  [KeyboardInit EXCEPT !.delf = k.delf, !.v = k.v,
                       !.buf = SubSeq(k.buf, k.p + 1, Len(k.buf))]

\* The label key: the decoder takes c.
Feed(k, c) ==
  LET s == state(k, c)
      t == IF s.v.code = KBD_INCOMPLETE THEN incomplete(s) ELSE s
  IN  IF t.v.code >= 0 THEN Taken(t)
      ELSE [t EXCEPT !.waitdata = @ \/ Drained(t)]

\* Does getkey() go on with the next byte?
Again(k) ==
  IF k.v.code < 0 THEN ~Drained(k) ELSE k.v.code = KBD_NOKEY

-----------------------------------------------------------------------------
(* What a terminal may send for a key.                                     *)

\* The decoder before and after each of the bytes
Steps(bytes, f) ==
  LET k[i \in 0 .. Len(bytes)] ==
        IF i = 0 THEN [KeyboardInit EXCEPT !.delf = f] ELSE state(k[i - 1], bytes[i])
  IN  k

\* A byte that is no key, nor the first of one
Ignored(c) ==
  \A f \in BOOLEAN :
    LET k == state([KeyboardInit EXCEPT !.delf = f], c)
    IN  k.v.code = KBD_NOKEY /\ k.delf = f

\* The m-th of the bytes makes the key, the others before it none.  F are values
\* of delf.
MadeBy(s, F, m) ==
  /\ \A f \in F : LET k == Steps(s.bytes, f)
                  IN  /\ \A i \in 1 .. m - 1 : k[i].v = Plain(KBD_MORE)
                      /\ k[m].v = s.key /\ k[m].delf \in F
  /\ \A i \in m + 1 .. Len(s.bytes) : Ignored(s.bytes[i])

IsEsc(s) == s.key = Plain(KBD_ESC) /\ s.bytes = <<ESC>>

\* Do the bytes of each key, read alone, make this key?  F is BOOLEAN when this
\* is so before and after a ^H (a byte 127 is another key after one), {FALSE} when
\* no key sends ^H.
Unmistakable(S) ==
  \E F \in {{FALSE}, BOOLEAN} :
    \A s \in S : IsEsc(s) \/ \E m \in 1 .. Len(s.bytes) : MadeBy(s, F, m)
=============================================================================
