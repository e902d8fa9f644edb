--------------------------- MODULE MainLoopProofs ---------------------------
(***************************************************************************)
(* Proofs about Keyboard and MainLoop.  The decoder, whatever bytes it is  *)
(* given: every step has a value, the arguments of a sequence stay within  *)
(* seq.arg, and between two steps it is at the start of a sequence if and  *)
(* only if it has taken no byte of the buffer.  The loop, for any TIMEOUT, *)
(* any keys and any sizes of the buffer and the terminal: the time between *)
(* two updates, what the decoder is given for a missing byte, and that the *)
(* keys that are handled are those that were typed.                        *)
(***************************************************************************)
EXTENDS MainLoop, SequenceTheorems, WellFoundedInduction, TLAPS

-----------------------------------------------------------------------------
(* The decoder                                                             *)

Keys == [code : Nat, mods : SUBSET Mods]

Decoder ==
  [state : {"start", "esc", "csiss3", "arg", "mouse"}, type : Nat, mod : Nat,
   arg : Seq(Int), argf : BOOLEAN, delf : BOOLEAN, buf : Seq(Char), p : Nat,
   waitdata : BOOLEAN, v : [code : Int, mods : SUBSET Mods]]

\* The arguments that a sequence may have in each state.
ArgsFit(k) ==
  /\ k.state \in {"start", "esc", "csiss3"} => k.arg = <<0>>
  /\ k.state = "arg" => Len(k.arg) \in 1 .. 16
  /\ k.state = "mouse" => Len(k.arg) \in 0 .. 2

\* Does s differ from k in the fields of the sequence and the value only?
SameBuffer(k, s) == s.buf = k.buf /\ s.p = k.p /\ s.waitdata = k.waitdata

-----------------------------------------------------------------------------
(* The tables have nothing but keys.                                       *)

LEMMA CodesAreNumbers ==
  /\ KBD_ENTER \in Nat /\ KBD_BS \in Nat /\ KBD_TAB \in Nat /\ KBD_ESC \in Nat
  /\ KBD_INS \in Nat /\ KBD_DEL \in Nat /\ KBD_HOME \in Nat /\ KBD_END \in Nat
  /\ KBD_PAGE_UP \in Nat /\ KBD_PAGE_DOWN \in Nat /\ KBD_CENTER \in Nat
  /\ MSE_RELEASE \in Nat /\ KBD_CPOS \in Nat /\ KBD_DECID \in Nat
  /\ KBD_TERM_T \in Nat /\ KBD_NOKEY \in Nat
  /\ \A n \in Nat : KBD_F(n) \in Nat /\ KBD_WIN(n) \in Nat
  /\ \A i \in 1 .. 4 : Arrows[i] \in Nat
BY DEF KBD_ENTER, KBD_BS, KBD_TAB, KBD_ESC, KBD_INS, KBD_DEL, KBD_HOME, KBD_END,
  KBD_PAGE_UP, KBD_PAGE_DOWN, KBD_CENTER, MSE_RELEASE, KBD_CPOS, KBD_DECID,
  KBD_TERM_T, KBD_NOKEY, KBD_F, KBD_WIN, Arrows

LEMMA PlainIsKey == ASSUME NEW n \in Nat PROVE Plain(n) \in Keys
BY DEF Plain, Key, Keys

LEMMA KeyIsKey ==
  ASSUME NEW n \in Nat, NEW m \in SUBSET Mods PROVE Key(n, m) \in Keys
BY DEF Key, Keys

LEMMA Concatenated ==
  ASSUME NEW S, NEW s \in Seq(S), NEW t \in Seq(S)
  PROVE  s \o t \in Seq(S) /\ Len(s \o t) = Len(s) + Len(t)
OBVIOUS

LEMMA ElementOf ==
  ASSUME NEW S, NEW s \in Seq(S), NEW i \in 1 .. Len(s) PROVE s[i] \in S
OBVIOUS

LEMMA OneReplaced ==
  ASSUME NEW S, NEW s \in Seq(S), NEW i \in 1 .. Len(s), NEW x \in S
  PROVE  [s EXCEPT ![i] = x] \in Seq(S) /\ Len([s EXCEPT ![i] = x]) = Len(s)
OBVIOUS

LEMMA LengthsInBounds ==
  /\ \A n \in 1 .. 16 : n \in 1 .. n /\ (n # 16 => n + 1 \in 1 .. 16)
  /\ \A n \in 0 .. 2 : n + 1 < 3 => n + 1 \in 0 .. 2
  /\ \A n \in Nat : n # 1 /\ 1 \in 1 .. n => 2 \in 1 .. n /\ 2 \in 0 .. n
OBVIOUS

\* The arguments fit in the new state of a record with other arguments.
LEMMA FitInState ==
  ASSUME NEW k \in Decoder, NEW st \in {"arg", "mouse"},
         IF st = "arg" THEN Len(k.arg) \in 1 .. 16 ELSE Len(k.arg) \in 0 .. 2
  PROVE  ArgsFit([k EXCEPT !.state = st])
<1> DEFINE u == [k EXCEPT !.state = st]
<1>1. u.state = st /\ u.arg = k.arg
  BY DEF Decoder
<1> HIDE DEF u
<1> QED BY <1>1 DEF ArgsFit

LEMMA CsiTblKeys == ASSUME NEW c \in Int PROVE csitbl(c) \in Keys
<1> DEFINE ins == <<KBD_INS>>
           edit == <<KBD_CENTER, KBD_END, KBD_PAGE_DOWN, KBD_HOME, KBD_PAGE_UP,
                     KBD_WIN(1), KBD_DEL, KBD_INS>>
           fs == [n \in 1 .. 12 |-> KBD_F(n)]
           home == <<KBD_HOME>>
           upper == ins \o Arrows \o edit \o fs \o home
<1>1. upper \in Seq(Nat) /\ Len(upper) = 26
  <2>1. ins \in Seq(Nat) /\ Len(ins) = 1
    BY CodesAreNumbers
  <2>2. Arrows \in Seq(Nat) /\ Len(Arrows) = 4
    BY DEF Arrows
  <2>3. edit \in Seq(Nat) /\ Len(edit) = 8
    BY CodesAreNumbers
  <2>4. fs \in Seq(Nat) /\ Len(fs) = 12
    BY CodesAreNumbers
  <2>5. home \in Seq(Nat) /\ Len(home) = 1
    BY CodesAreNumbers
  <2> DEFINE s2 == ins \o Arrows
             s3 == s2 \o edit
             s4 == s3 \o fs
  <2> HIDE DEF ins, edit, fs, home
  <2>6. s2 \in Seq(Nat) /\ Len(s2) = 1 + 4
    BY <2>1, <2>2, Concatenated
  <2> HIDE DEF s2
  <2>7. s3 \in Seq(Nat) /\ Len(s3) = 1 + 4 + 8
    BY <2>6, <2>3, Concatenated
  <2> HIDE DEF s3
  <2>8. s4 \in Seq(Nat) /\ Len(s4) = 1 + 4 + 8 + 12
    BY <2>7, <2>4, Concatenated
  <2> HIDE DEF s4
  <2>9. s4 \o home \in Seq(Nat) /\ Len(s4 \o home) = 1 + 4 + 8 + 12 + 1
    BY <2>8, <2>5, Concatenated
  <2> QED BY <2>9 DEF s4, s3, s2
<1>2. csitbl(c) =
        CASE c \in 64 .. 89   -> Plain(upper[c - 63])
          [] c = 90           -> Key(KBD_TAB, {"shift"})
          [] c \in 97 .. 100  -> Key(Arrows[c - 96], {"shift"})
          [] c \in 125 .. 126 -> Plain(KBD_WIN(128 - c))
          [] OTHER            -> Plain(KBD_NOKEY)
  BY DEF csitbl
<1> HIDE DEF upper
<1>3. CASE c \in 64 .. 89
  <2>0. c - 63 \in 1 .. Len(upper)
    BY <1>1, <1>3
  <2>1. upper[c - 63] \in Nat
    BY <1>1, <2>0, ElementOf
  <2> QED BY <1>2, <1>3, <2>1, PlainIsKey
<1>4. CASE c = 90
  BY CodesAreNumbers, <1>2, <1>4, KeyIsKey DEF Mods
<1>5. CASE c \in 97 .. 100
  BY CodesAreNumbers, <1>2, <1>5, KeyIsKey DEF Mods
<1>6. CASE c \in 125 .. 126
  BY CodesAreNumbers, <1>2, <1>6, PlainIsKey
<1>7. CASE ~(c \in 64 .. 89 \/ c = 90 \/ c \in 97 .. 100 \/ c \in 125 .. 126)
  BY CodesAreNumbers, <1>2, <1>7, PlainIsKey
<1> QED BY <1>3, <1>4, <1>5, <1>6, <1>7

LEMMA Ss3TblKeys == ASSUME NEW c \in Int PROVE ss3tbl(c) \in Keys
BY CodesAreNumbers, PlainIsKey, KeyIsKey DEF ss3tbl, Mods

LEMMA TildeCodes == ASSUME NEW a \in Int PROVE csi_tilde(a) \in Nat
BY CodesAreNumbers DEF csi_tilde

LEMMA ZCodes == ASSUME NEW a \in Int PROVE csi_z(a) \in Nat
BY CodesAreNumbers DEF csi_z

-----------------------------------------------------------------------------
(* The state functions.                                                    *)

\* Giving a value that is a key keeps everything else.
LEMMA SayKey ==
  ASSUME NEW k \in Decoder, NEW v \in Keys
  PROVE  /\ Say(k, v) \in Decoder /\ SameBuffer(k, Say(k, v)) /\ Say(k, v).v = v
         /\ Say(k, v).state = k.state /\ Say(k, v).arg = k.arg
BY DEF Say, Decoder, Keys, SameBuffer

LEMMA WithKey ==
  ASSUME NEW k \in Decoder, k.v \in Keys, NEW m \in SUBSET Mods
  PROVE  /\ With(k, m) \in Decoder /\ SameBuffer(k, With(k, m))
         /\ With(k, m).v \in Keys /\ With(k, m).state = k.state
         /\ With(k, m).arg = k.arg
<1> DEFINE v == [k.v EXCEPT !.mods = k.v.mods \cup m]
<1>1. With(k, m) = [k EXCEPT !.v = v]
  BY DEF With
<1>2. v \in Keys /\ v \in [code : Int, mods : SUBSET Mods]
  BY DEF Keys
<1> HIDE DEF v
<1> QED BY <1>1, <1>2 DEF Decoder, SameBuffer

LEMMA OrdkeyKey ==
  ASSUME NEW k \in Decoder, NEW c \in Char
  PROVE  /\ ordkey(k, c) \in Decoder /\ SameBuffer(k, ordkey(k, c))
         /\ ordkey(k, c).v \in Keys /\ ordkey(k, c).state = k.state
         /\ ordkey(k, c).arg = k.arg
<1> DEFINE v == CASE c = 8   -> Plain(KBD_BS)
                  [] c = 9   -> Plain(KBD_TAB)
                  [] c = 10  -> Key(KBD_ENTER, {"shift"})
                  [] c = 13  -> Plain(KBD_ENTER)
                  [] c = ESC -> Plain(KBD_ESC)
                  [] c = 127 -> Plain(IF k.delf THEN KBD_DEL ELSE KBD_BS)
                  [] c \in 32 .. 126 \/ c >= 160 -> Plain(c)
                  [] OTHER   -> Plain(KBD_NOKEY)
<1>1. v \in Keys
  <2>1. c \in Nat
    BY DEF Char
  <2> QED BY <2>1, CodesAreNumbers, PlainIsKey, KeyIsKey DEF Mods
<1> DEFINE d == k.delf \/ c = 8
<1>2. ordkey(k, c) = [k EXCEPT !.delf = d, !.v = v]
  BY DEF ordkey
<1>3. d \in BOOLEAN /\ v \in [code : Int, mods : SUBSET Mods]
  <2> HIDE DEF v
  <2> QED BY <1>1 DEF Keys
<1> HIDE DEF d, v
<1> QED BY <1>1, <1>2, <1>3 DEF Decoder, SameBuffer

\* What holds of the decoder after a state function has been given c in state k.
Decoded(k, s) ==
  /\ s \in Decoder /\ SameBuffer(k, s)
  /\ s.v \in Keys \/ s.v.code \in {KBD_MORE, KBD_INCOMPLETE}
  /\ s.v.code = KBD_MORE => s.state # "start" /\ ArgsFit(s)
  /\ s.v.code = KBD_INCOMPLETE => k.state # "start"

LEMMA KeyDecoded ==
  ASSUME NEW k, NEW s \in Decoder, SameBuffer(k, s), s.v \in Keys
  PROVE  Decoded(k, s)
BY DEF Decoded, Keys, KBD_MORE, KBD_INCOMPLETE

LEMMA MoreDecoded ==
  ASSUME NEW k \in Decoder, NEW s \in Decoder, SameBuffer(k, s),
         NEW st \in {"esc", "csiss3", "arg", "mouse"},
         ArgsFit([s EXCEPT !.state = st])
  PROVE  Decoded(k, More(s, st))
<1> DEFINE v == Plain(KBD_MORE)
<1>1. More(s, st) = [s EXCEPT !.state = st, !.v = v]
  BY DEF More
<1>2. v \in [code : Int, mods : SUBSET Mods] /\ v.code = KBD_MORE
  BY DEF Plain, Key, KBD_MORE
<1> HIDE DEF v
<1>3. /\ More(s, st) \in Decoder /\ SameBuffer(k, More(s, st))
      /\ More(s, st).v.code = KBD_MORE /\ More(s, st).state = st
      /\ More(s, st).arg = s.arg
  BY <1>1, <1>2 DEF Decoder, SameBuffer
<1>4. ArgsFit(More(s, st))
  BY <1>3 DEF ArgsFit, Decoder
<1> QED BY <1>3, <1>4 DEF Decoded, KBD_MORE, KBD_INCOMPLETE

LEMMA IncompleteDecoded ==
  ASSUME NEW k \in Decoder, k.state # "start"
  PROVE  Decoded(k, Incomplete(k))
<1> DEFINE v == Plain(KBD_INCOMPLETE)
<1>1. Incomplete(k) = [k EXCEPT !.v = v]
  BY DEF Incomplete, Say
<1>2. v \in [code : Int, mods : SUBSET Mods] /\ v.code = KBD_INCOMPLETE
  BY DEF Plain, Key, KBD_INCOMPLETE
<1> HIDE DEF v
<1>3. /\ Incomplete(k) \in Decoder /\ SameBuffer(k, Incomplete(k))
      /\ Incomplete(k).v.code = KBD_INCOMPLETE
  BY <1>1, <1>2 DEF Decoder, SameBuffer
<1> QED BY <1>3 DEF Decoded, KBD_MORE, KBD_INCOMPLETE

LEMMA StartDecoded ==
  ASSUME NEW k \in Decoder, NEW c \in Char
  PROVE  Decoded(k, st_start(k, c))
<1> DEFINE start == [k EXCEPT !.type = 0, !.mod = 0, !.arg = <<0>>, !.argf = FALSE]
<1>0. /\ start \in Decoder /\ SameBuffer(k, start) /\ start.arg = <<0>>
  <2>1. <<0>> \in Seq(Int)
    OBVIOUS
  <2> QED BY <2>1 DEF Decoder, SameBuffer
<1>1. CASE c = ESC
  <2>1. st_start(k, c) = More(start, "esc")
    BY <1>1 DEF st_start, ESC
  <2>2. ArgsFit([start EXCEPT !.state = "esc"])
    BY <1>0 DEF ArgsFit, Decoder
  <2> HIDE DEF start
  <2> QED BY <1>0, <2>1, <2>2, MoreDecoded
<1>2. CASE c \in {143, 155}
  <2> DEFINE s == [start EXCEPT !.type = c - 64]
  <2>1. st_start(k, c) = More(s, "csiss3")
    BY <1>2 DEF st_start, ESC
  <2>2. s \in Decoder /\ SameBuffer(k, s) /\ s.arg = <<0>>
    <3>1. c - 64 \in Nat
      BY <1>2
    <3> HIDE DEF start
    <3> QED BY <1>0, <3>1 DEF Decoder, SameBuffer
  <2> HIDE DEF s
  <2>3. ArgsFit([s EXCEPT !.state = "csiss3"])
    BY <2>2 DEF ArgsFit, Decoder
  <2> QED BY <2>1, <2>2, <2>3, MoreDecoded
<1>3. CASE c # ESC /\ c \notin {143, 155}
  <2>1. st_start(k, c) = IF ordkey(k, c).v.code # KBD_NOKEY THEN ordkey(k, c)
                         ELSE IF c < 128 THEN With(ordkey(k, c + 64), {"ctrl"})
                                         ELSE With(ordkey(k, c - 128), {"alt"})
    BY <1>3 DEF st_start
  <2>2. CASE ordkey(k, c).v.code # KBD_NOKEY
    BY <2>1, <2>2, OrdkeyKey, KeyDecoded
  <2>3. CASE ordkey(k, c).v.code = KBD_NOKEY /\ c < 128
    <3>1. c + 64 \in Char
      BY <2>3 DEF Char
    <3>2. /\ ordkey(k, c + 64) \in Decoder /\ SameBuffer(k, ordkey(k, c + 64))
          /\ ordkey(k, c + 64).v \in Keys
      BY <3>1, OrdkeyKey
    <3> QED BY <2>1, <2>3, <3>2, WithKey, KeyDecoded DEF Mods, SameBuffer
  <2>4. CASE ordkey(k, c).v.code = KBD_NOKEY /\ ~(c < 128)
    <3>1. c - 128 \in Char
      BY <2>4 DEF Char
    <3>2. /\ ordkey(k, c - 128) \in Decoder /\ SameBuffer(k, ordkey(k, c - 128))
          /\ ordkey(k, c - 128).v \in Keys
      BY <3>1, OrdkeyKey
    <3> QED BY <2>1, <2>4, <3>2, WithKey, KeyDecoded DEF Mods, SameBuffer
  <2> QED BY <2>2, <2>3, <2>4
<1> QED BY <1>1, <1>2, <1>3

LEMMA EscDecoded ==
  ASSUME NEW k \in Decoder, ArgsFit(k), k.state = "esc", NEW c \in Char \cup {KBD_MORE}
  PROVE  Decoded(k, st_esc(k, c))
<1>0. KBD_MORE # CSI /\ KBD_MORE # SS3 /\ KBD_MORE # ESC /\ ESC # CSI /\ ESC # SS3
  BY DEF KBD_MORE, CSI, SS3, ESC
<1>1. CASE c = KBD_MORE
  <2>1. st_esc(k, c) = Incomplete(k)
    BY <1>0, <1>1 DEF st_esc
  <2> QED BY <2>1, IncompleteDecoded
<1>2. CASE c \in {CSI, SS3}
  <2> DEFINE s == [k EXCEPT !.type = c]
  <2>1. st_esc(k, c) = More(s, "csiss3")
    BY <1>0, <1>2 DEF st_esc
  <2>2. c \in Nat
    BY <1>2 DEF CSI, SS3
  <2>3. s \in Decoder /\ SameBuffer(k, s) /\ s.arg = k.arg
    BY <2>2 DEF Decoder, SameBuffer
  <2> HIDE DEF s
  <2>4. ArgsFit([s EXCEPT !.state = "csiss3"])
    BY <2>3 DEF ArgsFit, Decoder
  <2> QED BY <2>1, <2>3, <2>4, MoreDecoded
<1>3. CASE c = ESC
  <2>1. CASE k.mod # 0
    <3>1. st_esc(k, c) = Incomplete(k)
      BY <1>0, <1>3, <2>1 DEF st_esc
    <3> QED BY <3>1, IncompleteDecoded
  <2>2. CASE k.mod = 0
    <3> DEFINE s == [k EXCEPT !.mod = c]
    <3>1. st_esc(k, c) = More(s, "esc")
      BY <1>0, <1>3, <2>2 DEF st_esc
    <3>2. c \in Nat
      BY <1>3 DEF ESC
    <3>3. s \in Decoder /\ SameBuffer(k, s) /\ s.arg = k.arg
      BY <3>2 DEF Decoder, SameBuffer
    <3> HIDE DEF s
    <3>4. ArgsFit([s EXCEPT !.state = "esc"])
      BY <3>3 DEF ArgsFit, Decoder
    <3> QED BY <3>1, <3>3, <3>4, MoreDecoded
  <2> QED BY <2>1, <2>2
<1>4. CASE c \notin {KBD_MORE, CSI, SS3, ESC}
  <2>1. st_esc(k, c) = With(ordkey(k, c), {"alt"})
    BY <1>4 DEF st_esc
  <2>2. c \in Char
    BY <1>4
  <2>3. /\ ordkey(k, c) \in Decoder /\ SameBuffer(k, ordkey(k, c))
        /\ ordkey(k, c).v \in Keys
    BY <2>2, OrdkeyKey
  <2> QED BY <2>1, <2>3, WithKey, KeyDecoded DEF Mods, SameBuffer
<1> QED BY <1>1, <1>2, <1>3, <1>4

LEMMA ReadyDecoded ==
  ASSUME NEW k \in Decoder, NEW t \in Decoder, SameBuffer(k, t),
         NEW key \in Keys, NEW m
  PROVE  Decoded(k, Ready(t, key, m))
<1> DEFINE mods == (IF m = 0 THEN {} ELSE ModBits((m - 1) % 8))
                   \cup (IF t.mod = ESC THEN {"alt"} ELSE {})
<1>1. mods \in SUBSET Mods
  BY DEF ModBits, Mods
<1>2. Ready(t, key, m) = With(Say(t, key), mods)
  BY DEF Ready
<1> HIDE DEF mods
<1>3. Say(t, key) \in Decoder /\ SameBuffer(t, Say(t, key)) /\ Say(t, key).v \in Keys
  BY SayKey
<1>4. /\ With(Say(t, key), mods) \in Decoder /\ With(Say(t, key), mods).v \in Keys
      /\ SameBuffer(Say(t, key), With(Say(t, key), mods))
  BY <1>1, <1>3, WithKey
<1>5. SameBuffer(k, With(Say(t, key), mods))
  BY <1>3, <1>4 DEF SameBuffer
<1> QED BY <1>2, <1>4, <1>5, KeyDecoded

LEMMA AnswerDecoded ==
  ASSUME NEW k \in Decoder, ArgsFit(k), k.state # "start", NEW code \in Nat,
         NEW mid, NEW high
  PROVE  Decoded(k, Answer(k, code, mid, high))
<1>1. CASE mid % 65536 >= 32768 \/ high % 256 >= 128
  <2> DEFINE v == Plain(KBD_MORE)
  <2>1. Answer(k, code, mid, high) = [k EXCEPT !.v = v]
    BY <1>1 DEF Answer, Say
  <2>2. v \in [code : Int, mods : SUBSET Mods] /\ v.code = KBD_MORE
    BY DEF Plain, Key, KBD_MORE
  <2> HIDE DEF v
  <2> DEFINE s == [k EXCEPT !.v = v]
  <2>3. /\ s \in Decoder /\ SameBuffer(k, s) /\ s.v.code = KBD_MORE
        /\ s.state = k.state /\ s.arg = k.arg
    BY <2>2 DEF Decoder, SameBuffer
  <2> HIDE DEF s
  <2>4. ArgsFit(s)
    BY <2>3 DEF ArgsFit
  <2> QED BY <2>1, <2>3, <2>4 DEF Decoded, KBD_MORE, KBD_INCOMPLETE, s
<1>2. CASE ~(mid % 65536 >= 32768 \/ high % 256 >= 128)
  <2>1. Answer(k, code, mid, high) = Say(k, Plain(code))
    BY <1>2 DEF Answer
  <2> QED BY <2>1, PlainIsKey, SayKey, KeyDecoded
<1> QED BY <1>1, <1>2

LEMMA ArgIsInt ==
  ASSUME NEW k \in Decoder, NEW i \in Nat PROVE Arg(k, i) \in Int
<1>1. k.arg \in Seq(Int)
  BY DEF Decoder
<1>2. CASE i < Len(k.arg)
  <2>1. i + 1 \in 1 .. Len(k.arg)
    BY <1>1, <1>2
  <2> QED BY <1>1, <1>2, <2>1, ElementOf DEF Arg
<1>3. CASE ~(i < Len(k.arg))
  BY <1>3 DEF Arg
<1> QED BY <1>2, <1>3

LEMMA TildeDecoded ==
  ASSUME NEW k \in Decoder, NEW c \in {126, 36, 94, 64}
  PROVE  Decoded(k, Tilde(k, c))
<1> DEFINE v == csi_tilde(Arg(k, 0))
           mods == CASE c = 126 -> {}
                     [] c = 36  -> {"shift"}
                     [] c = 94  -> {"ctrl"}
                     [] c = 64  -> {"shift", "ctrl"}
           t == [k EXCEPT !.delf = FALSE]
<1>1. v \in Nat
  BY ArgIsInt, TildeCodes
<1>2. mods \in SUBSET Mods
  BY DEF Mods
<1>3. t \in Decoder /\ SameBuffer(k, t)
  BY DEF Decoder, SameBuffer
<1>4. Tilde(k, c) = IF v = KBD_NOKEY THEN Say(k, Plain(v))
                    ELSE Ready(t, Key(v, mods), Arg(k, 1))
  BY DEF Tilde
<1> HIDE DEF v, mods, t
<1>5. CASE v = KBD_NOKEY
  <2>1. Plain(v) \in Keys
    BY <1>1, PlainIsKey
  <2> QED BY <1>4, <1>5, <2>1, SayKey, KeyDecoded
<1>6. CASE v # KBD_NOKEY
  <2>1. Key(v, mods) \in Keys
    BY <1>1, <1>2, KeyIsKey
  <2> QED BY <1>3, <1>4, <1>6, <2>1, ReadyDecoded
<1> QED BY <1>5, <1>6

LEMMA Csiss3Decoded ==
  ASSUME NEW k \in Decoder, ArgsFit(k), k.state # "start", NEW c \in Char
  PROVE  Decoded(k, csiss3(k, c))
<1> DEFINE a == Arg(k, 0)
<1>0. a \in Int /\ c \in Nat /\ c \in Int
  BY ArgIsInt DEF Char
<1>1. CASE k.type = SS3
  <2>1. csiss3(k, c) = Ready(k, ss3tbl(c), a)
    BY <1>1 DEF csiss3, SS3, CSI
  <2> QED BY <1>0, <2>1, Ss3TblKeys, ReadyDecoded DEF SameBuffer
<1>2. CASE k.type # SS3 /\ k.type = CSI /\ k.mod = CSI
  <2> DEFINE v == IF c - 65 < 12 THEN KBD_F(c - 64) ELSE KBD_NOKEY
  <2>1. csiss3(k, c) = Ready(k, Plain(v), a)
    BY <1>2 DEF csiss3, SS3, CSI
  <2>2. v \in Nat
    BY <1>0 DEF KBD_F, KBD_NOKEY
  <2> QED BY <2>1, <2>2, PlainIsKey, ReadyDecoded DEF SameBuffer
<1>3. CASE k.type # SS3 /\ k.type = CSI /\ k.mod = 63
  <2>1. csiss3(k, c) = IF c = 99 THEN Answer(k, KBD_DECID, Arg(k, 0), Arg(k, 1))
                                 ELSE Say(k, Plain(KBD_NOKEY))
    BY <1>3 DEF csiss3, SS3, CSI
  <2>2. Plain(KBD_NOKEY) \in Keys
    BY PlainIsKey, CodesAreNumbers
  <2> QED BY <2>1, <2>2, CodesAreNumbers, AnswerDecoded, SayKey, KeyDecoded
<1>4. CASE k.type # SS3 /\ ~(k.type = CSI /\ k.mod \in {CSI, 63})
  <2>0. csiss3(k, c) =
          CASE k.argf /\ c \in {126, 36, 94, 64} -> Tilde(k, c)
            [] c = 122 -> Ready(k, Plain(IF a < 33 THEN csi_tilde(a) ELSE csi_z(a)),
                                Arg(k, 1))
            [] c = 82 /\ Len(k.arg) = 2 -> Answer(k, KBD_CPOS, Arg(k, 0), Arg(k, 1))
            [] c = 116 -> Answer(k, KBD_TERM_T + (a % 256), Arg(k, 1), Arg(k, 2))
            [] OTHER -> Ready(k, csitbl(c), a)
    BY <1>4 DEF csiss3
  <2>1. CASE k.argf /\ c \in {126, 36, 94, 64}
    BY <2>0, <2>1, TildeDecoded
  <2>2. CASE c = 122
    <3> DEFINE v == IF a < 33 THEN csi_tilde(a) ELSE csi_z(a)
    <3>1. v \in Nat
      BY <1>0, TildeCodes, ZCodes
    <3>2. csiss3(k, c) = Ready(k, Plain(v), Arg(k, 1))
      BY <2>0, <2>2
    <3> QED BY <3>1, <3>2, PlainIsKey, ReadyDecoded DEF SameBuffer
  <2>3. CASE c = 82 /\ Len(k.arg) = 2
    BY <2>0, <2>3, AnswerDecoded, CodesAreNumbers
  <2>4. CASE c = 116
    <3>1. KBD_TERM_T + (a % 256) \in Nat
      BY <1>0 DEF KBD_TERM_T
    <3> QED BY <2>0, <2>4, <3>1, AnswerDecoded
  <2>5. CASE /\ ~(k.argf /\ c \in {126, 36, 94, 64}) /\ c # 122
             /\ ~(c = 82 /\ Len(k.arg) = 2) /\ c # 116
    <3>1. csiss3(k, c) = Ready(k, csitbl(c), a)
      BY <2>0, <2>5
    <3> QED BY <1>0, <3>1, CsiTblKeys, ReadyDecoded DEF SameBuffer
  <2> QED BY <2>1, <2>2, <2>3, <2>4, <2>5
<1> QED BY <1>1, <1>2, <1>3, <1>4

LEMMA StCsiss3Decoded ==
  ASSUME NEW k \in Decoder, ArgsFit(k), k.state = "csiss3",
         NEW c \in Char \cup {KBD_MORE}
  PROVE  Decoded(k, st_csiss3(k, c))
<1>0. c \in Int /\ k.arg = <<0>>
  BY DEF Char, KBD_MORE, ArgsFit
<1> DEFINE Bracket == c \in {CSI, 63} /\ k.type = CSI
           Mouse == c = 77 /\ k.type = CSI
<1> USE DEF CSI, Digit
<1>1. CASE c < 32
  <2>1. st_csiss3(k, c) = Incomplete(k)
    BY <1>1 DEF st_csiss3
  <2> QED BY <2>1, IncompleteDecoded
<1>2. CASE ~(c < 32) /\ Bracket
  <2>1. CASE k.mod # 0
    <3>1. st_csiss3(k, c) = Incomplete(k)
      BY <1>2, <2>1 DEF st_csiss3
    <3> QED BY <3>1, IncompleteDecoded
  <2>2. CASE k.mod = 0
    <3> DEFINE s == [k EXCEPT !.mod = c]
    <3>1. st_csiss3(k, c) = More(s, "csiss3")
      BY <1>2, <2>2 DEF st_csiss3
    <3>2. c \in Nat
      BY <1>2
    <3>3. s \in Decoder /\ SameBuffer(k, s) /\ s.arg = k.arg
      BY <3>2 DEF Decoder, SameBuffer
    <3> HIDE DEF s
    <3>4. ArgsFit([s EXCEPT !.state = "csiss3"])
      BY <1>0, <3>3 DEF ArgsFit, Decoder
    <3> QED BY <3>1, <3>3, <3>4, MoreDecoded
  <2> QED BY <2>1, <2>2
<1>3. CASE ~(c < 32) /\ ~Bracket /\ c \in Digit
  <2> DEFINE arg == <<c - 48>>
             s == [k EXCEPT !.arg = arg, !.argf = TRUE]
  <2>1. st_csiss3(k, c) = More(s, "arg")
    BY <1>3 DEF st_csiss3
  <2>2. arg \in Seq(Int) /\ Len(arg) = 1
    BY <1>0
  <2> HIDE DEF arg
  <2>3. s \in Decoder /\ SameBuffer(k, s) /\ s.arg = arg
    BY <2>2 DEF Decoder, SameBuffer
  <2> HIDE DEF s
  <2>4. ArgsFit([s EXCEPT !.state = "arg"])
    BY <2>2, <2>3 DEF ArgsFit, Decoder
  <2> QED BY <2>1, <2>3, <2>4, MoreDecoded
<1>4. CASE ~(c < 32) /\ ~Bracket /\ c \notin Digit /\ c = 59
  <2> DEFINE arg == Append(k.arg, 0)
             s == [k EXCEPT !.arg = arg, !.argf = TRUE]
  <2>1. st_csiss3(k, c) = More(s, "arg")
    BY <1>4 DEF st_csiss3
  <2>2. arg \in Seq(Int) /\ Len(arg) = 2
    BY <1>0
  <2> HIDE DEF arg
  <2>3. s \in Decoder /\ SameBuffer(k, s) /\ s.arg = arg
    BY <2>2 DEF Decoder, SameBuffer
  <2> HIDE DEF s
  <2>4. ArgsFit([s EXCEPT !.state = "arg"])
    BY <2>2, <2>3 DEF ArgsFit, Decoder
  <2> QED BY <2>1, <2>3, <2>4, MoreDecoded
<1>5. CASE ~(c < 32) /\ ~Bracket /\ c \notin Digit /\ c # 59 /\ Mouse
  <2> DEFINE arg == << >>
             s == [k EXCEPT !.arg = arg]
  <2>1. st_csiss3(k, c) = More(s, "mouse")
    BY <1>5 DEF st_csiss3
  <2>2. arg \in Seq(Int) /\ Len(arg) = 0
    OBVIOUS
  <2> HIDE DEF arg
  <2>3. s \in Decoder /\ SameBuffer(k, s) /\ s.arg = arg
    BY <2>2 DEF Decoder, SameBuffer
  <2> HIDE DEF s
  <2>4. ArgsFit([s EXCEPT !.state = "mouse"])
    BY <2>2, <2>3 DEF ArgsFit, Decoder
  <2> QED BY <2>1, <2>3, <2>4, MoreDecoded
<1>6. CASE ~(c < 32) /\ ~Bracket /\ c \notin Digit /\ c # 59 /\ ~Mouse
  <2>1. st_csiss3(k, c) = csiss3(k, c)
    BY <1>6 DEF st_csiss3
  <2>2. c \in Char
    BY <1>6 DEF KBD_MORE
  <2> QED BY <2>1, <2>2, Csiss3Decoded
<1> QED BY <1>1, <1>2, <1>3, <1>4, <1>5, <1>6

LEMMA StArgDecoded ==
  ASSUME NEW k \in Decoder, ArgsFit(k), k.state = "arg", NEW c \in Char \cup {KBD_MORE}
  PROVE  Decoded(k, st_arg(k, c))
<1>0. c \in Int /\ k.arg \in Seq(Int) /\ Len(k.arg) \in 1 .. 16
  BY DEF Char, KBD_MORE, ArgsFit, Decoder
<1> USE DEF Digit
<1>1. CASE c = KBD_MORE
  <2>1. st_arg(k, c) = Incomplete(k)
    BY <1>1 DEF st_arg, KBD_MORE
  <2> QED BY <2>1, IncompleteDecoded
<1>2. CASE c # KBD_MORE /\ c \in Digit
  <2> DEFINE arg == [k.arg EXCEPT ![Len(k.arg)] = 10 * k.arg[Len(k.arg)] + c - 48]
             s == [k EXCEPT !.arg = arg]
  <2>1. st_arg(k, c) = More(s, "arg")
    BY <1>2 DEF st_arg, KBD_MORE
  <2>2. Len(k.arg) \in 1 .. Len(k.arg)
    BY <1>0, LengthsInBounds
  <2>3. k.arg[Len(k.arg)] \in Int
    BY <1>0, <2>2, ElementOf
  <2> DEFINE x == 10 * k.arg[Len(k.arg)] + c - 48
  <2>x. x \in Int
    BY <1>0, <2>3
  <2> HIDE DEF x
  <2>4. arg \in Seq(Int) /\ Len(arg) = Len(k.arg)
    <3>1. arg = [k.arg EXCEPT ![Len(k.arg)] = x]
      BY DEF x
    <3> QED BY <1>0, <2>2, <2>x, <3>1, OneReplaced
  <2> HIDE DEF arg
  <2>5. s \in Decoder /\ SameBuffer(k, s) /\ s.arg = arg
    BY <2>4 DEF Decoder, SameBuffer
  <2> HIDE DEF s
  <2>6. ArgsFit([s EXCEPT !.state = "arg"])
    BY <1>0, <2>4, <2>5, FitInState
  <2> QED BY <2>1, <2>5, <2>6, MoreDecoded
<1>3. CASE c = 59
  <2>1. CASE Len(k.arg) = 16
    <3>1. st_arg(k, c) = Say(k, Plain(KBD_NOKEY))
      BY <1>3, <2>1 DEF st_arg, KBD_MORE
    <3>2. Plain(KBD_NOKEY) \in Keys
      BY PlainIsKey, CodesAreNumbers
    <3>3. /\ Say(k, Plain(KBD_NOKEY)) \in Decoder
          /\ Say(k, Plain(KBD_NOKEY)).v \in Keys
          /\ SameBuffer(k, Say(k, Plain(KBD_NOKEY)))
      BY <3>2, SayKey
    <3> QED BY <3>1, <3>3, KeyDecoded
  <2>2. CASE Len(k.arg) # 16
    <3> DEFINE arg == Append(k.arg, 0)
               s == [k EXCEPT !.arg = arg]
    <3>1. st_arg(k, c) = More(s, "arg")
      BY <1>3, <2>2 DEF st_arg, KBD_MORE
    <3>2. arg \in Seq(Int) /\ Len(arg) = Len(k.arg) + 1
      BY <1>0
    <3> HIDE DEF arg
    <3>3. s \in Decoder /\ SameBuffer(k, s) /\ s.arg = arg
      BY <3>2 DEF Decoder, SameBuffer
    <3> HIDE DEF s
    <3>a. Len(s.arg) \in 1 .. 16
      <4>1. Len(s.arg) = Len(k.arg) + 1
        BY <3>2, <3>3
      <4>2. Len(k.arg) + 1 \in 1 .. 16
        BY <1>0, <2>2, LengthsInBounds
      <4> QED BY <4>1, <4>2
    <3>4. ArgsFit([s EXCEPT !.state = "arg"])
      BY <3>a, <3>3, FitInState
    <3> QED BY <3>1, <3>3, <3>4, MoreDecoded
  <2> QED BY <2>1, <2>2
<1>4. CASE c # KBD_MORE /\ c \notin Digit /\ c # 59
  <2>1. st_arg(k, c) = csiss3(k, c)
    BY <1>4 DEF st_arg
  <2> QED BY <1>4, <2>1, Csiss3Decoded
<1> QED BY <1>1, <1>2, <1>3, <1>4

LEMMA StMouseDecoded ==
  ASSUME NEW k \in Decoder, ArgsFit(k), k.state = "mouse", NEW c \in Char \cup {KBD_MORE}
  PROVE  Decoded(k, st_mouse(k, c))
<1>0. c \in Int /\ k.arg \in Seq(Int) /\ Len(k.arg) \in 0 .. 2
  BY DEF Char, KBD_MORE, ArgsFit, Decoder
<1> DEFINE arg == Append(k.arg, c - 32)
           t == [k EXCEPT !.arg = arg]
<1>1. arg \in Seq(Int) /\ Len(arg) = Len(k.arg) + 1
  BY <1>0
<1>2. st_mouse(k, c) = IF c = KBD_MORE THEN Incomplete(k)
                       ELSE IF Len(t.arg) < 3 THEN More(t, "mouse")
                       ELSE Say(t, Key(MSE_RELEASE, ModBits(t.arg[1] \div 4)))
  BY DEF st_mouse
<1> HIDE DEF arg
<1>3. t \in Decoder /\ SameBuffer(k, t) /\ t.arg = arg
  BY <1>1 DEF Decoder, SameBuffer
<1> HIDE DEF t
<1>4. CASE c = KBD_MORE
  BY <1>2, <1>4, IncompleteDecoded
<1>5. CASE c # KBD_MORE /\ Len(t.arg) < 3
  <2>a. Len(t.arg) \in 0 .. 2
    <3>1. Len(t.arg) = Len(k.arg) + 1
      BY <1>1, <1>3
    <3>2. Len(k.arg) + 1 < 3
      BY <1>5, <3>1
    <3> QED BY <1>0, <3>1, <3>2, LengthsInBounds
  <2>1. ArgsFit([t EXCEPT !.state = "mouse"])
    BY <1>3, <2>a, FitInState
  <2> QED BY <1>2, <1>3, <1>5, <2>1, MoreDecoded
<1>6. CASE c # KBD_MORE /\ ~(Len(t.arg) < 3)
  <2>1. Key(MSE_RELEASE, ModBits(t.arg[1] \div 4)) \in Keys
    BY KeyIsKey, CodesAreNumbers DEF ModBits
  <2> QED BY <1>2, <1>3, <1>6, <2>1, SayKey, KeyDecoded DEF SameBuffer
<1> QED BY <1>4, <1>5, <1>6

\* In every state the decoder takes every byte, and KBD_MORE if a sequence has
\* begun.
LEMMA StateDecoded ==
  ASSUME NEW k \in Decoder, ArgsFit(k), NEW c \in Char \cup {KBD_MORE},
         c = KBD_MORE => k.state # "start"
  PROVE  Decoded(k, state(k, c))
<1>1. CASE k.state = "start"
  <2>1. state(k, c) = st_start(k, c)
    BY <1>1 DEF state
  <2> QED BY <1>1, <2>1, StartDecoded
<1>2. CASE k.state = "esc"
  <2>1. state(k, c) = st_esc(k, c)
    BY <1>2 DEF state
  <2> QED BY <1>2, <2>1, EscDecoded
<1>3. CASE k.state = "csiss3"
  <2>1. state(k, c) = st_csiss3(k, c)
    BY <1>3 DEF state
  <2> QED BY <1>3, <2>1, StCsiss3Decoded
<1>4. CASE k.state = "arg"
  <2>1. state(k, c) = st_arg(k, c)
    BY <1>4 DEF state
  <2> QED BY <1>4, <2>1, StArgDecoded
<1>5. CASE k.state = "mouse"
  <2>1. state(k, c) = st_mouse(k, c)
    BY <1>5 DEF state
  <2> QED BY <1>5, <2>1, StMouseDecoded
<1> QED BY <1>1, <1>2, <1>3, <1>4, <1>5 DEF Decoder

-----------------------------------------------------------------------------
(* getkey().                                                               *)

\* What holds between two bytes.
DecoderInv(k) ==
  /\ k \in Decoder /\ ArgsFit(k)
  /\ k.p <= Len(k.buf)
  /\ k.v.code \in Nat \cup {KBD_MORE}
  /\ k.state = "start" <=> k.p = 0
  /\ k.waitdata => k.state # "start"

LEMMA Rest ==
  ASSUME NEW S, NEW s \in Seq(S), NEW m \in 1 .. Len(s) + 1
  PROVE  SubSeq(s, m, Len(s)) \in Seq(S) /\ Len(SubSeq(s, m, Len(s))) = Len(s) - m + 1
OBVIOUS

\* A sequence that is none gives a key all the same, of at least one byte.
LEMMA IncompleteKey ==
  ASSUME NEW k \in Decoder, Len(k.buf) > 0
  PROVE  /\ incomplete(k) \in Decoder /\ incomplete(k).v \in Keys
         /\ incomplete(k).buf = k.buf /\ incomplete(k).p \in 0 .. Len(k.buf)
<1> DEFINE b == k.buf
           At(n) == [k EXCEPT !.p = n]
<1>1. b \in Seq(Char) /\ Len(b) \in Nat
  BY DEF Decoder
<1>2. \A n \in Nat : At(n) \in Decoder /\ At(n).buf = k.buf /\ At(n).p = n
  BY DEF Decoder
<1>3. \A i \in 1 .. Len(b) : b[i] \in Char
  BY <1>1, ElementOf
<1>4. incomplete(k) =
        CASE Len(b) = 1 -> ordkey(At(1), b[1])
          [] Len(b) > 2 /\ SubSeq(b, 1, 3) = <<ESC, CSI, 77>> -> Say(At(3), Plain(KBD_F(1)))
          [] OTHER -> IF b[1] = ESC THEN With(ordkey(At(2), b[2]), {"alt"})
                      ELSE ordkey(At(1), b[1])
  BY DEF incomplete
<1> HIDE DEF b, At
<1>5. 1 \in 1 .. Len(b) /\ b[1] \in Char
  <2>1. 1 \in 1 .. Len(b)
    BY <1>1 DEF b
  <2> QED BY <1>3, <2>1
<1>6. /\ ordkey(At(1), b[1]) \in Decoder /\ ordkey(At(1), b[1]).v \in Keys
      /\ ordkey(At(1), b[1]).buf = k.buf /\ ordkey(At(1), b[1]).p = 1
  <2>1. At(1) \in Decoder /\ At(1).buf = k.buf /\ At(1).p = 1
    BY <1>2
  <2> QED BY <1>5, <2>1, OrdkeyKey DEF SameBuffer
<1>7. CASE Len(b) = 1
  <2>1. incomplete(k) = ordkey(At(1), b[1])
    BY <1>4, <1>7
  <2> QED BY <1>1, <1>5, <1>6, <2>1 DEF b
<1>8. CASE Len(b) > 2 /\ SubSeq(b, 1, 3) = <<ESC, CSI, 77>>
  <2>1. incomplete(k) = Say(At(3), Plain(KBD_F(1)))
    BY <1>1, <1>4, <1>8
  <2>2. Plain(KBD_F(1)) \in Keys
    BY CodesAreNumbers, PlainIsKey
  <2>3. At(3) \in Decoder /\ At(3).buf = k.buf /\ At(3).p = 3
    BY <1>2
  <2>4. 3 \in 0 .. Len(k.buf)
    BY <1>1, <1>8 DEF b
  <2> QED BY <2>1, <2>2, <2>3, <2>4, SayKey DEF SameBuffer
<1>9. CASE Len(b) # 1 /\ ~(Len(b) > 2 /\ SubSeq(b, 1, 3) = <<ESC, CSI, 77>>)
  <2>1. incomplete(k) = IF b[1] = ESC THEN With(ordkey(At(2), b[2]), {"alt"})
                        ELSE ordkey(At(1), b[1])
    BY <1>4, <1>9
  <2>2. CASE b[1] = ESC
    <3>1. 2 \in 1 .. Len(b) /\ 2 \in 0 .. Len(k.buf)
      <4>1. Len(b) \in Nat /\ Len(b) # 1 /\ 1 \in 1 .. Len(b)
        BY <1>1, <1>5, <1>9
      <4> QED BY <4>1, LengthsInBounds DEF b
    <3>2. At(2) \in Decoder /\ At(2).buf = k.buf /\ At(2).p = 2
      BY <1>2
    <3>3. b[2] \in Char
      BY <1>3, <3>1
    <3>4. /\ ordkey(At(2), b[2]) \in Decoder /\ ordkey(At(2), b[2]).v \in Keys
          /\ ordkey(At(2), b[2]).buf = k.buf /\ ordkey(At(2), b[2]).p = 2
      BY <3>2, <3>3, OrdkeyKey DEF SameBuffer
    <3>5. {"alt"} \in SUBSET Mods
      BY DEF Mods
    <3> QED BY <2>1, <2>2, <3>1, <3>4, <3>5, WithKey DEF SameBuffer
  <2>3. CASE b[1] # ESC
    <3>1. 1 \in 0 .. Len(k.buf)
      BY <1>1, <1>5 DEF b
    <3> QED BY <1>6, <2>1, <2>3, <3>1
  <2> QED BY <2>2, <2>3
<1> QED BY <1>7, <1>8, <1>9

LEMMA TakenInv ==
  ASSUME NEW k \in Decoder, k.v \in Keys, k.p <= Len(k.buf)
  PROVE  DecoderInv(Taken(k)) /\ Len(Taken(k).buf) <= Len(k.buf)
<1> DEFINE rest == SubSeq(k.buf, k.p + 1, Len(k.buf))
           arg == <<0>>
           v == k.v
<1>1. rest \in Seq(Char) /\ Len(rest) \in Nat /\ Len(rest) <= Len(k.buf)
  <2>1. k.buf \in Seq(Char) /\ k.p \in Nat /\ Len(k.buf) \in Nat
    BY DEF Decoder
  <2>2. k.p + 1 \in 1 .. Len(k.buf) + 1
    BY <2>1
  <2>3. rest \in Seq(Char) /\ Len(rest) = Len(k.buf) - (k.p + 1) + 1
    BY <2>1, <2>2, Rest
  <2> HIDE DEF rest
  <2> QED BY <2>1, <2>3
<1>2. arg \in Seq(Int)
  OBVIOUS
<1>3. v \in [code : Int, mods : SUBSET Mods] /\ v.code \in Nat
  BY DEF Keys
<1>4. Taken(k) = [state |-> "start", type |-> 0, mod |-> 0, arg |-> arg,
                  argf |-> FALSE, delf |-> k.delf, buf |-> rest, p |-> 0,
                  waitdata |-> FALSE, v |-> v]
  <2> DEFINE none == Plain(KBD_NOKEY)
  <2> HIDE DEF none, rest, v
  <2>1. KeyboardInit = [state |-> "start", type |-> 0, mod |-> 0, arg |-> arg,
                        argf |-> FALSE, delf |-> FALSE, buf |-> << >>, p |-> 0,
                        waitdata |-> FALSE, v |-> none]
    BY DEF KeyboardInit, none
  <2>2. Taken(k) = [KeyboardInit EXCEPT !.delf = k.delf, !.v = v, !.buf = rest]
    BY DEF Taken, rest, v
  <2> HIDE DEF arg
  <2> QED BY <2>1, <2>2
<1> HIDE DEF rest, arg, v
<1>5. Taken(k) \in Decoder
  BY <1>1, <1>2, <1>3, <1>4 DEF Decoder
<1>6. ArgsFit(Taken(k))
  BY <1>4 DEF ArgsFit, arg
<1> QED BY <1>1, <1>3, <1>4, <1>5, <1>6 DEF DecoderInv

\* A byte, or KBD_MORE within a sequence, leaves the decoder in order.
LEMMA FeedInv ==
  ASSUME NEW k \in Decoder, ArgsFit(k), k.p \in 1 .. Len(k.buf),
         k.waitdata => k.state # "start",
         NEW c \in Char \cup {KBD_MORE}, c = KBD_MORE => k.state # "start"
  PROVE  DecoderInv(Feed(k, c)) /\ Len(Feed(k, c).buf) <= Len(k.buf)
<1> DEFINE s == state(k, c)
           t == IF s.v.code = KBD_INCOMPLETE THEN incomplete(s) ELSE s
<1>0. k.p \in Nat /\ Len(k.buf) \in Nat /\ Len(k.buf) > 0 /\ k.p > 0 /\ k.p <= Len(k.buf)
  BY DEF Decoder
<1>1. Decoded(k, s)
  BY StateDecoded
<1>2. Feed(k, c) = IF t.v.code >= 0 THEN Taken(t)
                   ELSE [t EXCEPT !.waitdata = @ \/ Drained(t)]
  BY DEF Feed
<1> HIDE DEF s
<1>3. s \in Decoder /\ s.buf = k.buf /\ s.p = k.p /\ s.waitdata = k.waitdata
  BY <1>1 DEF Decoded, SameBuffer
<1>4. CASE s.v.code = KBD_INCOMPLETE
  <2>1. /\ t \in Decoder /\ t.v \in Keys /\ t.buf = k.buf /\ t.p \in 0 .. Len(k.buf)
    BY <1>0, <1>3, <1>4, IncompleteKey
  <2> HIDE DEF t
  <2>2. t.v.code >= 0 /\ t.p <= Len(t.buf)
    BY <1>0, <2>1 DEF Keys
  <2> QED BY <1>2, <2>1, <2>2, TakenInv
<1>5. CASE s.v.code # KBD_INCOMPLETE /\ s.v \in Keys
  <2>1. s.v.code >= 0 /\ s.p <= Len(s.buf)
    BY <1>0, <1>3, <1>5 DEF Keys
  <2> QED BY <1>2, <1>3, <1>5, <2>1, TakenInv
<1>6. CASE s.v.code = KBD_MORE
  <2> DEFINE wait == s.waitdata \/ Drained(s)
             u == [s EXCEPT !.waitdata = wait]
  <2>1. Feed(k, c) = u
    BY <1>2, <1>6 DEF KBD_MORE, KBD_INCOMPLETE
  <2>2. wait \in BOOLEAN
    BY <1>3 DEF Drained, Decoder
  <2> HIDE DEF wait
  <2>3. /\ u \in Decoder /\ u.state = s.state /\ u.arg = s.arg /\ u.buf = s.buf
        /\ u.p = s.p /\ u.v = s.v
    BY <1>3, <2>2 DEF Decoder
  <2> HIDE DEF u
  <2>4. s.state # "start" /\ ArgsFit(s)
    BY <1>1, <1>6 DEF Decoded
  <2>5. ArgsFit(u)
    BY <2>3, <2>4 DEF ArgsFit
  <2> QED BY <1>0, <1>3, <1>6, <2>1, <2>3, <2>4, <2>5 DEF DecoderInv
<1> QED BY <1>1, <1>4, <1>5, <1>6 DEF Decoded


-----------------------------------------------------------------------------
(* The timer.  What select() leaves in tv and the time since the last      *)
(* update add up to TIMEOUT.  In the build that counts whole seconds they  *)
(* do so up to the part of a second at which the last update was: tv is    *)
(* then a number of seconds, and the seconds of the time of day that have  *)
(* begun since are what has been taken off it.                             *)

TimeInv ==
  /\ return_tv \in BOOLEAN
  /\ tv \in Nat /\ tv <= Timeout /\ since \in Nat /\ second \in 0 .. Unit - 1
  /\ return_tv => tv + since = Timeout
  /\ ~return_tv => \E k \in Nat, updated \in 0 .. Unit - 1 :
                     tv = Unit * k /\ since = Timeout - tv + second - updated

\* The quotient and the remainder by a second.
LEMMA Seconds ==
  ASSUME NEW t \in Nat
  PROVE  /\ t \div Unit \in Nat /\ t % Unit \in 0 .. Unit - 1
         /\ t = Unit * (t \div Unit) + (t % Unit)
<1>1. Unit \in Nat /\ Unit > 0
  BY TimeAssumption
<1> QED BY <1>1, Z3

LEMMA WholeTimeout == \E k \in Nat : Timeout = Unit * k
<1>1. Timeout \in Nat /\ Timeout % Unit = 0 /\ Unit \in Nat
  BY TimeAssumption
<1> DEFINE k == Timeout \div Unit
<1>2. Timeout = Unit * k + (Timeout % Unit) /\ k \in Nat
  BY <1>1, Seconds
<1> HIDE DEF k
<1>3. Timeout = Unit * k
  BY <1>1, <1>2
<1> QED BY <1>2, <1>3

\* Not more whole seconds end in d units than tv has, if d is at most tv.
LEMMA SecondsLeft ==
  ASSUME NEW k \in Nat, NEW q \in Nat, NEW s \in 0 .. Unit - 1,
         NEW d \in 0 .. Unit * k, NEW r \in Nat, s + d = Unit * q + r
  PROVE  q <= k
<1>1. Unit \in Nat /\ Unit > 0
  BY TimeAssumption
<1>2. SUFFICES ASSUME q >= k + 1 PROVE FALSE
  BY <1>1
<1>3. Unit * q >= Unit * (k + 1)
  BY <1>1, <1>2
<1>4. Unit * (k + 1) = Unit * k + Unit
  BY <1>1
<1>5. Unit * q \in Nat /\ Unit * k \in Nat
  BY <1>1
<1> QED BY <1>1, <1>3, <1>4, <1>5

LEMMA ElapseKeepsTime ==
  ASSUME TimeInv, NEW d \in 0 .. tv, Elapse(d)
  PROVE  TimeInv'
<1>1. Unit \in Nat /\ Unit > 0 /\ Timeout \in Nat
  BY TimeAssumption
<1>2. tv \in Nat /\ d \in Nat /\ since \in Nat /\ second \in Nat /\ second < Unit
  BY <1>1 DEF TimeInv
<1> DEFINE q == (second + d) \div Unit
           r == (second + d) % Unit
<1>3. q \in Nat /\ r \in 0 .. Unit - 1 /\ second + d = Unit * q + r
  BY <1>2, Seconds
<1>4. since' = since + d /\ second' = r /\ return_tv' = return_tv
  BY DEF Elapse
<1> HIDE DEF q, r
<1>5. CASE return_tv
  <2>1. tv' = tv - d
    BY <1>5 DEF Elapse
  <2> QED BY <1>1, <1>2, <1>3, <1>4, <1>5, <2>1 DEF TimeInv
<1>6. CASE ~return_tv
  <2>1. tv' = tv - Unit * q
    BY <1>6 DEF Elapse, q
  <2>2. PICK k \in Nat, updated \in 0 .. Unit - 1 :
          tv = Unit * k /\ since = Timeout - tv + second - updated
    BY <1>6 DEF TimeInv
  <2>3. q <= k
    BY <1>1, <1>2, <1>3, <2>2, SecondsLeft
  <2>4. k - q \in Nat /\ Unit * (k - q) = Unit * k - Unit * q
    BY <1>1, <1>3, <2>3
  <2>5. Unit * q \in Nat /\ Unit * k \in Nat /\ Unit * (k - q) \in Nat
    BY <1>1, <1>3, <2>4
  <2>6. tv' = Unit * (k - q) /\ tv' \in Nat /\ tv' <= Timeout
    BY <1>1, <1>2, <2>1, <2>2, <2>4, <2>5 DEF TimeInv
  <2>7. since' = Timeout - tv' + second' - updated
    BY <1>1, <1>2, <1>3, <1>4, <2>1, <2>2, <2>5
  <2> QED BY <1>1, <1>2, <1>3, <1>4, <1>6, <2>2, <2>4, <2>6, <2>7 DEF TimeInv
<1> QED BY <1>5, <1>6 DEF TimeInv

LEMMA TimerKeepsTime == TimeInv /\ Timer => TimeInv'
<1> SUFFICES ASSUME TimeInv, Timer PROVE TimeInv'
  OBVIOUS
<1>1. Unit \in Nat /\ Unit > 0 /\ Timeout \in Nat
  BY TimeAssumption
<1>2. return_tv' = return_tv /\ second' = second
  BY DEF Timer
<1>3. CASE tv <= 0
  <2>1. tv' = Timeout /\ since' = 0
    BY <1>3 DEF Timer
  <2>2. PICK k \in Nat : Timeout = Unit * k
    BY WholeTimeout
  <2> QED BY <1>1, <1>2, <2>1, <2>2 DEF TimeInv
<1>4. CASE ~(tv <= 0)
  BY <1>2, <1>4 DEF Timer, TimeInv
<1> QED BY <1>3, <1>4

LEMMA NextKeepsTime == TimeInv /\ [Next]_vars => TimeInv'
<1> SUFFICES ASSUME TimeInv, [Next]_vars PROVE TimeInv'
  OBVIOUS
<1>1. CASE UNCHANGED timeVars
  BY <1>1 DEF TimeInv, timeVars
<1>2. CASE \E d \in 0 .. tv : Elapse(d)
  BY <1>2, ElapseKeepsTime
<1>3. CASE Expired
  <2>1. tv \in 0 .. tv
    BY DEF TimeInv
  <2> QED BY <1>3, <2>1, ElapseKeepsTime DEF Expired
<1>4. CASE Timer
  BY <1>4, TimerKeepsTime
<1>5. CASE ~(\E d \in 0 .. tv : Elapse(d)) /\ ~Expired /\ ~Timer
  <2>1. UNCHANGED timeVars
    BY <1>5 DEF Next, Main, vars, PressKey, Arrive, WindowChange, Interrupt,
      InitScreen, CreateWidgets, Select, Readable, ReadBytes, NextByte, NoByte,
      Sleep, HandleKey, CheckSize, Resize, Resized
  <2> QED BY <1>1, <2>1
<1> QED BY <1>2, <1>3, <1>4, <1>5

\* The numbers of the timer are in range, and tv is what is left of TIMEOUT.
THEOREM TimeKept == Spec => []TimeInv
<1>1. Init => TimeInv
  <2> SUFFICES ASSUME Init PROVE TimeInv
    OBVIOUS
  <2>1. Unit \in Nat /\ Unit > 0 /\ Timeout \in Nat
    BY TimeAssumption
  <2>2. PICK k \in Nat : Timeout = Unit * k
    BY WholeTimeout
  <2>3. return_tv \in BOOLEAN
    BY FlagsAssumption DEF Init
  <2> QED BY <2>1, <2>2, <2>3 DEF Init, TimeInv
<1>2. TimeInv /\ [Next]_vars => TimeInv'
  BY NextKeepsTime
<1> QED BY <1>1, <1>2, PTL DEF Spec

\* Keys and signals, however many, do not put the next update off by a second.
THEOREM UpdatesNotLate == Spec => []TickNotLate
<1>1. TimeInv => TickNotLate
  BY TimeAssumption DEF TimeInv, TickNotLate, Slack
<1> QED BY <1>1, TimeKept, PTL

\* Nor do they bring it on by a second.
THEOREM UpdatesNotEarly == Spec => TickNotEarly
<1> DEFINE A == since' < since => since >= Timeout - Slack
<1>1. TimeInv /\ [Next]_vars => [A]_vars
  <2> SUFFICES ASSUME TimeInv, Next, since' < since PROVE since >= Timeout - Slack
    OBVIOUS
  <2>1. tv \in Nat /\ since \in Nat
    BY DEF TimeInv
  <2>2. ~(\E d \in 0 .. tv : Elapse(d)) /\ ~Expired
    BY <2>1 DEF Elapse, Expired
  <2>3. ~UNCHANGED timeVars
    BY <2>1 DEF timeVars
  <2>4. Timer
    BY <2>2, <2>3 DEF Next, Main, PressKey, Arrive, WindowChange, Interrupt,
      InitScreen, CreateWidgets, Select, Readable, ReadBytes, NextByte, NoByte,
      Sleep, HandleKey, CheckSize, Resize, Resized
  <2>5. tv <= 0
    BY <2>1, <2>4 DEF Timer
  <2> QED BY <2>1, <2>5, TimeAssumption DEF TimeInv, Slack
<1> QED BY <1>1, TimeKept, PTL DEF Spec, TickNotEarly

-----------------------------------------------------------------------------
(* The input.  Every getkey() finds the decoder in order, and the bytes it *)
(* reads fit into its buffer.                                              *)

InputInv ==
  /\ wire \in Seq(Char) /\ tty \in Seq(Char)
  /\ DecoderInv(kbd) /\ Len(kbd.buf) <= BufSize

LEMMA Parts ==
  ASSUME NEW S, NEW s \in Seq(S), NEW n \in 0 .. Len(s)
  PROVE  /\ SubSeq(s, 1, n) \in Seq(S) /\ Len(SubSeq(s, 1, n)) = n
         /\ SubSeq(s, n + 1, Len(s)) \in Seq(S)
OBVIOUS

LEMMA BytesArrive ==
  ASSUME InputInv, NEW b \in Seq(Char), NEW n \in 1 .. Len(b),
         tty' = tty \o SubSeq(b, 1, n), wire' = SubSeq(b, n + 1, Len(b)), kbd' = kbd
  PROVE  InputInv'
<1>1. n \in 0 .. Len(b)
  OBVIOUS
<1>2. SubSeq(b, 1, n) \in Seq(Char) /\ wire' \in Seq(Char)
  BY <1>1, Parts
<1>3. tty' \in Seq(Char)
  BY <1>2, Concatenated DEF InputInv
<1> QED BY <1>2, <1>3 DEF InputInv

LEMMA NoKeyIsNumber ==
  /\ Plain(KBD_NOKEY) \in [code : Int, mods : SUBSET Mods]
  /\ Plain(KBD_NOKEY).code \in Nat
BY DEF Plain, Key, KBD_NOKEY

LEMMA NoKeyInv ==
  ASSUME NEW k, DecoderInv(k)
  PROVE  /\ DecoderInv([k EXCEPT !.v = Plain(KBD_NOKEY)])
         /\ [k EXCEPT !.v = Plain(KBD_NOKEY)].buf = k.buf
<1> DEFINE none == Plain(KBD_NOKEY)
           u == [k EXCEPT !.v = none]
<1>1. none \in [code : Int, mods : SUBSET Mods] /\ none.code \in Nat
  BY NoKeyIsNumber
<1> HIDE DEF none
<1>2. k \in Decoder
  BY DEF DecoderInv
<1>3. /\ u \in Decoder /\ u.state = k.state /\ u.arg = k.arg /\ u.buf = k.buf
      /\ u.p = k.p /\ u.waitdata = k.waitdata /\ u.v = none
  BY <1>1, <1>2 DEF Decoder
<1> HIDE DEF u
<1>4. DecoderInv(u)
  BY <1>1, <1>3 DEF DecoderInv, ArgsFit
<1> QED BY <1>3, <1>4 DEF u, none

LEMMA ReadKeepsInput == InputInv /\ ReadBytes => InputInv'
<1> SUFFICES ASSUME InputInv, ReadBytes PROVE InputInv'
  OBVIOUS
<1> DEFINE room == BufSize - kbd.p
           n == IF Len(tty) < room THEN Len(tty) ELSE room
           buf == kbd.buf \o SubSeq(tty, 1, n)
           u == [kbd EXCEPT !.buf = buf]
<1>1. /\ Drained(kbd) /\ n > 0 /\ kbd' = u
      /\ tty' = SubSeq(tty, n + 1, Len(tty)) /\ wire' = wire
  BY DEF ReadBytes
<1>2. /\ kbd \in Decoder /\ kbd.p \in Nat /\ kbd.buf \in Seq(Char)
      /\ Len(kbd.buf) \in Nat /\ kbd.p = Len(kbd.buf) /\ BufSize \in Nat
      /\ tty \in Seq(Char) /\ Len(tty) \in Nat
  <2>1. kbd \in Decoder /\ kbd.p = Len(kbd.buf) /\ tty \in Seq(Char)
    BY <1>1 DEF InputInv, DecoderInv, Drained
  <2>2. kbd.p \in Nat /\ kbd.buf \in Seq(Char)
    BY <2>1 DEF Decoder
  <2>3. Len(kbd.buf) \in Nat /\ Len(tty) \in Nat
    BY <2>1, <2>2
  <2> QED BY <2>1, <2>2, <2>3, BufSizeAssumption
<1>3. n \in 0 .. Len(tty) /\ n \in Nat /\ kbd.p + n <= BufSize
  BY <1>1, <1>2
<1> HIDE DEF n
<1>4. SubSeq(tty, 1, n) \in Seq(Char) /\ Len(SubSeq(tty, 1, n)) = n /\ tty' \in Seq(Char)
  BY <1>1, <1>2, <1>3, Parts
<1>5. buf \in Seq(Char) /\ Len(buf) = kbd.p + n
  BY <1>2, <1>4, Concatenated
<1> HIDE DEF buf
<1>6. /\ u \in Decoder /\ u.state = kbd.state /\ u.arg = kbd.arg /\ u.buf = buf
      /\ u.p = kbd.p /\ u.waitdata = kbd.waitdata /\ u.v = kbd.v
  BY <1>2, <1>5 DEF Decoder
<1> HIDE DEF u
<1>7. DecoderInv(u)
  BY <1>2, <1>3, <1>5, <1>6 DEF InputInv, DecoderInv, ArgsFit
<1> QED BY <1>1, <1>3, <1>4, <1>5, <1>6, <1>7 DEF InputInv

LEMMA NextByteKeepsInput == InputInv /\ NextByte => InputInv'
<1> SUFFICES ASSUME InputInv, NextByte PROVE InputInv'
  OBVIOUS
<1> DEFINE p == kbd.p + 1
           u == [kbd EXCEPT !.p = p]
           c == kbd.buf[p]
<1>1. ~Drained(kbd) /\ kbd' = Feed(u, c) /\ tty' = tty /\ wire' = wire
  BY DEF NextByte, terminalVars
<1>2. /\ kbd \in Decoder /\ kbd.p \in Nat /\ kbd.buf \in Seq(Char)
      /\ Len(kbd.buf) \in Nat /\ kbd.p < Len(kbd.buf)
  BY <1>1 DEF InputInv, DecoderInv, Decoder, Drained
<1>3. p \in 1 .. Len(kbd.buf) /\ p \in Nat
  BY <1>2
<1> HIDE DEF p
<1>4. /\ u \in Decoder /\ u.state = kbd.state /\ u.arg = kbd.arg /\ u.buf = kbd.buf
      /\ u.p = p /\ u.waitdata = kbd.waitdata
  BY <1>2, <1>3 DEF Decoder
<1> HIDE DEF u
<1>5. c \in Char
  BY <1>2, <1>3, ElementOf
<1> HIDE DEF c
<1>6. ArgsFit(u) /\ u.p \in 1 .. Len(u.buf) /\ (u.waitdata => u.state # "start")
  BY <1>3, <1>4 DEF InputInv, DecoderInv, ArgsFit
<1>7. c # KBD_MORE
  BY <1>5 DEF Char, KBD_MORE
<1>8. DecoderInv(Feed(u, c)) /\ Len(Feed(u, c).buf) <= Len(u.buf)
  BY <1>4, <1>5, <1>6, <1>7, FeedInv
<1>9. Len(Feed(u, c).buf) \in Nat
  BY <1>8 DEF DecoderInv, Decoder
<1> QED BY <1>1, <1>2, <1>4, <1>8, <1>9, BufSizeAssumption DEF InputInv

\* The decoder is given KBD_MORE within a sequence only.
LEMMA SequenceBegun == InputInv => MoreInSequence
<1> SUFFICES ASSUME InputInv PROVE MoreInSequence
  OBVIOUS
<1>1. BufSize # 0
  BY BufSizeAssumption
<1> QED BY <1>1 DEF InputInv, DecoderInv, MoreInSequence

LEMMA NoByteKeepsInput == InputInv /\ NoByte => InputInv'
<1> SUFFICES ASSUME InputInv, NoByte PROVE InputInv'
  OBVIOUS
<1>1. Drained(kbd) /\ tty' = tty /\ wire' = wire
  BY DEF NoByte, terminalVars
<1>2. /\ kbd \in Decoder /\ kbd.p \in Nat /\ Len(kbd.buf) \in Nat
      /\ kbd.p = Len(kbd.buf) /\ ArgsFit(kbd)
      /\ kbd.waitdata => kbd.state # "start"
      /\ kbd.state = "start" <=> kbd.p = 0
  BY <1>1 DEF InputInv, DecoderInv, Decoder, Drained
<1>3. CASE kbd.waitdata \/ kbd.p = BufSize
  <2>1. kbd' = Feed(kbd, KBD_MORE)
    BY <1>3 DEF NoByte
  <2>2. kbd.state # "start"
    BY <1>1, <1>3, SequenceBegun DEF MoreInSequence
  <2>3. kbd.p \in 1 .. Len(kbd.buf)
    BY <1>2, <2>2
  <2>4. DecoderInv(kbd') /\ Len(kbd'.buf) <= Len(kbd.buf)
    BY <1>2, <2>1, <2>2, <2>3, FeedInv
  <2>5. Len(kbd'.buf) \in Nat
    BY <2>4 DEF DecoderInv, Decoder
  <2> QED BY <1>1, <1>2, <2>4, <2>5, BufSizeAssumption DEF InputInv
<1>4. CASE ~(kbd.waitdata \/ kbd.p = BufSize)
  <2>1. kbd' = [kbd EXCEPT !.v = Plain(KBD_NOKEY)]
    BY <1>4 DEF NoByte
  <2> QED BY <1>1, <2>1, NoKeyInv DEF InputInv
<1> QED BY <1>3, <1>4

LEMMA NextKeepsInput == InputInv /\ [Next]_vars => InputInv'
<1> SUFFICES ASSUME InputInv, [Next]_vars PROVE InputInv'
  OBVIOUS
<1>1. ASSUME NEW s \in Spellings, PressKey(s) PROVE InputInv'
  <2>1. s.bytes \in Seq(Char)
    BY SpellingsAssumption
  <2>2. PICK n \in 1 .. Len(s.bytes) : /\ tty' = tty \o SubSeq(s.bytes, 1, n)
                                       /\ wire' = SubSeq(s.bytes, n + 1, Len(s.bytes))
    BY <1>1 DEF PressKey
  <2>3. kbd' = kbd
    BY <1>1 DEF PressKey
  <2> QED BY <2>1, <2>2, <2>3, BytesArrive
<1>2. CASE Arrive
  <2>1. wire \in Seq(Char)
    BY DEF InputInv
  <2>2. PICK n \in 1 .. Len(wire) : /\ tty' = tty \o SubSeq(wire, 1, n)
                                    /\ wire' = SubSeq(wire, n + 1, Len(wire))
    BY <1>2 DEF Arrive
  <2>3. kbd' = kbd
    BY <1>2 DEF Arrive
  <2> QED BY <2>1, <2>2, <2>3, BytesArrive
<1>3. CASE ReadBytes
  BY <1>3, ReadKeepsInput
<1>4. CASE NextByte
  BY <1>4, NextByteKeepsInput
<1>5. CASE NoByte
  BY <1>5, NoByteKeepsInput
<1>6. CASE HandleKey
  BY <1>6, NoKeyInv DEF HandleKey, terminalVars, InputInv
<1>7. CASE /\ ~(\E s \in Spellings : PressKey(s)) /\ ~Arrive /\ ~ReadBytes
           /\ ~NextByte /\ ~NoByte /\ ~HandleKey
  <2>1. wire' = wire /\ tty' = tty /\ kbd' = kbd
    BY <1>7 DEF Next, Main, vars, inputVars, terminalVars, WindowChange, Interrupt,
      InitScreen, CreateWidgets, Select, Readable, Expired, Sleep, Timer, CheckSize,
      Resize, Resized
  <2> QED BY <2>1 DEF InputInv
<1> QED BY <1>1, <1>2, <1>3, <1>4, <1>5, <1>6, <1>7

\* Whatever bytes come, and however the reads cut them, the decoder has a value
\* for each, stays within seq.arg, and is at the start of a sequence between two
\* keys only; the buffer does not overflow.
THEOREM DecoderInOrder == Spec => []InputInv
<1>1. Init => InputInv
  <2> SUFFICES ASSUME Init PROVE InputInv
    OBVIOUS
  <2> DEFINE none == Plain(KBD_NOKEY)
             arg == <<0>>
  <2>1. none \in [code : Int, mods : SUBSET Mods] /\ none.code \in Nat
    BY NoKeyIsNumber
  <2>2. arg \in Seq(Int)
    OBVIOUS
  <2>3. kbd = [state |-> "start", type |-> 0, mod |-> 0, arg |-> arg,
               argf |-> FALSE, delf |-> FALSE, buf |-> << >>, p |-> 0,
               waitdata |-> FALSE, v |-> none]
    BY DEF Init, KeyboardInit
  <2> HIDE DEF none
  <2>4. wire = << >> /\ tty = << >>
    BY DEF Init
  <2>5. ArgsFit(kbd)
    BY <2>3 DEF ArgsFit
  <2> HIDE DEF arg
  <2>6. kbd \in Decoder
    BY <2>1, <2>2, <2>3 DEF Decoder
  <2> QED BY <2>1, <2>3, <2>4, <2>5, <2>6, BufSizeAssumption DEF InputInv, DecoderInv
<1>2. InputInv /\ [Next]_vars => InputInv'
  BY NextKeepsInput
<1> QED BY <1>1, <1>2, PTL DEF Spec

\* For a byte that is missing the decoder gets KBD_MORE within a sequence only.
THEOREM NoByteInSequence == Spec => []MoreInSequence
BY DecoderInOrder, SequenceBegun, PTL

-----------------------------------------------------------------------------
(* The bytes of a key, read one by one.  Steps is defined where it is     *)
(* read, by induction on the number of bytes.                              *)

\* The decoder at the start of a sequence
Begin(f) == [KeyboardInit EXCEPT !.delf = f]

\* There is a function that gives the decoder after each of the first n bytes.
Walk(bytes, f, n) ==
  \E g : g[0] = Begin(f) /\ \A i \in 1 .. n : g[i] = state(g[i - 1], bytes[i])

LEMMA WalkThere ==
  ASSUME NEW bytes \in Seq(Char), NEW f, NEW n \in Nat
  PROVE  Walk(bytes, f, n)
<1> DEFINE Made(j) == Walk(bytes, f, j)
           Bad == {j \in Nat : ~Made(j)}
           R == {ss \in Nat \X Nat : ss[1] < ss[2]}
<1>1. IsWellFoundedOn(R, Nat)
  BY NatLessThanWellFounded DEF OpToRel
<1>2. ASSUME Bad # {} PROVE FALSE
  <2> HIDE DEF R
  <2>1. PICK j \in Bad : \A q \in Bad : <<q, j>> \notin R
    BY <1>1, <1>2, WFMin
  <2>2. j \in Nat /\ ~Made(j)
    OBVIOUS
  <2>3. CASE j = 0
    <3> DEFINE g == [i \in {0} |-> Begin(f)]
    <3>1. g[0] = Begin(f) /\ \A i \in 1 .. 0 : g[i] = state(g[i - 1], bytes[i])
      OBVIOUS
    <3>2. Made(0)
      BY <3>1 DEF Walk
    <3> QED BY <2>2, <2>3, <3>2
  <2>4. CASE j # 0
    <3>1. j - 1 \in Nat /\ <<j - 1, j>> \in R
      BY <2>2, <2>4 DEF R
    <3>2. Made(j - 1)
      BY <2>1, <3>1
    <3>3. PICK g : g[0] = Begin(f) /\ \A i \in 1 .. j - 1 : g[i] = state(g[i - 1], bytes[i])
      BY <3>2, Zenon DEF Walk
    <3> DEFINE h == [i \in 0 .. j |-> IF i = j THEN state(g[j - 1], bytes[j]) ELSE g[i]]
    <3>4. h[0] = Begin(f)
      BY <2>2, <2>4, <3>3
    <3>5. ASSUME NEW i \in 1 .. j PROVE h[i] = state(h[i - 1], bytes[i])
      <4>1. h[i - 1] = g[i - 1]
        BY <2>2
      <4>2. CASE i = j
        <5>1. h[i] = state(g[j - 1], bytes[j])
          BY <2>2, <4>2
        <5> QED BY <4>1, <4>2, <5>1
      <4>3. CASE i # j
        <5>1. i \in 1 .. j - 1 /\ h[i] = g[i]
          BY <2>2, <4>3
        <5> QED BY <3>3, <4>1, <5>1
      <4> QED BY <4>2, <4>3
    <3>6. Made(j)
      <4> HIDE DEF h
      <4> QED BY <3>4, <3>5 DEF Walk
    <3> QED BY <2>2, <3>6
  <2> QED BY <2>3, <2>4
<1> QED BY <1>2

\* Steps is what its definition says: there is such a function.
LEMMA StepsDefined ==
  ASSUME NEW bytes \in Seq(Char), NEW f
  PROVE  /\ Steps(bytes, f)[0] = Begin(f)
         /\ \A i \in 1 .. Len(bytes) :
              Steps(bytes, f)[i] = state(Steps(bytes, f)[i - 1], bytes[i])
<1> DEFINE n == Len(bytes)
<1>0. n \in Nat /\ n \in 0 .. n
  OBVIOUS
<1> HIDE DEF n
<1>1. PICK g : g[0] = Begin(f) /\ \A i \in 1 .. n : g[i] = state(g[i - 1], bytes[i])
  <2>1. Walk(bytes, f, n)
    BY <1>0, WalkThere
  <2> QED BY <2>1, Zenon DEF Walk
<1> DEFINE h == [i \in 0 .. n |-> g[i]]
<1>2. h[0] = Begin(f) /\ \A i \in 1 .. n : h[i - 1] = g[i - 1] /\ h[i] = g[i]
  BY <1>0, <1>1
<1>3. \A i \in 0 .. n : g[i] = IF i = 0 THEN Begin(f) ELSE state(h[i - 1], bytes[i])
  <2> SUFFICES ASSUME NEW i \in 0 .. n
               PROVE  g[i] = IF i = 0 THEN Begin(f) ELSE state(h[i - 1], bytes[i])
    OBVIOUS
  <2>1. CASE i = 0
    BY <1>1, <2>1
  <2>2. CASE i # 0
    <3>1. i \in 1 .. n
      BY <1>0, <2>2
    <3>2. g[i] = state(g[i - 1], bytes[i]) /\ h[i - 1] = g[i - 1]
      BY <1>1, <1>2, <3>1
    <3> QED BY <2>2, <3>2
  <2> QED BY <2>1, <2>2
<1>4. h = [i \in 0 .. n |-> IF i = 0 THEN Begin(f) ELSE state(h[i - 1], bytes[i])]
  <2> DEFINE e(x, i) == IF i = 0 THEN Begin(f) ELSE state(x[i - 1], bytes[i])
  <2>1. \A i \in 0 .. n : g[i] = e(h, i)
    BY <1>3
  <2>2. [i \in 0 .. n |-> g[i]] = [i \in 0 .. n |-> e(h, i)]
    <3> HIDE DEF e, h
    <3> QED BY <2>1
  <2> QED BY <2>2
<1> HIDE DEF h
<1> DEFINE k == CHOOSE x : x = [i \in 0 .. n |-> IF i = 0 THEN Begin(f) ELSE state(x[i - 1], bytes[i])]
<1>5. Steps(bytes, f) = k
  BY DEF Steps, Begin, n
<1>6. k = [i \in 0 .. n |-> IF i = 0 THEN Begin(f) ELSE state(k[i - 1], bytes[i])]
  BY <1>4
<1> HIDE DEF k
<1>7. k[0] = Begin(f) /\ \A i \in 1 .. n : k[i] = state(k[i - 1], bytes[i])
  <2> DEFINE e(x, i) == IF i = 0 THEN Begin(f) ELSE state(x[i - 1], bytes[i])
  <2>1. k = [i \in 0 .. n |-> e(k, i)]
    BY <1>6
  <2> HIDE DEF e
  <2>2. \A i \in 0 .. n : k[i] = e(k, i)
    BY <2>1
  <2>3. 0 \in 0 .. n /\ \A i \in 1 .. n : i \in 0 .. n /\ i # 0
    BY <1>0
  <2> QED BY <2>2, <2>3 DEF e
<1> QED BY <1>5, <1>7 DEF n

-----------------------------------------------------------------------------
(* What a byte does depends on the sequence taken, not on the buffer.      *)

\* A decoder, whatever its fields hold
Fields(k) ==
  k = [state |-> k.state, type |-> k.type, mod |-> k.mod, arg |-> k.arg, argf |-> k.argf,
       delf |-> k.delf, buf |-> k.buf, p |-> k.p, waitdata |-> k.waitdata, v |-> k.v]

\* Two decoders that have taken the same bytes of a sequence
Like(k, r) ==
  /\ Fields(k) /\ Fields(r)
  /\ k.state = r.state /\ k.type = r.type /\ k.mod = r.mod
  /\ k.arg = r.arg /\ k.argf = r.argf /\ k.delf = r.delf
Alike(k, r) == Like(k, r) /\ k.v = r.v

LEMMA SayAlike ==
  ASSUME NEW k, NEW r, Like(k, r), NEW v
  PROVE  Alike(Say(k, v), Say(r, v))
BY DEF Say, Fields, Like, Alike

LEMMA MoreAlike ==
  ASSUME NEW k, NEW r, Like(k, r), NEW st
  PROVE  Alike(More(k, st), More(r, st))
<1> DEFINE v == Plain(KBD_MORE)
<1>1. More(k, st) = [k EXCEPT !.state = st, !.v = v] /\ More(r, st) = [r EXCEPT !.state = st, !.v = v]
  BY DEF More
<1> HIDE DEF v
<1> QED BY <1>1 DEF Fields, Like, Alike

LEMMA WithAlike ==
  ASSUME NEW k, NEW r, Alike(k, r), NEW mods
  PROVE  Alike(With(k, mods), With(r, mods))
<1> DEFINE v == [k.v EXCEPT !.mods = k.v.mods \cup mods]
<1>1. With(k, mods) = [k EXCEPT !.v = v] /\ With(r, mods) = [r EXCEPT !.v = v]
  BY DEF With, Alike
<1> HIDE DEF v
<1> QED BY <1>1 DEF Fields, Like, Alike

LEMMA OrdkeyAlike ==
  ASSUME NEW k, NEW r, Like(k, r), NEW c
  PROVE  Alike(ordkey(k, c), ordkey(r, c))
<1> DEFINE d == k.delf \/ c = 8
           v == CASE c = 8            -> Plain(KBD_BS)
             [] c = 9            -> Plain(KBD_TAB)
             [] c = 10           -> Key(KBD_ENTER, {"shift"})
             [] c = 13           -> Plain(KBD_ENTER)
             [] c = ESC          -> Plain(KBD_ESC)
             [] c = 127          -> Plain(IF k.delf THEN KBD_DEL ELSE KBD_BS)
             [] c \in 32 .. 126 \/ c >= 160 -> Plain(c)
             [] OTHER            -> Plain(KBD_NOKEY)
<1>1. ordkey(k, c) = [k EXCEPT !.delf = d, !.v = v] /\ ordkey(r, c) = [r EXCEPT !.delf = d, !.v = v]
  BY DEF ordkey, Like
<1> HIDE DEF d, v
<1> QED BY <1>1 DEF Fields, Like, Alike

LEMMA ReadyAlike ==
  ASSUME NEW k, NEW r, Like(k, r), NEW key, NEW m
  PROVE  Alike(Ready(k, key, m), Ready(r, key, m))
<1>1. k.mod = r.mod /\ Alike(Say(k, key), Say(r, key))
  BY SayAlike DEF Like
<1> QED BY <1>1, WithAlike DEF Ready

LEMMA SetAlike ==
  ASSUME NEW k, NEW r, Like(k, r), NEW x
  PROVE  /\ Like([k EXCEPT !.type = x], [r EXCEPT !.type = x])
         /\ Like([k EXCEPT !.mod = x], [r EXCEPT !.mod = x])
         /\ Like([k EXCEPT !.arg = x], [r EXCEPT !.arg = x])
         /\ Like([k EXCEPT !.arg = x, !.argf = TRUE], [r EXCEPT !.arg = x, !.argf = TRUE])
         /\ Like([k EXCEPT !.delf = x], [r EXCEPT !.delf = x])
<1>1. Like([k EXCEPT !.type = x], [r EXCEPT !.type = x])
  BY DEF Fields, Like
<1>2. Like([k EXCEPT !.mod = x], [r EXCEPT !.mod = x])
  BY DEF Fields, Like
<1>3. Like([k EXCEPT !.arg = x], [r EXCEPT !.arg = x])
  BY DEF Fields, Like
<1>4. Like([k EXCEPT !.arg = x, !.argf = TRUE], [r EXCEPT !.arg = x, !.argf = TRUE])
  <2> DEFINE y == TRUE
             s == [k EXCEPT !.arg = x]
             t == [r EXCEPT !.arg = x]
  <2>1. /\ [k EXCEPT !.arg = x, !.argf = y] = [s EXCEPT !.argf = y]
        /\ [r EXCEPT !.arg = x, !.argf = y] = [t EXCEPT !.argf = y]
    OBVIOUS
  <2> HIDE DEF s, t, y
  <2>2. Like(s, t)
    BY <1>3 DEF s, t
  <2>3. Like([s EXCEPT !.argf = y], [t EXCEPT !.argf = y])
    BY <2>2 DEF Fields, Like
  <2> QED BY <2>1, <2>3 DEF y
<1>5. Like([k EXCEPT !.delf = x], [r EXCEPT !.delf = x])
  BY DEF Fields, Like
<1> QED BY <1>1, <1>2, <1>3, <1>4, <1>5

LEMMA StartAlike ==
  ASSUME NEW k, NEW r, Like(k, r), NEW c
  PROVE  Alike(st_start(k, c), st_start(r, c))
<1> DEFINE S(q) == [q EXCEPT !.type = 0, !.mod = 0, !.arg = <<0>>, !.argf = FALSE]
<1>1. Like(S(k), S(r))
  <2> DEFINE a == <<0>>
  <2>1. \A q : S(q) = [q EXCEPT !.type = 0, !.mod = 0, !.arg = a, !.argf = FALSE]
    OBVIOUS
  <2> HIDE DEF a, S
  <2> QED BY <2>1 DEF Fields, Like
<1>2. \A q : st_start(q, c) =
        CASE c = ESC          -> More(S(q), "esc")
          [] c \in {143, 155} -> More([S(q) EXCEPT !.type = c - 64], "csiss3")
          [] OTHER ->
             IF ordkey(q, c).v.code # KBD_NOKEY THEN ordkey(q, c)
             ELSE IF c < 128 THEN With(ordkey(q, c + 64), {"ctrl"})
                             ELSE With(ordkey(q, c - 128), {"alt"})
  BY DEF st_start
<1>3. Like([S(k) EXCEPT !.type = c - 64], [S(r) EXCEPT !.type = c - 64])
  <2> HIDE DEF S
  <2> QED BY <1>1, SetAlike
<1> HIDE DEF S
<1>4. /\ Alike(More(S(k), "esc"), More(S(r), "esc"))
      /\ Alike(More([S(k) EXCEPT !.type = c - 64], "csiss3"),
               More([S(r) EXCEPT !.type = c - 64], "csiss3"))
  BY <1>1, <1>3, MoreAlike
<1>5. \A b : Alike(ordkey(k, b), ordkey(r, b))
  BY OrdkeyAlike
<1>6. \A b, m : Alike(With(ordkey(k, b), m), With(ordkey(r, b), m))
  BY <1>5, WithAlike
<1>7. ordkey(k, c).v = ordkey(r, c).v
  BY <1>5 DEF Alike
<1>8. CASE c = ESC
  BY <1>2, <1>4, <1>8 DEF ESC
<1>9. CASE c \in {143, 155}
  BY <1>2, <1>4, <1>9 DEF ESC
<1>10. CASE c # ESC /\ c \notin {143, 155}
  <2>1. \A q : st_start(q, c) = IF ordkey(q, c).v.code # KBD_NOKEY THEN ordkey(q, c)
             ELSE IF c < 128 THEN With(ordkey(q, c + 64), {"ctrl"})
                             ELSE With(ordkey(q, c - 128), {"alt"})
    BY <1>2, <1>10
  <2> QED BY <1>5, <1>6, <1>7, <2>1
<1> QED BY <1>8, <1>9, <1>10

LEMMA EscAlike ==
  ASSUME NEW k, NEW r, Like(k, r), NEW c
  PROVE  Alike(st_esc(k, c), st_esc(r, c))
<1>1. k.mod = r.mod
  BY DEF Like
<1>2. Alike(Incomplete(k), Incomplete(r))
  BY SayAlike DEF Incomplete
<1>3. Alike(More([k EXCEPT !.type = c], "csiss3"), More([r EXCEPT !.type = c], "csiss3"))
  BY SetAlike, MoreAlike
<1>4. Alike(More([k EXCEPT !.mod = c], "esc"), More([r EXCEPT !.mod = c], "esc"))
  BY SetAlike, MoreAlike
<1>5. Alike(With(ordkey(k, c), {"alt"}), With(ordkey(r, c), {"alt"}))
  BY OrdkeyAlike, WithAlike
<1>0. KBD_MORE # CSI /\ KBD_MORE # SS3 /\ KBD_MORE # ESC /\ ESC # CSI /\ ESC # SS3
  BY DEF KBD_MORE, CSI, SS3, ESC
<1>6. \A q : st_esc(q, c) =
        IF c = KBD_MORE THEN Incomplete(q)
        ELSE IF c \in {CSI, SS3} THEN More([q EXCEPT !.type = c], "csiss3")
        ELSE IF c = ESC THEN IF q.mod # 0 THEN Incomplete(q)
                             ELSE More([q EXCEPT !.mod = c], "esc")
        ELSE With(ordkey(q, c), {"alt"})
  BY <1>0 DEF st_esc
<1> QED BY <1>1, <1>2, <1>3, <1>4, <1>5, <1>6

LEMMA TildeAlike ==
  ASSUME NEW k, NEW r, Like(k, r), NEW c
  PROVE  Alike(Tilde(k, c), Tilde(r, c))
<1> DEFINE v == csi_tilde(Arg(k, 0))
           mods == CASE c = 126 -> {}
                     [] c = 36  -> {"shift"}
                     [] c = 94  -> {"ctrl"}
                     [] c = 64  -> {"shift", "ctrl"}
           key == Key(v, mods)
           t(q) == [q EXCEPT !.delf = FALSE]
           V(q) == csi_tilde(Arg(q, 0))
<1>1. \A i : Arg(r, i) = Arg(k, i)
  BY DEF Arg, Like
<1>6. \A q : Tilde(q, c) = IF V(q) = KBD_NOKEY THEN Say(q, Plain(V(q)))
                           ELSE Ready(t(q), Key(V(q), mods), Arg(q, 1))
  BY DEF Tilde
<1>7. V(k) = v /\ V(r) = v
  BY <1>1
<1> HIDE DEF V, mods, v, t
<1>2. /\ Tilde(k, c) = IF v = KBD_NOKEY THEN Say(k, Plain(v)) ELSE Ready(t(k), key, Arg(k, 1))
      /\ Tilde(r, c) = IF v = KBD_NOKEY THEN Say(r, Plain(v)) ELSE Ready(t(r), key, Arg(k, 1))
  BY <1>1, <1>6, <1>7
<1>3. Like(t(k), t(r))
  BY SetAlike DEF t
<1> HIDE DEF key
<1>4. Alike(Ready(t(k), key, Arg(k, 1)), Ready(t(r), key, Arg(k, 1)))
  BY <1>3, ReadyAlike
<1>5. Alike(Say(k, Plain(v)), Say(r, Plain(v)))
  BY SayAlike
<1> QED BY <1>2, <1>4, <1>5

LEMMA Csiss3Alike ==
  ASSUME NEW k, NEW r, Like(k, r), NEW c
  PROVE  Alike(csiss3(k, c), csiss3(r, c))
<1> DEFINE a == Arg(k, 0)
           f1 == IF c - 65 < 12 THEN KBD_F(c - 64) ELSE KBD_NOKEY
           f2 == IF a < 33 THEN csi_tilde(a) ELSE csi_z(a)
           Others(q) ==
             IF k.argf /\ c \in {126, 36, 94, 64} THEN Tilde(q, c)
             ELSE IF c = 122 THEN Ready(q, Plain(f2), Arg(k, 1))
             ELSE IF c = 82 /\ Len(k.arg) = 2 THEN Answer(q, KBD_CPOS, Arg(k, 0), Arg(k, 1))
             ELSE IF c = 116 THEN Answer(q, KBD_TERM_T + (a % 256), Arg(k, 1), Arg(k, 2))
             ELSE Ready(q, csitbl(c), a)
           Is(q) ==
             IF k.type = SS3 THEN Ready(q, ss3tbl(c), a)
             ELSE IF k.type = CSI /\ k.mod = CSI THEN Ready(q, Plain(f1), a)
             ELSE IF k.type = CSI /\ k.mod = 63
                  THEN IF c = 99 THEN Answer(q, KBD_DECID, Arg(k, 0), Arg(k, 1))
                                 ELSE Say(q, Plain(KBD_NOKEY))
             ELSE Others(q)
<1>0. /\ \A i : Arg(r, i) = Arg(k, i)
      /\ r.arg = k.arg /\ r.argf = k.argf /\ r.type = k.type /\ r.mod = k.mod
  BY DEF Arg, Like
<1>1. /\ csiss3(k, c) = Is(k)
      /\ csiss3(r, c) = Is(r)
  BY <1>0 DEF csiss3, SS3, CSI
<1>2. \A key, m : Alike(Ready(k, key, m), Ready(r, key, m))
  BY ReadyAlike
<1>3. \A code, m, h : Alike(Answer(k, code, m, h), Answer(r, code, m, h))
  BY SayAlike DEF Answer
<1>4. Alike(Tilde(k, c), Tilde(r, c)) /\ Alike(Say(k, Plain(KBD_NOKEY)), Say(r, Plain(KBD_NOKEY)))
  BY TildeAlike, SayAlike
<1> HIDE DEF a, f1, f2
<1>5. Alike(Others(k), Others(r))
  BY <1>2, <1>3, <1>4
<1> HIDE DEF Others
<1>6. Alike(Is(k), Is(r))
  BY <1>2, <1>3, <1>4, <1>5
<1> HIDE DEF Is
<1> QED BY <1>1, <1>6

LEMMA StCsiss3Alike ==
  ASSUME NEW k, NEW r, Like(k, r), NEW c \in Int
  PROVE  Alike(st_csiss3(k, c), st_csiss3(r, c))
<1> DEFINE Is(q) ==
             IF c < 32 THEN Incomplete(q)
             ELSE IF c \in {CSI, 63} /\ k.type = CSI
                  THEN IF k.mod # 0 THEN Incomplete(q)
                       ELSE More([q EXCEPT !.mod = c], "csiss3")
             ELSE IF c \in Digit
                  THEN More([q EXCEPT !.arg = <<c - 48>>, !.argf = TRUE], "arg")
             ELSE IF c = 59
                  THEN More([q EXCEPT !.arg = Append(k.arg, 0), !.argf = TRUE], "arg")
             ELSE IF c = 77 /\ k.type = CSI THEN More([q EXCEPT !.arg = <<>>], "mouse")
             ELSE csiss3(q, c)
<1>0. r.arg = k.arg /\ r.type = k.type /\ r.mod = k.mod
  BY DEF Like
<1>1. st_csiss3(k, c) = Is(k) /\ st_csiss3(r, c) = Is(r)
  BY <1>0 DEF st_csiss3, CSI, Digit
<1>2. /\ Alike(Incomplete(k), Incomplete(r))
      /\ Alike(csiss3(k, c), csiss3(r, c))
  BY SayAlike, Csiss3Alike DEF Incomplete
<1>3. Alike(More([k EXCEPT !.mod = c], "csiss3"), More([r EXCEPT !.mod = c], "csiss3"))
  BY SetAlike, MoreAlike
<1>4. \A x : Alike(More([k EXCEPT !.arg = x, !.argf = TRUE], "arg"),
                   More([r EXCEPT !.arg = x, !.argf = TRUE], "arg"))
  BY SetAlike, MoreAlike
<1>5. \A x : Alike(More([k EXCEPT !.arg = x], "mouse"), More([r EXCEPT !.arg = x], "mouse"))
  BY SetAlike, MoreAlike
<1>6. Alike(Is(k), Is(r))
  BY <1>2, <1>3, <1>4, <1>5
<1> HIDE DEF Is
<1> QED BY <1>1, <1>6

LEMMA ArgAlike ==
  ASSUME NEW k, NEW r, Like(k, r), NEW c \in Int
  PROVE  Alike(st_arg(k, c), st_arg(r, c))
<1> DEFINE n == [k.arg EXCEPT ![Len(k.arg)] = 10 * k.arg[Len(k.arg)] + c - 48]
           Is(q) ==
             IF c = KBD_MORE THEN Incomplete(q)
             ELSE IF c \in Digit THEN More([q EXCEPT !.arg = n], "arg")
             ELSE IF c = 59
                  THEN IF Len(k.arg) = 16 THEN Say(q, Plain(KBD_NOKEY))
                       ELSE More([q EXCEPT !.arg = Append(k.arg, 0)], "arg")
             ELSE csiss3(q, c)
<1>0. r.arg = k.arg
  BY DEF Like
<1>1. st_arg(k, c) = Is(k) /\ st_arg(r, c) = Is(r)
  BY <1>0 DEF st_arg, KBD_MORE, Digit
<1>2. /\ Alike(Incomplete(k), Incomplete(r))
      /\ Alike(csiss3(k, c), csiss3(r, c))
      /\ Alike(Say(k, Plain(KBD_NOKEY)), Say(r, Plain(KBD_NOKEY)))
  BY SayAlike, Csiss3Alike DEF Incomplete
<1>3. \A x : Alike(More([k EXCEPT !.arg = x], "arg"), More([r EXCEPT !.arg = x], "arg"))
  BY SetAlike, MoreAlike
<1> HIDE DEF n
<1>4. Alike(Is(k), Is(r))
  BY <1>2, <1>3
<1> HIDE DEF Is
<1> QED BY <1>1, <1>4

LEMMA MouseAlike ==
  ASSUME NEW k, NEW r, Like(k, r), NEW c
  PROVE  Alike(st_mouse(k, c), st_mouse(r, c))
<1> DEFINE arg == Append(k.arg, c - 32)
           key == Key(MSE_RELEASE, ModBits(arg[1] \div 4))
           t(q) == [q EXCEPT !.arg = arg]
           Is(q) == IF c = KBD_MORE THEN Incomplete(q)
                    ELSE IF Len(arg) < 3 THEN More(t(q), "mouse") ELSE Say(t(q), key)
<1>0. r.arg = k.arg
  BY DEF Like
<1>1. t(k).arg = arg /\ t(r).arg = arg
  <2> HIDE DEF arg
  <2> QED BY DEF Like, Fields
<1>2. st_mouse(k, c) = Is(k) /\ st_mouse(r, c) = Is(r)
  BY <1>0, <1>1 DEF st_mouse
<1>3. Like(t(k), t(r))
  BY SetAlike
<1> HIDE DEF arg, key, t
<1>4. /\ Alike(Incomplete(k), Incomplete(r))
      /\ Alike(More(t(k), "mouse"), More(t(r), "mouse"))
      /\ Alike(Say(t(k), key), Say(t(r), key))
  BY <1>3, SayAlike, MoreAlike DEF Incomplete
<1>5. Alike(Is(k), Is(r))
  BY <1>4
<1> HIDE DEF Is
<1> QED BY <1>2, <1>5

\* What the decoder makes of a byte does not depend on its buffer.
LEMMA StateAlike ==
  ASSUME NEW k, NEW r, Like(k, r), NEW c \in Int,
         k.state \in {"start", "esc", "csiss3", "arg", "mouse"}
  PROVE  Alike(state(k, c), state(r, c))
<1>1. r.state = k.state
  BY DEF Like
<1> QED BY <1>1, StartAlike, EscAlike, StCsiss3Alike, ArgAlike, MouseAlike DEF state

-----------------------------------------------------------------------------
(* The stream of bytes, divided into those of the keys that are not        *)
(* handled yet.                                                            *)

LEMMA Regrouped ==
  ASSUME NEW a \in Seq(Char), NEW b \in Seq(Char), NEW c \in Seq(Char)
  PROVE  (a \o b) \o c = a \o (b \o c)
BY ConcatAssociative

LEMMA SplitAnywhere ==
  ASSUME NEW b \in Seq(Char), NEW n \in 0 .. Len(b)
  PROVE  SubSeq(b, 1, n) \o SubSeq(b, n + 1, Len(b)) = b
<1>1. Len(b) \in Nat
  OBVIOUS
<1>2. 1 \in 1 .. Len(b) + 1 /\ n \in 1 - 1 .. Len(b) /\ Len(b) \in n .. Len(b)
  BY <1>1
<1>3. SubSeq(b, 1, n) \o SubSeq(b, n + 1, Len(b)) = SubSeq(b, 1, Len(b))
  BY <1>2, ConcatAdjacentSubSeq
<1> QED BY <1>3, SubSeqFull

LEMMA MovedOn ==
  ASSUME NEW a \in Seq(Char), NEW b \in Seq(Char), NEW n \in 0 .. Len(b)
  PROVE  (a \o SubSeq(b, 1, n)) \o SubSeq(b, n + 1, Len(b)) = a \o b
<1> DEFINE x == SubSeq(b, 1, n)
           y == SubSeq(b, n + 1, Len(b))
<1>1. x \in Seq(Char) /\ y \in Seq(Char)
  BY Parts
<1>2. x \o y = b
  BY SplitAnywhere
<1> HIDE DEF x, y
<1>3. (a \o x) \o y = a \o (x \o y)
  BY <1>1, Regrouped
<1> QED BY <1>2, <1>3 DEF x, y

\* The place of the j-th of l bytes in front of b.
LEMMA Place ==
  ASSUME NEW a \in Int, NEW b \in Int, NEW l \in Nat, NEW lo \in Int, NEW hi \in Int,
         lo <= a, b = a + l, b <= hi, NEW j \in 1 .. l
  PROVE  a + j \in lo + 1 .. hi /\ a - lo + j \in 1 .. hi - lo /\ lo + (a - lo + j) = a + j
OBVIOUS

\* The first bytes are taken.
LEMMA Dropped ==
  ASSUME NEW b \in Seq(Char), NEW t \in Seq(Char), NEW m \in 0 .. Len(b)
  PROVE  LET S == b \o t
             R == SubSeq(b, m + 1, Len(b)) \o t
         IN  /\ S \in Seq(Char) /\ Len(S) \in Nat /\ Len(b) <= Len(S)
             /\ \A i \in 1 .. Len(b) : S[i] = b[i]
             /\ R \in Seq(Char) /\ Len(R) = Len(S) - m
             /\ \A i \in 1 .. Len(R) : R[i] = S[m + i]
<1> DEFINE S == b \o t
           r == SubSeq(b, m + 1, Len(b))
           R == r \o t
<1>1. Len(b) \in Nat /\ Len(t) \in Nat /\ m \in Nat
  OBVIOUS
<1>2. /\ S \in Seq(Char) /\ Len(S) = Len(b) + Len(t)
      /\ \A i \in 1 .. Len(b) + Len(t) : S[i] = IF i <= Len(b) THEN b[i] ELSE t[i - Len(b)]
  BY ConcatProperties
<1>3. r \in Seq(Char) /\ Len(r) = Len(b) - m /\ \A i \in 1 .. Len(r) : r[i] = b[m + i]
  <2>1. \A i \in m + 1 .. Len(b) : b[i] \in Char
    BY <1>1
  <2>2. /\ r \in Seq(Char) /\ Len(r) = IF m + 1 <= Len(b) THEN Len(b) - (m + 1) + 1 ELSE 0
        /\ \A i \in 1 .. Len(b) - (m + 1) + 1 : r[i] = b[m + 1 + i - 1]
    BY <1>1, <2>1, SubSeqProperties
  <2> HIDE DEF r
  <2>3. Len(r) = Len(b) - m
    BY <1>1, <2>2
  <2> QED BY <1>1, <2>2, <2>3
<1> HIDE DEF r, S
<1>4. /\ R \in Seq(Char) /\ Len(R) = Len(r) + Len(t)
      /\ \A i \in 1 .. Len(r) + Len(t) : R[i] = IF i <= Len(r) THEN r[i] ELSE t[i - Len(r)]
  BY <1>3, ConcatProperties
<1> HIDE DEF R
<1>5. ASSUME NEW i \in 1 .. Len(R) PROVE R[i] = S[m + i]
  <2>1. CASE i <= Len(r)
    <3>1. m + i \in 1 .. Len(b)
      BY <1>1, <1>3, <1>4, <2>1
    <3> QED BY <1>1, <1>2, <1>3, <1>4, <2>1, <3>1
  <2>2. CASE ~(i <= Len(r))
    <3>1. m + i \in 1 .. Len(b) + Len(t) /\ ~(m + i <= Len(b)) /\ i - Len(r) = m + i - Len(b)
      BY <1>1, <1>3, <1>4, <2>2
    <3> QED BY <1>1, <1>2, <1>3, <1>4, <2>2, <3>1
  <2> QED BY <2>1, <2>2
<1> QED BY <1>1, <1>2, <1>3, <1>4, <1>5 DEF S, R, r

\* The stream S is divided into the keys of t behind the first d: from cut[i - 1]
\* on there are the bytes of sp[i], and in front of them bytes that are no key.
Divided(S, t, d, sp, cut) ==
  /\ \A i \in d + 1 .. Len(t) : sp[i] \in Spellings
  /\ \A i \in d .. Len(t) : cut[i] \in 0 .. Len(S)
  /\ \A i, j \in d .. Len(t) : i <= j => cut[i] <= cut[j]
  /\ cut[Len(t)] = Len(S)
  /\ \A i \in d + 1 .. Len(t) :
       /\ sp[i].key = t[i] /\ cut[i] = cut[i - 1] + Len(sp[i].bytes)
       /\ \A j \in 1 .. Len(sp[i].bytes) : S[cut[i - 1] + j] = sp[i].bytes[j]
  /\ \A j \in 1 .. cut[d] : Ignored(S[j])

LEMMA BytesOf ==
  ASSUME NEW s \in Spellings
  PROVE  s.bytes \in Seq(Char) /\ Len(s.bytes) \in Nat /\ Len(s.bytes) > 0
         /\ Len(s.bytes) <= BufSize /\ s.key.code \in Nat /\ s.key.code > 0
<1>1. s.bytes \in Seq(Char) /\ s.bytes # <<>> /\ s.key.code \in Nat \ {KBD_NOKEY}
  BY SpellingsAssumption
<1> QED BY <1>1, BufSizeAssumption DEF KBD_NOKEY

\* The stream S is divided into the keys of u as sp and cut divide its beginning
\* into those of t.
Extended(S, u, t, d, sp, cut) ==
  \E sq, cu : /\ Divided(S, u, d, sq, cu)
              /\ cu[d] = cut[d]
              /\ d < Len(t) => sq[d + 1] = sp[d + 1]

\* Another key is pressed.
LEMMA KeyAdded ==
  ASSUME NEW S \in Seq(Char), NEW t, Len(t) \in Nat, NEW d \in 0 .. Len(t), NEW sp, NEW cut,
         Divided(S, t, d, sp, cut), NEW s \in Spellings,
         NEW u, Len(u) = Len(t) + 1, \A i \in 1 .. Len(t) : u[i] = t[i], u[Len(u)] = s.key
  PROVE  Extended(S \o s.bytes, u, t, d, sp, cut)
<1> DEFINE n == Len(t)
           R == S \o s.bytes
           l == Len(s.bytes)
           sq == [i \in d + 1 .. n + 1 |-> IF i = n + 1 THEN s ELSE sp[i]]
           cu == [i \in d .. n + 1 |-> IF i = n + 1 THEN Len(S) + l ELSE cut[i]]
<1>0. n \in Nat /\ d \in Nat /\ d <= n /\ Len(u) = n + 1
  OBVIOUS
<1>1. s.bytes \in Seq(Char) /\ l \in Nat /\ l > 0 /\ Len(S) \in Nat
  BY BytesOf
<1>2. /\ R \in Seq(Char) /\ Len(R) = Len(S) + l
      /\ \A i \in 1 .. Len(S) + l : R[i] = IF i <= Len(S) THEN S[i] ELSE s.bytes[i - Len(S)]
  BY <1>1, ConcatProperties
<1>3. /\ \A i \in d + 1 .. n : sq[i] = sp[i]
      /\ sq[n + 1] = s
      /\ \A i \in d .. n : cu[i] = cut[i]
      /\ cu[n + 1] = Len(S) + l
  BY <1>0
<1> HIDE DEF sq, cu, R, l
<1>4. /\ \A i \in d + 1 .. n : sp[i] \in Spellings
      /\ \A i \in d .. n : cut[i] \in 0 .. Len(S)
      /\ \A i, j \in d .. n : i <= j => cut[i] <= cut[j]
      /\ cut[n] = Len(S)
      /\ \A i \in d + 1 .. n : sp[i].key = t[i] /\ cut[i] = cut[i - 1] + Len(sp[i].bytes)
      /\ \A i \in d + 1 .. n : \A j \in 1 .. Len(sp[i].bytes) : S[cut[i - 1] + j] = sp[i].bytes[j]
      /\ \A j \in 1 .. cut[d] : Ignored(S[j])
  BY DEF Divided
<1>5. \A i \in d + 1 .. n + 1 : sq[i] \in Spellings
  BY <1>0, <1>3, <1>4
<1>6. \A i \in d .. n + 1 : cu[i] \in 0 .. Len(R)
  <2> SUFFICES ASSUME NEW i \in d .. n + 1 PROVE cu[i] \in 0 .. Len(R)
    OBVIOUS
  <2>1. CASE i = n + 1
    BY <1>1, <1>2, <1>3, <2>1
  <2>2. CASE i # n + 1
    <3>1. i \in d .. n
      BY <1>0, <2>2
    <3>2. cu[i] \in 0 .. Len(S)
      BY <1>3, <1>4, <3>1
    <3> QED BY <1>1, <1>2, <3>2
  <2> QED BY <2>1, <2>2
<1>7. \A i, j \in d .. n + 1 : i <= j => cu[i] <= cu[j]
  <2> SUFFICES ASSUME NEW i \in d .. n + 1, NEW j \in d .. n + 1, i <= j PROVE cu[i] <= cu[j]
    OBVIOUS
  <2>1. CASE j = n + 1
    BY <1>1, <1>2, <1>3, <1>6, <2>1
  <2>2. CASE j # n + 1
    <3>1. i \in d .. n /\ j \in d .. n
      BY <1>0, <2>2
    <3> QED BY <1>3, <1>4, <3>1
  <2> QED BY <2>1, <2>2
<1>8. cu[n + 1] = Len(R)
  BY <1>2, <1>3
<1>9. ASSUME NEW i \in d + 1 .. n + 1
      PROVE  /\ sq[i].key = u[i] /\ cu[i] = cu[i - 1] + Len(sq[i].bytes)
             /\ \A j \in 1 .. Len(sq[i].bytes) : R[cu[i - 1] + j] = sq[i].bytes[j]
  <2>1. CASE i = n + 1
    <3>1. n \in d .. n
      BY <1>0
    <3>2. cu[i - 1] = Len(S) /\ sq[i] = s /\ cu[i] = Len(S) + l
      BY <1>0, <1>3, <1>4, <2>1, <3>1
    <3>3. \A j \in 1 .. l : R[Len(S) + j] = s.bytes[j]
      <4> SUFFICES ASSUME NEW j \in 1 .. l PROVE R[Len(S) + j] = s.bytes[j]
        OBVIOUS
      <4>1. Len(S) + j \in 1 .. Len(S) + l /\ ~(Len(S) + j <= Len(S)) /\ Len(S) + j - Len(S) = j
        BY <1>1
      <4> QED BY <1>2, <4>1
    <3> QED BY <1>0, <2>1, <3>2, <3>3 DEF l
  <2>2. CASE i # n + 1
    <3>1. i \in d + 1 .. n /\ i - 1 \in d .. n /\ i \in d .. n /\ i \in 1 .. n
      BY <1>0, <2>2
    <3>2. sq[i] = sp[i] /\ cu[i] = cut[i] /\ cu[i - 1] = cut[i - 1] /\ u[i] = t[i]
      BY <1>3, <3>1
    <3>3. sp[i].key = t[i] /\ cut[i] = cut[i - 1] + Len(sp[i].bytes)
      BY <1>4, <3>1
    <3>4. cut[i] \in 0 .. Len(S) /\ cut[i - 1] \in 0 .. Len(S) /\ Len(sp[i].bytes) \in Nat
      BY <1>4, <3>1, BytesOf
    <3>5. ASSUME NEW j \in 1 .. Len(sp[i].bytes) PROVE R[cut[i - 1] + j] = sp[i].bytes[j]
      <4> DEFINE a == cut[i - 1]
                 b == cut[i]
                 q == Len(sp[i].bytes)
                 N == Len(S)
      <4>0. a \in Int /\ b \in Int /\ q \in Nat /\ N \in Int /\ 0 <= a /\ b <= N /\ b = a + q
            /\ j \in 1 .. q
        BY <1>1, <3>3, <3>4
      <4>1. cut[i - 1] + j \in 1 .. Len(S)
        <5> HIDE DEF a, b, q, N
        <5>1. a + j \in 0 + 1 .. N
          BY <4>0, Place
        <5> QED BY <5>1 DEF a, N
      <4>2. R[cut[i - 1] + j] = S[cut[i - 1] + j]
        BY <1>1, <1>2, <4>1
      <4> QED BY <1>4, <3>1, <4>2
    <3> QED BY <3>2, <3>3, <3>5
  <2> QED BY <2>1, <2>2
<1>10. \A j \in 1 .. cu[d] : Ignored(R[j])
  <2> SUFFICES ASSUME NEW j \in 1 .. cu[d] PROVE Ignored(R[j])
    OBVIOUS
  <2>1. cu[d] = cut[d] /\ cut[d] \in 0 .. Len(S)
    BY <1>0, <1>3, <1>4
  <2>2. j \in 1 .. Len(S)
    BY <1>1, <2>1
  <2> QED BY <1>1, <1>2, <1>4, <2>1, <2>2
<1>11. Divided(R, u, d, sq, cu)
  BY <1>0, <1>5, <1>6, <1>7, <1>8, <1>9, <1>10 DEF Divided
<1>12. cu[d] = cut[d] /\ (d < n => sq[d + 1] = sp[d + 1])
  <2>1. d \in d .. n /\ (d < n => d + 1 \in d + 1 .. n)
    BY <1>0
  <2> QED BY <1>3, <2>1
<1> QED BY <1>11, <1>12 DEF R, Extended

\* The first m bytes are taken, and with them the key that they make, if any.
LEMMA BytesTaken ==
  ASSUME NEW S \in Seq(Char), NEW R \in Seq(Char), NEW m \in 0 .. Len(S),
         Len(R) = Len(S) - m, \A i \in 1 .. Len(R) : R[i] = S[m + i],
         NEW t, Len(t) \in Nat, NEW d \in 0 .. Len(t), NEW sp, NEW cut,
         Divided(S, t, d, sp, cut),
         NEW e \in d .. Len(t), m <= cut[e], \A j \in m + 1 .. cut[e] : Ignored(S[j])
  PROVE  \E cu : Divided(R, t, e, sp, cu)
<1> DEFINE n == Len(t)
           cu == [i \in e .. n |-> cut[i] - m]
<1>0. n \in Nat /\ d \in Nat /\ d <= e /\ e <= n /\ e \in Nat /\ m \in Nat /\ Len(S) \in Nat
      /\ Len(R) \in Nat
  OBVIOUS
<1>1. \A i \in e .. n : cu[i] = cut[i] - m
  OBVIOUS
<1> HIDE DEF cu
<1>4. /\ \A i \in d + 1 .. n : sp[i] \in Spellings
      /\ \A i \in d .. n : cut[i] \in 0 .. Len(S)
      /\ \A i, j \in d .. n : i <= j => cut[i] <= cut[j]
      /\ cut[n] = Len(S)
      /\ \A i \in d + 1 .. n : sp[i].key = t[i] /\ cut[i] = cut[i - 1] + Len(sp[i].bytes)
      /\ \A i \in d + 1 .. n : \A j \in 1 .. Len(sp[i].bytes) : S[cut[i - 1] + j] = sp[i].bytes[j]
  BY DEF Divided
<1>2. \A i \in e .. n : i \in d .. n /\ cut[i] \in m .. Len(S)
  <2> SUFFICES ASSUME NEW i \in e .. n PROVE i \in d .. n /\ cut[i] \in m .. Len(S)
    OBVIOUS
  <2>1. i \in d .. n /\ e \in d .. n /\ e <= i
    BY <1>0
  <2>2. cut[e] <= cut[i] /\ cut[i] \in 0 .. Len(S) /\ cut[e] \in 0 .. Len(S)
    BY <1>4, <2>1
  <2> QED BY <1>0, <2>1, <2>2
<1>5. \A i \in e + 1 .. n : sp[i] \in Spellings
  BY <1>0, <1>4
<1>6. \A i \in e .. n : cu[i] \in 0 .. Len(R)
  <2> SUFFICES ASSUME NEW i \in e .. n PROVE cu[i] \in 0 .. Len(R)
    OBVIOUS
  <2>1. cut[i] \in m .. Len(S) /\ cu[i] = cut[i] - m
    BY <1>1, <1>2
  <2> QED BY <1>0, <2>1
<1>7. \A i, j \in e .. n : i <= j => cu[i] <= cu[j]
  <2> SUFFICES ASSUME NEW i \in e .. n, NEW j \in e .. n, i <= j PROVE cu[i] <= cu[j]
    OBVIOUS
  <2>1. cut[i] <= cut[j] /\ cut[i] \in m .. Len(S) /\ cut[j] \in m .. Len(S)
    BY <1>2, <1>4
  <2>2. cu[i] = cut[i] - m /\ cu[j] = cut[j] - m
    BY <1>1
  <2> QED BY <1>0, <2>1, <2>2
<1>8. cu[n] = Len(R)
  BY <1>0, <1>1, <1>4
<1>9. ASSUME NEW i \in e + 1 .. n
      PROVE  /\ sp[i].key = t[i] /\ cu[i] = cu[i - 1] + Len(sp[i].bytes)
             /\ \A j \in 1 .. Len(sp[i].bytes) : R[cu[i - 1] + j] = sp[i].bytes[j]
  <2>1. i \in d + 1 .. n /\ i - 1 \in e .. n /\ i \in e .. n
    BY <1>0
  <2>2. /\ cu[i] = cut[i] - m /\ cu[i - 1] = cut[i - 1] - m
        /\ cut[i] \in m .. Len(S) /\ cut[i - 1] \in m .. Len(S)
    BY <1>1, <1>2, <2>1
  <2>3. sp[i].key = t[i] /\ cut[i] = cut[i - 1] + Len(sp[i].bytes) /\ Len(sp[i].bytes) \in Nat
    BY <1>4, <2>1, BytesOf
  <2>4. ASSUME NEW j \in 1 .. Len(sp[i].bytes) PROVE R[cu[i - 1] + j] = sp[i].bytes[j]
    <3> DEFINE a == cut[i - 1]
               b == cut[i]
               q == Len(sp[i].bytes)
               N == Len(S)
    <3>0. /\ a \in Int /\ b \in Int /\ q \in Nat /\ N \in Int /\ m \in Int
          /\ m <= a /\ b <= N /\ b = a + q /\ j \in 1 .. q
      BY <1>0, <2>2, <2>3
    <3>1. cu[i - 1] + j \in 1 .. Len(R) /\ m + (cu[i - 1] + j) = cut[i - 1] + j
      <4> HIDE DEF a, b, q, N
      <4>1. a - m + j \in 1 .. N - m /\ m + (a - m + j) = a + j
        BY <3>0, Place
      <4>2. cu[i - 1] = a - m /\ Len(R) = N - m /\ cut[i - 1] = a
        BY <2>2 DEF a, N
      <4> QED BY <4>1, <4>2
    <3>2. R[cu[i - 1] + j] = S[m + (cu[i - 1] + j)]
      BY <3>1
    <3> QED BY <1>4, <2>1, <3>1, <3>2
  <2>5. cu[i] = cu[i - 1] + Len(sp[i].bytes)
    <3> DEFINE q == Len(sp[i].bytes)
    <3>1. q \in Int /\ cut[i] \in Int /\ cut[i - 1] \in Int /\ m \in Int
      BY <1>0, <2>2, <2>3
    <3>2. cut[i] = cut[i - 1] + q
      BY <2>3
    <3> HIDE DEF q
    <3>3. cu[i] = cu[i - 1] + q
      BY <2>2, <3>1, <3>2
    <3> QED BY <3>3 DEF q
  <2> QED BY <2>3, <2>4, <2>5
<1>10. \A j \in 1 .. cu[e] : Ignored(R[j])
  <2> SUFFICES ASSUME NEW j \in 1 .. cu[e] PROVE Ignored(R[j])
    OBVIOUS
  <2>1. cu[e] = cut[e] - m /\ cut[e] \in m .. Len(S)
    BY <1>0, <1>1, <1>2
  <2>2. j \in 1 .. Len(R) /\ m + j \in m + 1 .. cut[e]
    BY <1>0, <2>1
  <2> QED BY <2>2
<1> QED BY <1>5, <1>6, <1>7, <1>8, <1>9, <1>10 DEF Divided

-----------------------------------------------------------------------------
(* The decoder in the stream: before the bytes of a key, or among them.    *)

\* The decoder k is between two keys, ...
Between(k, F) == k.p = 0 /\ k.delf \in F /\ Like(k, Begin(k.delf))

\* ... or it has taken some bytes of the key s.
Within(k, s, F) ==
  \/ (IsEsc(s) /\ k.p = 1 /\ k.state = "esc" /\ k.delf \in F)
  \/ \E m \in 1 .. Len(s.bytes), f \in F :
       MadeBy(s, F, m) /\ k.p \in 1 .. m - 1 /\ Like(k, Steps(s.bytes, f)[k.p])

\* The decoder k is taking from the stream S the keys of t behind the first d.
Understood(k, F, S, t, d) ==
  \E sp, cut :
    /\ Divided(S, t, d, sp, cut)
    /\ \/ Between(k, F)
       \/ d < Len(t) /\ cut[d] = 0 /\ Within(k, sp[d + 1], F)

\* The bytes of the buffer of k and those that will follow them
Ahead(k, tl) == k.buf \o tl

\* Nothing is typed behind Esc.
EscLast(t, d) ==
  \A i \in d + 1 .. Len(t) : t[i] = Plain(KBD_ESC) => i = Len(t) /\ i = d + 1

\* The decoder u is in order when it is given c.
Fed(u, c) ==
  /\ u \in Decoder /\ ArgsFit(u) /\ u.p \in 1 .. Len(u.buf)
  /\ u.waitdata => u.state # "start"
  /\ c \in Char \cup {KBD_MORE} /\ (c = KBD_MORE => u.state # "start")

LEMMA FedDecoded ==
  ASSUME NEW u, NEW c, Fed(u, c)
  PROVE  /\ Decoded(u, state(u, c)) /\ u \in Decoder /\ state(u, c) \in Decoder
         /\ state(u, c).buf = u.buf /\ state(u, c).p = u.p
         /\ u.buf \in Seq(Char) /\ Len(u.buf) \in Nat /\ u.p \in Nat /\ u.p > 0 /\ u.p <= Len(u.buf)
<1>1. Decoded(u, state(u, c))
  BY StateDecoded DEF Fed
<1>2. u \in Decoder /\ u.p \in 1 .. Len(u.buf)
  BY DEF Fed
<1>3. u.buf \in Seq(Char)
  BY <1>2 DEF Decoder
<1>4. Len(u.buf) \in Nat
  BY <1>3
<1> QED BY <1>1, <1>2, <1>3, <1>4 DEF Decoded, SameBuffer

\* A key, or no key, is made: its bytes are removed from the buffer.
LEMMA TakenFields ==
  ASSUME NEW k \in Decoder
  PROVE  /\ Taken(k).p = 0 /\ Taken(k).waitdata = FALSE /\ Taken(k).v = k.v
         /\ Taken(k).delf = k.delf
         /\ Taken(k).buf = SubSeq(k.buf, k.p + 1, Len(k.buf))
         /\ Like(Taken(k), Begin(k.delf))
<1> DEFINE rest == SubSeq(k.buf, k.p + 1, Len(k.buf))
           arg == <<0>>
           none == Plain(KBD_NOKEY)
           v == k.v
           f == k.delf
<1>1. KeyboardInit = [state |-> "start", type |-> 0, mod |-> 0, arg |-> arg,
                      argf |-> FALSE, delf |-> FALSE, buf |-> << >>, p |-> 0,
                      waitdata |-> FALSE, v |-> none]
  BY DEF KeyboardInit
<1>2. Taken(k) = [KeyboardInit EXCEPT !.delf = f, !.v = v, !.buf = rest]
  BY DEF Taken
<1>3. Begin(f) = [KeyboardInit EXCEPT !.delf = f]
  BY DEF Begin
<1> HIDE DEF rest, arg, none, v, f
<1>4. Taken(k) = [state |-> "start", type |-> 0, mod |-> 0, arg |-> arg,
                  argf |-> FALSE, delf |-> f, buf |-> rest, p |-> 0,
                  waitdata |-> FALSE, v |-> v]
  BY <1>1, <1>2
<1>5. Begin(f) = [state |-> "start", type |-> 0, mod |-> 0, arg |-> arg,
                  argf |-> FALSE, delf |-> f, buf |-> << >>, p |-> 0,
                  waitdata |-> FALSE, v |-> none]
  BY <1>1, <1>3
<1>6. Like(Taken(k), Begin(f))
  BY <1>4, <1>5 DEF Like, Fields
<1>7. /\ Taken(k).p = 0 /\ Taken(k).waitdata = FALSE /\ Taken(k).v = v
      /\ Taken(k).delf = f /\ Taken(k).buf = rest
  BY <1>4
<1> QED BY <1>6, <1>7 DEF rest, v, f

LEMMA FeedMakes ==
  ASSUME NEW u, NEW c, Fed(u, c), state(u, c).v.code \in Nat
  PROVE  /\ Feed(u, c) = Taken(state(u, c)) /\ Feed(u, c).v = state(u, c).v
         /\ Feed(u, c).buf = SubSeq(u.buf, u.p + 1, Len(u.buf))
         /\ Feed(u, c).p = 0 /\ Feed(u, c).waitdata = FALSE
         /\ Feed(u, c).delf = state(u, c).delf
         /\ Like(Feed(u, c), Begin(state(u, c).delf))
<1> DEFINE s == state(u, c)
<1>1. s \in Decoder /\ s.buf = u.buf /\ s.p = u.p
  BY FedDecoded
<1>2. Feed(u, c) = Taken(s)
  BY DEF Feed, KBD_INCOMPLETE
<1> HIDE DEF s
<1>3. /\ Feed(u, c).v = s.v /\ Feed(u, c).buf = SubSeq(u.buf, u.p + 1, Len(u.buf))
      /\ Feed(u, c).p = 0 /\ Feed(u, c).waitdata = FALSE
      /\ Feed(u, c).delf = s.delf /\ Like(Feed(u, c), Begin(s.delf))
  BY <1>1, <1>2, TakenFields
<1> QED BY <1>2, <1>3 DEF s

\* The sequence goes on.
LEMMA FeedGoesOn ==
  ASSUME NEW u, NEW c, Fed(u, c), state(u, c).v.code = KBD_MORE
  PROVE  /\ Feed(u, c).v = state(u, c).v /\ Feed(u, c).buf = u.buf /\ Feed(u, c).p = u.p
         /\ Like(Feed(u, c), state(u, c))
<1> DEFINE s == state(u, c)
<1>1. s \in Decoder /\ s.buf = u.buf /\ s.p = u.p
  BY FedDecoded
<1> DEFINE w == s.waitdata \/ Drained(s)
<1>2. Feed(u, c) = [s EXCEPT !.waitdata = w]
  BY DEF Feed, KBD_INCOMPLETE, KBD_MORE
<1> HIDE DEF w, s
<1>3. Feed(u, c).v = s.v /\ Feed(u, c).buf = u.buf /\ Feed(u, c).p = u.p /\ Like(Feed(u, c), s)
  BY <1>1, <1>2 DEF Decoder, Like, Fields
<1> QED BY <1>3 DEF s

\* What getkey() goes on with.
LEMMA GoesOn ==
  ASSUME NEW u, NEW c, Fed(u, c), Again(Feed(u, c))
  PROVE  /\ Feed(u, c).v.code <= 0
         /\ Feed(u, c).waitdata => ~Drained(Feed(u, c))
<1> DEFINE s == state(u, c)
           t == IF s.v.code = KBD_INCOMPLETE THEN incomplete(s) ELSE s
           k == Feed(u, c)
<1>1. DecoderInv(k)
  BY FeedInv DEF Fed
<1>2. k.v.code \in Int
  BY <1>1 DEF DecoderInv, KBD_MORE
<1>3. CASE k.v.code < 0
  BY <1>2, <1>3 DEF Again
<1>4. CASE ~(k.v.code < 0)
  <2>1. k.v.code = KBD_NOKEY
    BY <1>4 DEF Again
  <2>2. k = IF t.v.code >= 0 THEN Taken(t) ELSE [t EXCEPT !.waitdata = @ \/ Drained(t)]
    BY DEF Feed
  <2>3. Decoded(u, s) /\ s \in Decoder /\ s.buf = u.buf /\ s.p = u.p /\ Len(u.buf) \in Nat /\ Len(u.buf) > 0
        /\ s.p > 0
    BY FedDecoded
  <2>4. t \in Decoder /\ (t.v.code >= 0 \/ t.v.code = KBD_MORE)
    <3>1. CASE s.v.code = KBD_INCOMPLETE
      <4>1. incomplete(s) \in Decoder /\ incomplete(s).v \in Keys
        BY <2>3, <3>1, IncompleteKey
      <4> QED BY <3>1, <4>1 DEF Keys
    <3>2. CASE s.v.code # KBD_INCOMPLETE
      BY <2>3, <3>2 DEF Decoded, Keys
    <3> QED BY <3>1, <3>2
  <2> HIDE DEF t
  <2>5. CASE t.v.code >= 0
    <3>1. k.waitdata = FALSE
      BY <2>2, <2>4, <2>5, TakenFields
    <3> QED BY <2>1, <3>1 DEF KBD_NOKEY
  <2>6. CASE ~(t.v.code >= 0)
    <3>1. k = [t EXCEPT !.waitdata = t.waitdata \/ Drained(t)] /\ t.v.code = KBD_MORE
      BY <2>2, <2>4, <2>6
    <3>2. k.v = t.v
      <4> DEFINE w == t.waitdata \/ Drained(t)
      <4>1. k = [t EXCEPT !.waitdata = w]
        BY <3>1
      <4> HIDE DEF w, k
      <4> QED BY <2>4, <4>1 DEF Decoder
    <3> QED BY <2>1, <3>1, <3>2 DEF KBD_NOKEY, KBD_MORE
  <2> QED BY <2>5, <2>6
<1> QED BY <1>3, <1>4

\* The bytes that the decoder has taken are removed, and the keys that they are.
LEMMA TakenUnderstood ==
  ASSUME NEW w \in Decoder, w.p \in 1 .. Len(w.buf), NEW F, w.delf \in F, NEW tl \in Seq(Char),
         NEW t, Len(t) \in Nat, NEW d \in 0 .. Len(t), NEW sp, NEW cut,
         Divided(Ahead(w, tl), t, d, sp, cut), NEW e \in d .. Len(t), w.p <= cut[e],
         \A j \in w.p + 1 .. cut[e] : Ignored(Ahead(w, tl)[j])
  PROVE  Understood(Taken(w), F, Ahead(Taken(w), tl), t, e)
<1> DEFINE S == w.buf \o tl
           R == SubSeq(w.buf, w.p + 1, Len(w.buf)) \o tl
           k == Taken(w)
           m == w.p
<1>1. /\ k.buf = SubSeq(w.buf, w.p + 1, Len(w.buf)) /\ k.p = 0
      /\ k.delf = w.delf /\ Like(k, Begin(w.delf))
  BY TakenFields
<1>2. w.buf \in Seq(Char) /\ w.p \in 0 .. Len(w.buf)
  BY DEF Decoder
<1>3. /\ S \in Seq(Char) /\ Len(S) \in Nat /\ Len(w.buf) <= Len(S)
      /\ R \in Seq(Char) /\ Len(R) = Len(S) - m
      /\ \A i \in 1 .. Len(R) : R[i] = S[m + i]
  BY <1>2, Dropped
<1>4. m \in 0 .. Len(S)
  <2>1. Len(w.buf) \in Nat
    BY <1>2
  <2> HIDE DEF S
  <2> QED BY <1>2, <1>3, <2>1
<1>5. Divided(S, t, d, sp, cut) /\ m <= cut[e] /\ \A j \in m + 1 .. cut[e] : Ignored(S[j])
  BY DEF Ahead
<1>6. Ahead(k, tl) = R
  BY <1>1 DEF Ahead
<1> HIDE DEF S, R, m, k
<1>7. PICK cu : Divided(R, t, e, sp, cu)
  BY <1>3, <1>4, <1>5, BytesTaken
<1>8. Between(k, F)
  BY <1>1 DEF Between
<1>9. Understood(k, F, R, t, e)
  BY <1>7, <1>8, Zenon DEF Understood
<1> QED BY <1>6, <1>9 DEF k

LEMMA KeyTaken ==
  ASSUME NEW u, NEW c, Fed(u, c), state(u, c).v.code \in Nat,
         NEW F, state(u, c).delf \in F, NEW tl \in Seq(Char),
         NEW t, Len(t) \in Nat, NEW d \in 0 .. Len(t), NEW sp, NEW cut,
         Divided(Ahead(u, tl), t, d, sp, cut), NEW e \in d .. Len(t), u.p <= cut[e],
         \A j \in u.p + 1 .. cut[e] : Ignored(Ahead(u, tl)[j])
  PROVE  /\ Feed(u, c).v = state(u, c).v
         /\ Understood(Feed(u, c), F, Ahead(Feed(u, c), tl), t, e)
<1> DEFINE w == state(u, c)
<1>1. w \in Decoder /\ w.buf = u.buf /\ w.p = u.p /\ w.p \in 1 .. Len(w.buf)
  <2> HIDE DEF w
  <2>1. w \in Decoder /\ w.buf = u.buf /\ w.p = u.p
    BY FedDecoded DEF w
  <2> QED BY <2>1 DEF Fed
<1>2. Feed(u, c) = Taken(w) /\ Feed(u, c).v = w.v
  BY FeedMakes
<1>3. Ahead(w, tl) = Ahead(u, tl)
  BY <1>1 DEF Ahead
<1>4. w.delf \in F
  OBVIOUS
<1> HIDE DEF w
<1>5. Understood(Taken(w), F, Ahead(Taken(w), tl), t, e)
  BY <1>1, <1>3, <1>4, TakenUnderstood
<1> QED BY <1>2, <1>5 DEF w

\* Each key of the terminal is Esc or made by its bytes.
Distinct(F) == \A s \in Spellings : IsEsc(s) \/ \E m \in 1 .. Len(s.bytes) : MadeBy(s, F, m)

LEMMA EscBegins ==
  ASSUME NEW s, Like(s, Begin(s.delf)), s.delf \in BOOLEAN
  PROVE  /\ state(s, ESC).v.code = KBD_MORE /\ state(s, ESC).state = "esc"
         /\ state(s, ESC).delf = s.delf
<1> DEFINE arg == <<0>>
           none == Plain(KBD_NOKEY)
           more == Plain(KBD_MORE)
           f == s.delf
           b == Begin(f)
<1>1. KeyboardInit = [state |-> "start", type |-> 0, mod |-> 0, arg |-> arg,
                      argf |-> FALSE, delf |-> FALSE, buf |-> << >>, p |-> 0,
                      waitdata |-> FALSE, v |-> none]
  BY DEF KeyboardInit
<1>2. b = [KeyboardInit EXCEPT !.delf = f]
  BY DEF Begin
<1>3. \A k : st_start(k, ESC) = [[k EXCEPT !.type = 0, !.mod = 0, !.arg = arg, !.argf = FALSE]
                                   EXCEPT !.state = "esc", !.v = more]
  BY DEF st_start, More, ESC
<1>4. more.code = KBD_MORE
  BY DEF Plain, Key
<1> HIDE DEF arg, none, more, f
<1>5. b = [state |-> "start", type |-> 0, mod |-> 0, arg |-> arg,
           argf |-> FALSE, delf |-> f, buf |-> << >>, p |-> 0,
           waitdata |-> FALSE, v |-> none]
  BY <1>1, <1>2
<1> HIDE DEF b
<1>6. st_start(b, ESC).v = more /\ st_start(b, ESC).state = "esc" /\ st_start(b, ESC).delf = f
  <2> DEFINE zero == 0
             no == FALSE
             none2 == <<>>
  <2>1. b = [state |-> "start", type |-> zero, mod |-> zero, arg |-> arg,
             argf |-> no, delf |-> f, buf |-> none2, p |-> zero,
             waitdata |-> no, v |-> none]
    BY <1>5
  <2>2. st_start(b, ESC) = [[b EXCEPT !.type = zero, !.mod = zero, !.arg = arg, !.argf = no]
                              EXCEPT !.state = "esc", !.v = more]
    BY <1>3
  <2> HIDE DEF zero, no, none2
  <2>3. [b EXCEPT !.type = zero, !.mod = zero, !.arg = arg, !.argf = no] = b
    <3>1. [b EXCEPT !.type = zero] = b
      BY <2>1
    <3>2. [b EXCEPT !.mod = zero] = b
      BY <2>1
    <3>3. [b EXCEPT !.arg = arg] = b
      BY <2>1
    <3>4. [b EXCEPT !.argf = no] = b
      BY <2>1
    <3>5. [b EXCEPT !.type = zero, !.mod = zero, !.arg = arg, !.argf = no]
            = [[[[b EXCEPT !.type = zero] EXCEPT !.mod = zero] EXCEPT !.arg = arg] EXCEPT !.argf = no]
      OBVIOUS
    <3> QED BY <3>1, <3>2, <3>3, <3>4, <3>5
  <2>4. st_start(b, ESC) = [b EXCEPT !.state = "esc", !.v = more]
    BY <2>2, <2>3
  <2> QED BY <2>1, <2>4
<1>7. Alike(st_start(s, ESC), st_start(b, ESC)) /\ s.state = b.state
  <2>1. Like(s, b)
    BY DEF b, f
  <2> QED BY <2>1, StartAlike DEF Like
<1>8. state(s, ESC) = st_start(s, ESC)
  BY <1>5, <1>7 DEF state
<1> QED BY <1>4, <1>6, <1>7, <1>8 DEF Alike, Like, f

-----------------------------------------------------------------------------
(* One step of the decoder in the stream.                                  *)

\* The key s comes next in the stream.
ComesNext(S, t, d, cut, s) ==
  /\ s \in Spellings /\ s.key = t[d + 1] /\ d + 1 \in d .. Len(t)
  /\ cut[d + 1] = Len(s.bytes) /\ Len(s.bytes) \in 0 .. Len(S)
  /\ \A j \in 1 .. Len(s.bytes) : S[j] = s.bytes[j]

LEMMA FirstKey ==
  ASSUME NEW S, NEW t, Len(t) \in Nat, NEW d \in 0 .. Len(t), d < Len(t), NEW sp, NEW cut,
         Divided(S, t, d, sp, cut), cut[d] = 0
  PROVE  ComesNext(S, t, d, cut, sp[d + 1])
<1> DEFINE s == sp[d + 1]
<1>1. d + 1 \in d + 1 .. Len(t) /\ d + 1 \in d .. Len(t) /\ d + 1 - 1 = d
  OBVIOUS
<1>2. /\ s \in Spellings /\ s.key = t[d + 1] /\ cut[d + 1] = 0 + Len(s.bytes)
      /\ cut[d + 1] \in 0 .. Len(S)
      /\ \A j \in 1 .. Len(s.bytes) : S[0 + j] = s.bytes[j]
  BY <1>1 DEF Divided
<1> HIDE DEF s
<1>3. Len(s.bytes) \in Nat
  BY <1>2, BytesOf
<1>4. \A j \in 1 .. Len(s.bytes) : 0 + j = j
  BY <1>3
<1>5. ComesNext(S, t, d, cut, s)
  BY <1>1, <1>2, <1>3, <1>4 DEF ComesNext
<1> QED BY <1>5 DEF s

LEMMA FedNumber ==
  ASSUME NEW u, NEW c, Fed(u, c)
  PROVE  c \in Int
BY DEF Fed, Char, KBD_MORE

LEMMA LikeTransitive ==
  ASSUME NEW k, NEW r, NEW s, Like(k, r), Like(r, s)
  PROVE  Like(k, s)
BY DEF Like

\* The decoder, now n, has taken part of a key, or all bytes of the next one.
TakesOn(n, F, tl, t, d) ==
  \/ n.v.code <= 0 /\ Understood(n, F, Ahead(n, tl), t, d)
  \/ /\ d < Len(t) /\ n.v = t[d + 1] /\ n.v.code > 0
     /\ Understood(n, F, Ahead(n, tl), t, d + 1)

\* The next byte of a key that has been taken in part, or not at all.
LEMMA ByteOfKey ==
  ASSUME NEW F, NEW tl \in Seq(Char),
         NEW t, Len(t) \in Nat, NEW d \in 0 .. Len(t), d < Len(t), NEW sp, NEW cut,
         NEW u \in Decoder, NEW s, NEW c, NEW m \in 1 .. Len(s.bytes), NEW f \in F,
         Divided(Ahead(u, tl), t, d, sp, cut), cut[d] = 0, sp[d + 1] = s,
         MadeBy(s, F, m), u.p \in 1 .. m, Like(u, Steps(s.bytes, f)[u.p - 1]),
         s.bytes[u.p] = c, Fed(u, c)
  PROVE  TakesOn(Feed(u, c), F, tl, t, d)
<1> DEFINE S == Ahead(u, tl)
           w == state(u, c)
           n == Feed(u, c)
           p == u.p
           r == Steps(s.bytes, f)
<1>1. /\ s \in Spellings /\ s.key = t[d + 1] /\ d + 1 \in d .. Len(t) /\ cut[d + 1] = Len(s.bytes)
      /\ \A j \in 1 .. Len(s.bytes) : S[j] = s.bytes[j]
  <2>1. ComesNext(S, t, d, cut, sp[d + 1])
    BY FirstKey
  <2>2. ComesNext(S, t, d, cut, s)
    BY <2>1
  <2> QED BY <2>2 DEF ComesNext
<1>2. s.bytes \in Seq(Char) /\ Len(s.bytes) \in Nat /\ s.key.code \in Nat /\ s.key.code > 0
  BY <1>1, BytesOf
<1>4. p \in 1 .. m /\ p \in 1 .. Len(s.bytes) /\ p \in Nat
  BY <1>2
<1>5. r[p] = state(r[p - 1], s.bytes[p])
  BY <1>2, <1>4, StepsDefined
<1>7. c \in Int /\ u.state \in {"start", "esc", "csiss3", "arg", "mouse"}
  BY FedNumber DEF Decoder
<1>8. Alike(w, r[p])
  <2> DEFINE x == r[p - 1]
  <2>1. state(x, c) = r[p]
    BY <1>5
  <2>2. Like(u, x)
    OBVIOUS
  <2> HIDE DEF x
  <2>3. Alike(state(u, c), state(x, c))
    BY <1>7, <2>2, StateAlike
  <2> QED BY <2>1, <2>3
<1>9. /\ \A i \in 1 .. m - 1 : r[i].v = Plain(KBD_MORE)
      /\ r[m].v = s.key /\ r[m].delf \in F
      /\ \A i \in m + 1 .. Len(s.bytes) : Ignored(s.bytes[i])
  BY DEF MadeBy
<1> HIDE DEF r
<1>10. CASE p < m
  <2>1. p \in 1 .. m - 1
    BY <1>4, <1>10
  <2>2. w.v = Plain(KBD_MORE)
    BY <1>8, <1>9, <2>1 DEF Alike
  <2>3. w.v.code = KBD_MORE
    BY <2>2 DEF Plain, Key
  <2>4. n.v = w.v /\ n.buf = u.buf /\ n.p = u.p /\ Like(n, w)
    BY <2>3, FeedGoesOn
  <2> HIDE DEF n, w
  <2>5. Like(n, r[p])
    BY <1>8, <2>4, LikeTransitive DEF Alike
  <2>6. Within(n, s, F)
    <3>1. n.p \in 1 .. m - 1 /\ Like(n, Steps(s.bytes, f)[n.p])
      BY <2>1, <2>4, <2>5 DEF r
    <3> QED BY <3>1 DEF Within
  <2>7. Understood(n, F, Ahead(n, tl), t, d)
    <3>1. Ahead(n, tl) = Ahead(u, tl)
      BY <2>4 DEF Ahead
    <3>2. /\ Divided(Ahead(n, tl), t, d, sp, cut) /\ d < Len(t) /\ cut[d] = 0
          /\ Within(n, sp[d + 1], F)
      BY <2>6, <3>1
    <3> QED BY <3>2 DEF Understood
  <2>8. n.v.code <= 0
    BY <2>3, <2>4 DEF KBD_MORE
  <2> QED BY <2>7, <2>8 DEF n, TakesOn
<1>11. CASE ~(p < m)
  <2>1. p = m
    BY <1>4, <1>11
  <2>2. w.v = s.key /\ w.delf \in F
    BY <1>8, <1>9, <2>1 DEF Alike, Like
  <2>3. \A j \in u.p + 1 .. cut[d + 1] : Ignored(S[j])
    <3> SUFFICES ASSUME NEW j \in m + 1 .. Len(s.bytes) PROVE Ignored(S[j])
      BY <1>1, <2>1
    <3>1. j \in 1 .. Len(s.bytes)
      BY <1>2
    <3> QED BY <1>1, <1>9, <3>1
  <2>4. u.p <= cut[d + 1] /\ w.v.code \in Nat
    BY <1>1, <1>2, <1>4, <2>2
  <2>5. /\ d + 1 \in d .. Len(t) /\ u.p <= cut[d + 1]
        /\ state(u, c).v.code \in Nat /\ state(u, c).delf \in F
        /\ \A j \in u.p + 1 .. cut[d + 1] : Ignored(Ahead(u, tl)[j])
    BY <1>1, <2>2, <2>3, <2>4
  <2>6. n.v = w.v /\ Understood(n, F, Ahead(n, tl), t, d + 1)
    <3> HIDE DEF S, p, r
    <3> QED BY <2>5, KeyTaken
  <2> HIDE DEF n, w
  <2>7. n.v = t[d + 1] /\ n.v.code > 0
    BY <1>1, <1>2, <2>2, <2>6
  <2> QED BY <2>6, <2>7 DEF n, TakesOn
<1> QED BY <1>10, <1>11

\* A byte between two keys that is none.
LEMMA ByteIgnored ==
  ASSUME NEW F, F \subseteq BOOLEAN, NEW tl \in Seq(Char),
         NEW t, Len(t) \in Nat, NEW d \in 0 .. Len(t), NEW sp, NEW cut,
         NEW u \in Decoder, NEW c,
         Divided(Ahead(u, tl), t, d, sp, cut), cut[d] >= 1,
         u.p = 1, u.delf \in F, Like(u, Begin(u.delf)), Ahead(u, tl)[1] = c, Fed(u, c)
  PROVE  TakesOn(Feed(u, c), F, tl, t, d)
<1> DEFINE S == Ahead(u, tl)
           w == state(u, c)
           n == Feed(u, c)
           f == u.delf
           b == Begin(f)
<1>1. c \in Int /\ u.state \in {"start", "esc", "csiss3", "arg", "mouse"}
  BY FedNumber DEF Decoder
<1>2. Alike(w, state(b, c))
  <2>1. Like(u, b)
    OBVIOUS
  <2> HIDE DEF b
  <2> QED BY <1>1, <2>1, StateAlike
<1>3. d \in d .. Len(t) /\ cut[d] \in 0 .. Len(S)
  BY DEF Divided
<1>4. Len(S) \in Nat
  <2>1. u.buf \in Seq(Char)
    BY DEF Decoder
  <2> QED BY <2>1, Concatenated DEF Ahead
<1>5. \A j \in 1 .. cut[d] : Ignored(S[j])
  BY DEF Divided
<1>6. Ignored(c) /\ \A j \in 2 .. cut[d] : Ignored(S[j])
  <2>1. 1 \in 1 .. cut[d] /\ \A j \in 2 .. cut[d] : j \in 1 .. cut[d]
    BY <1>3, <1>4
  <2> QED BY <1>5, <2>1
<1>7. w.v.code = KBD_NOKEY /\ w.delf = f
  <2>1. f \in BOOLEAN
    OBVIOUS
  <2> HIDE DEF w, f
  <2>2. state(b, c).v.code = KBD_NOKEY /\ state(b, c).delf = f
    BY <1>6, <2>1 DEF Ignored, Begin
  <2> HIDE DEF b
  <2> QED BY <1>2, <2>2 DEF Alike, Like
<1>8. w.v.code \in Nat /\ w.v.code <= 0 /\ w.delf \in F
  <2> HIDE DEF w
  <2> QED BY <1>7 DEF KBD_NOKEY
<1>9. u.p <= cut[d] /\ \A j \in u.p + 1 .. cut[d] : Ignored(S[j])
  <2>1. u.p + 1 = 2
    OBVIOUS
  <2> QED BY <1>3, <1>4, <1>6, <2>1
<1>10. n.v = w.v /\ Understood(n, F, Ahead(n, tl), t, d)
  BY <1>3, <1>8, <1>9, KeyTaken
<1> HIDE DEF n, w
<1>11. n.v.code <= 0
  BY <1>8, <1>10
<1> QED BY <1>10, <1>11 DEF n, TakesOn

Onward(k) == [k EXCEPT !.p = @ + 1]

LEMMA OnwardFields ==
  ASSUME NEW k \in Decoder
  PROVE  /\ Onward(k) \in Decoder /\ Onward(k).buf = k.buf /\ Onward(k).p = k.p + 1
         /\ Onward(k).delf = k.delf
         /\ \A r : Like(k, r) => Like(Onward(k), r)
         /\ \A tl : Ahead(Onward(k), tl) = Ahead(k, tl)
<1> DEFINE p == k.p + 1
           u == [k EXCEPT !.p = p]
<1>1. Onward(k) = u /\ p \in Nat
  BY DEF Onward, Decoder
<1> HIDE DEF p
<1>2. u \in Decoder /\ u.buf = k.buf /\ u.p = p /\ u.delf = k.delf
  BY <1>1 DEF Decoder
<1>3. \A r : Like(k, r) => Like(u, r)
  BY DEF Like, Fields
<1>4. \A tl : Ahead(u, tl) = Ahead(k, tl)
  BY <1>2 DEF Ahead
<1> QED BY <1>1, <1>2, <1>3, <1>4 DEF p

LEMMA AheadFields ==
  ASSUME NEW k \in Decoder, NEW tl \in Seq(Char)
  PROVE  /\ Len(k.buf) \in Nat /\ Len(Ahead(k, tl)) \in Nat /\ Len(k.buf) <= Len(Ahead(k, tl))
         /\ \A i \in 1 .. Len(k.buf) : Ahead(k, tl)[i] = k.buf[i]
         /\ tl = <<>> => Len(Ahead(k, tl)) = Len(k.buf)
<1> DEFINE b == k.buf
           S == b \o tl
<1>1. b \in Seq(Char)
  BY DEF Decoder
<1>2. 0 \in 0 .. Len(b) /\ Len(b) \in Nat
  BY <1>1
<1>3. /\ Len(S) \in Nat /\ Len(b) <= Len(S)
      /\ \A i \in 1 .. Len(b) : S[i] = b[i]
  BY <1>1, <1>2, Dropped
<1>4. tl = <<>> => Len(S) = Len(b)
  BY <1>1
<1> QED BY <1>2, <1>3, <1>4 DEF Ahead

\* A byte of the stream is no key, part of the next key, or its last.
LEMMA ByteUnderstood ==
  ASSUME NEW F, F \subseteq BOOLEAN, Distinct(F), NEW tl \in Seq(Char),
         NEW k \in Decoder, k.p < Len(k.buf),
         NEW t, Len(t) \in Nat, NEW d \in 0 .. Len(t), EscLast(t, d),
         Understood(k, F, Ahead(k, tl), t, d),
         NEW u, u = Onward(k), NEW c, k.buf[k.p + 1] = c, Fed(u, c)
  PROVE  TakesOn(Feed(u, c), F, tl, t, d)
<1> DEFINE S == Ahead(k, tl)
           n == Feed(u, c)
           p == k.p + 1
<1>1. /\ u \in Decoder /\ u.buf = k.buf /\ u.p = p /\ u.delf = k.delf
      /\ \A r : Like(k, r) => Like(u, r)
      /\ Ahead(u, tl) = S
  BY OnwardFields
<1>2. /\ Len(k.buf) \in Nat /\ Len(S) \in Nat /\ Len(k.buf) <= Len(S)
      /\ \A i \in 1 .. Len(k.buf) : S[i] = k.buf[i]
  BY AheadFields
<1>3. k.p \in Nat
  BY DEF Decoder
<1>4. S[p] = c /\ Len(S) > 0
  <2>1. p \in 1 .. Len(k.buf)
    BY <1>2, <1>3
  <2> HIDE DEF S
  <2> QED BY <1>2, <1>3, <2>1
<1> HIDE DEF S
<1>5. PICK sp, cut :
        /\ Divided(S, t, d, sp, cut)
        /\ \/ Between(k, F)
           \/ d < Len(t) /\ cut[d] = 0 /\ Within(k, sp[d + 1], F)
  BY Zenon DEF Understood, S
<1>6. Divided(Ahead(u, tl), t, d, sp, cut)
  BY <1>1, <1>5
<1> DEFINE s == sp[d + 1]
<1>7. CASE Between(k, F)
  <2>1. k.p = 0 /\ k.delf \in F /\ Like(k, Begin(k.delf))
    BY <1>7 DEF Between
  <2>2. u.p = 1 /\ u.delf \in F /\ Like(u, Begin(u.delf)) /\ Ahead(u, tl)[1] = c /\ u.delf \in BOOLEAN
    BY <1>1, <1>4, <2>1
  <2>3. cut[d] \in 0 .. Len(S) /\ (d = Len(t) => cut[d] = Len(S))
    BY <1>5 DEF Divided
  <2>4. CASE cut[d] >= 1
    BY <1>1, <1>6, <2>2, <2>4, ByteIgnored
  <2>5. CASE ~(cut[d] >= 1)
    <3>1. cut[d] = 0 /\ d < Len(t)
      BY <1>2, <1>4, <2>3, <2>5
    <3>2. ComesNext(S, t, d, cut, s)
      BY <1>5, <3>1, FirstKey
    <3> HIDE DEF s
    <3>3. s \in Spellings /\ Len(s.bytes) \in Nat /\ Len(s.bytes) > 0
      BY <3>2, BytesOf DEF ComesNext
    <3>4. S[1] = s.bytes[1]
      <4>1. 1 \in 1 .. Len(s.bytes)
        BY <3>3
      <4> QED BY <3>2, <4>1 DEF ComesNext
    <3>5. c = s.bytes[1]
      BY <1>1, <2>2, <3>4
    <3>6. CASE IsEsc(s)
      <4>1. c = ESC
        BY <3>5, <3>6 DEF IsEsc
      <4>2. /\ state(u, c).v.code = KBD_MORE /\ state(u, c).state = "esc"
            /\ state(u, c).delf = u.delf
        BY <2>2, <4>1, EscBegins
      <4>3. n.v = state(u, c).v /\ n.buf = u.buf /\ n.p = u.p /\ Like(n, state(u, c))
        BY <4>2, FeedGoesOn
      <4>4. n.state = "esc" /\ n.delf \in F /\ n.p = 1 /\ n.v.code <= 0
        BY <2>2, <4>2, <4>3 DEF Like, KBD_MORE
      <4>5. Ahead(n, tl) = S
        BY <1>1, <4>3 DEF Ahead
      <4> HIDE DEF n
      <4>6. Within(n, sp[d + 1], F)
        BY <3>6, <4>4 DEF Within, s
      <4>7. Understood(n, F, Ahead(n, tl), t, d)
        BY <1>5, <3>1, <4>5, <4>6, Zenon DEF Understood
      <4> QED BY <4>4, <4>7 DEF n, TakesOn
    <3>7. CASE \E m \in 1 .. Len(s.bytes) : MadeBy(s, F, m)
      <4>1. PICK m \in 1 .. Len(s.bytes) : MadeBy(s, F, m)
        BY <3>7
      <4>2. s.bytes \in Seq(Char)
        BY <3>3, BytesOf
      <4> DEFINE f == u.delf
      <4>3. Steps(s.bytes, f)[0] = Begin(f)
        BY <4>2, StepsDefined
      <4>4. u.p \in 1 .. m /\ u.p - 1 = 0 /\ f \in F
        BY <2>2, <3>3
      <4>5. Like(u, Steps(s.bytes, f)[u.p - 1])
        BY <2>2, <4>3, <4>4
      <4>6. s.bytes[u.p] = c /\ sp[d + 1] = s
        BY <2>2, <3>5 DEF s
      <4> HIDE DEF f
      <4> QED BY <1>1, <1>6, <3>1, <4>1, <4>4, <4>5, <4>6, ByteOfKey
    <3>8. IsEsc(s) \/ \E m \in 1 .. Len(s.bytes) : MadeBy(s, F, m)
      BY <3>3 DEF Distinct
    <3> QED BY <3>6, <3>7, <3>8
  <2> QED BY <2>4, <2>5
<1>8. CASE d < Len(t) /\ cut[d] = 0 /\ Within(k, sp[d + 1], F)
  <2>1. ComesNext(S, t, d, cut, s)
    BY <1>5, <1>8, FirstKey
  <2>2. Within(k, s, F)
    BY <1>8
  <2>3. s = sp[d + 1]
    OBVIOUS
  <2> HIDE DEF s
  <2>4. s \in Spellings /\ s.bytes \in Seq(Char) /\ Len(s.bytes) \in Nat
    BY <2>1, BytesOf DEF ComesNext
  <2>5. CASE IsEsc(s) /\ k.p = 1
    <3>1. t[d + 1] = Plain(KBD_ESC) /\ Len(s.bytes) = 1 /\ cut[d + 1] = 1
      BY <2>1, <2>5 DEF IsEsc, ComesNext
    <3>2. d + 1 \in d + 1 .. Len(t)
      BY <1>8
    <3>3. d + 1 = Len(t)
      BY <3>1, <3>2 DEF EscLast
    <3>4. Len(S) = 1
      BY <1>5, <3>1, <3>3 DEF Divided
    <3> QED BY <1>2, <2>5, <3>4
  <2>6. CASE \E m \in 1 .. Len(s.bytes), f \in F :
               MadeBy(s, F, m) /\ k.p \in 1 .. m - 1 /\ Like(k, Steps(s.bytes, f)[k.p])
    <3>1. PICK m \in 1 .. Len(s.bytes), f \in F :
               MadeBy(s, F, m) /\ k.p \in 1 .. m - 1 /\ Like(k, Steps(s.bytes, f)[k.p])
      BY <2>6
    <3>2. u.p \in 1 .. m /\ u.p - 1 = k.p
      BY <1>1, <1>3, <2>4, <3>1
    <3>3. Like(u, Steps(s.bytes, f)[u.p - 1])
      BY <1>1, <3>1, <3>2
    <3>4. k.p + 1 \in 1 .. Len(s.bytes)
      BY <1>3, <2>4, <3>1
    <3>5. s.bytes[u.p] = c
      BY <1>1, <1>4, <2>1, <3>4 DEF ComesNext
    <3> QED BY <1>1, <1>6, <1>8, <2>3, <3>1, <3>2, <3>3, <3>5, ByteOfKey
  <2> QED BY <2>2, <2>5, <2>6 DEF Within
<1> QED BY <1>5, <1>7, <1>8

\* For a missing byte the one byte of Esc is taken for the key.
LEMMA EscFed ==
  ASSUME NEW k \in Decoder, Fed(k, KBD_MORE), k.state = "esc", k.p = 1,
         Len(k.buf) = 1, k.buf[1] = ESC
  PROVE  \E w \in Decoder : /\ Feed(k, KBD_MORE) = Taken(w) /\ w.v = Plain(KBD_ESC)
                            /\ w.buf = k.buf /\ w.p = 1 /\ w.delf = k.delf
<1> DEFINE v == Plain(KBD_INCOMPLETE)
           s == [k EXCEPT !.v = v]
           esc == Plain(KBD_ESC)
           w == ordkey([s EXCEPT !.p = 1], ESC)
<1>1. state(k, KBD_MORE) = s
  <2>1. KBD_MORE # CSI /\ KBD_MORE # SS3 /\ KBD_MORE # ESC
    BY DEF KBD_MORE, CSI, SS3, ESC
  <2>2. state(k, KBD_MORE) = st_esc(k, KBD_MORE)
    BY DEF state
  <2>3. st_esc(k, KBD_MORE) = Incomplete(k)
    BY <2>1 DEF st_esc
  <2> QED BY <2>2, <2>3 DEF Incomplete, Say
<1>2. v \in [code : Int, mods : SUBSET Mods] /\ v.code = KBD_INCOMPLETE
  BY DEF Plain, Key, KBD_INCOMPLETE
<1>3. esc \in [code : Int, mods : SUBSET Mods] /\ esc.code >= 0
  BY DEF Plain, Key, KBD_ESC
<1>4. \A q : ordkey(q, ESC) = [q EXCEPT !.delf = q.delf \/ ESC = 8, !.v = esc]
  BY DEF ordkey, ESC
<1> HIDE DEF v, esc
<1>5. s \in Decoder /\ s.v.code = KBD_INCOMPLETE /\ s.buf = k.buf /\ s.delf = k.delf
  BY <1>2 DEF Decoder
<1> HIDE DEF s
<1> DEFINE q == [s EXCEPT !.p = 1]
<1>6. q \in Decoder /\ q.buf = k.buf /\ q.p = 1 /\ q.delf = k.delf
  BY <1>5 DEF Decoder
<1>7. incomplete(s) = ordkey(q, ESC)
  <2>1. s.buf = k.buf /\ s.buf[1] = ESC /\ Len(s.buf) = 1
    BY <1>5
  <2>2. ~(Len(s.buf) > 2)
    <3> DEFINE l == Len(s.buf)
    <3>1. l = 1
      BY <2>1
    <3> HIDE DEF l
    <3>2. ~(l > 2)
      BY <3>1
    <3> QED BY <3>2 DEF l
  <2>3. incomplete(s) =
        CASE Len(s.buf) = 1 -> ordkey(q, s.buf[1])
          [] Len(s.buf) > 2 /\ SubSeq(s.buf, 1, 3) = <<ESC, CSI, 77>> ->
               Say([s EXCEPT !.p = 3], Plain(KBD_F(1)))
          [] OTHER -> IF s.buf[1] = ESC THEN With(ordkey([s EXCEPT !.p = 2], s.buf[2]), {"alt"})
                      ELSE ordkey(q, s.buf[1])
    BY DEF incomplete
  <2> HIDE DEF q
  <2> QED BY <2>1, <2>2, <2>3
<1> HIDE DEF q
<1> DEFINE f == q.delf \/ ESC = 8
<1>8. ordkey(q, ESC) = [q EXCEPT !.delf = f, !.v = esc]
  BY <1>4
<1>9. f = q.delf
  BY <1>6 DEF ESC, Decoder
<1> HIDE DEF f
<1>10. /\ ordkey(q, ESC) \in Decoder /\ ordkey(q, ESC).v = esc /\ ordkey(q, ESC).buf = k.buf
       /\ ordkey(q, ESC).p = 1 /\ ordkey(q, ESC).delf = k.delf
  BY <1>3, <1>6, <1>8, <1>9 DEF Decoder
<1>11. Feed(k, KBD_MORE) = Taken(ordkey(q, ESC))
  <2>1. ordkey(q, ESC).v.code >= 0
    BY <1>3, <1>10
  <2> QED BY <1>1, <1>5, <1>7, <2>1 DEF Feed
<1> QED BY <1>10, <1>11 DEF esc

\* No key but Esc is one byte short.
LEMMA NoByteUnderstood ==
  ASSUME NEW F, Distinct(F), NEW tl \in Seq(Char),
         NEW k \in Decoder, k.p = Len(k.buf), Fed(k, KBD_MORE),
         NEW t, Len(t) \in Nat, NEW d \in 0 .. Len(t),
         Understood(k, F, Ahead(k, tl), t, d),
         tl = <<>> \/ k.p = BufSize
  PROVE  TakesOn(Feed(k, KBD_MORE), F, tl, t, d)
<1> DEFINE S == Ahead(k, tl)
           n == Feed(k, KBD_MORE)
<1>1. /\ Len(k.buf) \in Nat /\ Len(S) \in Nat /\ Len(k.buf) <= Len(S)
      /\ \A i \in 1 .. Len(k.buf) : S[i] = k.buf[i]
      /\ tl = <<>> => Len(S) = Len(k.buf)
  BY AheadFields
<1>2. k.p \in Nat /\ k.p > 0
  BY FedDecoded
<1> HIDE DEF S
<1>3. PICK sp, cut :
        /\ Divided(S, t, d, sp, cut)
        /\ \/ Between(k, F)
           \/ d < Len(t) /\ cut[d] = 0 /\ Within(k, sp[d + 1], F)
  BY Zenon DEF Understood, S
<1>4. d < Len(t) /\ cut[d] = 0 /\ Within(k, sp[d + 1], F)
  BY <1>2, <1>3 DEF Between
<1> DEFINE s == sp[d + 1]
<1>5. ComesNext(S, t, d, cut, s)
  BY <1>3, <1>4, FirstKey
<1>6. Within(k, s, F)
  BY <1>4
<1> HIDE DEF s
<1>7. s \in Spellings /\ Len(s.bytes) \in Nat /\ Len(s.bytes) <= BufSize
  BY <1>5, BytesOf DEF ComesNext
<1>8. CASE IsEsc(s) /\ k.p = 1 /\ k.state = "esc" /\ k.delf \in F
  <2>1. s.key = Plain(KBD_ESC) /\ s.bytes = <<ESC>> /\ Len(s.bytes) = 1 /\ s.bytes[1] = ESC
    BY <1>8 DEF IsEsc
  <2>2. /\ t[d + 1] = Plain(KBD_ESC) /\ d + 1 \in d .. Len(t) /\ cut[d + 1] = 1
        /\ S[1] = ESC
    <3>1. 1 \in 1 .. Len(s.bytes)
      BY <2>1
    <3> QED BY <1>5, <2>1, <3>1 DEF ComesNext
  <2>3. Len(k.buf) = 1 /\ k.buf[1] = ESC
    <3>1. Len(k.buf) = 1 /\ 1 \in 1 .. Len(k.buf)
      BY <1>8
    <3> QED BY <1>1, <2>2, <3>1
  <2>4. PICK w \in Decoder : /\ n = Taken(w) /\ w.v = Plain(KBD_ESC)
                             /\ w.buf = k.buf /\ w.p = 1 /\ w.delf = k.delf
    BY <1>8, <2>3, EscFed
  <2> HIDE DEF n
  <2>5. n.v = Plain(KBD_ESC)
    BY <2>4, TakenFields
  <2>6. Ahead(w, tl) = S
    BY <2>4 DEF Ahead, S
  <2>7. Divided(Ahead(w, tl), t, d, sp, cut)
    BY <1>3, <2>6
  <2>8. /\ w.p \in 1 .. Len(w.buf) /\ w.delf \in F /\ w.p <= cut[d + 1]
        /\ \A j \in w.p + 1 .. cut[d + 1] : Ignored(Ahead(w, tl)[j])
    BY <1>8, <2>2, <2>3, <2>4
  <2>9. Understood(Taken(w), F, Ahead(Taken(w), tl), t, d + 1)
    BY <2>2, <2>7, <2>8, TakenUnderstood
  <2>10. n.v = t[d + 1] /\ n.v.code > 0
    BY <2>2, <2>5 DEF Plain, Key, KBD_ESC
  <2>11. Understood(n, F, Ahead(n, tl), t, d + 1)
    BY <2>4, <2>9
  <2> QED BY <1>4, <2>10, <2>11 DEF TakesOn, n
<1>9. CASE \E m \in 1 .. Len(s.bytes), f \in F :
             MadeBy(s, F, m) /\ k.p \in 1 .. m - 1 /\ Like(k, Steps(s.bytes, f)[k.p])
  <2>1. k.p < Len(s.bytes)
    BY <1>2, <1>7, <1>9
  <2>2. Len(s.bytes) <= Len(S)
    BY <1>5 DEF ComesNext
  <2>3. CASE tl = <<>>
    BY <1>1, <1>2, <1>7, <2>1, <2>2, <2>3
  <2>4. CASE k.p = BufSize
    BY <1>2, <1>7, <2>1, <2>4
  <2> QED BY <2>3, <2>4
<1> QED BY <1>6, <1>8, <1>9 DEF Within

-----------------------------------------------------------------------------
(* The loop.                                                               *)

\* s is the beginning of t.
Leads(s, t) == Len(s) <= Len(t) /\ \A i \in 1 .. Len(s) : s[i] = t[i]

AnyKey == {s.key : s \in Spellings} \cup [code : Int, mods : SUBSET Mods]

\* The keys that are handled, and the one that main() is about to handle.
Told == IF kbd.v.code > 0 THEN Append(handled, kbd.v) ELSE handled

InOrder(F) ==
  /\ (pc = "getkey" /\ kbd.waitdata /\ Drained(kbd) /\ tty = <<>>) => wire = <<>>
  /\ Leads(Told, typed)
  /\ EscLast(typed, Len(Told))
  /\ Understood(kbd, F, Ahead(kbd, tty \o wire), typed, Len(Told))

OrderInv(F) ==
  /\ typed \in Seq(AnyKey) /\ handled \in Seq(AnyKey) /\ Leads(handled, typed)
  /\ pc \notin {"act", "exit"} => kbd.v.code <= 0
  /\ clear => InOrder(F)

LEMMA LeadsIsPrefix ==
  ASSUME NEW K, NEW s \in Seq(K), NEW t \in Seq(K), Leads(s, t)
  PROVE  IsPrefix(s, t)
<1>1. Len(s) \in Nat /\ Len(t) \in Nat /\ Len(s) <= Len(t)
  BY DEF Leads
<1>2. SubSeq(s, 1, Len(s)) = SubSeq(t, 1, Len(s))
  BY <1>1 DEF Leads
<1> QED BY <1>1, <1>2 DEF IsPrefix

LEMMA OneMore ==
  ASSUME NEW K, NEW s \in Seq(K), NEW x \in K
  PROVE  /\ Append(s, x) \in Seq(K) /\ Len(Append(s, x)) = Len(s) + 1
         /\ \A i \in 1 .. Len(s) : Append(s, x)[i] = s[i]
         /\ Append(s, x)[Len(s) + 1] = x
OBVIOUS

LEMMA DecoderGivesKeys ==
  ASSUME NEW k \in Decoder PROVE k.v \in AnyKey /\ k.v.code \in Int
BY DEF Decoder, AnyKey

\* Nothing but the bytes of the buffer and the value has changed.
LEMMA StillUnderstood ==
  ASSUME NEW k, NEW n, NEW F, NEW S, NEW t, NEW d,
         n.p = k.p, n.state = k.state, n.delf = k.delf, \A r : Like(k, r) => Like(n, r),
         Understood(k, F, S, t, d)
  PROVE  Understood(n, F, S, t, d)
<1>1. PICK sp, cut :
        /\ Divided(S, t, d, sp, cut)
        /\ \/ Between(k, F)
           \/ d < Len(t) /\ cut[d] = 0 /\ Within(k, sp[d + 1], F)
  BY Zenon DEF Understood
<1>2. Between(k, F) => Between(n, F)
  BY DEF Between
<1>3. \A s : Within(k, s, F) => Within(n, s, F)
  BY DEF Within
<1>4. \/ Between(n, F)
      \/ d < Len(t) /\ cut[d] = 0 /\ Within(n, sp[d + 1], F)
  BY <1>1, <1>2, <1>3
<1> QED BY <1>1, <1>4, Zenon DEF Understood

LEMMA OtherValue ==
  ASSUME NEW k \in Decoder, NEW x
  PROVE  LET n == [k EXCEPT !.v = x]
         IN  /\ n.p = k.p /\ n.state = k.state /\ n.delf = k.delf /\ n.v = x
             /\ n.waitdata = k.waitdata /\ n.buf = k.buf
             /\ \A r : Like(k, r) => Like(n, r)
<1> DEFINE n == [k EXCEPT !.v = x]
<1>1. /\ n.p = k.p /\ n.state = k.state /\ n.delf = k.delf /\ n.v = x
      /\ n.waitdata = k.waitdata /\ n.buf = k.buf
  BY DEF Decoder
<1>2. \A r : Like(k, r) => Like(n, r)
  BY DEF Like, Fields
<1> QED BY <1>1, <1>2

LEMMA OtherBuffer ==
  ASSUME NEW k \in Decoder, NEW x
  PROVE  LET n == [k EXCEPT !.buf = x]
         IN  /\ n.p = k.p /\ n.state = k.state /\ n.delf = k.delf /\ n.v = k.v
             /\ n.waitdata = k.waitdata /\ n.buf = x
             /\ \A r : Like(k, r) => Like(n, r)
<1> DEFINE n == [k EXCEPT !.buf = x]
<1>1. /\ n.p = k.p /\ n.state = k.state /\ n.delf = k.delf /\ n.v = k.v
      /\ n.waitdata = k.waitdata /\ n.buf = x
  BY DEF Decoder
<1>2. \A r : Like(k, r) => Like(n, r)
  BY DEF Like, Fields
<1> QED BY <1>1, <1>2

-----------------------------------------------------------------------------
LEMMA OrderSilent ==
  ASSUME NEW F, OrderInv(F), UNCHANGED <<wire, tty, kbd, typed, handled>>,
         clear' => clear,
         pc' \notin {"act", "exit"} => pc \notin {"act", "exit"},
         pc' = "getkey" => pc = "getkey" \/ tty # <<>> \/ (clear' => wire = <<>>)
  PROVE  OrderInv(F)'
<1>1. /\ wire' = wire /\ tty' = tty /\ kbd' = kbd /\ typed' = typed /\ handled' = handled
      /\ Told' = Told
  BY DEF Told
<1>2. clear' => InOrder(F)'
  <2> SUFFICES ASSUME clear' PROVE InOrder(F)'
    OBVIOUS
  <2>1. InOrder(F)
    BY DEF OrderInv
  <2>2. (pc' = "getkey" /\ kbd.waitdata /\ Drained(kbd) /\ tty = <<>>) => wire = <<>>
    BY <2>1 DEF InOrder
  <2> QED BY <1>1, <2>1, <2>2 DEF InOrder
<1> QED BY <1>1, <1>2 DEF OrderInv

LEMMA OrderHandleKey ==
  ASSUME NEW F, OrderInv(F), kbd \in Decoder, HandleKey
  PROVE  OrderInv(F)'
<1> DEFINE none == Plain(KBD_NOKEY)
<1>1. /\ kbd' = [kbd EXCEPT !.v = none] /\ wire' = wire /\ tty' = tty /\ typed' = typed
      /\ clear' = clear /\ pc' # "getkey"
      /\ handled' = IF clear /\ kbd.v.code > 0 THEN Append(handled, kbd.v) ELSE handled
  BY DEF HandleKey, terminalVars, prg_exit
<1>2. none.code = 0
  BY DEF Plain, Key, KBD_NOKEY
<1> HIDE DEF none
<1>3. /\ kbd'.p = kbd.p /\ kbd'.state = kbd.state /\ kbd'.delf = kbd.delf /\ kbd'.v = none
      /\ kbd'.waitdata = kbd.waitdata /\ kbd'.buf = kbd.buf
      /\ \A r : Like(kbd, r) => Like(kbd', r)
  BY <1>1, OtherValue
<1>4. kbd'.v.code <= 0 /\ ~(kbd'.v.code > 0)
  BY <1>2, <1>3
<1>5. Told' = handled'
  BY <1>4 DEF Told
<1>6. clear => handled' = Told
  BY <1>1 DEF Told
<1>7. handled' \in Seq(AnyKey)
  BY <1>1, DecoderGivesKeys, OneMore DEF OrderInv
<1>8. clear => InOrder(F)
  BY DEF OrderInv
<1>9. Leads(handled', typed')
  BY <1>1, <1>6, <1>8 DEF InOrder, OrderInv
<1>10. clear => InOrder(F)'
  <2> SUFFICES ASSUME clear PROVE InOrder(F)'
    OBVIOUS
  <2>1. Told' = Told
    BY <1>5, <1>6
  <2>2. Ahead(kbd, tty \o wire)' = Ahead(kbd, tty \o wire)
    BY <1>1, <1>3 DEF Ahead
  <2>3. Understood(kbd, F, Ahead(kbd, tty \o wire), typed, Len(Told))
    BY <1>8 DEF InOrder
  <2>4. Understood(kbd', F, Ahead(kbd, tty \o wire), typed, Len(Told))
    BY <1>3, <2>3, StillUnderstood
  <2>5. Understood(kbd', F, Ahead(kbd, tty \o wire)', typed', Len(Told)')
    BY <1>1, <2>1, <2>2, <2>4
  <2> QED BY <1>1, <1>8, <2>1, <2>5 DEF InOrder
<1> QED BY <1>1, <1>4, <1>7, <1>9, <1>10 DEF OrderInv

\* The numbers of keys
LEMMA Counts ==
  ASSUME NEW F, OrderInv(F)
  PROVE  /\ Len(typed) \in Nat /\ Len(handled) \in 0 .. Len(typed)
         /\ (clear /\ kbd.v.code <= 0 /\ kbd \in Decoder) => Told = handled
<1>1. typed \in Seq(AnyKey) /\ handled \in Seq(AnyKey) /\ Len(handled) <= Len(typed)
  BY DEF OrderInv, Leads
<1>2. Len(typed) \in Nat /\ Len(handled) \in Nat
  BY <1>1
<1>3. ASSUME kbd.v.code <= 0, kbd \in Decoder PROVE Told = handled
  <2>1. kbd.v.code \in Int
    BY <1>3, DecoderGivesKeys
  <2>2. ~(kbd.v.code > 0)
    BY <1>3, <2>1
  <2> QED BY <2>2 DEF Told
<1> QED BY <1>1, <1>2, <1>3

LEMMA ToldCount ==
  ASSUME NEW F, OrderInv(F), clear, kbd \in Decoder
  PROVE  /\ Told \in Seq(AnyKey) /\ Len(Told) \in Nat /\ Len(Told) \in 0 .. Len(typed)
         /\ Len(handled) <= Len(Told)
<1>1. typed \in Seq(AnyKey) /\ handled \in Seq(AnyKey) /\ Leads(Told, typed)
  BY DEF OrderInv, InOrder
<1>2. Append(handled, kbd.v) \in Seq(AnyKey) /\ Len(Append(handled, kbd.v)) = Len(handled) + 1
  BY <1>1, DecoderGivesKeys, OneMore
<1>3. Told \in Seq(AnyKey) /\ Len(handled) \in Nat /\ Len(Told) \in {Len(handled), Len(handled) + 1}
  BY <1>1, <1>2 DEF Told
<1>4. Len(Told) \in Nat /\ Len(handled) <= Len(Told)
  BY <1>3
<1>5. Len(Told) <= Len(typed) /\ Len(typed) \in Nat
  BY <1>1 DEF Leads
<1> QED BY <1>3, <1>4, <1>5

\* The decoder has been given a byte, or none.
LEMMA KeyGiven ==
  ASSUME NEW F, OrderInv(F), kbd \in Decoder, kbd.v.code <= 0, clear,
         TakesOn(kbd', F, tty \o wire, typed, Len(handled)),
         tty' = tty, wire' = wire, typed' = typed, handled' = handled, kbd' \in Decoder,
         pc' = "getkey" => (kbd'.waitdata => ~Drained(kbd'))
  PROVE  InOrder(F)'
<1> DEFINE d == Len(handled)
<1>1. /\ Len(typed) \in Nat /\ d \in 0 .. Len(typed) /\ Told = handled
      /\ typed \in Seq(AnyKey) /\ handled \in Seq(AnyKey) /\ Leads(handled, typed)
  BY Counts DEF OrderInv
<1>2. InOrder(F)
  BY DEF OrderInv
<1>3. EscLast(typed, d)
  BY <1>1, <1>2 DEF InOrder
<1>4. Ahead(kbd, tty \o wire)' = Ahead(kbd', tty \o wire)
  BY DEF Ahead
<1>5. (pc' = "getkey" /\ kbd'.waitdata /\ Drained(kbd)' /\ tty' = <<>>) => wire' = <<>>
  BY DEF Drained
<1>6. kbd'.v.code \in Int /\ kbd'.v \in AnyKey
  BY DecoderGivesKeys
<1>7. CASE kbd'.v.code <= 0 /\ Understood(kbd', F, Ahead(kbd', tty \o wire), typed, d)
  <2>1. Told' = handled
    <3>1. ~(kbd'.v.code > 0)
      BY <1>6, <1>7
    <3> QED BY <3>1 DEF Told
  <2>2. Understood(kbd', F, Ahead(kbd, tty \o wire)', typed', Len(Told)')
    BY <1>4, <1>7, <2>1
  <2> QED BY <1>1, <1>3, <1>5, <2>1, <2>2 DEF InOrder
<1>8. CASE /\ d < Len(typed) /\ kbd'.v = typed[d + 1] /\ kbd'.v.code > 0
           /\ Understood(kbd', F, Ahead(kbd', tty \o wire), typed, d + 1)
  <2>1. Told' = Append(handled, kbd'.v)
    BY <1>8 DEF Told
  <2>2. /\ Len(Told') = d + 1 /\ \A i \in 1 .. d : Told'[i] = handled[i]
        /\ Told'[d + 1] = kbd'.v
    BY <1>1, <1>6, <2>1, OneMore
  <2>3. Leads(Told', typed)
    <3>1. \A i \in 1 .. d : handled[i] = typed[i]
      BY <1>1 DEF Leads
    <3>2. d + 1 <= Len(typed) /\ \A i \in 1 .. d + 1 : i \in 1 .. d \/ i = d + 1
      BY <1>1, <1>8
    <3>3. \A i \in 1 .. d + 1 : Told'[i] = typed[i]
      BY <1>8, <2>2, <3>1, <3>2
    <3> HIDE DEF d
    <3> QED BY <2>2, <3>2, <3>3 DEF Leads
  <2>4. EscLast(typed, d + 1)
    <3> SUFFICES ASSUME NEW i \in d + 1 + 1 .. Len(typed), typed[i] = Plain(KBD_ESC)
                 PROVE  FALSE
      BY DEF EscLast
    <3>1. i \in d + 1 .. Len(typed) /\ i # d + 1
      BY <1>1
    <3> QED BY <1>3, <3>1 DEF EscLast
  <2>5. Understood(kbd', F, Ahead(kbd, tty \o wire)', typed', Len(Told)')
    <3> HIDE DEF d
    <3> QED BY <1>4, <1>8, <2>2
  <2>6. Leads(Told, typed)' /\ EscLast(typed, Len(Told))'
    <3>1. Len(Told)' = d + 1
      BY <2>2
    <3> HIDE DEF d
    <3>2. EscLast(typed', Len(Told)')
      BY <2>4, <3>1
    <3> QED BY <2>3, <3>2
  <2> QED BY <1>5, <2>5, <2>6 DEF InOrder
<1> QED BY <1>7, <1>8 DEF TakesOn

\* What is typed when the bytes have been moved between the terminal and the buffer.
LEMMA StreamMoved ==
  ASSUME NEW b \in Seq(Char), NEW a \in Seq(Char), NEW w \in Seq(Char), NEW n \in 0 .. Len(b)
  PROVE  (a \o SubSeq(b, 1, n)) \o (SubSeq(b, n + 1, Len(b)) \o w) = a \o (b \o w)
<1> DEFINE x == SubSeq(b, 1, n)
           y == SubSeq(b, n + 1, Len(b))
<1>1. x \in Seq(Char) /\ y \in Seq(Char)
  BY Parts
<1>2. x \o y = b
  BY SplitAnywhere
<1>3. (a \o x) \o y = a \o b
  BY MovedOn
<1> HIDE DEF x, y
<1>4. a \o x \in Seq(Char) /\ y \o w \in Seq(Char)
  BY <1>1, Concatenated
<1>5. (a \o x) \o (y \o w) = ((a \o x) \o y) \o w
  <2> DEFINE z == a \o x
  <2>1. z \in Seq(Char)
    BY <1>4
  <2> HIDE DEF z
  <2>2. (z \o y) \o w = z \o (y \o w)
    BY <1>1, <2>1, Regrouped
  <2> QED BY <2>2 DEF z
<1>6. (a \o b) \o w = a \o (b \o w)
  BY Regrouped
<1> QED BY <1>3, <1>5, <1>6 DEF x, y

LEMMA OrderArrive ==
  ASSUME NEW F, OrderInv(F), InputInv, Arrive
  PROVE  OrderInv(F)'
<1>1. /\ kbd' = kbd /\ typed' = typed /\ handled' = handled /\ clear' = clear /\ pc' = pc
      /\ Told' = Told
  BY DEF Arrive, Told
<1>2. PICK n \in 1 .. Len(wire) : /\ tty' = tty \o SubSeq(wire, 1, n)
                                  /\ wire' = SubSeq(wire, n + 1, Len(wire))
  BY DEF Arrive
<1>3. wire \in Seq(Char) /\ tty \in Seq(Char) /\ n \in 0 .. Len(wire)
  BY DEF InputInv
<1>4. tty' \o wire' = tty \o wire
  BY <1>2, <1>3, MovedOn
<1>5. tty' # <<>>
  <2> DEFINE x == SubSeq(wire, 1, n)
  <2>1. x \in Seq(Char) /\ Len(x) = n
    BY <1>3, Parts
  <2> HIDE DEF x
  <2>2. Len(tty \o x) = Len(tty) + n
    BY <1>3, <2>1, Concatenated
  <2>3. Len(tty) \in Nat /\ n > 0
    BY <1>3
  <2>4. Len(tty \o x) # 0
    BY <2>2, <2>3
  <2> QED BY <1>2, <2>4 DEF x
<1>6. clear => InOrder(F)'
  <2> SUFFICES ASSUME clear PROVE InOrder(F)'
    OBVIOUS
  <2>1. InOrder(F)
    BY DEF OrderInv
  <2>2. Ahead(kbd, tty \o wire)' = Ahead(kbd, tty \o wire)
    BY <1>1, <1>4
  <2> QED BY <1>1, <1>5, <2>1, <2>2 DEF InOrder
<1> QED BY <1>1, <1>6 DEF OrderInv

LEMMA OrderReadBytes ==
  ASSUME NEW F, OrderInv(F), InputInv, ReadBytes
  PROVE  OrderInv(F)'
<1> DEFINE room == BufSize - kbd.p
           n == IF Len(tty) < room THEN Len(tty) ELSE room
           buf == kbd.buf \o SubSeq(tty, 1, n)
<1>1. /\ Drained(kbd) /\ n > 0 /\ kbd' = [kbd EXCEPT !.buf = buf]
      /\ tty' = SubSeq(tty, n + 1, Len(tty)) /\ wire' = wire
      /\ typed' = typed /\ handled' = handled /\ clear' = clear /\ pc' = pc
  BY DEF ReadBytes
<1>2. /\ kbd \in Decoder /\ kbd.buf \in Seq(Char) /\ tty \in Seq(Char) /\ wire \in Seq(Char)
      /\ kbd.p = Len(kbd.buf) /\ kbd.p \in Nat
  <2>1. kbd \in Decoder
    BY DEF InputInv, DecoderInv
  <2> QED BY <1>1, <2>1 DEF InputInv, Decoder, Drained
<1>3. n \in 0 .. Len(tty) /\ n \in Nat
  <2>1. Len(tty) \in Nat /\ BufSize \in Nat
    BY <1>2, BufSizeAssumption
  <2> QED BY <1>1, <1>2, <2>1
<1> HIDE DEF n
<1>4. (kbd.buf \o SubSeq(tty, 1, n)) \o (SubSeq(tty, n + 1, Len(tty)) \o wire)
        = kbd.buf \o (tty \o wire)
  <2> DEFINE a == kbd.buf
  <2>1. a \in Seq(Char)
    BY <1>2
  <2> HIDE DEF a
  <2>2. (a \o SubSeq(tty, 1, n)) \o (SubSeq(tty, n + 1, Len(tty)) \o wire) = a \o (tty \o wire)
    BY <1>2, <1>3, <2>1, StreamMoved
  <2> QED BY <2>2 DEF a
<1>5. Len(buf) = kbd.p + n
  <2> DEFINE x == SubSeq(tty, 1, n)
  <2>1. x \in Seq(Char) /\ Len(x) = n
    BY <1>2, <1>3, Parts
  <2> HIDE DEF x
  <2>2. Len(kbd.buf \o x) = kbd.p + n
    BY <1>2, <2>1, Concatenated
  <2> QED BY <2>2 DEF x
<1>6. /\ kbd'.p = kbd.p /\ kbd'.state = kbd.state /\ kbd'.delf = kbd.delf /\ kbd'.v = kbd.v
      /\ kbd'.buf = buf /\ \A r : Like(kbd, r) => Like(kbd', r)
  <2> HIDE DEF buf
  <2> QED BY <1>1, <1>2, OtherBuffer
<1>7. Ahead(kbd, tty \o wire)' = Ahead(kbd, tty \o wire)
  <2>1. Ahead(kbd, tty \o wire)' = buf \o (SubSeq(tty, n + 1, Len(tty)) \o wire)
    <3> HIDE DEF buf
    <3> QED BY <1>1, <1>6 DEF Ahead
  <2> QED BY <1>4, <2>1 DEF Ahead
<1>8. ~Drained(kbd)'
  <2> HIDE DEF buf
  <2>1. kbd'.p # Len(kbd'.buf)
    BY <1>1, <1>2, <1>3, <1>5, <1>6
  <2> QED BY <2>1 DEF Drained
<1> HIDE DEF buf
<1>9. Told' = Told
  BY <1>1, <1>6 DEF Told
<1>10. clear => InOrder(F)'
  <2> SUFFICES ASSUME clear PROVE InOrder(F)'
    OBVIOUS
  <2>1. InOrder(F)
    BY DEF OrderInv
  <2>2. Understood(kbd, F, Ahead(kbd, tty \o wire), typed, Len(Told))
    BY <2>1 DEF InOrder
  <2>3. Understood(kbd', F, Ahead(kbd, tty \o wire), typed, Len(Told))
    BY <1>6, <2>2, StillUnderstood
  <2>4. Understood(kbd', F, Ahead(kbd, tty \o wire)', typed', Len(Told)')
    BY <1>1, <1>7, <1>9, <2>3
  <2> QED BY <1>1, <1>8, <1>9, <2>1, <2>4 DEF InOrder
<1> QED BY <1>1, <1>6, <1>10 DEF OrderInv

LEMMA OrderPressKey ==
  ASSUME NEW F, OrderInv(F), InputInv, NEW s \in Spellings, PressKey(s)
  PROVE  OrderInv(F)'
<1>1. /\ kbd' = kbd /\ handled' = handled /\ pc' = pc /\ wire = <<>>
      /\ typed' = Append(typed, s.key) /\ Told' = Told
      /\ clear' = (clear /\ (Answered \/ \A k \in {s.key, Last(typed)} : k # Plain(KBD_ESC)))
  BY DEF PressKey, Told
<1>2. PICK n \in 1 .. Len(s.bytes) : /\ tty' = tty \o SubSeq(s.bytes, 1, n)
                                     /\ wire' = SubSeq(s.bytes, n + 1, Len(s.bytes))
  BY DEF PressKey
<1>3. /\ tty \in Seq(Char) /\ kbd \in Decoder /\ kbd.buf \in Seq(Char)
      /\ s.bytes \in Seq(Char) /\ n \in 0 .. Len(s.bytes)
  <2>1. kbd \in Decoder
    BY DEF InputInv, DecoderInv
  <2> QED BY <2>1, BytesOf DEF InputInv, Decoder
<1>4. s.key \in AnyKey
  BY DEF AnyKey
<1>5. typed \in Seq(AnyKey) /\ handled \in Seq(AnyKey) /\ Leads(handled, typed)
  BY DEF OrderInv
<1>6. /\ typed' \in Seq(AnyKey) /\ Len(typed') = Len(typed) + 1 /\ Len(typed) \in Nat
      /\ \A i \in 1 .. Len(typed) : typed'[i] = typed[i]
      /\ typed'[Len(typed) + 1] = s.key
  BY <1>1, <1>4, <1>5, OneMore
<1>7. \A q \in Seq(AnyKey) : Leads(q, typed) => Leads(q, typed')
  <2> SUFFICES ASSUME NEW q \in Seq(AnyKey), Leads(q, typed) PROVE Leads(q, typed')
    OBVIOUS
  <2>1. Len(q) \in Nat /\ Len(q) <= Len(typed)
    BY DEF Leads
  <2>2. \A i \in 1 .. Len(q) : i \in 1 .. Len(typed)
    BY <1>6, <2>1
  <2> QED BY <1>6, <2>1, <2>2 DEF Leads
<1>8. clear' => InOrder(F)'
  <2> SUFFICES ASSUME clear' PROVE InOrder(F)'
    OBVIOUS
  <2> DEFINE d == Len(Told)
             S == Ahead(kbd, tty \o wire)
  <2>1. clear /\ InOrder(F)
    BY <1>1 DEF OrderInv
  <2>2. Told \in Seq(AnyKey) /\ d \in 0 .. Len(typed) /\ d \in Nat /\ Len(handled) <= d
    BY <1>3, <2>1, ToldCount
  <2>3. Leads(Told', typed')
    BY <1>1, <1>7, <2>1, <2>2 DEF InOrder
  <2>4. tty' # <<>>
    <3> DEFINE x == SubSeq(s.bytes, 1, n)
    <3>1. x \in Seq(Char) /\ Len(x) = n
      BY <1>3, Parts
    <3>5. tty' = tty \o x
      BY <1>2
    <3> HIDE DEF x
    <3>2. Len(tty \o x) = Len(tty) + n
      BY <1>3, <3>1, Concatenated
    <3>3. Len(tty) \in Nat /\ n \in Nat /\ n > 0
      BY <1>2, <1>3
    <3>4. Len(tty') # 0
      BY <3>2, <3>3, <3>5
    <3> QED BY <3>4
  <2>5. EscLast(typed, d)
    BY <2>1 DEF InOrder
  <2>6. EscLast(typed', d)
    <3> SUFFICES ASSUME NEW i \in d + 1 .. Len(typed'), typed'[i] = Plain(KBD_ESC)
                 PROVE  i = Len(typed') /\ i = d + 1
      BY DEF EscLast
    <3>1. CASE Answered
      <4>1. d = Len(typed)
        BY <1>6, <2>2, <3>1 DEF Answered
      <4> HIDE DEF d
      <4> QED BY <1>6, <4>1
    <3>2. CASE s.key # Plain(KBD_ESC) /\ Last(typed) # Plain(KBD_ESC)
      <4>1. i # Len(typed) + 1
        BY <1>6, <3>2
      <4>2. i \in d + 1 .. Len(typed) /\ i \in 1 .. Len(typed)
        BY <1>6, <2>2, <4>1
      <4>3. i = Len(typed)
        BY <1>6, <2>5, <4>2 DEF EscLast
      <4> QED BY <1>6, <3>2, <4>2, <4>3 DEF Last
    <3>3. Answered \/ (s.key # Plain(KBD_ESC) /\ Last(typed) # Plain(KBD_ESC))
      BY <1>1
    <3> QED BY <3>1, <3>2, <3>3
  <2>7. Ahead(kbd, tty \o wire)' = S \o s.bytes /\ S \in Seq(Char)
    <3>1. tty' \o wire' = tty \o s.bytes
      BY <1>2, <1>3, MovedOn
    <3>2. tty \o wire = tty
      BY <1>1, <1>3
    <3>3. (kbd.buf \o tty) \o s.bytes = kbd.buf \o (tty \o s.bytes)
      BY <1>3, Regrouped
    <3>4. Ahead(kbd, tty \o wire)' = kbd.buf \o (tty \o s.bytes)
      BY <1>1, <3>1 DEF Ahead
    <3>5. S = kbd.buf \o tty
      BY <3>2 DEF Ahead
    <3>6. kbd.buf \o tty \in Seq(Char)
      BY <1>3, Concatenated
    <3> HIDE DEF S
    <3> QED BY <3>3, <3>4, <3>5, <3>6
  <2> HIDE DEF S, d
  <2>8. PICK sp, cut :
          /\ Divided(S, typed, d, sp, cut)
          /\ \/ Between(kbd, F)
             \/ d < Len(typed) /\ cut[d] = 0 /\ Within(kbd, sp[d + 1], F)
    BY <2>1, Zenon DEF Understood, InOrder, S, d
  <2>9. PICK sq, cu : /\ Divided(S \o s.bytes, typed', d, sq, cu)
                      /\ cu[d] = cut[d]
                      /\ d < Len(typed) => sq[d + 1] = sp[d + 1]
    <3>1. typed'[Len(typed')] = s.key
      BY <1>6
    <3>2. Divided(S, typed, d, sp, cut)
      BY <2>8
    <3> DEFINE u == typed'
    <3>3. Len(u) = Len(typed) + 1 /\ (\A i \in 1 .. Len(typed) : u[i] = typed[i]) /\ u[Len(u)] = s.key
      BY <1>6, <3>1
    <3> HIDE DEF u
    <3>4. Extended(S \o s.bytes, u, typed, d, sp, cut)
      BY <1>6, <2>2, <2>7, <3>2, <3>3, KeyAdded
    <3> QED BY <3>4 DEF u, Extended
  <2>10. \/ Between(kbd, F)
         \/ d < Len(typed') /\ cu[d] = 0 /\ Within(kbd, sq[d + 1], F)
    <3>1. d < Len(typed) => d < Len(typed')
      BY <1>6, <2>2
    <3> QED BY <2>8, <2>9, <3>1
  <2>11. Understood(kbd, F, S \o s.bytes, typed', d)
    BY <2>9, <2>10, Zenon DEF Understood
  <2>12. Understood(kbd', F, Ahead(kbd, tty \o wire)', typed', Len(Told)')
    BY <1>1, <2>7, <2>11 DEF d
  <2>13. EscLast(typed', Len(Told)')
    BY <1>1, <2>6 DEF d
  <2> QED BY <2>3, <2>4, <2>12, <2>13 DEF InOrder
<1>9. pc' \notin {"act", "exit"} => kbd'.v.code <= 0
  BY <1>1 DEF OrderInv
<1> QED BY <1>1, <1>5, <1>6, <1>7, <1>8, <1>9 DEF OrderInv

LEMMA MoreOrAct ==
  ASSUME NEW x, Returned \in {"sleep", "act"}, kbd'.v.code \in Int,
         pc' = IF x THEN "getkey" ELSE Returned, x => kbd'.v.code <= 0
  PROVE  pc' \notin {"act", "exit"} => kbd'.v.code <= 0
BY DEF Returned, KBD_MORE

LEMMA Returns == Returned \in {"sleep", "act"}
BY DEF Returned

\* A byte, or none, has been given to the decoder u.
LEMMA OrderFed ==
  ASSUME NEW F, OrderInv(F), InputInv, pc = "getkey", NEW u, NEW c, Fed(u, c),
         kbd' = Feed(u, c), pc' = IF Again(kbd') THEN "getkey" ELSE Returned,
         tty' = tty, wire' = wire, typed' = typed, handled' = handled, clear' = clear,
         clear => TakesOn(Feed(u, c), F, tty \o wire, typed, Len(handled))
  PROVE  OrderInv(F)'
<1>1. kbd \in Decoder /\ kbd.v.code <= 0
  BY DEF InputInv, DecoderInv, OrderInv
<1>2. kbd' \in Decoder
  BY FeedInv DEF Fed, DecoderInv
<1>3. kbd'.v.code \in Int
  BY <1>2, DecoderGivesKeys
<1>4. Again(kbd') => kbd'.v.code <= 0 /\ (kbd'.waitdata => ~Drained(kbd'))
  BY GoesOn
<1>5. pc' \notin {"act", "exit"} => kbd'.v.code <= 0
  BY <1>3, <1>4, Returns, MoreOrAct
<1>6. pc' = "getkey" => (kbd'.waitdata => ~Drained(kbd'))
  BY <1>4, Returns
<1>7. clear' => InOrder(F)'
  BY <1>1, <1>2, <1>6, KeyGiven
<1> QED BY <1>5, <1>7 DEF OrderInv

\* What the decoder is doing.
LEMMA Doing ==
  ASSUME NEW F, OrderInv(F), kbd \in Decoder, kbd.v.code <= 0, clear
  PROVE  /\ Len(typed) \in Nat /\ Len(handled) \in 0 .. Len(typed)
         /\ EscLast(typed, Len(handled))
         /\ Understood(kbd, F, Ahead(kbd, tty \o wire), typed, Len(handled))
         /\ (pc = "getkey" /\ kbd.waitdata /\ Drained(kbd) /\ tty = <<>>) => wire = <<>>
<1>1. Len(typed) \in Nat /\ Len(handled) \in 0 .. Len(typed) /\ Told = handled
  BY Counts
<1>2. InOrder(F)
  BY DEF OrderInv
<1> QED BY <1>1, <1>2 DEF InOrder

LEMMA OrderNextByte ==
  ASSUME NEW F, F \subseteq BOOLEAN, Distinct(F), OrderInv(F), InputInv, NextByte
  PROVE  OrderInv(F)'
<1> DEFINE u == Onward(kbd)
           c == kbd.buf[kbd.p + 1]
           tl == tty \o wire
           d == Len(handled)
<1>1. /\ ~Drained(kbd) /\ pc = "getkey" /\ kbd' = Feed(u, c)
      /\ pc' = IF Again(kbd') THEN "getkey" ELSE Returned
      /\ tty' = tty /\ wire' = wire /\ typed' = typed /\ handled' = handled /\ clear' = clear
  BY DEF NextByte, terminalVars, Onward
<1>2. /\ kbd \in Decoder /\ kbd.p \in Nat /\ kbd.buf \in Seq(Char)
      /\ Len(kbd.buf) \in Nat /\ kbd.p < Len(kbd.buf) /\ tl \in Seq(Char)
  <2>1. kbd \in Decoder /\ kbd.p <= Len(kbd.buf) /\ tl \in Seq(Char)
    BY Concatenated DEF InputInv, DecoderInv
  <2>2. kbd.p \in Nat /\ kbd.buf \in Seq(Char)
    BY <2>1 DEF Decoder
  <2>3. Len(kbd.buf) \in Nat /\ kbd.p # Len(kbd.buf)
    BY <1>1, <2>2 DEF Drained
  <2> QED BY <2>1, <2>2, <2>3
<1>3. kbd.p + 1 \in 1 .. Len(kbd.buf)
  BY <1>2
<1>4. c \in Char /\ c # KBD_MORE
  <2>1. c \in Char
    BY <1>2, <1>3, ElementOf
  <2> HIDE DEF c
  <2> QED BY <2>1 DEF Char, KBD_MORE
<1>5. u \in Decoder /\ u.buf = kbd.buf /\ u.p = kbd.p + 1
  BY <1>2, OnwardFields
<1>6. u.state = kbd.state /\ u.arg = kbd.arg /\ u.waitdata = kbd.waitdata
  <2> DEFINE p == kbd.p + 1
  <2>1. u = [kbd EXCEPT !.p = p]
    BY DEF Onward
  <2> HIDE DEF p, u
  <2> QED BY <1>2, <2>1 DEF Decoder
<1> HIDE DEF u, c, tl
<1>7. Fed(u, c)
  <2>1. ArgsFit(u)
    BY <1>6 DEF InputInv, DecoderInv, ArgsFit
  <2>2. u.waitdata => u.state # "start"
    BY <1>6 DEF InputInv, DecoderInv
  <2> QED BY <1>3, <1>4, <1>5, <2>1, <2>2 DEF Fed
<1>8. kbd.v.code <= 0
  BY <1>1 DEF OrderInv
<1>9. ASSUME clear PROVE TakesOn(Feed(u, c), F, tl, typed, d)
  <2>1. /\ Len(typed) \in Nat /\ d \in 0 .. Len(typed) /\ EscLast(typed, d)
        /\ Understood(kbd, F, Ahead(kbd, tl), typed, d)
    BY <1>2, <1>8, <1>9, Doing DEF tl
  <2> HIDE DEF d
  <2>2. u = Onward(kbd) /\ kbd.buf[kbd.p + 1] = c
    BY DEF u, c
  <2> QED BY <1>2, <1>7, <2>1, <2>2, ByteUnderstood
<1> QED BY <1>1, <1>7, <1>9, OrderFed DEF tl

LEMMA OrderNoByte ==
  ASSUME NEW F, Distinct(F), OrderInv(F), InputInv, NoByte
  PROVE  OrderInv(F)'
<1> DEFINE tl == tty \o wire
           d == Len(handled)
<1>1. /\ Drained(kbd) /\ pc = "getkey" /\ (tty = <<>> \/ kbd.p = BufSize)
      /\ tty' = tty /\ wire' = wire /\ typed' = typed /\ handled' = handled /\ clear' = clear
  BY DEF NoByte, terminalVars
<1>2. /\ kbd \in Decoder /\ kbd.p \in Nat /\ Len(kbd.buf) \in Nat
      /\ kbd.p = Len(kbd.buf) /\ ArgsFit(kbd)
      /\ kbd.waitdata => kbd.state # "start"
      /\ kbd.state = "start" <=> kbd.p = 0
      /\ tl \in Seq(Char)
  BY <1>1, Concatenated DEF InputInv, DecoderInv, Decoder, Drained
<1>3. kbd.v.code <= 0
  BY <1>1 DEF OrderInv
<1>4. clear => /\ Len(typed) \in Nat /\ d \in 0 .. Len(typed)
               /\ Understood(kbd, F, Ahead(kbd, tl), typed, d)
               /\ (kbd.waitdata /\ tty = <<>>) => wire = <<>>
  BY <1>1, <1>2, <1>3, Doing
<1>5. CASE kbd.waitdata \/ kbd.p = BufSize
  <2>1. kbd' = Feed(kbd, KBD_MORE) /\ pc' = IF Again(kbd') THEN "getkey" ELSE Returned
    BY <1>5 DEF NoByte
  <2>2. kbd.state # "start"
    BY <1>1, <1>5, SequenceBegun DEF MoreInSequence
  <2>3. Fed(kbd, KBD_MORE)
    <3>1. kbd.p \in 1 .. Len(kbd.buf)
      BY <1>2, <2>2
    <3> QED BY <1>2, <2>2, <3>1 DEF Fed
  <2>4. ASSUME clear PROVE TakesOn(Feed(kbd, KBD_MORE), F, tl, typed, d)
    <3>1. tl = <<>> \/ kbd.p = BufSize
      <4>1. CASE kbd.p = BufSize
        BY <4>1
      <4>2. CASE kbd.p # BufSize
        <5>1. tty = <<>> /\ wire = <<>>
          BY <1>1, <1>4, <1>5, <2>4, <4>2
        <5> QED BY <5>1
      <4> QED BY <4>1, <4>2
    <3> HIDE DEF tl, d
    <3> QED BY <1>2, <1>4, <2>3, <2>4, <3>1, NoByteUnderstood
  <2> QED BY <1>1, <2>1, <2>3, <2>4, OrderFed
<1>6. CASE ~(kbd.waitdata \/ kbd.p = BufSize)
  <2> DEFINE none == Plain(KBD_NOKEY)
  <2>1. kbd' = [kbd EXCEPT !.v = none] /\ pc' = Returned
    BY <1>6 DEF NoByte
  <2>2. none.code = 0
    BY DEF Plain, Key, KBD_NOKEY
  <2> HIDE DEF none
  <2>3. /\ kbd'.p = kbd.p /\ kbd'.state = kbd.state /\ kbd'.delf = kbd.delf /\ kbd'.v = none
        /\ kbd'.buf = kbd.buf
        /\ \A r : Like(kbd, r) => Like(kbd', r)
    BY <1>2, <2>1, OtherValue
  <2>4. kbd'.v.code <= 0 /\ ~(kbd'.v.code > 0)
    BY <2>2, <2>3
  <2>5. pc' # "getkey"
    BY <2>1, Returns
  <2>6. clear => InOrder(F)'
    <3> SUFFICES ASSUME clear PROVE InOrder(F)'
      OBVIOUS
    <3>1. Told = handled /\ Told' = handled /\ InOrder(F)
      BY <1>1, <1>2, <1>3, <2>4, Counts DEF Told, OrderInv
    <3>2. Understood(kbd', F, Ahead(kbd, tl), typed, d)
      BY <1>4, <2>3, StillUnderstood
    <3>3. Ahead(kbd, tty \o wire)' = Ahead(kbd, tl)
      BY <1>1, <2>3 DEF Ahead
    <3>4. Understood(kbd', F, Ahead(kbd, tty \o wire)', typed', Len(Told)')
      BY <1>1, <3>1, <3>2, <3>3
    <3> QED BY <1>1, <2>5, <3>1, <3>4 DEF InOrder
  <2> QED BY <1>1, <2>4, <2>6 DEF OrderInv
<1> QED BY <1>5, <1>6

LEMMA OrderNext ==
  ASSUME NEW F, F \subseteq BOOLEAN, Distinct(F), OrderInv(F), InputInv, [Next]_vars
  PROVE  OrderInv(F)'
<1>1. ASSUME NEW s \in Spellings, PressKey(s) PROVE OrderInv(F)'
  BY <1>1, OrderPressKey
<1>2. CASE Arrive
  BY <1>2, OrderArrive
<1>3. CASE ReadBytes
  BY <1>3, OrderReadBytes
<1>4. CASE NextByte
  BY <1>4, OrderNextByte
<1>5. CASE NoByte
  BY <1>5, OrderNoByte
<1>6. CASE HandleKey
  BY <1>6, OrderHandleKey DEF InputInv, DecoderInv
<1>7. CASE Sleep
  <2>1. /\ UNCHANGED <<wire, tty, kbd, typed, handled>> /\ pc = "sleep"
        /\ clear' = (clear /\ wire = <<>>)
    BY <1>7 DEF Sleep, terminalVars
  <2> QED BY <2>1, OrderSilent
<1>8. CASE Readable
  <2>1. /\ UNCHANGED <<wire, tty, kbd, typed, handled>> /\ pc = "select" /\ tty # <<>>
        /\ clear' = clear
    BY <1>8 DEF Readable, terminalVars
  <2> QED BY <2>1, OrderSilent
<1>9. CASE WindowChange
  <2>1. /\ UNCHANGED <<wire, tty, kbd, typed, handled>> /\ clear' = clear
        /\ pc' = pc \/ (pc = "select" /\ pc' = "timer")
    BY <1>9 DEF WindowChange, inputVars, terminalVars
  <2> QED BY <2>1, OrderSilent
<1>10. CASE \/ Interrupt \/ InitScreen \/ CreateWidgets \/ Select \/ Expired \/ Timer
            \/ CheckSize \/ Resize \/ Resized
  <2>1. UNCHANGED <<wire, tty, kbd, typed, handled>> /\ clear' = clear
    BY <1>10 DEF inputVars, terminalVars, Interrupt, InitScreen, CreateWidgets, Select,
      Expired, Timer, CheckSize, Resize, Resized
  <2>2. pc' # "getkey" /\ (pc' = "exit" \/ pc \notin {"act", "exit"})
    BY <1>10 DEF Interrupt, InitScreen, CreateWidgets, Select, Expired, Timer, CheckSize,
      Resize, Resized, prg_exit, err_exit
  <2> QED BY <2>1, <2>2, OrderSilent
<1>11. CASE UNCHANGED vars
  <2>1. /\ UNCHANGED <<wire, tty, kbd, typed, handled>> /\ clear' = clear /\ pc' = pc
    BY <1>11 DEF vars, inputVars, terminalVars
  <2> QED BY <2>1, OrderSilent
<1> QED BY <1>1, <1>2, <1>3, <1>4, <1>5, <1>6, <1>7, <1>8, <1>9, <1>10, <1>11
  DEF Next, Main

-----------------------------------------------------------------------------
(* Keys are handled in the order in which they are typed.                  *)

LEMMA OrderInit ==
  ASSUME NEW F, FALSE \in F, Init
  PROVE  OrderInv(F)
<1> DEFINE cut == [i \in {0} |-> 0]
           none == Plain(KBD_NOKEY)
           S == Ahead(kbd, tty \o wire)
<1>1. /\ kbd = KeyboardInit /\ wire = <<>> /\ tty = <<>> /\ typed = <<>> /\ handled = <<>>
  BY DEF Init
<1>2. none.code = 0
  BY DEF Plain, Key, KBD_NOKEY
<1>3. kbd.v = none /\ kbd.p = 0 /\ kbd.delf = FALSE /\ kbd.buf = <<>>
  BY <1>1 DEF KeyboardInit
<1> HIDE DEF none
<1>4. Told = <<>> /\ kbd.v.code = 0
  BY <1>1, <1>2, <1>3 DEF Told
<1>5. tty \o wire = <<>>
  BY <1>1
<1>6. Len(S) = 0
  BY <1>3, <1>5 DEF Ahead
<1> HIDE DEF S
<1>7. Len(typed) = 0 /\ Len(Told) = 0
  BY <1>1, <1>4
<1>8. Divided(S, typed, 0, <<>>, cut)
  BY <1>6, <1>7 DEF Divided
<1>9. Like(KeyboardInit, Begin(FALSE))
  <2> DEFINE arg == <<0>>
             f == FALSE
  <2>1. KeyboardInit = [state |-> "start", type |-> 0, mod |-> 0, arg |-> arg,
                        argf |-> FALSE, delf |-> FALSE, buf |-> << >>, p |-> 0,
                        waitdata |-> FALSE, v |-> none]
    BY DEF KeyboardInit, none
  <2>2. Begin(f) = [KeyboardInit EXCEPT !.delf = f]
    BY DEF Begin
  <2>3. f = FALSE
    OBVIOUS
  <2> HIDE DEF arg, f
  <2>4. Begin(f) = [state |-> "start", type |-> 0, mod |-> 0, arg |-> arg,
                    argf |-> FALSE, delf |-> f, buf |-> << >>, p |-> 0,
                    waitdata |-> FALSE, v |-> none]
    BY <2>1, <2>2
  <2>5. Like(KeyboardInit, Begin(f))
    BY <2>1, <2>3, <2>4 DEF Like, Fields
  <2> QED BY <2>5 DEF f
<1>10. Between(kbd, F)
  BY <1>1, <1>3, <1>9 DEF Between
<1>11. Understood(kbd, F, S, typed, 0)
  BY <1>8, <1>10, Zenon DEF Understood
<1>12. Leads(Told, typed) /\ Leads(handled, typed)
  BY <1>1, <1>4 DEF Leads
<1>13. EscLast(typed, 0)
  BY <1>7 DEF EscLast
<1>14. InOrder(F)
  BY <1>1, <1>7, <1>11, <1>12, <1>13 DEF InOrder, S
<1>15. typed \in Seq(AnyKey) /\ handled \in Seq(AnyKey)
  BY <1>1
<1> QED BY <1>4, <1>12, <1>14, <1>15 DEF OrderInv

\* What is still to be read from the buffer, the terminal and its line is, but
\* for bytes that are no key, the bytes of the keys that are typed and not handled,
\* of each key all that the decoder has not taken, whatever parts of them were
\* read together.
THEOREM KeysUnderstood ==
  ASSUME NEW CONSTANT F, F \in {{FALSE}, BOOLEAN}, Distinct(F)
  PROVE  Spec => []OrderInv(F)
<1>1. F \subseteq BOOLEAN /\ FALSE \in F
  OBVIOUS
<1>2. Init => OrderInv(F)
  BY <1>1, OrderInit
<1>3. OrderInv(F) /\ InputInv /\ [Next]_vars => OrderInv(F)'
  BY <1>1, OrderNext
<1> QED BY <1>2, <1>3, DecoderInOrder, PTL DEF Spec

\* As long as nothing that was typed could be mistaken for something else, main()
\* handles the keys that were typed, each once and in their order, if the bytes of
\* each key, read alone, are those of this key.
THEOREM KeysStayInOrder ==
  ASSUME Unmistakable(Spellings)
  PROVE  Spec => []KeysInOrder
<1>1. PICK F \in {{FALSE}, BOOLEAN} : Distinct(F)
  BY DEF Unmistakable, Distinct
<1>2. Spec => []OrderInv(F)
  BY <1>1, KeysUnderstood
<1>3. OrderInv(F) => KeysInOrder
  BY LeadsIsPrefix DEF OrderInv, KeysInOrder
<1> QED BY <1>2, <1>3, PTL

=============================================================================
