------------------------------ MODULE MainLoop ------------------------------
(***************************************************************************)
(* whowatch.c: main() waits in select() for a key or for the rest of       *)
(* TIMEOUT, handles a key, updates the widgets when the time is up, and    *)
(* follows a change of the terminal's size; SIGWINCH and SIGINT come       *)
(* between any two of its steps.  getkey() (kbd.c, see Keyboard) reads all *)
(* bytes that wait, keeps them in a buffer and returns one key of them.    *)
(* The terminal sends a key as one or several bytes, with pauses between   *)
(* them or not, and they may come before any read.                         *)
(*                                                                         *)
(* Time passes only in select().  It is counted in units, Unit of which    *)
(* are a second, and since is the time since the last update.              *)
(***************************************************************************)
EXTENDS Keyboard, SequencesExt

CONSTANTS
  Heights,    \* heights of the terminal, in rows
  Unit,       \* units of time in a second
  Timeout,    \* TIMEOUT, in units
  Builds,     \* the values that RETURN_TV_IN_SELECT may have
  Fails,      \* can a system call or an allocation fail?
  Spellings,  \* the keys of the terminal, each with bytes that it may send
  BufSize,    \* the size of the buffer of getkey(), in bytes
  MaxEvents   \* bound: keys pressed and changes of the size, together

ASSUME HeightsAssumption == Heights \subseteq Nat /\ Heights # {}
ASSUME TimeAssumption ==
  Unit \in Nat \ {0} /\ Timeout \in Nat \ {0} /\ Timeout % Unit = 0
ASSUME FlagsAssumption == Builds \subseteq BOOLEAN /\ Fails \in BOOLEAN
ASSUME SpellingsAssumption ==
  \A s \in Spellings : s.key.code \in Nat \ {KBD_NOKEY} /\ s.bytes \in Seq(Char) \ {<<>>}
ASSUME BufSizeAssumption ==
  BufSize \in Nat \ {0} /\ \A s \in Spellings : Len(s.bytes) <= BufSize
ASSUME BoundsAssumption == MaxEvents \in Nat

VARIABLES
  return_tv,    \* does select() leave the rest of the time in tv? (a matter of
                \* the build, RETURN_TV_IN_SELECT)
  pc,           \* what main() does next
  term,         \* the height of the terminal
  sy,           \* mwin->sy: the number of its last row, as the program knows it
  size_changed, \* SIGWINCHs since resize() cleared it
  wire,         \* bytes of the last key that are still to come
  tty,          \* bytes that wait in the terminal
  kbd,          \* the state of the decoder, with the buffer of getkey()
  slept,        \* has getkey() been called again after a pause?
  typed,        \* history: the keys pressed
  handled,      \* history: the keys given to key_action() while clear
  clear,        \* history: has all that was typed been unmistakable?
  winch,        \* changes of the terminal's size
  tv,           \* the time select() is called with
  second,       \* the time of day, as far as it is below a second
  since,        \* the time since the last update
  curses        \* is the terminal in curses mode?

terminalVars == <<wire, tty, typed>>
inputVars == <<terminalVars, kbd, slept, handled, clear>>
sizeVars == <<term, sy, size_changed, winch>>
timeVars == <<return_tv, tv, second, since>>
vars == <<pc, inputVars, sizeVars, timeVars, curses>>

Running == pc \notin {"init", "create", "exit"}

Init ==
  /\ pc = "init" /\ curses = FALSE
  /\ term \in Heights /\ sy = term - 1 /\ size_changed = 0 /\ winch = 0
  /\ wire = <<>> /\ tty = <<>> /\ kbd = KeyboardInit /\ slept = FALSE
  /\ typed = <<>> /\ handled = <<>> /\ clear = TRUE
  /\ return_tv \in Builds
  /\ tv = Timeout /\ second \in 0 .. Unit - 1 /\ since = 0

\* err_exit() and prg_exit(), curses_end(): the ways out.
err_exit == pc' = "exit" /\ UNCHANGED curses
prg_exit == pc' = "exit" /\ curses' = FALSE

-----------------------------------------------------------------------------
(* The terminal and its user.                                              *)

\* Have all keys been handled?
Answered == Len(handled) = Len(typed)

\* The first bytes of a key arrive.  The byte of the key Esc is mistaken for the
\* first of a sequence when another key comes before it is handled, and when it
\* is found behind another one in the buffer.
PressKey(s) ==
  /\ Running /\ wire = <<>> /\ Len(typed) + winch < MaxEvents
  /\ typed' = Append(typed, s.key)
  /\ \E n \in 1 .. Len(s.bytes) :
       /\ tty' = tty \o SubSeq(s.bytes, 1, n)
       /\ wire' = SubSeq(s.bytes, n + 1, Len(s.bytes))
  /\ clear' = (clear /\ (Answered \/ \A k \in {s.key, Last(typed)} : k # Plain(KBD_ESC)))
  /\ UNCHANGED <<pc, kbd, slept, handled, sizeVars, timeVars, curses>>

\* More of them arrive.
Arrive ==
  /\ Running /\ wire # <<>>
  /\ \E n \in 1 .. Len(wire) :
       /\ tty' = tty \o SubSeq(wire, 1, n)
       /\ wire' = SubSeq(wire, n + 1, Len(wire))
  /\ UNCHANGED <<pc, kbd, slept, typed, handled, clear, sizeVars, timeVars, curses>>

\* d units pass in select().
Elapse(d) ==
  /\ UNCHANGED return_tv
  /\ since' = since + d
  /\ second' = (second + d) % Unit
  /\ tv' = IF return_tv THEN tv - d ELSE tv - Unit * ((second + d) \div Unit)

\* The size changes and winch_handler() runs; a select() ends with EINTR.
WindowChange ==
  /\ Running /\ Len(typed) + winch < MaxEvents
  /\ winch' = winch + 1
  /\ term' \in Heights \ {term}
  /\ size_changed' = size_changed + 1
  /\ IF pc = "select" THEN pc' = "timer" /\ \E d \in 0 .. tv : Elapse(d)
                      ELSE UNCHANGED <<pc, timeVars>>
  /\ UNCHANGED <<sy, inputVars, curses>>

\* SIGINT: int_handler()
Interrupt ==
  /\ Running
  /\ prg_exit
  /\ UNCHANGED <<inputVars, sizeVars, timeVars>>

-----------------------------------------------------------------------------
(* main()                                                                  *)

\* curses_init(), after the size has been read
InitScreen ==
  /\ pc = "init"
  /\ pc' = "create" /\ curses' = TRUE
  /\ UNCHANGED <<inputVars, sizeVars, timeVars>>

\* wdgts_create(), users_init(), set_sig() and the first update
CreateWidgets ==
  /\ pc = "create"
  /\ \/ pc' = "loop" /\ UNCHANGED curses
     \/ Fails /\ err_exit
  /\ UNCHANGED <<inputVars, sizeVars, timeVars>>

Select ==
  /\ pc = "loop"
  /\ pc' = "select"
  /\ UNCHANGED <<inputVars, sizeVars, timeVars, curses>>

\* select() returns because there is a key to read ...
Readable ==
  /\ pc = "select" /\ tty # <<>>
  /\ \E d \in 0 .. tv : Elapse(d)
  /\ pc' = "getkey" /\ slept' = FALSE
  /\ UNCHANGED <<terminalVars, kbd, handled, clear, sizeVars, curses>>

\* ... or because the time is up.
Expired ==
  /\ pc = "select" /\ tty = <<>>
  /\ Elapse(tv)
  /\ pc' = "timer"
  /\ UNCHANGED <<inputVars, sizeVars, curses>>

\* (Mutant of Returned: getkey() is called once.)
ReturnedOnce == "act"

\* Where main() goes on when getkey() has returned: one of the builds calls it
\* again, after 10 ms, if it has found the beginning of a sequence.
Returned ==
  IF return_tv /\ ~slept /\ kbd'.v.code = KBD_MORE THEN "sleep" ELSE "act"

\* getkey(): its buffer is empty, and it reads what fits into it.
ReadBytes ==
  LET room == BufSize - kbd.p
      n == IF Len(tty) < room THEN Len(tty) ELSE room
  IN  /\ pc = "getkey" /\ Drained(kbd) /\ n > 0
      /\ kbd' = [kbd EXCEPT !.buf = @ \o SubSeq(tty, 1, n)]
      /\ tty' = SubSeq(tty, n + 1, Len(tty))
      /\ UNCHANGED <<pc, wire, typed, slept, handled, clear, sizeVars, timeVars, curses>>

\* getkey(): the next byte of the buffer ...
NextByte ==
  /\ pc = "getkey" /\ ~Drained(kbd)
  /\ kbd' = Feed([kbd EXCEPT !.p = @ + 1], kbd.buf[kbd.p + 1])
  /\ pc' = IF Again(kbd') THEN "getkey" ELSE Returned
  /\ UNCHANGED <<terminalVars, slept, handled, clear, sizeVars, timeVars, curses>>

\* ... or none, since there is nothing to read or no room for it.
NoByte ==
  /\ pc = "getkey" /\ Drained(kbd)
  /\ tty = <<>> \/ kbd.p = BufSize
  /\ IF kbd.waitdata \/ kbd.p = BufSize
     THEN /\ kbd' = Feed(kbd, KBD_MORE)
          /\ pc' = IF Again(kbd') THEN "getkey" ELSE Returned
     ELSE /\ kbd' = [kbd EXCEPT !.v = Plain(KBD_NOKEY)]
          /\ pc' = Returned
  /\ UNCHANGED <<terminalVars, slept, handled, clear, sizeVars, timeVars, curses>>

\* usleep(10000): a key that has not come as a whole by then is mistaken.
Sleep ==
  /\ pc = "sleep"
  /\ pc' = "getkey" /\ slept' = TRUE
  /\ clear' = (clear /\ wire = <<>>)
  /\ UNCHANGED <<terminalVars, kbd, handled, sizeVars, timeVars, curses>>

\* key_action(): 'q' and Esc may end the program.
HandleKey ==
  /\ pc = "act"
  /\ handled' = IF clear /\ kbd.v.code > 0 THEN Append(handled, kbd.v) ELSE handled
  /\ kbd' = [kbd EXCEPT !.v = Plain(KBD_NOKEY)]
  /\ \/ pc' = "timer" /\ UNCHANGED curses
     \/ kbd.v \in {Plain(113), Plain(KBD_ESC)} /\ prg_exit
  /\ UNCHANGED <<terminalVars, slept, clear, sizeVars, timeVars>>

\* (Mutants of Timer: the time starts again with every key; a second is as good
\* as none.)
TimerRestart ==
  /\ pc = "timer"
  /\ pc' = "check"
  /\ tv' = Timeout
  /\ since' = IF tv <= 0 THEN 0 ELSE since
  /\ UNCHANGED <<return_tv, second, inputVars, sizeVars, curses>>
TimerEarly ==
  /\ pc = "timer"
  /\ pc' = "check"
  /\ IF tv <= Unit THEN tv' = Timeout /\ since' = 0 ELSE UNCHANGED <<tv, since>>
  /\ UNCHANGED <<return_tv, second, inputVars, sizeVars, curses>>

\* main_periodic() if the time is up
Timer ==
  /\ pc = "timer"
  /\ pc' = "check"
  /\ IF tv <= 0 THEN tv' = Timeout /\ since' = 0 ELSE UNCHANGED <<tv, since>>
  /\ UNCHANGED <<return_tv, second, inputVars, sizeVars, curses>>

\* (Mutant of CheckSize: a counter taken for a flag.)
CheckSizeOnce ==
  /\ pc = "check"
  /\ pc' = IF size_changed = 1 THEN "resize" ELSE "loop"
  /\ UNCHANGED <<inputVars, sizeVars, timeVars, curses>>

CheckSize ==
  /\ pc = "check"
  /\ pc' = IF size_changed # 0 THEN "resize" ELSE "loop"
  /\ UNCHANGED <<inputVars, sizeVars, timeVars, curses>>

\* resize(), up to the redrawing of the widgets
Resize ==
  /\ pc = "resize"
  /\ \/ pc' = "resized" /\ sy' = term - 1 /\ UNCHANGED curses
     \/ Fails /\ err_exit /\ UNCHANGED sy
  /\ UNCHANGED <<term, size_changed, winch, inputVars, timeVars>>

\* its last statement
Resized ==
  /\ pc = "resized"
  /\ size_changed' = 0
  /\ pc' = "loop"
  /\ UNCHANGED <<term, sy, winch, inputVars, timeVars, curses>>

Main ==
  \/ InitScreen \/ CreateWidgets
  \/ Select \/ Readable \/ Expired
  \/ ReadBytes \/ NextByte \/ NoByte \/ Sleep \/ HandleKey \/ Timer
  \/ CheckSize \/ Resize \/ Resized

Next == (\E s \in Spellings : PressKey(s)) \/ Arrive \/ WindowChange \/ Interrupt \/ Main

\* The program runs on, and select() returns when its time is up.
Spec == Init /\ [][Next]_vars /\ WF_vars(Main)

-----------------------------------------------------------------------------
\* How far the time between two updates may be off: not at all if select()
\* returns the rest of it, else by less than a second, as whole seconds of the
\* time of day are counted.
Slack == IF return_tv THEN 0 ELSE Unit - 1

\* Keys and signals, however many, do not put the next update off ...
TickNotLate == since <= Timeout + Slack

\* ... and do not bring it on.
TickNotEarly == [][since' < since => since >= Timeout - Slack]_vars

\* A pending SIGWINCH, or several, is taken up, whatever else happens.
SizeTaken == size_changed # 0 ~> (size_changed = 0 \/ pc = "exit")

\* KBD_MORE is given to the decoder within a sequence only: st_start() would take
\* it for a byte, and read in front of lowtbl.
MoreInSequence ==
  /\ kbd.waitdata => kbd.state # "start"
  /\ Drained(kbd) /\ kbd.p = BufSize => kbd.state # "start"

\* However the bytes of the keys are cut by the reads, by the pauses between them
\* and by the end of the buffer, the keys given to key_action() are those
\* pressed, in their order, none left out and none made up.
KeysInOrder == IsPrefix(handled, typed)

\* What is typed is read.  And a key that is pressed when nothing else waits is
\* answered, though no other key follows; in the build that does not call
\* getkey() again this does not hold of Esc.
InputAnswered ==
  /\ tty # <<>> ~> (tty = <<>> \/ pc = "exit")
  /\ \A n \in 1 .. MaxEvents :
       (/\ Len(typed) = n /\ Len(handled) = n - 1 /\ clear
        /\ wire = <<>> /\ kbd.buf = <<>>
        /\ return_tv \/ typed[n] # Plain(KBD_ESC))
       ~> (Len(handled) >= n \/ Len(typed) > n \/ ~clear \/ pc = "exit")

\* Every key is answered, though no other key follows.
KeysAnswered ==
  Len(tty) + Len(kbd.buf) > 0 ~> (Len(tty) + Len(kbd.buf) = 0 \/ pc = "exit")
=============================================================================
