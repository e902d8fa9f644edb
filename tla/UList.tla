------------------------------- MODULE UList --------------------------------
(***************************************************************************)
(* ulist.c: the users list, a copy of the sessions that utmp records.  At  *)
(* start read_utmpx() lists the records that name a user; every tick       *)
(* check_utmpx() reads the file again, record by record, and lists the     *)
(* ttys it does not know and drops those whose record names nobody any     *)
(* more.  The file may change between two reads.                           *)
(*                                                                         *)
(* utmp is not code of the program: its records have a place in the file   *)
(* and a tty, and name a user as long as his session lasts.                *)
(*                                                                         *)
(* Neither HAVE_USER_PROCESS nor HAVE_DEAD_PROCESS is ever defined by the  *)
(* build, so a record is a login if ut_user is not empty.                  *)
(***************************************************************************)
EXTENDS Screen, Sequences, FiniteSets, Functions

CONSTANTS
  Slots,      \* utmp has the records 1 .. Slots
  Places,     \* the pairs of a record and a tty that sessions use
  Users,      \* user names
  None,       \* no name, no tty
  Protocols,  \* parents of login shells that prot_tab[] counts
  FastReuse,  \* may a tty get a new session while its old one is listed?
  MayEmpty,   \* can the session of record 1, whowatch's own, end?
  Keys,       \* what is done in the list: cursor keys, "search"
  YSize       \* last screen row of the widget

ASSUME SlotsAssumption == Slots \in Nat
ASSUME PlacesAssumption == \A p \in Places : p[1] \in 1 .. Slots /\ p[2] # None
ASSUME NamesAssumption ==
  /\ None \notin Users /\ None \notin Protocols
  /\ None \notin [user : Users, tty : {p[2] : p \in Places}]
ASSUME ListAssumption ==
  /\ FastReuse \in BOOLEAN /\ MayEmpty \in BOOLEAN
  /\ Keys \subseteq ScreenKeys \cup {"search"} /\ YSize \in Nat /\ YSize > TopY

VARIABLES
  utmp,       \* utmp[k]: user and tty of record k
  users_l,    \* the list of user_t, the newest first
  nusers,     \* its length, as u_count() counts it
  nr,         \* nr[p]: prot_tab[].nr of the protocol p
  w,          \* the widget
  visible,    \* is the list on the screen (or the process list)?
  phase,      \* "start" in read_utmpx(), "poll" in check_utmpx(), or "idle"
  next,       \* the record that getutxent() returns next
  dirty,      \* has utmp changed since the last reading of it started?
  sel         \* the user the cursor was put on, followed through the changes

listVars == <<users_l, nusers, nr>>
vars == <<utmp, listVars, w, visible, phase, next, dirty, sel>>

Ttys == {p[2] : p \in Places}

Listed(tty) == \E u \in Range(users_l) : u.tty = tty

\* Who is logged in where.
Sessions == {[user |-> utmp[k].user, tty |-> utmp[k].tty] :
               k \in {i \in 1 .. Slots : utmp[i].user # None}}

\* What identifies a user of the list.
Id(u) == [user |-> u.user, tty |-> u.tty]

\* cursor_user(): the user on the cursor line, None if there is none.
cursor_user(c) ==
  LET on == {u \in Range(users_l) : u.line = c}
  IN  IF on = {} THEN None ELSE Id(CHOOSE u \in on : TRUE)

-----------------------------------------------------------------------------
Dead(tty) == [user |-> None, tty |-> tty]
Session(user, tty) == [user |-> user, tty |-> tty]

Init ==
  /\ utmp \in [1 .. Slots -> {Dead(t) : t \in Ttys \cup {None}}
                           \cup {Session(u, t) : u \in Users, t \in Ttys}]
  /\ \A k \in 1 .. Slots :
       utmp[k].tty # None => <<k, utmp[k].tty>> \in Places
  /\ \A j, k \in 1 .. Slots :
       j # k /\ utmp[j].user # None /\ utmp[k].user # None
         => utmp[j].tty # utmp[k].tty
  /\ MayEmpty \/ utmp[1].user # None
  /\ users_l = <<>> /\ nusers = 0 /\ nr = [p \in Protocols |-> 0]
  /\ w = [vy |-> 0, crsr |-> 0, nlines |-> 0, ysize |-> YSize]
  /\ visible = TRUE
  /\ phase = "start" /\ next = 1 /\ dirty = FALSE
  /\ sel = None

\* A session begins on a tty that has none; its record is written.
Login(k, tty, user) ==
  /\ utmp[k].user = None
  /\ \A s \in Sessions : s.tty # tty
  /\ FastReuse \/ ~Listed(tty)
  /\ utmp' = [utmp EXCEPT ![k] = Session(user, tty)]

\* It ends; the record keeps its tty.
Logout(k) ==
  /\ utmp[k].user # None
  /\ MayEmpty \/ k # 1
  /\ utmp' = [utmp EXCEPT ![k] = Dead(@.tty)]

\* utmp changes.
Outside ==
  /\ \/ \E p \in Places, u \in Users : Login(p[1], p[2], u)
     \/ \E k \in 1 .. Slots : Logout(k)
  /\ dirty' = TRUE
  /\ UNCHANGED <<listVars, w, visible, phase, next, sel>>

-----------------------------------------------------------------------------
\* (Mutant of u_count: a logout is not taken off the kind of login.)
u_count_logins(parent, n) ==
  /\ nusers' = nusers + n
  /\ nr' = [p \in Protocols |-> IF p = parent /\ n > 0 THEN nr[p] + n ELSE nr[p]]

u_count(parent, n) ==
  /\ nusers' = nusers + n
  /\ nr' = [p \in Protocols |-> IF p = parent THEN nr[p] + n ELSE nr[p]]

\* new_user(): the parent of the login shell says how the user came.
new_user(r) ==
  \E parent \in Protocols \cup {None} :
    /\ users_l' = <<[user |-> r.user, tty |-> r.tty, parent |-> parent,
                     line |-> nusers]>> \o users_l
    /\ u_count(parent, 1)

\* (Mutant of update_line: no line moves up.)
update_line_none(s, line) == s

\* update_line(): the users below a deleted line move up.
update_line(s, line) ==
  [i \in DOMAIN s |->
     IF s[i].line > line THEN [s[i] EXCEPT !.line = @ - 1] ELSE s[i]]

\* (Mutant of udel: scr_ldeleted() is not called.)
udel_silent(i) ==
  LET u == users_l[i]
  IN  /\ users_l' = update_line(SubSeq(users_l, 1, i - 1)
                      \o SubSeq(users_l, i + 1, Len(users_l)), u.line)
      /\ u_count(u.parent, -1)
      /\ sel' = IF sel = Id(u) THEN None ELSE sel
      /\ UNCHANGED w

\* udel(): the i-th user of the list is dropped.
udel(i) ==
  LET u == users_l[i]
  IN  /\ w' = LDeleted(w, u.line)
      /\ users_l' = update_line(SubSeq(users_l, 1, i - 1)
                      \o SubSeq(users_l, i + 1, Len(users_l)), u.line)
      /\ u_count(u.parent, -1)
      /\ sel' = IF sel = Id(u) THEN None ELSE sel

\* read_utmpx(), one record.
StartRecord ==
  /\ phase = "start" /\ next <= Slots
  /\ next' = next + 1
  /\ IF utmp[next].user # None THEN new_user(utmp[next]) ELSE UNCHANGED listVars
  /\ UNCHANGED <<utmp, w, visible, phase, dirty, sel>>

\* (Mutant of Poll: it is left out while the list is hidden.)
PollVisible ==
  /\ visible
  /\ phase = "idle" \/ (phase = "start" /\ next > Slots)
  /\ phase' = "poll" /\ next' = 1 /\ dirty' = FALSE
  /\ UNCHANGED <<utmp, listVars, w, visible, sel>>

\* main_periodic() calls ulist_periodic(), the first time right after the start.
Poll ==
  /\ phase = "idle" \/ (phase = "start" /\ next > Slots)
  /\ phase' = "poll" /\ next' = 1 /\ dirty' = FALSE
  /\ UNCHANGED <<utmp, listVars, w, visible, sel>>

\* check_utmpx(), one record: a login ...
PollLogin ==
  /\ phase = "poll" /\ next <= Slots /\ utmp[next].user # None
  /\ next' = next + 1
  /\ IF Listed(utmp[next].tty) THEN UNCHANGED listVars ELSE new_user(utmp[next])
  /\ UNCHANGED <<utmp, w, visible, phase, dirty, sel>>

\* (Mutant of PollLogout: the loop over users_l stops after its first element.)
PollLogoutFirst ==
  /\ phase = "poll" /\ next <= Slots /\ utmp[next].user = None
  /\ next' = next + 1
  /\ IF users_l # <<>> /\ users_l[1].tty = utmp[next].tty
     THEN udel(1)
     ELSE UNCHANGED <<listVars, w, sel>>
  /\ UNCHANGED <<utmp, visible, phase, dirty>>

\* ... or not: the newest user with its tty has logged out.
PollLogout ==
  /\ phase = "poll" /\ next <= Slots /\ utmp[next].user = None
  /\ next' = next + 1
  /\ IF Listed(utmp[next].tty)
     THEN \E i \in DOMAIN users_l :
            /\ users_l[i].tty = utmp[next].tty
            /\ \A j \in 1 .. i - 1 : users_l[j].tty # utmp[next].tty
            /\ udel(i)
     ELSE UNCHANGED <<listVars, w, sel>>
  /\ UNCHANGED <<utmp, visible, phase, dirty>>

\* uredraw(), and where it leaves the cursor.
Redraw ==
  /\ w' = OutputEnd(Printed(w, Len(users_l)))
  /\ sel' = cursor_user(w'.crsr)

\* The file is read; what is visible is printed again.
PollEnd ==
  /\ phase = "poll" /\ next > Slots
  /\ phase' = "idle" /\ next' = 1
  /\ IF visible THEN Redraw ELSE UNCHANGED <<w, sel>>
  /\ UNCHANGED <<utmp, listVars, visible, dirty>>

\* Enter and 't' hide the list; Enter brings it back.
KeyHide ==
  /\ phase = "idle" /\ visible
  /\ visible' = FALSE
  /\ UNCHANGED <<utmp, listVars, w, phase, next, dirty, sel>>

KeyEnter ==
  /\ phase = "idle" /\ ~visible
  /\ visible' = TRUE
  /\ Redraw
  /\ UNCHANGED <<utmp, listVars, phase, next, dirty>>

KeyCursor(k) ==
  /\ phase = "idle" /\ visible
  /\ w' = Key(k, w) /\ sel' = cursor_user(w'.crsr)
  /\ UNCHANGED <<utmp, listVars, visible, phase, next, dirty>>

\* user_search(): the places in users_l of those of the users hits where a search
\* of type t may stop.  It stops at the first, the newest user of them.
user_search(hits, t) ==
  {i \in hits : (t = 0 => users_l[i].line > w.crsr)
              /\ (t = 1 => users_l[i].line >= w.crsr)}

\* MSND_SEARCH: the search box looks for a text that the users hits match.
KeySearch ==
  /\ "search" \in Keys /\ phase = "idle" /\ visible
  /\ \E hits \in SUBSET DOMAIN users_l, t \in 0 .. 2 :
       \E i \in user_search(hits, t) :
         /\ \A j \in user_search(hits, t) : i <= j
         /\ w' = CrsrJmp(w, users_l[i].line)
  /\ sel' = cursor_user(w'.crsr)
  /\ UNCHANGED <<utmp, listVars, visible, phase, next, dirty>>

Program == StartRecord \/ Poll \/ PollLogin \/ PollLogout \/ PollEnd

Next ==
  \/ Outside
  \/ Program
  \/ KeyHide \/ KeyEnter
  \/ \E k \in Keys \cap ScreenKeys : KeyCursor(k)
  \/ KeySearch

\* The timer of main() goes on, and a poll that has started does not block.
Spec == Init /\ [][Next]_vars /\ WF_vars(Program)
-----------------------------------------------------------------------------
\* The users have the lines 0 .. nusers - 1, in the order of their arrival,
\* also in the middle of a poll: a new user is put on line nusers, and
\* cursor_user() finds a user for every line.
LinesNumbered ==
  /\ nusers = Len(users_l)
  /\ \A i \in DOMAIN users_l : users_l[i].line = Len(users_l) - i

\* The info line is right about the kinds of logins: what was counted when a
\* user came is taken back when he goes.
CountsMatch ==
  \A p \in Protocols :
    nr[p] = Cardinality({i \in DOMAIN users_l : users_l[i].parent = p})

\* After a poll during which utmp did not change the list shows who is logged
\* in, each session once, whatever has happened before (also between the records
\* of a poll).
ShowsSessions ==
  phase = "idle" /\ ~dirty =>
    /\ {Id(u) : u \in Range(users_l)} = Sessions
    /\ Len(users_l) = Cardinality(Sessions)

\* While users come and go the cursor stays on its user, if he stays.
CursorFollowsUser ==
  sel # None => \E u \in Range(users_l) : Id(u) = sel /\ u.line = w.crsr

\* As long as the list is shown and not empty the cursor is on a user, whose
\* processes Enter shows.
CursorOnUser ==
  visible /\ phase = "idle" /\ users_l # <<>> => cursor_user(w.crsr) # None

\* Who logs out is dropped from the list, though the file changes while it is
\* read.
LogoutShown ==
  \A t \in Ttys : (\A s \in Sessions : s.tty # t)
                  ~> (~Listed(t) \/ \E s \in Sessions : s.tty = t)

\* Who logs in and stays is listed.
LoginShown ==
  \A s \in [user : Users, tty : Ttys] :
    s \in Sessions ~> (s \in {Id(u) : u \in Range(users_l)} \/ s \notin Sessions)
=============================================================================
