----------------------------- MODULE UListProofs -----------------------------
(* Proofs about UList: for any records, users, kinds of logins and keys.   *)
EXTENDS UList, ScreenProofs, SequenceTheorems, FiniteSetTheorems

\* The users of the list
Entry == [user : Users, tty : Ttys, parent : Protocols \cup {None}, line : Int]

-----------------------------------------------------------------------------
(* What new_user() and udel() do to the list                               *)

\* The list without its i-th user, before the lines are renumbered
Without(s, i) == SubSeq(s, 1, i - 1) \o SubSeq(s, i + 1, Len(s))

\* The place that the j-th user of the new list had
Was(i, j) == IF j < i THEN j ELSE j + 1

LEMMA WithoutProps ==
  ASSUME NEW R, NEW s \in Seq(R), NEW i \in DOMAIN s
  PROVE  /\ Without(s, i) \in Seq(R) /\ Len(Without(s, i)) = Len(s) - 1
         /\ \A j \in 1 .. Len(s) - 1 : Without(s, i)[j] = s[Was(i, j)]
<1>1. Len(s) \in Nat /\ i \in Nat /\ 1 <= i /\ i <= Len(s)
  BY LenProperties
<1> DEFINE a == SubSeq(s, 1, i - 1)
           b == SubSeq(s, i + 1, Len(s))
<1>2. \A j \in 1 .. Len(s) : s[j] \in R
  BY ElementOfSeq
<1>3. /\ a \in Seq(R) /\ Len(a) = i - 1
      /\ \A j \in 1 .. i - 1 : a[j] = s[j]
  <2>1. 1 \in Int /\ i - 1 \in Int /\ \A j \in 1 .. i - 1 : s[j] \in R
    BY <1>1, <1>2
  <2>2. /\ a \in Seq(R) /\ Len(a) = IF 1 <= i - 1 THEN i - 1 - 1 + 1 ELSE 0
        /\ \A j \in 1 .. i - 1 - 1 + 1 : a[j] = s[1 + j - 1]
    BY <2>1, SubSeqProperties
  <2> HIDE DEF a
  <2>3. Len(a) = i - 1
    BY <1>1, <2>2
  <2>4. ASSUME NEW j \in 1 .. i - 1 PROVE a[j] = s[j]
    <3>1. j \in 1 .. i - 1 - 1 + 1 /\ 1 + j - 1 = j
      BY <1>1
    <3> QED BY <2>2, <3>1
  <2> QED BY <2>2, <2>3, <2>4
<1>4. /\ b \in Seq(R) /\ Len(b) = Len(s) - i
      /\ \A j \in 1 .. Len(s) - i : b[j] = s[i + j]
  <2>1. i + 1 \in Int /\ Len(s) \in Int /\ \A j \in i + 1 .. Len(s) : s[j] \in R
    BY <1>1, <1>2
  <2>2. /\ b \in Seq(R) /\ Len(b) = IF i + 1 <= Len(s) THEN Len(s) - (i + 1) + 1 ELSE 0
        /\ \A j \in 1 .. Len(s) - (i + 1) + 1 : b[j] = s[i + 1 + j - 1]
    BY <2>1, SubSeqProperties
  <2> HIDE DEF b
  <2>3. Len(b) = Len(s) - i
    <3>1. \A n \in Nat, m \in Nat : m <= n /\ ~(m + 1 <= n) => n - m = 0
      OBVIOUS
    <3>2. \A n \in Nat, m \in Nat : n - (m + 1) + 1 = n - m
      OBVIOUS
    <3> QED BY <1>1, <2>2, <3>1, <3>2, Zenon
  <2>4. ASSUME NEW j \in 1 .. Len(s) - i PROVE b[j] = s[i + j]
    <3>1. j \in 1 .. Len(s) - (i + 1) + 1 /\ i + 1 + j - 1 = i + j
      BY <1>1
    <3> QED BY <2>2, <3>1
  <2> QED BY <2>2, <2>3, <2>4
<1>5. Without(s, i) = a \o b
  BY DEF Without
<1> HIDE DEF a, b
<1>6. /\ a \o b \in Seq(R) /\ Len(a \o b) = Len(a) + Len(b)
      /\ \A j \in 1 .. Len(a) + Len(b) :
           (a \o b)[j] = IF j <= Len(a) THEN a[j] ELSE b[j - Len(a)]
  BY <1>3, <1>4, ConcatProperties
<1> DEFINE n == Len(s)
<1>7. n \in Nat /\ i <= n /\ Len(a) = i - 1 /\ Len(b) = n - i
  BY <1>1, <1>3, <1>4
<1> HIDE DEF n
<1>8. Len(a) + Len(b) = n - 1
  BY <1>1, <1>7
<1>9. ASSUME NEW j \in 1 .. n - 1 PROVE (a \o b)[j] = s[Was(i, j)]
  <2>1. (a \o b)[j] = IF j <= i - 1 THEN a[j] ELSE b[j - (i - 1)]
    BY <1>6, <1>7, <1>8
  <2>2. CASE j < i
    BY <1>1, <1>3, <2>1, <2>2 DEF Was
  <2>3. CASE ~(j < i)
    <3>1. j - (i - 1) \in 1 .. n - i /\ i + (j - (i - 1)) = j + 1 /\ ~(j <= i - 1)
      BY <1>1, <1>7, <2>3
    <3>2. b[j - (i - 1)] = s[i + (j - (i - 1))]
      BY <1>4, <3>1 DEF n
    <3> QED BY <2>1, <2>3, <3>1, <3>2 DEF Was
  <2> QED BY <2>2, <2>3
<1> QED BY <1>5, <1>6, <1>8, <1>9 DEF n

\* A list whose lines are numbered from its end
Numbered(s) == \A i \in DOMAIN s : s[i].line = Len(s) - i

\* What udel() leaves of the list
Dropped(s, i) == update_line(Without(s, i), s[i].line)

\* It is such a list, with the other users in their order.
LEMMA Deleted ==
  ASSUME NEW s \in Seq(Entry), Numbered(s), NEW i \in DOMAIN s
  PROVE  /\ Dropped(s, i) \in Seq(Entry) /\ Len(Dropped(s, i)) = Len(s) - 1
         /\ Numbered(Dropped(s, i))
         /\ \A j \in 1 .. Len(s) - 1 :
              /\ Was(i, j) \in DOMAIN s /\ Was(i, j) # i
              /\ Dropped(s, i)[j].user = s[Was(i, j)].user
              /\ Dropped(s, i)[j].tty = s[Was(i, j)].tty
              /\ Dropped(s, i)[j].parent = s[Was(i, j)].parent
<1> DEFINE t == Dropped(s, i)
<1> DEFINE u == Without(s, i)
           n == Len(s)
           line == s[i].line
<1>1. /\ n \in Nat /\ DOMAIN s = 1 .. n /\ i \in Nat /\ 1 <= i /\ i <= n
      /\ line = n - i /\ \A j \in 1 .. n : s[j] \in Entry /\ s[j].line = n - j
  BY LenProperties, ElementOfSeq DEF Numbered
<1>2. /\ u \in Seq(Entry) /\ Len(u) = n - 1 /\ \A j \in 1 .. n - 1 : u[j] = s[Was(i, j)]
  BY WithoutProps
<1>3. t = [j \in DOMAIN u |->
             IF u[j].line > line THEN [u[j] EXCEPT !.line = @ - 1] ELSE u[j]]
  BY DEF Dropped, update_line
<1> HIDE DEF t, u, n, line
<1>4. n - 1 \in Nat /\ DOMAIN u = 1 .. n - 1
  BY <1>1, <1>2, LenProperties
<1>5. ASSUME NEW j \in 1 .. n - 1
      PROVE  /\ Was(i, j) \in 1 .. n /\ Was(i, j) # i
             /\ t[j] \in Entry /\ t[j].line = n - 1 - j
             /\ t[j].user = s[Was(i, j)].user /\ t[j].tty = s[Was(i, j)].tty
             /\ t[j].parent = s[Was(i, j)].parent
  <2>1. Was(i, j) \in 1 .. n /\ Was(i, j) # i
    BY <1>1 DEF Was
  <2> DEFINE e == s[Was(i, j)]
  <2>2. e \in Entry /\ e.line = n - Was(i, j) /\ u[j] = e
    BY <1>1, <1>2, <2>1
  <2>3. t[j] = IF e.line > line THEN [e EXCEPT !.line = @ - 1] ELSE e
    BY <1>3, <1>4, <2>2
  <2> HIDE DEF e
  <2>4. CASE j < i
    <3>1. e.line = n - j /\ e.line > line
      BY <1>1, <2>2, <2>4 DEF Was
    <3>2. t[j] = [e EXCEPT !.line = e.line - 1]
      BY <2>3, <3>1
    <3>3. /\ t[j] \in Entry /\ t[j].line = e.line - 1
          /\ t[j].user = e.user /\ t[j].tty = e.tty /\ t[j].parent = e.parent
      BY <2>2, <3>2 DEF Entry
    <3> QED BY <1>1, <2>1, <3>1, <3>3 DEF e
  <2>5. CASE ~(j < i)
    <3>1. e.line = n - (j + 1) /\ ~(e.line > line)
      BY <1>1, <2>2, <2>5 DEF Was
    <3>2. t[j] = e
      BY <2>3, <3>1
    <3>3. n - (j + 1) = n - 1 - j
      BY <1>1
    <3> QED BY <2>1, <2>2, <3>1, <3>2, <3>3 DEF e
  <2> QED BY <2>4, <2>5
<1>6. DOMAIN t = 1 .. n - 1 /\ \A j \in 1 .. n - 1 : t[j] \in Entry
  BY <1>3, <1>4, <1>5
<1>7. t \in Seq(Entry) /\ Len(t) = n - 1
  <2>1. t = [j \in 1 .. n - 1 |-> t[j]]
    BY <1>3, <1>4
  <2>2. t \in [1 .. n - 1 -> Entry]
    BY <1>6, <2>1
  <2>3. t \in Seq(Entry)
    BY <1>4, <2>2, SeqDef
  <2> QED BY <1>4, <1>6, <2>3, LenProperties
<1>8. Numbered(t)
  BY <1>5, <1>6, <1>7 DEF Numbered
<1> QED BY <1>1, <1>5, <1>7, <1>8 DEF t, n

\* new_user() puts a user in front.
Front(e, s) == <<e>> \o s

LEMMA Added ==
  ASSUME NEW s \in Seq(Entry), NEW e \in Entry
  PROVE  /\ Front(e, s) \in Seq(Entry) /\ Len(Front(e, s)) = Len(s) + 1
         /\ Front(e, s)[1] = e
         /\ \A j \in 1 .. Len(s) : Front(e, s)[j + 1] = s[j]
         /\ Numbered(s) /\ e.line = Len(s) => Numbered(Front(e, s))
<1> DEFINE t == Front(e, s)
<1>1. /\ t \in Seq(Entry) /\ Len(t) = Len(s) + 1 /\ Len(s) \in Nat
      /\ \A j \in 1 .. Len(s) + 1 : t[j] = IF j <= 1 THEN e ELSE s[j - 1]
  <2>1. <<e>> \in Seq(Entry) /\ Len(<<e>>) = 1 /\ <<e>>[1] = e
    OBVIOUS
  <2> DEFINE a == <<e>>
  <2>2. a \in Seq(Entry) /\ Len(a) = 1 /\ a[1] = e /\ t = a \o s
    BY <2>1 DEF Front
  <2> HIDE DEF a, t
  <2>3. /\ t \in Seq(Entry) /\ Len(t) = 1 + Len(s) /\ Len(s) \in Nat
        /\ \A j \in 1 .. 1 + Len(s) : t[j] = IF j <= 1 THEN a[j] ELSE s[j - 1]
    <3>1. /\ a \o s \in Seq(Entry) /\ Len(a \o s) = Len(a) + Len(s)
          /\ \A j \in 1 .. Len(a) + Len(s) :
               (a \o s)[j] = IF j <= Len(a) THEN a[j] ELSE s[j - Len(a)]
      BY <2>2, ConcatProperties
    <3>2. Len(s) \in Nat
      BY LenProperties
    <3> QED BY <2>2, <3>1, <3>2
  <2>4. 1 + Len(s) = Len(s) + 1
    BY <2>3
  <2> QED BY <2>2, <2>3, <2>4
<1> HIDE DEF t
<1>2. t[1] = e
  BY <1>1
<1>3. ASSUME NEW j \in 1 .. Len(s) PROVE t[j + 1] = s[j]
  BY <1>1
<1>4. ASSUME Numbered(s), e.line = Len(s) PROVE Numbered(t)
  <2> SUFFICES ASSUME NEW j \in DOMAIN t PROVE t[j].line = Len(t) - j
    BY DEF Numbered
  <2>1. j \in 1 .. Len(s) + 1
    BY <1>1, LenProperties
  <2>2. CASE j = 1
    BY <1>1, <1>2, <1>4, <2>2
  <2>3. CASE j # 1
    <3>1. j - 1 \in 1 .. Len(s) /\ t[j] = s[j - 1]
      BY <1>1, <2>1, <2>3
    <3>2. s[j - 1].line = Len(s) - (j - 1)
      BY <1>4, <3>1, LenProperties DEF Numbered
    <3>3. Len(s) - (j - 1) = Len(s) + 1 - j
      BY <1>1, <2>1
    <3> QED BY <1>1, <3>1, <3>2, <3>3
  <2> QED BY <2>2, <2>3
<1> QED BY <1>1, <1>2, <1>3, <1>4 DEF t

-----------------------------------------------------------------------------
(* The list and its counts, whatever utmp does                             *)

Records ==
  /\ utmp \in [1 .. Slots -> [user : Users \cup {None}, tty : Ttys \cup {None}]]
  /\ \A k \in 1 .. Slots : utmp[k].user # None => utmp[k].tty \in Ttys

ListInv ==
  /\ Records /\ next \in Nat \ {0}
  /\ users_l \in Seq(Entry)
  /\ LinesNumbered

\* How the list changes: a user comes, or one goes.
Comes(e) ==
  /\ e \in Entry /\ e.line = Len(users_l)
  /\ users_l' = Front(e, users_l)
  /\ u_count(e.parent, 1)

Goes(i) ==
  /\ i \in DOMAIN users_l
  /\ users_l' = Dropped(users_l, i)
  /\ u_count(users_l[i].parent, -1)

LEMMA NewUserComes ==
  ASSUME ListInv, NEW k \in 1 .. Slots, utmp[k].user # None, new_user(utmp[k])
  PROVE  \E e \in Entry : Comes(e) /\ e.user = utmp[k].user /\ e.tty = utmp[k].tty
<1> DEFINE r == utmp[k]
<1>1. PICK parent \in Protocols \cup {None} :
        /\ users_l' = <<[user |-> r.user, tty |-> r.tty, parent |-> parent,
                         line |-> nusers]>> \o users_l
        /\ u_count(parent, 1)
  BY DEF new_user
<1>2. r.user \in Users /\ r.tty \in Ttys /\ nusers = Len(users_l) /\ Len(users_l) \in Nat
  BY LenProperties DEF ListInv, Records, LinesNumbered
<1> HIDE DEF r
<1> DEFINE e == [user |-> r.user, tty |-> r.tty, parent |-> parent, line |-> nusers]
<1>3. /\ e \in Entry /\ e.line = Len(users_l) /\ e.parent = parent
      /\ e.user = r.user /\ e.tty = r.tty
  BY <1>1, <1>2 DEF Entry
<1>4. users_l' = <<e>> \o users_l
  BY <1>1
<1> HIDE DEF e
<1>5. Comes(e)
  BY <1>1, <1>3, <1>4 DEF Comes, Front
<1> QED BY <1>3, <1>5 DEF r

LEMMA UdelGoes == ASSUME NEW i \in DOMAIN users_l, udel(i) PROVE Goes(i)
BY DEF udel, Goes, Without, Dropped

\* Every step changes the list in one of these ways or not at all.
LEMMA ListChanges ==
  ASSUME ListInv, [Next]_vars
  PROVE  \/ UNCHANGED listVars
         \/ \E e \in Entry : Comes(e)
         \/ \E i \in DOMAIN users_l : Goes(i)
<1>1. next \in Nat \ {0} /\ (next <= Slots => next \in 1 .. Slots)
  BY SlotsAssumption DEF ListInv
<1>2. CASE Outside
  BY <1>2 DEF Outside
<1>3. CASE StartRecord
  BY <1>1, <1>3, NewUserComes DEF StartRecord
<1>4. CASE PollLogin
  BY <1>1, <1>4, NewUserComes DEF PollLogin
<1>5. CASE PollLogout
  BY <1>5, UdelGoes DEF PollLogout
<1>6. CASE Poll \/ PollEnd \/ KeyHide \/ KeyEnter \/ KeySearch
  BY <1>6 DEF Poll, PollEnd, KeyHide, KeyEnter, KeySearch
<1>7. ASSUME NEW k, KeyCursor(k) PROVE UNCHANGED listVars
  BY <1>7 DEF KeyCursor
<1>8. CASE UNCHANGED vars
  BY <1>8 DEF vars
<1> QED BY <1>2, <1>3, <1>4, <1>5, <1>6, <1>7, <1>8 DEF Next, Program

LEMMA RecordsKept == ASSUME ListInv, [Next]_vars PROVE Records'
<1>1. Records /\ None \notin Users
  BY NamesAssumption DEF ListInv
<1>2. CASE Outside
  <2>1. ASSUME NEW p \in Places, NEW u \in Users, Login(p[1], p[2], u) PROVE Records'
    <3>1. p[1] \in 1 .. Slots /\ p[2] \in Ttys
      <4>1. p[1] \in 1 .. Slots
        BY SlotsAssumption, PlacesAssumption, Zenon
      <4>2. p[2] \in Ttys
        BY Zenon DEF Ttys
      <4> QED BY <4>1, <4>2
    <3>2. utmp' = [utmp EXCEPT ![p[1]] = [user |-> u, tty |-> p[2]]]
      BY <2>1 DEF Login, Session
    <3> QED BY <1>1, <3>1, <3>2 DEF Records
  <2>2. ASSUME NEW k \in 1 .. Slots, Logout(k) PROVE Records'
    <3>1. utmp' = [utmp EXCEPT ![k] = [user |-> None, tty |-> utmp[k].tty]]
      BY <2>2 DEF Logout, Dead
    <3> QED BY <1>1, <3>1 DEF Records
  <2> QED BY <1>2, <2>1, <2>2 DEF Outside
<1>3. utmp' = utmp => Records'
  BY <1>1 DEF Records
<1>4. ASSUME NEW k, KeyCursor(k) PROVE utmp' = utmp
  BY <1>4 DEF KeyCursor
<1>5. CASE ~Outside
  <2>1. utmp' = utmp
    BY <1>4, <1>5 DEF Next, Program, StartRecord, Poll, PollLogin, PollLogout, PollEnd,
                     KeyHide, KeyEnter, KeySearch, vars
  <2> QED BY <1>3, <2>1
<1> QED BY <1>2, <1>5

LEMMA ListNext == ASSUME ListInv, [Next]_vars PROVE ListInv'
<1>1. Records'
  BY RecordsKept
<1>2. next' \in Nat \ {0}
  <2>1. next \in Nat \ {0}
    BY DEF ListInv
  <2>2. ASSUME NEW k, KeyCursor(k) PROVE next' = next
    BY <2>2 DEF KeyCursor
  <2> QED BY <2>1, <2>2 DEF Next, Program, Outside, StartRecord, Poll, PollLogin, PollLogout,
                       PollEnd, KeyHide, KeyEnter, KeySearch, vars
<1>3. /\ users_l \in Seq(Entry) /\ nusers = Len(users_l) /\ Numbered(users_l)
      /\ Len(users_l) \in Nat
  BY LenProperties DEF ListInv, LinesNumbered, Numbered
<1>4. users_l' \in Seq(Entry) /\ nusers' = Len(users_l') /\ Numbered(users_l')
  <2>1. CASE UNCHANGED listVars
    BY <1>3, <2>1 DEF listVars, Numbered
  <2>2. CASE \E e \in Entry : Comes(e)
    <3>1. PICK e \in Entry : Comes(e)
      BY <2>2
    <3>2. /\ users_l' = Front(e, users_l) /\ nusers' = nusers + 1 /\ e.line = Len(users_l)
      BY <3>1 DEF Comes, u_count
    <3>3. /\ users_l' \in Seq(Entry) /\ Len(users_l') = Len(users_l) + 1
          /\ Numbered(users_l')
      BY <1>3, <3>2, Added
    <3> QED BY <1>3, <3>2, <3>3
  <2>3. CASE \E i \in DOMAIN users_l : Goes(i)
    <3>1. PICK i \in DOMAIN users_l : Goes(i)
      BY <2>3
    <3>2. /\ users_l' = Dropped(users_l, i)
          /\ nusers' = nusers + -1
      BY <3>1 DEF Goes, u_count
    <3>3. /\ users_l' \in Seq(Entry) /\ Len(users_l') = Len(users_l) - 1
          /\ Numbered(users_l')
      BY <1>3, <3>2, Deleted
    <3>4. nusers' = nusers - 1
      BY <1>3, <3>2
    <3> QED BY <1>3, <3>3, <3>4
  <2> QED BY <2>1, <2>2, <2>3, ListChanges
<1> QED BY <1>1, <1>2, <1>4 DEF ListInv, LinesNumbered, Numbered

\* The list is well formed in every reachable state.
THEOREM ListKept == Spec => []ListInv
<1>1. Init => ListInv
  <2> SUFFICES ASSUME Init PROVE ListInv
    OBVIOUS
  <2>1. Records
    <3>1. utmp \in [1 .. Slots -> {Dead(t) : t \in Ttys \cup {None}}
                           \cup {Session(u, t) : u \in Users, t \in Ttys}]
      BY DEF Init
    <3>2. ASSUME NEW k \in 1 .. Slots
          PROVE  /\ utmp[k] \in [user : Users \cup {None}, tty : Ttys \cup {None}]
                 /\ utmp[k].user # None => utmp[k].tty \in Ttys
      <4>1. \/ \E t \in Ttys \cup {None} : utmp[k] = [user |-> None, tty |-> t]
            \/ \E u \in Users, t \in Ttys : utmp[k] = [user |-> u, tty |-> t]
        BY <3>1 DEF Dead, Session
      <4>2. ASSUME NEW t \in Ttys \cup {None}, utmp[k] = [user |-> None, tty |-> t]
            PROVE  /\ utmp[k] \in [user : Users \cup {None}, tty : Ttys \cup {None}]
                   /\ utmp[k].user # None => utmp[k].tty \in Ttys
        BY <4>2
      <4>3. ASSUME NEW u \in Users, NEW t \in Ttys, utmp[k] = [user |-> u, tty |-> t]
            PROVE  /\ utmp[k] \in [user : Users \cup {None}, tty : Ttys \cup {None}]
                   /\ utmp[k].user # None => utmp[k].tty \in Ttys
        BY <4>3
      <4> QED BY <4>1, <4>2, <4>3
    <3> QED BY <3>1, <3>2 DEF Records
  <2>2. users_l = <<>> /\ nusers = 0 /\ next = 1
    BY DEF Init
  <2>3. users_l \in Seq(Entry) /\ nusers = Len(users_l) /\ DOMAIN users_l = {}
    BY <2>2
  <2> QED BY <2>1, <2>2, <2>3 DEF ListInv, LinesNumbered
<1>2. ListInv /\ [Next]_vars => ListInv'
  BY ListNext
<1> QED BY <1>1, <1>2, PTL DEF Spec

\* The users have the lines from 0 on without a gap or a double, in the middle of
\* a poll, too (new_user(), udel(), update_line(), u_count()).
THEOREM LinesAreNumbered == Spec => []LinesNumbered
<1>1. ListInv => LinesNumbered
  BY DEF ListInv
<1> QED BY <1>1, ListKept, PTL

-----------------------------------------------------------------------------
(* The kinds of logins                                                     *)

OfKind(s, p) == {i \in DOMAIN s : s[i].parent = p}

LEMMA OfKindFinite ==
  ASSUME NEW s \in Seq(Entry), NEW p
  PROVE  IsFiniteSet(OfKind(s, p)) /\ Cardinality(OfKind(s, p)) \in Nat
<1>1. OfKind(s, p) \in SUBSET (1 .. Len(s)) /\ Len(s) \in Nat
  BY LenProperties DEF OfKind
<1>2. IsFiniteSet(1 .. Len(s))
  BY <1>1, FS_Interval
<1> QED BY <1>1, <1>2, FS_Subset, FS_CardinalityType

LEMMA KindComes ==
  ASSUME NEW s \in Seq(Entry), NEW e \in Entry, NEW p
  PROVE  Cardinality(OfKind(Front(e, s), p)) =
           Cardinality(OfKind(s, p)) + (IF e.parent = p THEN 1 ELSE 0)
<1> DEFINE t == Front(e, s)
<1>1. /\ t \in Seq(Entry) /\ Len(t) = Len(s) + 1 /\ t[1] = e /\ Len(s) \in Nat
      /\ \A j \in 1 .. Len(s) : t[j + 1] = s[j]
  BY Added, LenProperties
<1> HIDE DEF t
<1>2. DOMAIN s = 1 .. Len(s) /\ DOMAIN t = 1 .. Len(s) + 1
  BY <1>1, LenProperties
<1> DEFINE Old == OfKind(s, p)
           New == OfKind(t, p) \ {1}
           f == [i \in Old |-> i + 1]
<1>3. IsFiniteSet(Old) /\ IsFiniteSet(OfKind(t, p)) /\ Cardinality(Old) \in Nat
      /\ Cardinality(OfKind(t, p)) \in Nat
  BY <1>1, OfKindFinite
<1>4. f \in Bijection(Old, New)
  <2>1. ASSUME NEW i \in Old PROVE i + 1 \in New
    BY <1>1, <1>2 DEF OfKind
  <2>2. ASSUME NEW j \in New PROVE j - 1 \in Old /\ (j - 1) + 1 = j
    <3>1. j \in 1 .. Len(s) + 1 /\ j # 1 /\ t[j].parent = p
      BY <1>2 DEF OfKind
    <3>2. j - 1 \in 1 .. Len(s) /\ (j - 1) + 1 = j
      BY <1>1, <3>1
    <3>3. t[j] = s[j - 1]
      BY <1>1, <3>2
    <3> QED BY <1>2, <3>1, <3>2, <3>3 DEF OfKind
  <2>3. Old \subseteq Nat
    BY <1>2 DEF OfKind
  <2>4. f \in [Old -> New]
    BY <2>1
  <2>5. \A a, b \in Old : f[a] = f[b] => a = b
    BY <2>3
  <2>6. \A j \in New : \E i \in Old : f[i] = j
    BY <2>2
  <2> QED BY <2>4, <2>5, <2>6 DEF Bijection, Injection, Surjection, IsInjective
<1>5. Cardinality(New) = Cardinality(Old)
  BY <1>3, <1>4, FS_Bijection DEF ExistsBijection
<1>6. 1 \in OfKind(t, p) <=> e.parent = p
  BY <1>1, <1>2 DEF OfKind
<1>7. Cardinality(New) = IF 1 \in OfKind(t, p) THEN Cardinality(OfKind(t, p)) - 1
                       ELSE Cardinality(OfKind(t, p))
  BY <1>3, FS_RemoveElement
<1> HIDE DEF Old, New
<1>8. Cardinality(OfKind(t, p)) = Cardinality(Old) + (IF e.parent = p THEN 1 ELSE 0)
  BY <1>3, <1>5, <1>6, <1>7
<1> QED BY <1>8 DEF Old, t

LEMMA KindGoes ==
  ASSUME NEW s \in Seq(Entry), Numbered(s), NEW i \in DOMAIN s,
         NEW p
  PROVE  Cardinality(OfKind(Dropped(s, i), p)) =
           Cardinality(OfKind(s, p)) - (IF s[i].parent = p THEN 1 ELSE 0)
<1> DEFINE t == Dropped(s, i)
<1>1. /\ t \in Seq(Entry) /\ Len(t) = Len(s) - 1 /\ Len(s) \in Nat
      /\ \A j \in 1 .. Len(s) - 1 :
           Was(i, j) \in DOMAIN s /\ Was(i, j) # i /\ t[j].parent = s[Was(i, j)].parent
  <2>1. /\ t \in Seq(Entry) /\ Len(t) = Len(s) - 1
        /\ \A j \in 1 .. Len(s) - 1 :
             Was(i, j) \in DOMAIN s /\ Was(i, j) # i /\ t[j].parent = s[Was(i, j)].parent
    BY Deleted
  <2> QED BY <2>1, LenProperties
<1> HIDE DEF t
<1>2. DOMAIN s = 1 .. Len(s) /\ DOMAIN t = 1 .. Len(s) - 1 /\ i \in 1 .. Len(s)
  BY <1>1, LenProperties
<1> DEFINE Old == OfKind(s, p) \ {i}
           New == OfKind(t, p)
           f == [j \in New |-> Was(i, j)]
<1>3. IsFiniteSet(New) /\ IsFiniteSet(OfKind(s, p)) /\ Cardinality(New) \in Nat
      /\ Cardinality(OfKind(s, p)) \in Nat
  BY <1>1, OfKindFinite
<1>4. f \in Bijection(New, Old)
  <2>1. ASSUME NEW j \in New PROVE Was(i, j) \in Old
    BY <1>1, <1>2 DEF OfKind
  <2>2. ASSUME NEW m \in Old PROVE \E j \in New : Was(i, j) = m
    <3>1. m \in 1 .. Len(s) /\ m # i /\ s[m].parent = p
      BY <1>2 DEF OfKind
    <3> DEFINE j == IF m < i THEN m ELSE m - 1
    <3>2. j \in 1 .. Len(s) - 1 /\ Was(i, j) = m
      BY <1>1, <1>2, <3>1 DEF Was
    <3> HIDE DEF j
    <3>3. j \in New
      BY <1>1, <1>2, <3>1, <3>2 DEF OfKind
    <3> QED BY <3>2, <3>3
  <2>3. New \subseteq Nat
    BY <1>1, <1>2 DEF OfKind
  <2>4. f \in [New -> Old]
    BY <2>1
  <2>5. \A a, b \in New : f[a] = f[b] => a = b
    BY <1>2, <2>3 DEF Was
  <2>6. \A m \in Old : \E j \in New : f[j] = m
    BY <2>2
  <2> QED BY <2>4, <2>5, <2>6 DEF Bijection, Injection, Surjection, IsInjective
<1>5. Cardinality(Old) = Cardinality(New)
  BY <1>3, <1>4, FS_Bijection DEF ExistsBijection
<1>6. i \in OfKind(s, p) <=> s[i].parent = p
  BY <1>2 DEF OfKind
<1>7. Cardinality(Old) = IF i \in OfKind(s, p) THEN Cardinality(OfKind(s, p)) - 1
                       ELSE Cardinality(OfKind(s, p))
  BY <1>3, FS_RemoveElement
<1> HIDE DEF Old, New
<1>8. Cardinality(New) = Cardinality(OfKind(s, p)) - (IF s[i].parent = p THEN 1 ELSE 0)
  BY <1>3, <1>5, <1>6, <1>7
<1> QED BY <1>8 DEF New, t

LEMMA CountsNext == ASSUME ListInv, CountsMatch, [Next]_vars PROVE CountsMatch'
<1> SUFFICES ASSUME NEW p \in Protocols
             PROVE  nr'[p] = Cardinality(OfKind(users_l', p))
  BY DEF CountsMatch, OfKind
<1>1. nr[p] = Cardinality(OfKind(users_l, p))
  BY DEF CountsMatch, OfKind
<1>2. users_l \in Seq(Entry) /\ Numbered(users_l)
  BY DEF ListInv, LinesNumbered, Numbered
<1>3. Cardinality(OfKind(users_l, p)) \in Nat
  BY <1>2, OfKindFinite
<1>4. CASE UNCHANGED listVars
  BY <1>1, <1>4 DEF listVars
<1>5. ASSUME NEW e \in Entry, Comes(e)
      PROVE  nr'[p] = Cardinality(OfKind(users_l', p))
  <2>1. users_l' = Front(e, users_l) /\ nr'[p] = IF p = e.parent THEN nr[p] + 1 ELSE nr[p]
    BY <1>5 DEF Comes, u_count
  <2>2. Cardinality(OfKind(users_l', p)) =
          Cardinality(OfKind(users_l, p)) + (IF e.parent = p THEN 1 ELSE 0)
    BY <1>2, <2>1, KindComes
  <2> QED BY <1>1, <1>3, <2>1, <2>2
<1>6. ASSUME NEW i \in DOMAIN users_l, Goes(i)
      PROVE  nr'[p] = Cardinality(OfKind(users_l', p))
  <2>1. /\ users_l' = Dropped(users_l, i)
        /\ nr'[p] = IF p = users_l[i].parent THEN nr[p] + -1 ELSE nr[p]
    BY <1>6 DEF Goes, u_count
  <2>2. Cardinality(OfKind(users_l', p)) =
          Cardinality(OfKind(users_l, p)) - (IF users_l[i].parent = p THEN 1 ELSE 0)
    BY <1>2, <2>1, KindGoes
  <2> QED BY <1>1, <1>3, <2>1, <2>2
<1> QED BY <1>4, <1>5, <1>6, ListChanges

\* The info line is right about every kind of login: what was counted when a user
\* came is taken back when he goes (u_count(), new_user(), udel()).
THEOREM LoginsAreCounted == Spec => []CountsMatch
<1>1. Init => CountsMatch
  <2> SUFFICES ASSUME Init, NEW p \in Protocols
               PROVE  nr[p] = Cardinality({i \in DOMAIN users_l : users_l[i].parent = p})
    BY DEF CountsMatch
  <2>1. nr[p] = 0 /\ DOMAIN users_l = {}
    BY DEF Init
  <2>2. {i \in DOMAIN users_l : users_l[i].parent = p} = {}
    BY <2>1
  <2> QED BY <2>1, <2>2, FS_EmptySet
<1>2. ListInv /\ CountsMatch /\ [Next]_vars => CountsMatch'
  BY CountsNext
<1> QED BY <1>1, <1>2, ListKept, PTL DEF Spec

-----------------------------------------------------------------------------
(* The sessions, where each tty has a record of its own and gets its next  *)
(* session only after the list has dropped the last one                    *)

OwnRecords == ~FastReuse /\ \A p, q \in Places : p[1] = q[1] <=> p[2] = q[2]

\* Is there a user of that tty on the list?
On(s, tty) == \E i \in DOMAIN s : s[i].tty = tty

OneEach(s) == \A i, j \in DOMAIN s : s[i].tty = s[j].tty => i = j

InPlace(recs) ==
  \A k \in 1 .. Slots : recs[k].tty # None =>
    \E p \in Places : p[1] = k /\ p[2] = recs[k].tty

\* A record of the file names the tty of the user, and himself unless he is gone;
\* it is one of those in front of n.
Named(recs, u, n) ==
  \E k \in 1 .. Slots : k < n /\ recs[k].tty = u.tty /\ recs[k].user \in {None, u.user}

\* Of the records in front of n those of sessions are listed, and no other.
ReadTo(recs, s, n) ==
  \A k \in 1 .. Slots : k < n /\ recs[k].tty # None =>
    (On(s, recs[k].tty) <=> recs[k].user # None)

Unread == IF phase = "start" THEN next ELSE Slots + 1

SessionInv ==
  /\ phase \in {"start", "poll", "idle"}
  /\ InPlace(utmp) /\ OneEach(users_l)
  /\ \A i \in DOMAIN users_l : Named(utmp, users_l[i], Unread)
  /\ ~dirty /\ phase = "poll" => ReadTo(utmp, users_l, next)
  /\ ~dirty /\ phase = "idle" => ReadTo(utmp, users_l, Slots + 1)

LEMMA ListedOn == ASSUME NEW tty PROVE Listed(tty) <=> On(users_l, tty)
BY DEF Listed, On, Range

LEMMA OneRecord ==
  ASSUME OwnRecords, InPlace(utmp), NEW j \in 1 .. Slots, NEW k \in 1 .. Slots,
         utmp[j].tty = utmp[k].tty, utmp[k].tty # None
  PROVE  j = k
<1>1. PICK p \in Places : p[1] = j /\ p[2] = utmp[j].tty
  BY DEF InPlace
<1>2. PICK q \in Places : q[1] = k /\ q[2] = utmp[k].tty
  BY DEF InPlace
<1>3. p[2] = q[2]
  BY <1>1, <1>2
<1>4. p[1] = q[1]
  BY <1>3, Zenon DEF OwnRecords
<1> QED BY <1>1, <1>2, <1>4

\* What a user who comes, or goes, changes
LEMMA ComesOn ==
  ASSUME NEW s \in Seq(Entry), NEW e \in Entry
  PROVE  /\ \A a : On(Front(e, s), a) <=> On(s, a) \/ a = e.tty
         /\ OneEach(s) /\ ~On(s, e.tty) => OneEach(Front(e, s))
         /\ \A j \in DOMAIN Front(e, s) :
              Front(e, s)[j] = e \/ \E i \in DOMAIN s : Front(e, s)[j] = s[i]
<1> DEFINE t == Front(e, s)
<1>1. /\ Len(s) \in Nat /\ DOMAIN s = 1 .. Len(s) /\ DOMAIN t = 1 .. Len(s) + 1
      /\ t[1] = e /\ \A j \in 1 .. Len(s) : t[j + 1] = s[j]
  <2>1. /\ t \in Seq(Entry) /\ Len(t) = Len(s) + 1 /\ t[1] = e
        /\ \A j \in 1 .. Len(s) : t[j + 1] = s[j]
    BY Added
  <2> HIDE DEF t
  <2> QED BY <2>1, LenProperties
<1> HIDE DEF t
<1>2. ASSUME NEW j \in DOMAIN t, j # 1 PROVE j - 1 \in DOMAIN s /\ t[j] = s[j - 1]
  <2>1. j - 1 \in 1 .. Len(s) /\ (j - 1) + 1 = j
    BY <1>1, <1>2
  <2> QED BY <1>1, <2>1
<1>3. ASSUME NEW i \in DOMAIN s PROVE i + 1 \in DOMAIN t /\ t[i + 1] = s[i]
  BY <1>1
<1>4. 1 \in DOMAIN t
  BY <1>1
<1>5. \A a : On(t, a) <=> On(s, a) \/ a = e.tty
  BY <1>1, <1>2, <1>3, <1>4 DEF On
<1>6. ASSUME OneEach(s), ~On(s, e.tty) PROVE OneEach(t)
  <2> SUFFICES ASSUME NEW i \in DOMAIN t, NEW j \in DOMAIN t, t[i].tty = t[j].tty
               PROVE  i = j
    BY DEF OneEach
  <2>1. CASE i = 1 /\ j # 1
    BY <1>1, <1>2, <1>6, <2>1 DEF On
  <2>2. CASE i # 1 /\ j = 1
    BY <1>1, <1>2, <1>6, <2>2 DEF On
  <2>3. CASE i # 1 /\ j # 1
    <3>1. i - 1 \in DOMAIN s /\ j - 1 \in DOMAIN s /\ s[i - 1].tty = s[j - 1].tty
      BY <1>2, <2>3
    <3>2. i - 1 = j - 1
      BY <1>6, <3>1 DEF OneEach
    <3> QED BY <1>1, <3>2
  <2> QED BY <2>1, <2>2, <2>3
<1>7. \A j \in DOMAIN t : t[j] = e \/ \E i \in DOMAIN s : t[j] = s[i]
  BY <1>1, <1>2
<1> QED BY <1>5, <1>6, <1>7 DEF t

LEMMA GoesOn ==
  ASSUME NEW s \in Seq(Entry), Numbered(s), NEW i \in DOMAIN s, OneEach(s)
  PROVE  /\ \A a : On(Dropped(s, i), a) <=> On(s, a) /\ a # s[i].tty
         /\ OneEach(Dropped(s, i))
         /\ \A j \in DOMAIN Dropped(s, i) : \E m \in DOMAIN s :
              /\ Dropped(s, i)[j].tty = s[m].tty /\ Dropped(s, i)[j].user = s[m].user
<1> DEFINE t == Dropped(s, i)
<1>1. /\ Len(s) \in Nat /\ DOMAIN s = 1 .. Len(s) /\ DOMAIN t = 1 .. Len(s) - 1
      /\ \A j \in 1 .. Len(s) - 1 :
           /\ Was(i, j) \in DOMAIN s /\ Was(i, j) # i
           /\ t[j].user = s[Was(i, j)].user /\ t[j].tty = s[Was(i, j)].tty
  <2>1. /\ t \in Seq(Entry) /\ Len(t) = Len(s) - 1
        /\ \A j \in 1 .. Len(s) - 1 :
             /\ Was(i, j) \in DOMAIN s /\ Was(i, j) # i
             /\ t[j].user = s[Was(i, j)].user /\ t[j].tty = s[Was(i, j)].tty
    BY Deleted
  <2> HIDE DEF t
  <2> QED BY <2>1, LenProperties
<1> HIDE DEF t
<1>2. ASSUME NEW m \in DOMAIN s, m # i
      PROVE  \E j \in DOMAIN t : Was(i, j) = m
  <2> DEFINE j == IF m < i THEN m ELSE m - 1
  <2>1. j \in 1 .. Len(s) - 1 /\ Was(i, j) = m
    BY <1>1, <1>2 DEF Was
  <2> HIDE DEF j
  <2> QED BY <1>1, <2>1
<1>3. ASSUME NEW a PROVE On(t, a) <=> On(s, a) /\ a # s[i].tty
  <2>1. ASSUME On(t, a) PROVE On(s, a) /\ a # s[i].tty
    <3>1. PICK j \in DOMAIN t : t[j].tty = a
      BY <2>1 DEF On
    <3> DEFINE m == Was(i, j)
    <3>2. m \in DOMAIN s /\ m # i /\ s[m].tty = a
      BY <1>1, <3>1
    <3> HIDE DEF m
    <3> QED BY <3>2 DEF On, OneEach
  <2>2. ASSUME On(s, a), a # s[i].tty PROVE On(t, a)
    <3>1. PICK m \in DOMAIN s : s[m].tty = a
      BY <2>2 DEF On
    <3>2. m # i
      BY <2>2, <3>1
    <3>3. PICK j \in DOMAIN t : Was(i, j) = m
      BY <1>2, <3>2
    <3>4. t[j].tty = a
      BY <1>1, <3>1, <3>3
    <3> QED BY <3>4 DEF On
  <2> QED BY <2>1, <2>2
<1>4. OneEach(t)
  <2> SUFFICES ASSUME NEW j \in DOMAIN t, NEW m \in DOMAIN t, t[j].tty = t[m].tty
               PROVE  j = m
    BY DEF OneEach
  <2>1. Was(i, j) = Was(i, m)
    BY <1>1 DEF OneEach
  <2> QED BY <1>1, <2>1 DEF Was
<1>5. \A j \in DOMAIN t : \E m \in DOMAIN s : t[j].tty = s[m].tty /\ t[j].user = s[m].user
  BY <1>1
<1> QED BY <1>3, <1>4, <1>5 DEF t

\* What the steps need of ListInv
LEMMA EntryFacts ==
  ASSUME ListInv
  PROVE  /\ users_l \in Seq(Entry) /\ Numbered(users_l) /\ next \in Nat \ {0}
         /\ \A i \in DOMAIN users_l : users_l[i].tty \in Ttys
         /\ None \notin Ttys /\ Slots \in Nat
<1>1. users_l \in Seq(Entry) /\ Numbered(users_l) /\ next \in Nat \ {0}
  BY DEF ListInv, LinesNumbered, Numbered
<1>2. \A i \in DOMAIN users_l : users_l[i] \in Entry
  BY <1>1, LenProperties, ElementOfSeq
<1>3. \A i \in DOMAIN users_l : users_l[i].tty \in Ttys
  BY <1>2 DEF Entry
<1>4. None \notin Ttys
  <2>1. \A p \in Places : p[2] # None
    BY PlacesAssumption, Zenon
  <2> QED BY <2>1, Zenon DEF Ttys
<1> QED BY <1>1, <1>3, <1>4, SlotsAssumption

LEMMA OutsideSessions ==
  ASSUME OwnRecords, ListInv, SessionInv, Outside PROVE SessionInv'
<1>1. /\ users_l' = users_l /\ phase' = phase /\ next' = next /\ dirty' = TRUE
      /\ Unread' = Unread
  BY DEF Outside, listVars, Unread
<1>2. /\ phase \in {"start", "poll", "idle"} /\ InPlace(utmp) /\ OneEach(users_l)
      /\ \A i \in DOMAIN users_l : Named(utmp, users_l[i], Unread)
  BY DEF SessionInv
<1>3. /\ utmp \in [1 .. Slots -> [user : Users \cup {None}, tty : Ttys \cup {None}]]
      /\ \A k \in 1 .. Slots : utmp[k].user # None => utmp[k].tty \in Ttys
  BY DEF ListInv, Records
<1>4. InPlace(utmp') /\ \A i \in DOMAIN users_l : Named(utmp', users_l[i], Unread)
  <2>1. ASSUME NEW p \in Places, NEW u \in Users, Login(p[1], p[2], u)
        PROVE  InPlace(utmp') /\ \A i \in DOMAIN users_l : Named(utmp', users_l[i], Unread)
    <3> DEFINE c == p[1]
               tty == p[2]
    <3>1. c \in 1 .. Slots
      BY PlacesAssumption, Zenon
    <3>2. utmp' = [utmp EXCEPT ![c] = [user |-> u, tty |-> tty]] /\ ~Listed(tty)
      BY <2>1 DEF Login, Session, OwnRecords
    <3>3. \A q \in Places : q[1] = c <=> q[2] = tty
      BY Zenon DEF OwnRecords
    <3>4. \E q \in Places : q[1] = c /\ q[2] = tty
      OBVIOUS
    <3> HIDE DEF c, tty
    <3>5. /\ utmp'[c] = [user |-> u, tty |-> tty]
          /\ \A k \in 1 .. Slots : k # c => utmp'[k] = utmp[k]
      BY <1>3, <3>1, <3>2
    <3>6. InPlace(utmp')
      <4> SUFFICES ASSUME NEW k \in 1 .. Slots, utmp'[k].tty # None
                   PROVE  \E q \in Places : q[1] = k /\ q[2] = utmp'[k].tty
        BY DEF InPlace
      <4>1. CASE k = c
        BY <3>4, <3>5, <4>1
      <4>2. CASE k # c
        BY <1>2, <3>5, <4>2 DEF InPlace
      <4> QED BY <4>1, <4>2
    <3>7. ASSUME NEW i \in DOMAIN users_l PROVE Named(utmp', users_l[i], Unread)
      <4>1. PICK k \in 1 .. Slots :
              /\ k < Unread /\ utmp[k].tty = users_l[i].tty
              /\ utmp[k].user \in {None, users_l[i].user}
        BY <1>2 DEF Named
      <4>2. k # c
        <5> SUFFICES ASSUME k = c PROVE FALSE
          OBVIOUS
        <5>1. utmp[k].tty # None
          BY <4>1, EntryFacts
        <5>2. PICK q \in Places : q[1] = k /\ q[2] = utmp[k].tty
          BY <1>2, <5>1 DEF InPlace
        <5>3. users_l[i].tty = tty
          BY <3>3, <4>1, <5>2
        <5>4. Listed(tty)
          BY <5>3, ListedOn DEF On
        <5> QED BY <3>2, <5>4
      <4> QED BY <3>5, <4>1, <4>2 DEF Named
    <3> QED BY <3>6, <3>7
  <2>2. ASSUME NEW c \in 1 .. Slots, Logout(c)
        PROVE  InPlace(utmp') /\ \A i \in DOMAIN users_l : Named(utmp', users_l[i], Unread)
    <3>1. utmp' = [utmp EXCEPT ![c] = [user |-> None, tty |-> utmp[c].tty]]
      BY <2>2 DEF Logout, Dead
    <3>2. /\ \A k \in 1 .. Slots : utmp'[k].tty = utmp[k].tty
          /\ \A k \in 1 .. Slots : utmp'[k].user \in {None, utmp[k].user}
      BY <1>3, <3>1
    <3>3. InPlace(utmp')
      BY <1>2, <3>2 DEF InPlace
    <3>4. ASSUME NEW i \in DOMAIN users_l PROVE Named(utmp', users_l[i], Unread)
      <4>1. PICK k \in 1 .. Slots :
              /\ k < Unread /\ utmp[k].tty = users_l[i].tty
              /\ utmp[k].user \in {None, users_l[i].user}
        BY <1>2 DEF Named
      <4> QED BY <3>2, <4>1 DEF Named
    <3> QED BY <3>3, <3>4
  <2> QED BY <2>1, <2>2 DEF Outside
<1> QED BY <1>1, <1>2, <1>4 DEF SessionInv

\* The record of the file that is being read
LEMMA RecordRead ==
  ASSUME OwnRecords, ListInv, SessionInv, next <= Slots, phase \in {"start", "poll"},
         utmp' = utmp, phase' = phase, dirty' = dirty, next' = next + 1,
         \/ /\ users_l' = users_l
            /\ utmp[next].user # None =>
                 phase = "poll" /\ On(users_l, utmp[next].tty)
            /\ utmp[next].user = None =>
                 phase = "start" \/ ~On(users_l, utmp[next].tty)
         \/ /\ utmp[next].user # None /\ (phase = "poll" => ~On(users_l, utmp[next].tty))
            /\ \E e \in Entry : /\ users_l' = Front(e, users_l)
                                /\ e.user = utmp[next].user /\ e.tty = utmp[next].tty
         \/ /\ utmp[next].user = None /\ phase = "poll"
            /\ \E i \in DOMAIN users_l :
                 users_l[i].tty = utmp[next].tty /\ users_l' = Dropped(users_l, i)
  PROVE  SessionInv'
<1>1. /\ InPlace(utmp) /\ OneEach(users_l)
      /\ \A i \in DOMAIN users_l : Named(utmp, users_l[i], Unread)
      /\ ~dirty /\ phase = "poll" => ReadTo(utmp, users_l, next)
  BY DEF SessionInv
<1>2. /\ users_l \in Seq(Entry) /\ Numbered(users_l) /\ next \in 1 .. Slots
      /\ Slots \in Nat /\ None \notin Ttys
      /\ \A i \in DOMAIN users_l : users_l[i].tty \in Ttys
      /\ (utmp[next].user # None => utmp[next].tty \in Ttys)
  BY EntryFacts DEF ListInv, Records
<1>3. /\ Unread' = IF phase = "start" THEN next + 1 ELSE Slots + 1
      /\ \A k \in 1 .. Slots : k < Unread => k < Unread'
      /\ (phase = "start" => Unread = next) /\ next < Unread'
  BY <1>2 DEF Unread
<1> DEFINE s == users_l
           t == users_l'
           r == utmp[next]
\* What has to be shown of the new list t
<1>4. SUFFICES /\ OneEach(t)
               /\ \A j \in DOMAIN t : Named(utmp, t[j], Unread')
               /\ phase = "poll" =>
                    /\ r.tty # None => (On(t, r.tty) <=> r.user # None)
                    /\ \A a : a # r.tty => (On(t, a) <=> On(s, a))
  <2> HIDE DEF s, t, r
  <2> SUFFICES ASSUME ~dirty, phase = "poll" PROVE ReadTo(utmp, t, next + 1)
    BY <1>1 DEF SessionInv, t
  <2> SUFFICES ASSUME NEW k \in 1 .. Slots, k < next + 1, utmp[k].tty # None
               PROVE  On(t, utmp[k].tty) <=> utmp[k].user # None
    BY DEF ReadTo
  <2>1. CASE k = next
    BY <1>4, <2>1 DEF r
  <2>2. CASE k # next
    <3>1. k < next
      BY <1>2, <2>2
    <3>2. utmp[k].tty # r.tty
      BY <1>1, <1>2, <2>2, OneRecord DEF r
    <3>3. On(s, utmp[k].tty) <=> utmp[k].user # None
      BY <1>1, <3>1 DEF ReadTo, s
    <3> QED BY <1>4, <3>2, <3>3
  <2> QED BY <2>1, <2>2
<1>5. \A u, n, m : Named(utmp, u, n) /\ (\A k \in 1 .. Slots : k < n => k < m) => Named(utmp, u, m)
  BY DEF Named
<1>6. CASE /\ users_l' = users_l
           /\ utmp[next].user # None => phase = "poll" /\ On(users_l, utmp[next].tty)
           /\ utmp[next].user = None => phase = "start" \/ ~On(users_l, utmp[next].tty)
  BY <1>1, <1>3, <1>5, <1>6
<1>7. CASE /\ utmp[next].user # None /\ (phase = "poll" => ~On(users_l, utmp[next].tty))
           /\ \E e \in Entry : /\ users_l' = Front(e, users_l)
                               /\ e.user = utmp[next].user /\ e.tty = utmp[next].tty
  <2>1. PICK e \in Entry : t = Front(e, s) /\ e.user = r.user /\ e.tty = r.tty
    BY <1>7
  <2> HIDE DEF s, t, r
  <2>2. s \in Seq(Entry) /\ r.user # None /\ OneEach(s)
    BY <1>1, <1>2, <1>7 DEF s, r
  <2>3. ~On(s, r.tty)
    <3>1. CASE phase = "poll"
      BY <1>7, <3>1 DEF s, r
    <3>2. CASE phase = "start"
      <4> SUFFICES ASSUME NEW i \in DOMAIN s, s[i].tty = r.tty PROVE FALSE
        BY DEF On
      <4>1. PICK k \in 1 .. Slots : k < next /\ utmp[k].tty = s[i].tty
        BY <1>1, <1>3, <3>2 DEF Named, s
      <4>2. utmp[k].tty = utmp[next].tty /\ utmp[next].tty # None
        BY <1>2, <2>2, <4>1 DEF r
      <4>3. k = next
        BY <1>1, <1>2, <4>2, OneRecord
      <4> QED BY <1>2, <4>1, <4>3
    <3> QED BY <3>1, <3>2
  <2>4. /\ \A a : On(t, a) <=> On(s, a) \/ a = e.tty
        /\ OneEach(t)
        /\ \A j \in DOMAIN t : t[j] = e \/ \E i \in DOMAIN s : t[j] = s[i]
    BY <2>1, <2>2, <2>3, ComesOn
  <2>5. Named(utmp, e, Unread')
    BY <1>2, <1>3, <2>1 DEF Named, r
  <2>6. ASSUME NEW j \in DOMAIN t PROVE Named(utmp, t[j], Unread')
    BY <1>1, <1>3, <1>5, <2>4, <2>5 DEF s
  <2> QED BY <2>1, <2>2, <2>3, <2>4, <2>6
<1>8. CASE /\ utmp[next].user = None /\ phase = "poll"
           /\ \E i \in DOMAIN users_l :
                users_l[i].tty = utmp[next].tty /\ users_l' = Dropped(users_l, i)
  <2>1. PICK i \in DOMAIN s : s[i].tty = r.tty /\ t = Dropped(s, i)
    BY <1>8
  <2> HIDE DEF s, t, r
  <2>2. s \in Seq(Entry) /\ Numbered(s) /\ r.user = None /\ OneEach(s)
    BY <1>1, <1>2, <1>8 DEF s, r
  <2>3. /\ \A a : On(t, a) <=> On(s, a) /\ a # s[i].tty
        /\ OneEach(t)
        /\ \A j \in DOMAIN t : \E m \in DOMAIN s :
             t[j].tty = s[m].tty /\ t[j].user = s[m].user
    BY <2>1, <2>2, GoesOn
  <2>4. ASSUME NEW j \in DOMAIN t PROVE Named(utmp, t[j], Unread')
    <3>1. PICK m \in DOMAIN s : t[j].tty = s[m].tty /\ t[j].user = s[m].user
      BY <2>3
    <3>2. Named(utmp, s[m], Unread)
      BY <1>1 DEF s
    <3>3. Named(utmp, t[j], Unread)
      BY <3>1, <3>2 DEF Named
    <3> QED BY <1>3, <1>5, <3>3
  <2> QED BY <2>1, <2>2, <2>3, <2>4
<1> QED BY <1>6, <1>7, <1>8

LEMMA PollStarts ==
  ASSUME ListInv, SessionInv, Poll PROVE SessionInv'
<1>1. /\ phase' = "poll" /\ next' = 1 /\ utmp' = utmp /\ users_l' = users_l
      /\ Slots \in Nat
  BY SlotsAssumption DEF Poll, listVars
<1>2. /\ InPlace(utmp) /\ OneEach(users_l)
      /\ \A i \in DOMAIN users_l : Named(utmp, users_l[i], Unread)
  BY DEF SessionInv
<1>3. Unread' = Slots + 1
  BY <1>1 DEF Unread
<1>4. \A i \in DOMAIN users_l : Named(utmp, users_l[i], Slots + 1)
  <2>1. \A k \in 1 .. Slots : k < Slots + 1
    BY <1>1
  <2> QED BY <1>2, <2>1 DEF Named
<1>5. ReadTo(utmp, users_l, 1)
  BY <1>1 DEF ReadTo
<1>6. phase' # "idle"
  BY <1>1
<1> QED BY <1>1, <1>2, <1>3, <1>4, <1>5, <1>6 DEF SessionInv

LEMMA PollEnds ==
  ASSUME ListInv, SessionInv, PollEnd PROVE SessionInv'
<1>1. /\ phase = "poll" /\ phase' = "idle" /\ utmp' = utmp /\ users_l' = users_l
      /\ dirty' = dirty /\ Slots \in Nat /\ next \in Nat /\ next > Slots
  BY SlotsAssumption DEF PollEnd, listVars, ListInv
<1>2. /\ InPlace(utmp) /\ OneEach(users_l)
      /\ \A i \in DOMAIN users_l : Named(utmp, users_l[i], Unread)
      /\ ~dirty => ReadTo(utmp, users_l, next)
  BY <1>1 DEF SessionInv
<1>3. Unread' = Unread
  BY <1>1 DEF Unread
<1>4. ~dirty => ReadTo(utmp, users_l, Slots + 1)
  <2>1. \A k \in 1 .. Slots : k < next
    BY <1>1
  <2> QED BY <1>2, <2>1 DEF ReadTo
<1>5. phase' # "poll"
  BY <1>1
<1> QED BY <1>1, <1>2, <1>3, <1>4, <1>5 DEF SessionInv

LEMMA SessionNext ==
  ASSUME OwnRecords, ListInv, SessionInv, [Next]_vars PROVE SessionInv'
<1>1. next \in Nat \ {0} /\ (next <= Slots => next \in 1 .. Slots)
  BY SlotsAssumption DEF ListInv
<1>2. CASE Outside
  BY <1>2, OutsideSessions
<1>3. CASE StartRecord
  <2>1. /\ phase = "start" /\ next <= Slots /\ next' = next + 1 /\ utmp' = utmp
        /\ phase' = phase /\ dirty' = dirty
        /\ IF utmp[next].user # None THEN new_user(utmp[next]) ELSE UNCHANGED listVars
    BY <1>3 DEF StartRecord
  <2>2. CASE utmp[next].user # None
    <3>1. \E e \in Entry : Comes(e) /\ e.user = utmp[next].user /\ e.tty = utmp[next].tty
      BY <1>1, <2>1, <2>2, NewUserComes
    <3>2. \E e \in Entry : /\ users_l' = Front(e, users_l)
                           /\ e.user = utmp[next].user /\ e.tty = utmp[next].tty
      BY <3>1 DEF Comes
    <3> QED BY <2>1, <2>2, <3>2, RecordRead
  <2>3. CASE utmp[next].user = None
    <3>1. users_l' = users_l
      BY <2>1, <2>3 DEF listVars
    <3> QED BY <2>1, <2>3, <3>1, RecordRead
  <2> QED BY <2>2, <2>3
<1>4. CASE PollLogin
  <2>1. /\ phase = "poll" /\ next <= Slots /\ next' = next + 1 /\ utmp' = utmp
        /\ phase' = phase /\ dirty' = dirty /\ utmp[next].user # None
        /\ IF Listed(utmp[next].tty) THEN UNCHANGED listVars ELSE new_user(utmp[next])
    BY <1>4 DEF PollLogin
  <2>2. CASE ~Listed(utmp[next].tty)
    <3>1. \E e \in Entry : Comes(e) /\ e.user = utmp[next].user /\ e.tty = utmp[next].tty
      BY <1>1, <2>1, <2>2, NewUserComes
    <3>2. \E e \in Entry : /\ users_l' = Front(e, users_l)
                           /\ e.user = utmp[next].user /\ e.tty = utmp[next].tty
      BY <3>1 DEF Comes
    <3>3. ~On(users_l, utmp[next].tty)
      BY <2>2, ListedOn
    <3> QED BY <2>1, <3>2, <3>3, RecordRead
  <2>3. CASE Listed(utmp[next].tty)
    <3>1. users_l' = users_l /\ On(users_l, utmp[next].tty)
      BY <2>1, <2>3, ListedOn DEF listVars
    <3> QED BY <2>1, <3>1, RecordRead
  <2> QED BY <2>2, <2>3
<1>5. CASE PollLogout
  <2>1. /\ phase = "poll" /\ next <= Slots /\ next' = next + 1 /\ utmp' = utmp
        /\ phase' = phase /\ dirty' = dirty /\ utmp[next].user = None
        /\ IF Listed(utmp[next].tty)
           THEN \E i \in DOMAIN users_l : users_l[i].tty = utmp[next].tty /\ udel(i)
           ELSE UNCHANGED listVars
    BY <1>5 DEF PollLogout
  <2>2. CASE Listed(utmp[next].tty)
    <3>1. PICK i \in DOMAIN users_l : users_l[i].tty = utmp[next].tty /\ udel(i)
      BY <2>1, <2>2
    <3>2. users_l' = Dropped(users_l, i)
      BY <3>1, UdelGoes DEF Goes
    <3> QED BY <2>1, <3>1, <3>2, RecordRead
  <2>3. CASE ~Listed(utmp[next].tty)
    <3>1. users_l' = users_l /\ ~On(users_l, utmp[next].tty)
      BY <2>1, <2>3, ListedOn DEF listVars
    <3> QED BY <2>1, <3>1, RecordRead
  <2> QED BY <2>2, <2>3
<1>6. CASE Poll
  BY <1>6, PollStarts
<1>7. CASE PollEnd
  BY <1>7, PollEnds
<1>8. ASSUME utmp' = utmp, users_l' = users_l, phase' = phase, next' = next, dirty' = dirty
      PROVE  SessionInv'
  <2>1. Unread' = Unread
    BY <1>8 DEF Unread
  <2> QED BY <1>8, <2>1 DEF SessionInv
<1>9. CASE KeyHide \/ KeyEnter \/ KeySearch
  BY <1>8, <1>9 DEF KeyHide, KeyEnter, KeySearch, listVars
<1>10. ASSUME NEW k, KeyCursor(k) PROVE SessionInv'
  BY <1>8, <1>10 DEF KeyCursor, listVars
<1>11. CASE UNCHANGED vars
  BY <1>8, <1>11 DEF vars, listVars
<1> QED BY <1>2, <1>3, <1>4, <1>5, <1>6, <1>7, <1>9, <1>10, <1>11 DEF Next, Program

LEMMA SessionInit == ASSUME Init PROVE SessionInv
<1>1. /\ phase = "start" /\ users_l = <<>> /\ DOMAIN users_l = {}
      /\ \A k \in 1 .. Slots : utmp[k].tty # None => <<k, utmp[k].tty>> \in Places
  BY DEF Init
<1>2. InPlace(utmp)
  <2> SUFFICES ASSUME NEW k \in 1 .. Slots, utmp[k].tty # None
               PROVE  \E p \in Places : p[1] = k /\ p[2] = utmp[k].tty
    BY DEF InPlace
  <2>1. <<k, utmp[k].tty>> \in Places
    BY <1>1
  <2> QED BY <2>1
<1>3. OneEach(users_l)
  BY <1>1 DEF OneEach
<1> QED BY <1>1, <1>2, <1>3 DEF SessionInv

\* After a poll of a file that did not change the list is the sessions.
LEMMA ListIsSessions ==
  ASSUME OwnRecords, ListInv, SessionInv PROVE ShowsSessions
<1> SUFFICES ASSUME phase = "idle", ~dirty
             PROVE  /\ {Id(u) : u \in Range(users_l)} = Sessions
                    /\ Len(users_l) = Cardinality(Sessions)
  BY DEF ShowsSessions
<1>1. /\ users_l \in Seq(Entry) /\ Len(users_l) \in Nat /\ DOMAIN users_l = 1 .. Len(users_l)
      /\ \A i \in DOMAIN users_l : users_l[i].tty # None /\ users_l[i].user # None
      /\ None \notin Ttys /\ Slots \in Nat
  <2>1. users_l \in Seq(Entry)
    BY EntryFacts
  <2>2. \A i \in DOMAIN users_l : users_l[i] \in Entry
    BY <2>1, LenProperties, ElementOfSeq
  <2> QED BY <2>1, <2>2, EntryFacts, LenProperties, NamesAssumption DEF Entry
<1>2. /\ InPlace(utmp) /\ OneEach(users_l)
      /\ \A i \in DOMAIN users_l : Named(utmp, users_l[i], Slots + 1)
      /\ \A k \in 1 .. Slots : utmp[k].tty # None =>
           (On(users_l, utmp[k].tty) <=> utmp[k].user # None)
  <2>1. \A k \in 1 .. Slots : k < Slots + 1
    BY <1>1
  <2> QED BY <2>1 DEF SessionInv, Unread, ReadTo
<1>3. ASSUME NEW i \in DOMAIN users_l
      PROVE  \E k \in 1 .. Slots : /\ utmp[k].tty = users_l[i].tty
                                   /\ utmp[k].user = users_l[i].user
                                   /\ utmp[k].user # None
  <2>1. PICK k \in 1 .. Slots : /\ utmp[k].tty = users_l[i].tty
                                /\ utmp[k].user \in {None, users_l[i].user}
    BY <1>2 DEF Named
  <2>2. On(users_l, utmp[k].tty) /\ utmp[k].tty # None
    BY <1>1, <2>1 DEF On
  <2>3. utmp[k].user # None
    BY <1>2, <2>2
  <2> QED BY <2>1, <2>3
<1>4. ASSUME NEW k \in 1 .. Slots, utmp[k].user # None
      PROVE  \E i \in DOMAIN users_l : /\ users_l[i].tty = utmp[k].tty
                                       /\ users_l[i].user = utmp[k].user
  <2>1. utmp[k].tty # None
    BY <1>1, <1>4 DEF ListInv, Records
  <2>2. PICK i \in DOMAIN users_l : users_l[i].tty = utmp[k].tty
    BY <1>2, <1>4, <2>1 DEF On
  <2>3. PICK j \in 1 .. Slots : utmp[j].tty = users_l[i].tty /\ utmp[j].user = users_l[i].user
    BY <1>3
  <2>4. j = k
    BY <1>2, <2>1, <2>2, <2>3, OneRecord
  <2> QED BY <2>2, <2>3, <2>4
<1> DEFINE f == [i \in 1 .. Len(users_l) |-> Id(users_l[i])]
<1>5. ASSUME NEW i \in DOMAIN users_l PROVE Id(users_l[i]) \in Sessions
  <2>1. PICK k \in 1 .. Slots : /\ utmp[k].tty = users_l[i].tty
                                /\ utmp[k].user = users_l[i].user
                                /\ utmp[k].user # None
    BY <1>3
  <2>2. Id(users_l[i]) = [user |-> utmp[k].user, tty |-> utmp[k].tty]
    BY <2>1 DEF Id
  <2>3. k \in {m \in 1 .. Slots : utmp[m].user # None}
    BY <2>1
  <2> QED BY <2>2, <2>3 DEF Sessions
<1>6. ASSUME NEW s \in Sessions PROVE \E i \in DOMAIN users_l : Id(users_l[i]) = s
  <2>1. PICK k \in 1 .. Slots : /\ utmp[k].user # None
                                /\ s = [user |-> utmp[k].user, tty |-> utmp[k].tty]
    BY DEF Sessions
  <2>2. PICK i \in DOMAIN users_l : /\ users_l[i].tty = utmp[k].tty
                                    /\ users_l[i].user = utmp[k].user
    BY <1>4, <2>1
  <2> QED BY <2>1, <2>2 DEF Id
<1>7. {Id(u) : u \in Range(users_l)} = Sessions
  BY <1>5, <1>6 DEF Range
<1>8. f \in Bijection(1 .. Len(users_l), Sessions)
  <2>1. f \in [1 .. Len(users_l) -> Sessions]
    BY <1>1, <1>5
  <2>2. ASSUME NEW i \in 1 .. Len(users_l), NEW j \in 1 .. Len(users_l), f[i] = f[j]
        PROVE  i = j
    <3>1. Id(users_l[i]) = Id(users_l[j])
      BY <2>2
    <3>2. users_l[i].tty = users_l[j].tty
      BY <3>1 DEF Id
    <3> QED BY <1>1, <1>2, <3>2 DEF OneEach
  <2>3. \A s \in Sessions : \E i \in 1 .. Len(users_l) : f[i] = s
    BY <1>1, <1>6
  <2> QED BY <2>1, <2>2, <2>3 DEF Bijection, Injection, Surjection, IsInjective
<1>9. /\ IsFiniteSet(1 .. Len(users_l))
      /\ Cardinality(1 .. Len(users_l)) = Len(users_l)
  <2>1. \A n \in Nat : (IF 1 > n THEN 0 ELSE n - 1 + 1) = n
    OBVIOUS
  <2>2. \A n \in Nat : IsFiniteSet(1 .. n)
                      /\ Cardinality(1 .. n) = IF 1 > n THEN 0 ELSE n - 1 + 1
    BY FS_Interval
  <2> QED BY <1>1, <2>1, <2>2
<1>10. Cardinality(Sessions) = Cardinality(1 .. Len(users_l))
  BY <1>8, <1>9, FS_Bijection DEF ExistsBijection
<1> QED BY <1>7, <1>9, <1>10

\* After a poll during which utmp did not change the list shows who is logged in,
\* each session once, if every tty has a record of its own and nobody logs in on
\* it before the poll has dropped the one who left (read_utmpx(), check_utmpx()).
THEOREM SessionsAreShown == ASSUME OwnRecords PROVE Spec => []ShowsSessions
<1>1. Init => SessionInv
  BY SessionInit
<1>2. ListInv /\ SessionInv /\ [Next]_vars => SessionInv'
  BY SessionNext
<1>3. ListInv /\ SessionInv => ShowsSessions
  BY ListIsSessions
<1> QED BY <1>1, <1>2, <1>3, ListKept, PTL DEF Spec

\* Where a user who stays is found when the i-th one has gone
LEMMA StaysAt ==
  ASSUME NEW s \in Seq(Entry), Numbered(s), NEW i \in DOMAIN s, NEW m \in DOMAIN s, m # i
  PROVE  \E j \in DOMAIN Dropped(s, i) :
           /\ Dropped(s, i)[j].user = s[m].user /\ Dropped(s, i)[j].tty = s[m].tty
           /\ Dropped(s, i)[j].line = IF m < i THEN s[m].line - 1 ELSE s[m].line
<1> DEFINE t == Dropped(s, i)
           j == IF m < i THEN m ELSE m - 1
           n == Len(s)
<1>1. /\ t \in Seq(Entry) /\ Len(t) = n - 1 /\ Numbered(t)
      /\ \A k \in 1 .. n - 1 : t[k].user = s[Was(i, k)].user /\ t[k].tty = s[Was(i, k)].tty
  BY Deleted
<1>2. n \in Nat /\ i \in 1 .. n /\ m \in 1 .. n /\ s[m].line = n - m
  BY LenProperties DEF Numbered
<1> HIDE DEF t, n
<1>3. j \in 1 .. n - 1 /\ Was(i, j) = m
  BY <1>2 DEF Was
<1>4. n - 1 - j = IF m < i THEN n - m - 1 ELSE n - m
  BY <1>2
<1> HIDE DEF j
<1>5. j \in DOMAIN t
  BY <1>1, <1>3, LenProperties
<1>6. t[j].line = n - 1 - j
  BY <1>1, <1>5 DEF Numbered
<1>7. t[j].line = IF m < i THEN s[m].line - 1 ELSE s[m].line
  BY <1>2, <1>4, <1>6
<1> QED BY <1>1, <1>3, <1>5, <1>7 DEF t

-----------------------------------------------------------------------------
(* The cursor                                                              *)

CursorInv == w \in IntWidget /\ CursorFollowsUser

LEMMA CursorSteps ==
  ASSUME ListInv, CursorInv, [Next]_vars
  PROVE  \/ UNCHANGED <<w, users_l, sel>>
         \/ \E e \in Entry : Comes(e) /\ UNCHANGED <<w, sel>>
         \/ \E i \in DOMAIN users_l : Goes(i) /\ udel(i)
         \/ w' \in IntWidget /\ sel' = cursor_user(w'.crsr) /\ users_l' = users_l
<1>1. next \in Nat \ {0} /\ (next <= Slots => next \in 1 .. Slots)
  BY SlotsAssumption DEF ListInv
<1>2. w \in IntWidget /\ users_l \in Seq(Entry) /\ Len(users_l) \in Nat
      /\ \A i \in DOMAIN users_l : users_l[i].line \in Int
  <2>1. users_l \in Seq(Entry)
    BY EntryFacts
  <2>2. \A i \in DOMAIN users_l : users_l[i] \in Entry
    BY <2>1, LenProperties, ElementOfSeq
  <2> QED BY <2>1, <2>2, LenProperties DEF CursorInv, Entry
<1>3. CASE Outside
  BY <1>3 DEF Outside, listVars
<1>4. CASE StartRecord
  BY <1>1, <1>4, NewUserComes DEF StartRecord, listVars
<1>5. CASE PollLogin
  BY <1>1, <1>5, NewUserComes DEF PollLogin, listVars
<1>6. CASE PollLogout
  BY <1>6, UdelGoes DEF PollLogout, listVars
<1>7. CASE PollEnd
  BY <1>2, <1>7, OutputInt DEF PollEnd, Redraw, listVars
<1>8. CASE KeyEnter
  BY <1>2, <1>8, OutputInt DEF KeyEnter, Redraw, listVars
<1>9. CASE KeySearch
  <2>1. PICK i \in DOMAIN users_l : w' = CrsrJmp(w, users_l[i].line)
    BY <1>9 DEF KeySearch, user_search
  <2>2. w' \in IntWidget
    BY <1>2, <2>1, JumpInt
  <2> QED BY <1>9, <2>2 DEF KeySearch, listVars
<1>10. ASSUME NEW k \in Keys \cap ScreenKeys, KeyCursor(k)
       PROVE  w' \in IntWidget /\ sel' = cursor_user(w'.crsr) /\ users_l' = users_l
  BY <1>2, <1>10, KeyInt DEF KeyCursor, listVars
<1>11. CASE Poll \/ KeyHide \/ UNCHANGED vars
  BY <1>11 DEF Poll, KeyHide, listVars, vars
<1> QED BY <1>3, <1>4, <1>5, <1>6, <1>7, <1>8, <1>9, <1>10, <1>11 DEF Next, Program

LEMMA CursorNext == ASSUME ListInv, CursorInv, [Next]_vars PROVE CursorInv'
<1>1. /\ w \in IntWidget /\ users_l \in Seq(Entry) /\ Numbered(users_l)
      /\ \A i \in DOMAIN users_l : users_l[i].line \in Int
  <2>1. users_l \in Seq(Entry)
    BY EntryFacts
  <2>2. \A i \in DOMAIN users_l : users_l[i] \in Entry
    BY <2>1, LenProperties, ElementOfSeq
  <2> QED BY <2>1, <2>2, EntryFacts DEF CursorInv, Entry
<1>2. sel # None => \E i \in DOMAIN users_l : Id(users_l[i]) = sel /\ users_l[i].line = w.crsr
  BY DEF CursorInv, CursorFollowsUser, Range
<1>3. CASE UNCHANGED <<w, users_l, sel>>
  BY <1>3 DEF CursorInv, CursorFollowsUser
<1>4. ASSUME NEW e \in Entry, Comes(e), UNCHANGED <<w, sel>> PROVE CursorInv'
  <2>1. users_l' = Front(e, users_l)
    BY <1>4 DEF Comes
  <2>2. \A i \in DOMAIN users_l : \E j \in DOMAIN users_l' : users_l'[j] = users_l[i]
    <3>1. /\ users_l' \in Seq(Entry) /\ Len(users_l') = Len(users_l) + 1
          /\ \A j \in 1 .. Len(users_l) : users_l'[j + 1] = users_l[j]
      BY <1>1, <2>1, Added
    <3>2. /\ DOMAIN users_l = 1 .. Len(users_l) /\ Len(users_l) \in Nat
          /\ DOMAIN users_l' = 1 .. Len(users_l) + 1
      BY <1>1, <3>1, LenProperties
    <3> QED BY <3>1, <3>2
  <2> QED BY <1>1, <1>2, <1>4, <2>2 DEF CursorInv, CursorFollowsUser, Range
<1>5. ASSUME NEW i \in DOMAIN users_l, Goes(i), udel(i) PROVE CursorInv'
  <2>1. /\ users_l' = Dropped(users_l, i) /\ w' = LDeleted(w, users_l[i].line)
        /\ sel' = IF sel = Id(users_l[i]) THEN None ELSE sel
    BY <1>5 DEF Goes, udel
  <2>2. /\ w' \in IntWidget
        /\ w'.crsr = IF users_l[i].line >= w.crsr THEN w.crsr ELSE w.crsr - 1
    BY <1>1, <2>1, DeletedInt
  <2>3. ASSUME sel' # None
        PROVE  \E j \in DOMAIN users_l' : Id(users_l'[j]) = sel' /\ users_l'[j].line = w'.crsr
    <3>1. PICK m \in DOMAIN users_l : Id(users_l[m]) = sel /\ users_l[m].line = w.crsr
      BY <1>2, <2>1, <2>3
    <3>2. m # i /\ sel' = sel
      BY <2>1, <2>3, <3>1
    <3>3. PICK j \in DOMAIN users_l' :
            /\ users_l'[j].user = users_l[m].user /\ users_l'[j].tty = users_l[m].tty
            /\ users_l'[j].line = IF m < i THEN users_l[m].line - 1 ELSE users_l[m].line
      BY <1>1, <2>1, <3>2, StaysAt
    <3>4. users_l'[j].line = w'.crsr
      <4>1. m \in Int /\ i \in Int /\ m # i
            /\ users_l[m].line = Len(users_l) - m /\ users_l[i].line = Len(users_l) - i
            /\ Len(users_l) \in Nat
        BY <1>1, <3>2, LenProperties DEF Numbered
      <4> QED BY <2>2, <3>1, <3>3, <4>1
    <3> QED BY <3>1, <3>2, <3>3, <3>4 DEF Id
  <2> QED BY <2>2, <2>3 DEF CursorInv, CursorFollowsUser, Range
<1>6. ASSUME w' \in IntWidget, sel' = cursor_user(w'.crsr), users_l' = users_l
      PROVE  CursorInv'
  <2>1. \A c : cursor_user(c) # None =>
                 \E u \in Range(users_l) : Id(u) = cursor_user(c) /\ u.line = c
    BY DEF cursor_user
  <2> QED BY <1>6, <2>1 DEF CursorInv, CursorFollowsUser
<1> QED BY <1>3, <1>4, <1>5, <1>6, CursorSteps

\* The cursor stays on its user while others come and go, for any keys, searches
\* and records (scr_ldeleted() in udel(), update_line()).
THEOREM CursorOnItsUser == Spec => []CursorFollowsUser
<1>1. Init => CursorInv
  BY ListAssumption DEF Init, CursorInv, CursorFollowsUser, IntWidget
<1>2. ListInv /\ CursorInv /\ [Next]_vars => CursorInv'
  BY CursorNext
<1>3. CursorInv => CursorFollowsUser
  BY DEF CursorInv
<1> QED BY <1>1, <1>2, <1>3, ListKept, PTL DEF Spec

\* whowatch's own session, which stays, has record 1, and no key turns pages.
OwnSession == ~MayEmpty /\ Slots >= 1
StepKeys == Keys \subseteq {"Up", "Down", "Home", "search"}

PlaceInv ==
  /\ w \in IntWidget /\ w.crsr >= 0
  /\ utmp[1].user # None
  /\ (phase = "start" /\ next = 1) \/ On(users_l, utmp[1].tty)
  /\ visible /\ phase = "idle" => w.nlines = Len(users_l) - 1 /\ w.crsr <= w.nlines

LEMMA OwnUserStays ==
  ASSUME OwnRecords, OwnSession, ListInv, SessionInv, PlaceInv, [Next]_vars
  PROVE  /\ utmp'[1].user # None
         /\ (phase' = "start" /\ next' = 1) \/ On(users_l', utmp'[1].tty)
<1>1. /\ utmp[1].user # None /\ utmp[1].tty \in Ttys /\ None \notin Ttys
      /\ utmp \in [1 .. Slots -> [user : Users \cup {None}, tty : Ttys \cup {None}]]
      /\ 1 \in 1 .. Slots /\ next \in Nat \ {0} /\ (next <= Slots => next \in 1 .. Slots)
      /\ InPlace(utmp) /\ OneEach(users_l) /\ users_l \in Seq(Entry) /\ Numbered(users_l)
      /\ (phase = "start" /\ next = 1) \/ On(users_l, utmp[1].tty)
  BY EntryFacts, SlotsAssumption DEF OwnSession, ListInv, Records, SessionInv, PlaceInv
<1>2. CASE Outside
  <2>1. utmp'[1] = utmp[1]
    <3>1. ASSUME NEW p \in Places, NEW u \in Users, Login(p[1], p[2], u)
          PROVE  utmp'[1] = utmp[1]
      <4>1. p[1] # 1
        BY <1>1, <3>1 DEF Login
      <4>2. utmp' = [utmp EXCEPT ![p[1]] = [user |-> u, tty |-> p[2]]]
        BY <3>1 DEF Login, Session
      <4> QED BY <1>1, <4>1, <4>2
    <3>2. ASSUME NEW k \in 1 .. Slots, Logout(k) PROVE utmp'[1] = utmp[1]
      BY <1>1, <3>2 DEF Logout, OwnSession
    <3> QED BY <1>2, <3>1, <3>2 DEF Outside
  <2> QED BY <1>1, <1>2, <2>1 DEF Outside, listVars
<1>3. ASSUME NEW k \in 1 .. Slots, utmp[k].user # None, new_user(utmp[k]), utmp' = utmp,
             k = 1 \/ On(users_l, utmp[1].tty)
      PROVE  On(users_l', utmp'[1].tty)
  <2>1. PICK e \in Entry : users_l' = Front(e, users_l) /\ e.tty = utmp[k].tty
    BY <1>3, NewUserComes DEF Comes
  <2>2. \A a : On(Front(e, users_l), a) <=> On(users_l, a) \/ a = e.tty
    BY <1>1, ComesOn
  <2> QED BY <1>3, <2>1, <2>2
<1>4. CASE StartRecord
  <2>1. CASE utmp[next].user # None
    BY <1>1, <1>3, <1>4, <2>1 DEF StartRecord
  <2>2. CASE utmp[next].user = None
    BY <1>1, <1>4, <2>2 DEF StartRecord, listVars
  <2> QED BY <2>1, <2>2
<1>5. CASE PollLogin
  <2>1. CASE Listed(utmp[next].tty)
    BY <1>1, <1>5, <2>1 DEF PollLogin, listVars
  <2>2. CASE ~Listed(utmp[next].tty)
    BY <1>1, <1>3, <1>5, <2>2 DEF PollLogin
  <2> QED BY <2>1, <2>2
<1>6. CASE PollLogout
  <2>1. On(users_l, utmp[1].tty) /\ utmp' = utmp
    BY <1>1, <1>6 DEF PollLogout
  <2>2. CASE Listed(utmp[next].tty)
    <3>1. PICK i \in DOMAIN users_l : users_l[i].tty = utmp[next].tty /\ udel(i)
      BY <1>6, <2>2 DEF PollLogout
    <3>2. users_l' = Dropped(users_l, i)
      BY <3>1, UdelGoes DEF Goes
    <3>3. next \in 1 .. Slots /\ next # 1
      BY <1>1, <1>6 DEF PollLogout
    <3>4. utmp[1].tty # users_l[i].tty
      BY <1>1, <3>1, <3>3, OneRecord
    <3>5. \A a : On(Dropped(users_l, i), a) <=> On(users_l, a) /\ a # users_l[i].tty
      BY <1>1, GoesOn
    <3> QED BY <1>1, <2>1, <3>2, <3>4, <3>5
  <2>3. CASE ~Listed(utmp[next].tty)
    BY <1>1, <1>6, <2>1, <2>3 DEF PollLogout, listVars
  <2> QED BY <2>2, <2>3
<1>7. CASE Poll
  <2>1. ~(phase = "start" /\ next = 1)
    BY <1>1, <1>7, SlotsAssumption DEF Poll, OwnSession
  <2> QED BY <1>1, <1>7, <2>1 DEF Poll, listVars
<1>8. CASE PollEnd
  BY <1>1, <1>8 DEF PollEnd, listVars
<1>9. CASE KeyHide \/ KeyEnter \/ KeySearch
  BY <1>1, <1>9 DEF KeyHide, KeyEnter, KeySearch, listVars
<1>10. ASSUME NEW k, KeyCursor(k) PROVE UNCHANGED <<utmp, users_l, phase, next>>
  BY <1>10 DEF KeyCursor, listVars
<1>11. CASE UNCHANGED vars
  BY <1>1, <1>11 DEF vars, listVars
<1> QED BY <1>1, <1>2, <1>4, <1>5, <1>6, <1>7, <1>8, <1>9, <1>10, <1>11 DEF Next, Program

LEMMA PlaceNext ==
  ASSUME OwnRecords, OwnSession, StepKeys, ListInv, SessionInv, PlaceInv, [Next]_vars
  PROVE  PlaceInv'
<1> DEFINE n == Len(users_l)
<1>1. /\ w \in IntWidget /\ w.crsr \in Int /\ w.nlines \in Int /\ w.crsr >= 0
      /\ users_l \in Seq(Entry) /\ n \in Nat /\ DOMAIN users_l = 1 .. n
      /\ \A i \in 1 .. n : users_l[i].line = n - i
      /\ visible /\ phase = "idle" => w.nlines = n - 1 /\ w.crsr <= w.nlines
      /\ (phase = "start" /\ next = 1) \/ On(users_l, utmp[1].tty)
  BY EntryFacts, LenProperties DEF PlaceInv, IntWidget, Numbered
<1>2. On(users_l, utmp[1].tty) => n >= 1
  BY <1>1 DEF On
<1> HIDE DEF n
<1>3. SUFFICES /\ w' \in IntWidget /\ w'.crsr >= 0
               /\ visible' /\ phase' = "idle" =>
                    w'.nlines = Len(users_l') - 1 /\ w'.crsr <= w'.nlines
  BY OwnUserStays DEF PlaceInv
<1>4. ASSUME w' = w, ~(visible' /\ phase' = "idle") \/
                       (users_l' = users_l /\ visible /\ phase = "idle")
      PROVE  /\ w' \in IntWidget /\ w'.crsr >= 0
             /\ visible' /\ phase' = "idle" =>
                  w'.nlines = Len(users_l') - 1 /\ w'.crsr <= w'.nlines
  BY <1>1, <1>4 DEF n
<1>5. ASSUME Redraw, users_l' = users_l, n >= 1
      PROVE  /\ w' \in IntWidget /\ w'.crsr >= 0
             /\ w'.nlines = Len(users_l') - 1 /\ w'.crsr <= w'.nlines
  <2>1. /\ w' \in IntWidget /\ w'.nlines = n - 1
        /\ w'.crsr = IF w.crsr > n - 1 THEN n - 1 ELSE w.crsr
    BY <1>1, <1>5, OutputInt DEF Redraw, n
  <2> QED BY <1>1, <1>5, <2>1 DEF n
<1>6. CASE Outside
  BY <1>4, <1>6 DEF Outside, listVars
<1>7. CASE StartRecord \/ PollLogin
  BY <1>4, <1>7 DEF StartRecord, PollLogin
<1>8. CASE PollLogout
  <2>1. CASE Listed(utmp[next].tty)
    <3>1. PICK i \in DOMAIN users_l : udel(i)
      BY <1>8, <2>1 DEF PollLogout
    <3>2. users_l[i].line \in Int /\ users_l[i].line >= 0
      BY <1>1
    <3>3. /\ w' \in IntWidget
          /\ w'.crsr = IF users_l[i].line >= w.crsr THEN w.crsr ELSE w.crsr - 1
      BY <1>1, <3>1, <3>2, DeletedInt DEF udel
    <3>4. w'.crsr >= 0
      BY <1>1, <3>2, <3>3
    <3> QED BY <1>8, <3>3, <3>4 DEF PollLogout
  <2>2. CASE ~Listed(utmp[next].tty)
    BY <1>4, <1>8, <2>2 DEF PollLogout
  <2> QED BY <2>1, <2>2
<1>9. CASE Poll \/ KeyHide
  BY <1>4, <1>9 DEF Poll, KeyHide
<1>10. CASE PollEnd
  <2>1. users_l' = users_l /\ n >= 1 /\ visible' = visible
    BY <1>1, <1>2, <1>10 DEF PollEnd, listVars
  <2>2. CASE visible
    BY <1>5, <1>10, <2>1, <2>2 DEF PollEnd
  <2>3. CASE ~visible
    BY <1>4, <1>10, <2>1, <2>3 DEF PollEnd
  <2> QED BY <2>2, <2>3
<1>11. CASE KeyEnter
  BY <1>1, <1>2, <1>5, <1>11 DEF KeyEnter, listVars
<1>12. CASE KeySearch
  <2>1. PICK i \in DOMAIN users_l : w' = CrsrJmp(w, users_l[i].line)
    BY <1>12 DEF KeySearch, user_search
  <2>2. users_l[i].line \in Int /\ users_l[i].line >= 0 /\ users_l[i].line <= n - 1
    BY <1>1
  <2>3. w' \in IntWidget /\ w'.nlines = w.nlines /\ w'.crsr = users_l[i].line
    BY <1>1, <2>1, <2>2, JumpInt
  <2>4. users_l' = users_l /\ visible /\ phase = "idle"
    BY <1>12 DEF KeySearch, listVars
  <2> QED BY <1>1, <2>2, <2>3, <2>4 DEF n
<1>13. ASSUME NEW k \in Keys \cap ScreenKeys, KeyCursor(k)
       PROVE  /\ w' \in IntWidget /\ w'.crsr >= 0
              /\ w'.nlines = Len(users_l') - 1 /\ w'.crsr <= w'.nlines
  <2>1. users_l' = users_l /\ visible /\ phase = "idle" /\ w' = Key(k, w)
    BY <1>13 DEF KeyCursor, listVars
  <2>2. n >= 1
    BY <1>1, <1>2, <2>1
  <2>3. w.nlines = n - 1 /\ w.crsr <= w.nlines
    BY <1>1, <2>1
  <2>4. k \in {"Up", "Down", "Home"}
    BY DEF StepKeys, ScreenKeys
  <2>5. CASE k = "Up"
    <3>1. w' = KbdUp(w)
      BY <2>1, <2>5 DEF Key
    <3> QED BY <1>1, <2>1, <2>3, <3>1, StepInt DEF n
  <2>6. CASE k = "Down"
    <3>1. w' = KbdDown(w)
      BY <2>1, <2>6 DEF Key
    <3> QED BY <1>1, <2>1, <2>3, <3>1, StepInt DEF n
  <2>7. CASE k = "Home"
    <3>1. w' = KbdHome(w)
      BY <2>1, <2>7 DEF Key
    <3>2. KbdHome(w) \in IntWidget /\ KbdHome(w).nlines = w.nlines /\ KbdHome(w).crsr = 0
      BY <1>1, HomeInt
    <3> QED BY <1>1, <2>1, <2>2, <2>3, <3>1, <3>2 DEF n
  <2> QED BY <2>4, <2>5, <2>6, <2>7
<1>14. CASE UNCHANGED vars
  <2>1. w' = w /\ users_l' = users_l /\ visible' = visible /\ phase' = phase
    BY <1>14 DEF vars, listVars
  <2> QED BY <1>1, <2>1 DEF n
<1> QED BY <1>6, <1>7, <1>8, <1>9, <1>10, <1>11, <1>12, <1>13, <1>14 DEF Next, Program

\* While the list is shown and not empty the cursor is on a user, if whowatch's own
\* session stays and keys move the cursor by a line (uredraw(), scr_output_end(),
\* udel(), kbd_up(), kbd_down(), cursor_user()).
THEOREM CursorKeepsUser ==
  ASSUME OwnRecords, OwnSession, StepKeys PROVE Spec => []CursorOnUser
<1>1. Init => PlaceInv
  <2> SUFFICES ASSUME Init PROVE PlaceInv
    OBVIOUS
  <2>1. w = [vy |-> 0, crsr |-> 0, nlines |-> 0, ysize |-> YSize] /\ YSize \in Int
    BY ListAssumption DEF Init
  <2> QED BY <2>1 DEF Init, PlaceInv, OwnSession, IntWidget
<1>2. ListInv /\ SessionInv /\ PlaceInv /\ [Next]_vars => PlaceInv'
  BY PlaceNext
<1>3. ListInv /\ PlaceInv => CursorOnUser
  <2> SUFFICES ASSUME ListInv, PlaceInv, visible, phase = "idle"
               PROVE  cursor_user(w.crsr) # None
    BY DEF CursorOnUser
  <2> DEFINE n == Len(users_l)
             i == n - w.crsr
             on == {u \in Range(users_l) : u.line = w.crsr}
  <2>1. /\ n \in Nat /\ w.crsr \in Int /\ w.crsr >= 0 /\ w.crsr <= n - 1
        /\ DOMAIN users_l = 1 .. n /\ \A m \in 1 .. n : users_l[m].line = n - m
        /\ \A m \in 1 .. n : users_l[m] \in Entry
    BY EntryFacts, LenProperties, ElementOfSeq DEF PlaceInv, IntWidget, Numbered
  <2>2. \A u \in on : u \in Entry
    BY <2>1 DEF Range
  <2> HIDE DEF n
  <2>3. i \in 1 .. n /\ n - i = w.crsr
    BY <2>1
  <2> HIDE DEF i
  <2>4. users_l[i] \in on
    BY <2>1, <2>3 DEF Range
  <2> HIDE DEF on
  <2>5. PICK u \in Entry : cursor_user(w.crsr) = Id(u)
    <3>1. cursor_user(w.crsr) = IF on = {} THEN None ELSE Id(CHOOSE u \in on : TRUE)
      BY DEF cursor_user, on
    <3>2. (CHOOSE u \in on : TRUE) \in on
      BY <2>4
    <3> QED BY <2>2, <2>4, <3>1, <3>2
  <2>6. Id(u) \in [user : Users, tty : {p[2] : p \in Places}]
    BY DEF Entry, Id, Ttys
  <2> QED BY <2>5, <2>6, NamesAssumption
<1>4. Init => SessionInv
  BY SessionInit
<1>5. ListInv /\ SessionInv /\ [Next]_vars => SessionInv'
  BY SessionNext
<1> QED BY <1>1, <1>2, <1>3, <1>4, <1>5, ListKept, PTL DEF Spec
=============================================================================
