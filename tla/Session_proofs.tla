--------------------------- MODULE Session_proofs ---------------------------
(***************************************************************************)
(* Proofs about Session, for any users, any number of requests on their    *)
(* way and any number of strays.                                           *)
(***************************************************************************)
EXTENDS Session, SequenceTheorems, TLAPS

Screen == LoginScreen \cup RegisterScreen \cup TabsScreen

-----------------------------------------------------------------------------
(* Stacks of screens *)

\* One login screen at most; a registration is on top, and on a login screen;
\* tabs that are presented are presented by a login screen.
Stack(s) ==
    /\ s \in Seq(Screen) /\ s # << >>
    /\ \A i, j \in 1..Len(s) : s[i].screen = "login" /\ s[j].screen = "login" => i = j
    /\ \A i \in 1..Len(s) :
          s[i].screen = "register" => i = Len(s) /\ i > 1 /\ s[i - 1].screen = "login"
    /\ \A i \in 1..Len(s) : s[i].screen = "tabs" /\ i > 1 => s[i - 1].screen = "login"

Slotted(q, s) ==
    /\ q \in Slots
    /\ \A d \in DOMAIN q : q[d] \in Out \/ Stands(q[d], s)

\* The login screen is the loginDelegate, and no other screen is; the
\* accountDelegate is one of the tabs.
Homes(q, s) ==
    /\ \A i \in 1..Len(s) : s[i].screen = "login" => q.loginDelegate = Place(i, 0)
    /\ q.loginDelegate.level # 0 => s[q.loginDelegate.level].screen = "login"
    /\ q.accountDelegate.level # 0 => s[q.accountDelegate.level].screen = "tabs"

LEMMA ScreenKinds ==
    ASSUME NEW x \in Screen
    PROVE  /\ x.screen \in {"login", "register", "tabs"}
           /\ x.screen = "login" <=> x \in LoginScreen
           /\ x.screen = "register" <=> x \in RegisterScreen
           /\ x.screen = "tabs" <=> x \in TabsScreen
BY SMT DEF Screen, LoginScreen, RegisterScreen, TabsScreen

LEMMA StackTop ==
    ASSUME NEW s, Stack(s)
    PROVE  /\ Len(s) \in Nat /\ Len(s) > 0 /\ DOMAIN s = 1..Len(s)
           /\ Len(s) \in 1..Len(s)
           /\ \A i \in 1..Len(s) : s[i] \in Screen
           /\ s[Len(s)] \in Screen
<1>1. Len(s) \in Nat /\ DOMAIN s = 1..Len(s) /\ Len(s) # 0
  BY LenProperties, EmptySeq DEF Stack
<1>2. \A i \in 1..Len(s) : s[i] \in Screen
  BY ElementOfSeq DEF Stack
<1> QED
  BY <1>1, <1>2

\* A screen changes: it stays what it is.
LEMMA PutScreen ==
    ASSUME NEW s, Stack(s), NEW i \in 1..Len(s), NEW x \in Screen, x.screen = s[i].screen
    PROVE  LET t == [s EXCEPT ![i] = x]
           IN  /\ Stack(t) /\ Len(t) = Len(s) /\ t[i] = x
               /\ \A j \in 1..Len(s) : j # i => t[j] = s[j]
               /\ \A j \in 1..Len(s) : t[j].screen = s[j].screen
<1> DEFINE t == [s EXCEPT ![i] = x]
<1>1. t \in Seq(Screen) /\ Len(t) = Len(s)
  BY ExceptSeq DEF Stack
<1>2. t[i] = x /\ \A j \in 1..Len(s) : j # i => t[j] = s[j]
  BY StackTop
<1>3. \A j \in 1..Len(s) : t[j].screen = s[j].screen
  BY <1>2
<1>4. t # << >>
  BY <1>1, StackTop, EmptySeq
<1> HIDE DEF t
<1>5. Len(s) \in Nat /\ \A j \in 1..Len(s) : j > 1 => j - 1 \in 1..Len(s)
  BY StackTop
<1>6. \A k, j \in 1..Len(t) : t[k].screen = "login" /\ t[j].screen = "login" => k = j
  BY <1>1, <1>3 DEF Stack
<1>7. \A k \in 1..Len(t) :
          t[k].screen = "register" => k = Len(t) /\ k > 1 /\ t[k - 1].screen = "login"
  BY <1>1, <1>3, <1>5 DEF Stack
<1>8. \A k \in 1..Len(t) : t[k].screen = "tabs" /\ k > 1 => t[k - 1].screen = "login"
  BY <1>1, <1>3, <1>5 DEF Stack
<1>9. Stack(t)
  BY <1>1, <1>4, <1>6, <1>7, <1>8 DEF Stack
<1> QED
  BY <1>1, <1>2, <1>3, <1>9 DEF t

\* A screen is presented.
LEMMA AddScreen ==
    ASSUME NEW s, Stack(s), NEW x \in Screen,
           \/ x.screen = "login" /\ s[Len(s)].screen = "tabs"
                /\ \A i \in 1..Len(s) : s[i].screen # "login"
           \/ x.screen \in {"register", "tabs"} /\ s[Len(s)].screen = "login"
    PROVE  LET t == Append(s, x)
           IN  /\ Stack(t) /\ Len(t) = Len(s) + 1 /\ t[Len(t)] = x
               /\ \A j \in 1..Len(s) : t[j] = s[j]
<1> DEFINE t == Append(s, x)
<1>1. t \in Seq(Screen) /\ Len(t) = Len(s) + 1 /\ t[Len(s) + 1] = x /\ t # << >>
      /\ \A j \in 1..Len(s) : t[j] = s[j]
  BY AppendProperties DEF Stack
<1>2. Len(s) \in Nat /\ Len(s) > 0
  BY StackTop
<1> HIDE DEF t
<1>3. \A i, j \in 1..Len(t) : t[i].screen = "login" /\ t[j].screen = "login" => i = j
  BY <1>1, <1>2, SMT DEF Stack
<1>4. \A i \in 1..Len(t) :
          t[i].screen = "register" => i = Len(t) /\ i > 1 /\ t[i - 1].screen = "login"
  <2> TAKE i \in 1..Len(t)
  <2>1. CASE i = Len(s) + 1
    BY <1>1, <1>2, <2>1, SMT
  <2>2. CASE i \in 1..Len(s)
    BY <1>1, <1>2, <2>2, SMT DEF Stack
  <2> QED
    BY <1>1, <1>2, <2>1, <2>2
<1>5. \A i \in 1..Len(t) : t[i].screen = "tabs" /\ i > 1 => t[i - 1].screen = "login"
  <2> TAKE i \in 1..Len(t)
  <2>1. CASE i = Len(s) + 1
    BY <1>1, <1>2, <2>1, SMT
  <2>2. CASE i \in 1..Len(s)
    BY <1>1, <1>2, <2>2, SMT DEF Stack
  <2> QED
    BY <1>1, <1>2, <2>1, <2>2
<1> QED
  BY <1>1, <1>3, <1>4, <1>5 DEF Stack, t

\* Screens are dismissed.
LEMMA CutScreens ==
    ASSUME NEW s, Stack(s), NEW n \in 1..Len(s)
    PROVE  LET t == SubSeq(s, 1, n)
           IN  /\ Stack(t) /\ Len(t) = n /\ \A j \in 1..n : t[j] = s[j]
<1> DEFINE t == SubSeq(s, 1, n)
<1>1. Len(s) \in Nat /\ Len(s) > 0
  BY StackTop
<1>2. t \in Seq(Screen) /\ Len(t) = n /\ \A j \in 1..n : t[j] = s[j]
  BY <1>1, SubSeqProperties, SMT DEF Stack
<1>3. t # << >>
  BY <1>2, EmptySeq
<1> HIDE DEF t
<1>4. \A j \in 1..n : j \in 1..Len(s) /\ (j > 1 => j - 1 \in 1..n)
  BY <1>1
<1> QED
  BY <1>1, <1>2, <1>3, <1>4, SMT DEF Stack, t

-----------------------------------------------------------------------------
(* Delegates *)

\* t has the screens of s, and maybe more.
Grows(s, t) ==
    /\ Len(s) <= Len(t)
    /\ \A i \in 1..Len(s) :
          /\ t[i].screen = s[i].screen
          /\ s[i].screen = "tabs" => Len(s[i].pushed) <= Len(t[i].pushed)

LEMMA PushedLength ==
    ASSUME NEW s, Stack(s), NEW i \in 1..Len(s), s[i].screen = "tabs"
    PROVE  s[i] \in TabsScreen /\ s[i].pushed \in Seq(PushedScreen) /\ Len(s[i].pushed) \in Nat
<1>1. s[i] \in TabsScreen
  BY StackTop, ScreenKinds
<1>2. s[i].pushed \in Seq(PushedScreen)
  BY <1>1 DEF TabsScreen
<1> QED
  BY <1>1, <1>2, LenProperties

LEMMA StandsOn ==
    ASSUME NEW s, NEW t, Stack(s), Stack(t), Grows(s, t), NEW p \in PlaceSet, Stands(p, s)
    PROVE  Stands(p, t)
<1>1. p.level \in 1..Len(s) /\ p.level \in 1..Len(t) /\ p.depth \in Nat
  BY StackTop DEF Stands, Grows, PlaceSet
<1>2. t[p.level].screen = s[p.level].screen
  BY <1>1 DEF Grows
<1>3. CASE s[p.level].screen = "tabs"
  BY <1>1, <1>2, <1>3, PushedLength DEF Stands, Grows
<1>4. CASE s[p.level].screen # "tabs"
  BY <1>1, <1>2, <1>4 DEF Stands
<1> QED
  BY <1>3, <1>4

\* Screens come, or change: the delegates stand where they stood.
LEMMA SlotsStay ==
    ASSUME NEW s, NEW t, Stack(s), Stack(t), Grows(s, t), NEW q, Slotted(q, s)
    PROVE  Slotted(q, t)
<1>1. \A d \in DOMAIN q : q[d] \in PlaceSet
  BY DEF Slotted, Slots
<1>2. \A d \in DOMAIN q : q[d] \in Out \/ Stands(q[d], t)
  BY <1>1, StandsOn DEF Slotted
<1> QED
  BY <1>2 DEF Slotted

LEMMA HomesStay ==
    ASSUME NEW s, NEW t, Stack(s), Stack(t), Grows(s, t), NEW q, Slotted(q, s), Homes(q, s),
           \A i \in 1..Len(t) : t[i].screen = "login" => i <= Len(s)
    PROVE  Homes(q, t)
<1>1. /\ q.loginDelegate.level # 0 => q.loginDelegate.level \in 1..Len(s)
      /\ q.accountDelegate.level # 0 => q.accountDelegate.level \in 1..Len(s)
  BY DEF Slotted, Slots, Stands, Gone, GoneSheet, GoneLogin, Out, Place
<1>2. \A i \in 1..Len(t) : t[i].screen = "login" => i \in 1..Len(s) /\ s[i].screen = "login"
  BY StackTop DEF Grows
<1> QED
  BY <1>1, <1>2 DEF Homes, Grows

\* Delegates are set to places that stand.
LEMMA NewSlots ==
    ASSUME NEW s, NEW q, Slotted(q, s), NEW r \in Slots,
           \A d \in DOMAIN r : r[d] = q[d] \/ Stands(r[d], s)
    PROVE  Slotted(r, s)
<1>1. DOMAIN r = DOMAIN q
  BY DEF Slotted, Slots
<1> QED
  BY <1>1 DEF Slotted

\* Screens go, and leave the others as they were, but for what was pushed.
LEMMA Detaching ==
    ASSUME Stack(stack), Slotted(slot, stack), Homes(slot, stack), Detach, Stack(stack'),
           Len(stack') <= Len(stack),
           \A i \in 1..Len(stack') : stack'[i].screen = stack[i].screen
    PROVE  /\ Slotted(slot', stack') /\ Homes(slot', stack')
           /\ \A d \in DOMAIN slot :
                 slot[d].level \in 1..Len(stack') /\ slot[d].depth = 0 => slot'[d] = slot[d]
<1>1. /\ \A d \in DOMAIN slot : slot[d] \in PlaceSet
      /\ DOMAIN slot' = DOMAIN slot
  BY DEF Slotted, Slots, Detach
<1>0. \A screen : OutOf(screen) \in Out
  BY DEF OutOf, Out
<1>2. \A d \in DOMAIN slot : slot'[d] \in {slot[d]} \cup Out
  BY <1>0 DEF Detach
<1>3. \A d \in DOMAIN slot :
         \/ slot'[d] \in Out
         \/ slot'[d] = slot[d] /\ Stands(slot[d], stack')
  BY <1>0 DEF Detach, Slotted, Stands
<1>4. slot' \in Slots
  <2>1. \A d \in DOMAIN slot : slot'[d] \in PlaceSet
    BY <1>1, <1>2 DEF PlaceSet, Gone, GoneSheet, GoneLogin, Out, Place
  <2>2. PICK F : F = [d \in DOMAIN slot |-> slot'[d]]
    OBVIOUS
  <2>3. slot' = F
    BY <2>2 DEF Detach
  <2>4. DOMAIN slot = {"showChecked", "showAlertDelegate", "loginDelegate",
                       "accountDelegateForConfirmation", "accountDelegate"}
    BY DEF Slotted, Slots
  <2> QED
    BY <2>1, <2>2, <2>3, <2>4 DEF Slots
<1>5. \A i \in 1..Len(stack') : i \in 1..Len(stack)
  BY StackTop
<1>6. ASSUME NEW d \in DOMAIN slot, slot[d].level \in 1..Len(stack'), slot[d].depth = 0
      PROVE  slot'[d] = slot[d]
  <2>1. Stands(slot[d], stack')
    BY <1>5, <1>6, PushedLength DEF Stands
  <2> QED
    BY <2>1 DEF Detach
<1>7. Homes(slot', stack')
  <2>1. /\ "loginDelegate" \in DOMAIN slot /\ slot["loginDelegate"] = slot.loginDelegate
        /\ "accountDelegate" \in DOMAIN slot /\ slot["accountDelegate"] = slot.accountDelegate
        /\ slot'["loginDelegate"] = slot'.loginDelegate
        /\ slot'["accountDelegate"] = slot'.accountDelegate
    BY <1>4, SMT DEF Slotted, Slots
  <2>2. ASSUME NEW i \in 1..Len(stack'), stack'[i].screen = "login"
        PROVE  slot'.loginDelegate = Place(i, 0)
    <3>1. slot.loginDelegate = Place(i, 0)
      BY <1>5, <2>2 DEF Homes
    <3> QED
      BY <1>6, <2>1, <2>2, <3>1 DEF Place
  <2>3. /\ slot'.loginDelegate.level # 0 =>
             slot'.loginDelegate = slot.loginDelegate /\ slot.loginDelegate.level \in 1..Len(stack')
        /\ slot'.accountDelegate.level # 0 =>
             slot'.accountDelegate = slot.accountDelegate /\ slot.accountDelegate.level \in 1..Len(stack')
    BY <1>3, <2>1 DEF Stands, Gone, GoneSheet, GoneLogin, Out, Place
  <2> QED
    BY <2>2, <2>3 DEF Homes
<1> QED
  BY <1>1, <1>3, <1>4, <1>6, <1>7 DEF Slotted

-----------------------------------------------------------------------------
(* Changes of one screen *)

Shaped(s, q) == Stack(s) /\ Slotted(q, s) /\ Homes(q, s)

Others(s, t, i) ==
    /\ Len(t) = Len(s)
    /\ \A j \in 1..Len(s) : t[j].screen = s[j].screen
    /\ \A j \in 1..Len(s) : j # i => t[j] = s[j]

LEMMA Put ==
    ASSUME NEW s, NEW q, Shaped(s, q), NEW i \in 1..Len(s), NEW x \in Screen,
           x.screen = s[i].screen,
           x.screen = "tabs" => Len(s[i].pushed) <= Len(x.pushed)
    PROVE  LET t == [s EXCEPT ![i] = x]
           IN  Shaped(t, q) /\ Others(s, t, i) /\ t[i] = x
<1> DEFINE t == [s EXCEPT ![i] = x]
<1>1. Stack(t) /\ Others(s, t, i) /\ t[i] = x
  BY PutScreen DEF Others, Shaped
<1> HIDE DEF t
<1>2. Len(s) \in Nat /\ \A j \in 1..Len(s) : s[j].screen = "tabs" => Len(s[j].pushed) \in Nat
  BY StackTop, PushedLength DEF Shaped
<1>3. Grows(s, t)
  <2>1. ASSUME NEW j \in 1..Len(s), s[j].screen = "tabs"
        PROVE  Len(s[j].pushed) <= Len(t[j].pushed)
    BY <1>1, <1>2, <2>1 DEF Others
  <2> QED
    BY <1>1, <1>2, <2>1 DEF Grows, Others
<1>4. Slotted(q, t) /\ Homes(q, t)
  BY <1>1, <1>2, <1>3, SlotsStay, HomesStay DEF Shaped, Others
<1> QED
  BY <1>1, <1>4 DEF Shaped, t

LEMMA SetBusy ==
    ASSUME NEW s, NEW q, Shaped(s, q), NEW i \in 1..Len(s), NEW b \in BOOLEAN,
           s[i].screen \in {"login", "register"}
    PROVE  LET t == [s EXCEPT ![i].busy = b]
           IN  /\ Shaped(t, q) /\ Others(s, t, i)
               /\ t[i].busy = b /\ t[i].pane = s[i].pane
               /\ s[i].screen = "login" => t[i].appearing = s[i].appearing
<1> DEFINE x == [s[i] EXCEPT !.busy = b]
<1>1. s[i] \in LoginScreen \/ s[i] \in RegisterScreen
  BY StackTop, ScreenKinds DEF Shaped
<1>2. /\ x \in Screen /\ x.screen = s[i].screen /\ x.busy = b /\ x.pane = s[i].pane
      /\ s[i].screen = "login" => x.appearing = s[i].appearing
  BY <1>1 DEF LoginScreen, RegisterScreen, Screen
<1>3. x.screen # "tabs"
  BY <1>2
<1> HIDE DEF x
<1>4. LET t == [s EXCEPT ![i] = x]
      IN  Shaped(t, q) /\ Others(s, t, i) /\ t[i] = x
  BY <1>2, <1>3, Put
<1> QED
  BY <1>2, <1>4 DEF x

Panes(x) ==
    IF x = "login" THEN {"main", "email", "phone", "code"} ELSE {"phone", "code", "email", "info"}

LEMMA SetPane ==
    ASSUME NEW s, NEW q, Shaped(s, q), NEW i \in 1..Len(s),
           s[i].screen \in {"login", "register"}, NEW p \in Panes(s[i].screen)
    PROVE  LET t == [s EXCEPT ![i].pane = p]
           IN  /\ Shaped(t, q) /\ Others(s, t, i)
               /\ t[i].busy = s[i].busy /\ t[i].pane = p
               /\ s[i].screen = "login" => t[i].appearing = s[i].appearing
<1> DEFINE x == [s[i] EXCEPT !.pane = p]
<1>1. s[i] \in LoginScreen \/ s[i] \in RegisterScreen
  BY StackTop, ScreenKinds DEF Shaped
<1>2. /\ x \in Screen /\ x.screen = s[i].screen /\ x.busy = s[i].busy /\ x.pane = p
      /\ s[i].screen = "login" => x.appearing = s[i].appearing
  BY <1>1 DEF LoginScreen, RegisterScreen, Screen, Panes
<1>3. x.screen # "tabs"
  BY <1>2
<1> HIDE DEF x
<1>4. LET t == [s EXCEPT ![i] = x]
      IN  Shaped(t, q) /\ Others(s, t, i) /\ t[i] = x
  BY <1>2, <1>3, Put
<1> QED
  BY <1>2, <1>4 DEF x

LEMMA SetAppearing ==
    ASSUME NEW s, NEW q, Shaped(s, q), NEW i \in 1..Len(s), NEW b \in BOOLEAN,
           s[i].screen = "login"
    PROVE  LET t == [s EXCEPT ![i].appearing = b]
           IN  Shaped(t, q) /\ Others(s, t, i) /\ t[i].appearing = b /\ t[i].busy = s[i].busy
<1> DEFINE x == [s[i] EXCEPT !.appearing = b]
<1>1. s[i] \in LoginScreen
  BY StackTop, ScreenKinds DEF Shaped
<1>2. x \in Screen /\ x.screen = s[i].screen /\ x.appearing = b /\ x.busy = s[i].busy
  BY <1>1 DEF LoginScreen, RegisterScreen, Screen
<1>3. x.screen # "tabs"
  BY <1>2
<1> HIDE DEF x
<1>4. LET t == [s EXCEPT ![i] = x]
      IN  Shaped(t, q) /\ Others(s, t, i) /\ t[i] = x
  BY <1>2, <1>3, Put
<1> QED
  BY <1>2, <1>4 DEF x

LEMMA SetOpened ==
    ASSUME NEW s, NEW q, Shaped(s, q), NEW i \in 1..Len(s), s[i].screen = "tabs"
    PROVE  LET t == [s EXCEPT ![i].opened = TRUE]
           IN  Shaped(t, q) /\ Others(s, t, i) /\ t[i].opened
<1> DEFINE x == [s[i] EXCEPT !.opened = TRUE]
<1>1. s[i] \in TabsScreen /\ Len(s[i].pushed) \in Nat
  BY PushedLength DEF Shaped
<1>2. x \in Screen /\ x.screen = s[i].screen /\ x.opened = TRUE /\ x.pushed = s[i].pushed
  BY <1>1 DEF TabsScreen, Screen
<1>3. Len(s[i].pushed) <= Len(x.pushed)
  BY <1>1, <1>2
<1> HIDE DEF x
<1>4. LET t == [s EXCEPT ![i] = x]
      IN  Shaped(t, q) /\ Others(s, t, i) /\ t[i] = x
  BY <1>2, <1>3, Put
<1> QED
  BY <1>2, <1>4 DEF x

\* What is pushed on the tabs grows, or stays as long.
LEMMA SetPushed ==
    ASSUME NEW s, NEW q, Shaped(s, q), NEW i \in 1..Len(s), s[i].screen = "tabs",
           NEW v \in Seq(PushedScreen), Len(s[i].pushed) <= Len(v)
    PROVE  LET t == [s EXCEPT ![i].pushed = v]
           IN  Shaped(t, q) /\ Others(s, t, i) /\ t[i].opened = s[i].opened /\ t[i].pushed = v
<1> DEFINE x == [s[i] EXCEPT !.pushed = v]
<1>1. s[i] \in TabsScreen
  BY PushedLength DEF Shaped
<1>2. x \in Screen /\ x.screen = s[i].screen /\ x.opened = s[i].opened /\ x.pushed = v
  BY <1>1 DEF TabsScreen, Screen
<1> HIDE DEF x
<1>4. LET t == [s EXCEPT ![i] = x]
      IN  Shaped(t, q) /\ Others(s, t, i) /\ t[i] = x
  BY <1>2, Put
<1> QED
  BY <1>2, <1>4 DEF x

-----------------------------------------------------------------------------
(* Screens that come and go *)

\* const.didAppearLogin says whether what is on top was presented by a login
\* screen, or is one.
Ready(s, c) ==
    /\ s[Len(s)].screen = "tabs" /\ Len(s) > 1 => c.didAppearLogin
    /\ s[Len(s)].screen = "login" /\ ~ s[Len(s)].appearing => c.didAppearLogin

LEMMA Added ==
    ASSUME NEW s, NEW q, Shaped(s, q), NEW x \in Screen, s[Len(s)].screen = "login",
           x.screen \in {"register", "tabs"}
    PROVE  LET t == Append(s, x)
           IN  /\ Shaped(t, q) /\ Len(t) = Len(s) + 1 /\ t[Len(t)] = x
               /\ \A j \in 1..Len(s) : t[j] = s[j]
<1> DEFINE t == Append(s, x)
<1>1. Stack(t) /\ Len(t) = Len(s) + 1 /\ t[Len(t)] = x /\ \A j \in 1..Len(s) : t[j] = s[j]
  BY AddScreen DEF Shaped
<1> HIDE DEF t
<1>2. Len(s) \in Nat /\ \A j \in 1..Len(s) : s[j].screen = "tabs" => Len(s[j].pushed) \in Nat
  BY StackTop, PushedLength DEF Shaped
<1>3. Grows(s, t)
  BY <1>1, <1>2 DEF Grows
<1>4. \A i \in 1..Len(t) : t[i].screen = "login" => i <= Len(s)
  BY <1>1, <1>2
<1>5. Slotted(q, t) /\ Homes(q, t)
  BY <1>1, <1>3, <1>4, SlotsStay, HomesStay DEF Shaped
<1> QED
  BY <1>1, <1>5 DEF Shaped, t

\* The screen below the one that goes is a login screen: it will appear.
LEMMA Dismissed ==
    ASSUME Shaped(stack, slot), NEW n \in 1..Top, n < Top, stack[n].screen = "login",
           stack' = [SubSeq(stack, 1, n) EXCEPT ![n].appearing = TRUE], Detach
    PROVE  /\ Shaped(stack', slot') /\ Len(stack') = n
           /\ stack'[n].screen = "login" /\ stack'[n].appearing
           /\ stack'[n].busy = stack[n].busy /\ \A j \in 1..n : j # n => stack'[j] = stack[j]
<1> DEFINE t == SubSeq(stack, 1, n)
           x == [t[n] EXCEPT !.appearing = TRUE]
<1>1. Stack(t) /\ Len(t) = n /\ \A j \in 1..n : t[j] = stack[j]
  BY CutScreens DEF Shaped, Top
<1>2. n \in Nat /\ n \in 1..n /\ Top \in Nat
  BY StackTop DEF Shaped, Top
<1>3. t[n] = stack[n]
  BY <1>1, <1>2
<1>4. t[n] \in LoginScreen
  BY <1>1, <1>2, <1>3, StackTop, ScreenKinds
<1>5. x \in Screen /\ x.screen = "login" /\ x.appearing /\ x.busy = t[n].busy
  BY <1>4 DEF LoginScreen, Screen
<1>6. stack' = [t EXCEPT ![n] = x]
  OBVIOUS
<1> HIDE DEF x, t
<1>7. /\ Stack(stack') /\ Len(stack') = n /\ stack'[n] = x
      /\ \A j \in 1..n : stack'[j].screen = t[j].screen
      /\ \A j \in 1..n : j # n => stack'[j] = t[j]
  <2>0. Stack(t) /\ x \in Screen
    BY <1>1, <1>5
  <2>1. n \in 1..Len(t) /\ x.screen = t[n].screen
    BY <1>1, <1>2, <1>3, <1>5
  <2>2. LET u == [t EXCEPT ![n] = x]
        IN  /\ Stack(u) /\ Len(u) = Len(t) /\ u[n] = x
            /\ \A j \in 1..Len(t) : j # n => u[j] = t[j]
            /\ \A j \in 1..Len(t) : u[j].screen = t[j].screen
    BY <2>0, <2>1, PutScreen
  <2> QED
    BY <1>1, <1>6, <2>2
<1>8. Len(stack') <= Len(stack) /\ \A i \in 1..Len(stack') : stack'[i].screen = stack[i].screen
  BY <1>1, <1>2, <1>7 DEF Top
<1>9. Slotted(slot', stack') /\ Homes(slot', stack')
  BY <1>7, <1>8, Detaching DEF Shaped
<1> QED
  BY <1>1, <1>2, <1>3, <1>5, <1>7, <1>9 DEF Shaped

LEMMA EndRegistrationStep ==
    ASSUME Shaped(stack, slot), stack[Top].screen = "register", EndRegistration
    PROVE  /\ Shaped(stack', slot')
           /\ stack'[Len(stack')].screen = "login" /\ stack'[Len(stack')].appearing
<1>1. Top \in Nat /\ Top \in 1..Top
  BY StackTop DEF Shaped, Top
<1>2. Top > 1 /\ stack[Top - 1].screen = "login"
  BY <1>1 DEF Shaped, Stack, Top
<1>3. Top - 1 \in 1..Top /\ Top - 1 < Top
  BY <1>1, <1>2
<1> QED
  BY <1>2, <1>3, Dismissed DEF EndRegistration

\* A new login screen, where there is none, takes its delegates.
LEMMA LoginAdded ==
    ASSUME NEW s, NEW q, Shaped(s, q), s[Len(s)].screen = "tabs",
           \A i \in 1..Len(s) : s[i].screen # "login"
    PROVE  LET t == Append(s, Login)
           IN  /\ Shaped(t, WithLogin(q, Len(s) + 1)) /\ Len(t) = Len(s) + 1
               /\ t[Len(t)].screen = "login" /\ t[Len(t)].appearing
<1> DEFINE t == Append(s, Login)
           r == WithLogin(q, Len(s) + 1)
<1>1. Login \in Screen /\ Login.screen = "login" /\ Login.appearing
  BY DEF Login, Screen, LoginScreen
<1>2. /\ Stack(t) /\ Len(t) = Len(s) + 1 /\ t[Len(t)] = Login
      /\ \A j \in 1..Len(s) : t[j] = s[j]
  BY <1>1, AddScreen DEF Shaped
<1>3. Len(s) \in Nat /\ \A j \in 1..Len(s) : s[j].screen = "tabs" => Len(s[j].pushed) \in Nat
  BY StackTop, PushedLength DEF Shaped
<1> HIDE DEF t
<1>4. Grows(s, t)
  BY <1>2, <1>3 DEF Grows
<1>5. Slotted(q, t)
  BY <1>2, <1>4, SlotsStay DEF Shaped
<1>6. Place(Len(s) + 1, 0) \in PlaceSet /\ Stands(Place(Len(s) + 1, 0), t)
  BY <1>1, <1>2, <1>3 DEF Place, PlaceSet, Stands
<1>7. /\ r \in Slots /\ r.loginDelegate = Place(Len(s) + 1, 0)
      /\ r.accountDelegate = q.accountDelegate
      /\ \A d \in DOMAIN r : r[d] = q[d] \/ r[d] = Place(Len(s) + 1, 0)
  BY <1>6 DEF Slots, WithLogin, Shaped, Slotted
<1> HIDE DEF r
<1>8. Slotted(r, t)
  BY <1>5, <1>6, <1>7, NewSlots
<1>9. Homes(r, t)
  <2>1. \A i \in 1..Len(t) : t[i].screen = "login" => i = Len(s) + 1
    BY <1>2, <1>3
  <2>2. q.accountDelegate.level # 0 => q.accountDelegate.level \in 1..Len(s)
    BY DEF Shaped, Slotted, Slots, Stands, Gone, GoneSheet, GoneLogin, Out, Place
  <2> QED
    BY <1>1, <1>2, <1>7, <2>1, <2>2 DEF Homes, Place, Shaped
<1> QED
  BY <1>1, <1>2, <1>8, <1>9 DEF Shaped, t, r

LEMMA PresentLoginStep ==
    ASSUME Shaped(stack, slot), Ready(stack, const), NEW level \in Nat,
           level # 0 => level \in 1..Top /\ stack[level].screen = "tabs",
           PresentLogin(level)
    PROVE  /\ Shaped(stack', slot') /\ Ready(stack', const)
           /\ level = Top /\ (const.didAppearLogin => Top > 1) =>
                 stack'[Len(stack')].screen = "login" /\ stack'[Len(stack')].appearing
<1>1. Top \in Nat /\ Top > 0 /\ Top = Len(stack)
  BY StackTop DEF Shaped, Top
<1>2. CASE level # 0 /\ const.didAppearLogin /\ level < Top /\ stack' = SubSeq(stack, 1, level) /\ Detach
  <2>1. /\ Stack(stack') /\ Len(stack') = level
        /\ \A j \in 1..level : stack'[j] = stack[j]
    BY <1>1, <1>2, CutScreens DEF Shaped
  <2>2. Len(stack') <= Len(stack) /\ \A i \in 1..Len(stack') : stack'[i].screen = stack[i].screen
    BY <1>1, <1>2, <2>1
  <2>3. Shaped(stack', slot')
    BY <1>2, <2>1, <2>2, Detaching DEF Shaped
  <2> QED
    BY <1>1, <1>2, <2>1, <2>3 DEF Ready
<1>3. CASE /\ level # 0 /\ const.didAppearLogin /\ level = Top /\ Top > 1
           /\ stack' = [SubSeq(stack, 1, Top - 1) EXCEPT ![Top - 1].appearing = TRUE]
           /\ Detach
  <2>1. Top - 1 \in 1..Top /\ Top - 1 < Top /\ stack[Top - 1].screen = "login"
    BY <1>1, <1>3 DEF Shaped, Stack
  <2>2. /\ Shaped(stack', slot') /\ Len(stack') = Top - 1
        /\ stack'[Top - 1].screen = "login" /\ stack'[Top - 1].appearing
    BY <1>3, <2>1, Dismissed
  <2> QED
    BY <2>2 DEF Ready
<1>4. CASE /\ level # 0 /\ ~ const.didAppearLogin /\ level = Top
           /\ stack' = Append(stack, Login) /\ slot' = WithLogin(slot, Top + 1)
  <2>1. Top = 1
    BY <1>1, <1>4 DEF Ready
  <2>2. stack[Len(stack)].screen = "tabs" /\ \A i \in 1..Len(stack) : stack[i].screen # "login"
    BY <1>1, <1>4, <2>1
  <2>3. /\ Shaped(stack', slot') /\ Len(stack') = Top + 1
        /\ stack'[Len(stack')].screen = "login" /\ stack'[Len(stack')].appearing
    BY <1>1, <1>4, <2>2, LoginAdded
  <2> QED
    BY <2>3 DEF Ready
<1>5. CASE /\ \/ level = 0
              \/ const.didAppearLogin /\ level = Top /\ Top = 1
              \/ ~ const.didAppearLogin /\ level < Top
           /\ UNCHANGED <<stack, slot>>
  BY <1>1, <1>5
<1> QED
  BY <1>2, <1>3, <1>4, <1>5 DEF PresentLogin

LEMMA PopToStep ==
    ASSUME Shaped(stack, slot), NEW l \in 1..Top, stack[l].screen = "tabs",
           NEW n \in Nat, n <= Len(stack[l].pushed), PopTo(l, n)
    PROVE  /\ Shaped(stack', slot') /\ Others(stack, stack', l)
           /\ stack'[l].opened = stack[l].opened
           /\ \A d \in DOMAIN slot :
                 slot[d].level \in 1..Top /\ slot[d].depth = 0 => slot'[d] = slot[d]
<1> DEFINE v == SubSeq(stack[l].pushed, 1, n)
           x == [stack[l] EXCEPT !.pushed = v]
<1>1. Top = Len(stack) /\ Top \in Nat
  BY StackTop DEF Shaped, Top
<1>2. stack[l] \in TabsScreen /\ stack[l].pushed \in Seq(PushedScreen) /\ Len(stack[l].pushed) \in Nat
  BY <1>1, PushedLength DEF Shaped
<1>3. \A k \in 1..n : stack[l].pushed[k] \in PushedScreen
  BY <1>2, ElementOfSeq
<1>4. v \in Seq(PushedScreen)
  BY <1>3, SubSeqProperties
<1> HIDE DEF v
<1>5. x \in Screen /\ x.screen = stack[l].screen /\ x.opened = stack[l].opened
  BY <1>2, <1>4 DEF TabsScreen, Screen
<1>6. stack' = [stack EXCEPT ![l] = x]
  BY DEF PopTo, v
<1> HIDE DEF x
<1>7. Stack(stack') /\ Others(stack, stack', l) /\ stack'[l] = x
  <2>1. l \in 1..Len(stack) /\ Stack(stack)
    BY <1>1 DEF Shaped
  <2>2. LET u == [stack EXCEPT ![l] = x]
        IN  Stack(u) /\ Others(stack, u, l) /\ u[l] = x
    BY <1>5, <2>1, PutScreen DEF Others
  <2> QED
    BY <1>6, <2>2
<1>8. Len(stack') <= Len(stack) /\ \A i \in 1..Len(stack') : stack'[i].screen = stack[i].screen
  BY <1>1, <1>7 DEF Others
<1>9. Detach
  BY DEF PopTo
<1>10. /\ Slotted(slot', stack') /\ Homes(slot', stack')
       /\ \A d \in DOMAIN slot :
             slot[d].level \in 1..Len(stack') /\ slot[d].depth = 0 => slot'[d] = slot[d]
  BY <1>7, <1>8, <1>9, Detaching DEF Shaped
<1> QED
  BY <1>1, <1>5, <1>7, <1>10 DEF Shaped, Others

LEMMA PushStep ==
    ASSUME Shaped(stack, slot), NEW l \in 1..Top, stack[l].screen = "tabs",
           NEW x \in PushedScreen, Push(l, x)
    PROVE  /\ Shaped(stack', slot) /\ Others(stack, stack', l)
           /\ stack'[l].opened = stack[l].opened
           /\ Pushed(l) \in PlaceSet /\ Pushed(l).depth # 0 /\ Stands(Pushed(l), stack')
<1> DEFINE v == Append(stack[l].pushed, x)
<1>1. Top = Len(stack) /\ Top \in Nat
  BY StackTop DEF Shaped, Top
<1>2. stack[l] \in TabsScreen /\ stack[l].pushed \in Seq(PushedScreen) /\ Len(stack[l].pushed) \in Nat
  BY <1>1, PushedLength DEF Shaped
<1>3. v \in Seq(PushedScreen) /\ Len(v) = Len(stack[l].pushed) + 1
  BY <1>2, AppendProperties
<1>4. stack' = [stack EXCEPT ![l].pushed = v]
  BY DEF Push
<1>5. Len(stack[l].pushed) <= Len(v)
  BY <1>2, <1>3
<1> HIDE DEF v
<1>6. /\ Shaped(stack', slot) /\ Others(stack, stack', l)
      /\ stack'[l].opened = stack[l].opened /\ stack'[l].pushed = v
  <2>1. l \in 1..Len(stack) /\ v \in Seq(PushedScreen)
    BY <1>1, <1>3
  <2>2. LET u == [stack EXCEPT ![l].pushed = v]
        IN  Shaped(u, slot) /\ Others(stack, u, l) /\ u[l].opened = stack[l].opened /\ u[l].pushed = v
    BY <1>5, <2>1, SetPushed
  <2> QED
    BY <1>4, <2>2
<1>7. Pushed(l) = [level |-> l, depth |-> Len(stack[l].pushed) + 1]
  BY DEF Pushed, Place, Depth
<1>8. stack'[l].screen = "tabs" /\ Len(stack') = Top /\ l \in Nat
  BY <1>1, <1>6 DEF Others
<1>9. Pushed(l) \in PlaceSet /\ Pushed(l).depth # 0 /\ Stands(Pushed(l), stack')
  BY <1>2, <1>3, <1>6, <1>7, <1>8, <1>1 DEF PlaceSet, Stands
<1> QED
  BY <1>6, <1>9

-----------------------------------------------------------------------------
(* The inductive invariant *)

Plain ==
    /\ status \in [User -> {"free", "half", "live", "deleted"}]
    /\ profile \in SUBSET User
    /\ loggedIn \in User \cup {None} /\ authUser \in User \cup {None}
    /\ sentTo \in User \cup {None, Nobody}
    /\ const \in [didAppearLogin : BOOLEAN, updateDelete : BOOLEAN, updatePhoneEmail : BOOLEAN]
    /\ account \in [id : User \cup {None}, email : User \cup {None}]
    /\ pending \in SUBSET Request
    /\ strays \in 0..(MaxStrays + 1)

\* What the service took, or will take without a look, is of somebody.
Addressed ==
    \A r \in pending : r.result = "ok" \/ r.kind \in {"link", "delete"} => r.user \in User

Strong == Plain /\ Addressed /\ Shaped(stack, slot) /\ Ready(stack, const)

\* As long as the user waits for every answer:

Loads(P) == \A r \in P : r.kind = "load"

OneAtATime == \A r, t \in pending : r.kind # "load" /\ t.kind # "load" => r = t

AtLogin    == stack[Top].screen = "login" /\ ~ stack[Top].appearing
AtRegister == stack[Top].screen = "register"
AtTabs     == stack[Top].screen = "tabs"

\* The screen that has asked is still there, as it was.
Waits(r) ==
    /\ r.kind = "check" =>
          /\ AtLogin \/ AtRegister
          /\ stack[Top].busy /\ slot.showChecked = Place(Top, 0) /\ loggedIn = None
          /\ r.result = "ok" => status[r.user] \in {"half", "live"}
    /\ r.kind = "login" =>
          /\ AtLogin /\ stack[Top].busy /\ loggedIn = None
          /\ r.result = "ok" => status[r.user] = "live"
    /\ r.kind = "link" =>
          /\ AtRegister /\ stack[Top].busy /\ loggedIn = None /\ r.user = authUser
          /\ r.result = "ok" => status[r.user] = "live"
    /\ r.kind \in {"reauth", "updatePhone", "updateEmail", "signIn", "delete"} =>
          AtTabs /\ stack[Top].opened
    /\ r.kind = "delete" =>
          /\ r.user = account.id
          /\ r.result = "ok" => status[r.user] = "deleted"

Asked == \A r \in pending : Waits(r)

\* The screen on top tells whether somebody is logged in.
InSession ==
    /\ loggedIn # None => authUser = loggedIn /\ status[loggedIn] \in {"live", "deleted"}
    /\ AtLogin => loggedIn = None
    /\ AtRegister =>
          /\ slot.showAlertDelegate = Place(Top, 0)
          /\ stack[Top].pane = "info" <=> loggedIn # None
    /\ AtTabs =>
          /\ loggedIn # None /\ account.id = loggedIn
          /\ const.didAppearLogin => Top > 1
          /\ stack[Top].opened => slot.accountDelegate = Place(Top, 0)

\* Who is deleted is logged in, or has a profile, until the device is told.
Told ==
    \A u \in User : status[u] = "deleted" /\ (u = loggedIn \/ u \in profile) =>
        \E r \in pending : r.kind = "delete" /\ r.result = "ok" /\ r.user = u

NobodyGone ==
    \A u \in User : u = loggedIn \/ u \in profile => status[u] # "deleted"

Calm == OneAtATime /\ Asked /\ InSession /\ Told

IInv == Strong /\ (strays = 0 => Calm)

-----------------------------------------------------------------------------
(* What the steps have in common *)

LEMMA Tops ==
    ASSUME Strong
    PROVE  /\ Top \in Nat /\ Top > 0 /\ Top = Len(stack) /\ Top \in 1..Len(stack)
           /\ stack[Top] \in Screen
           /\ stack[Top].screen \in {"login", "register", "tabs"}
           /\ strays \in Nat
<1>1. Stack(stack) /\ strays \in 0..(MaxStrays + 1)
  BY DEF Strong, Shaped, Plain
<1>2. stack[Top] \in Screen
  BY <1>1, StackTop DEF Top
<1>3. strays \in Nat
  BY <1>1, SessionAssumption
<1> QED
  BY <1>1, <1>2, <1>3, StackTop, ScreenKinds DEF Top

\* The user goes on, and still has no strays: nothing but loads is pending.
LEMMA GoingOn ==
    ASSUME IInv, GoOn, strays' = 0
    PROVE  Calm /\ strays = 0 /\ Loads(pending) /\ NobodyGone
<1>1. strays \in Nat
  BY Tops DEF IInv
<1>2. strays = 0 /\ ~ \E r \in pending : r.kind # "load"
  BY <1>1 DEF GoOn
<1>3. Loads(pending) /\ Calm
  BY <1>2 DEF Loads, IInv
<1>4. NobodyGone
  BY <1>3 DEF Calm, Told, NobodyGone, Loads
<1> QED
  BY <1>2, <1>3, <1>4

\* Nobody is gone either while anything but a deletion is on its way.
LEMMA NobodyIsGone ==
    ASSUME Calm, NEW r \in pending, r.kind # "load",
           r.kind = "delete" => r.result # "ok"
    PROVE  NobodyGone /\ Loads(pending \ {r})
<1>1. Loads(pending \ {r})
  BY DEF Calm, OneAtATime, Loads
<1>2. ASSUME NEW t \in pending, t.kind = "delete"
      PROVE  t.result # "ok"
  BY <1>2 DEF Calm, OneAtATime
<1>3. NobodyGone
  BY <1>2 DEF Calm, Told, NobodyGone
<1> QED
  BY <1>1, <1>3

\* Nothing but loads is pending after a step.
LEMMA OnlyLoads ==
    ASSUME Loads(pending'), InSession', NobodyGone'
    PROVE  Calm'
<1>1. OneAtATime'
  BY DEF OneAtATime, Loads
<1>2. Asked'
  BY DEF Asked, Loads, Waits
<1>3. Told'
  BY DEF Told, NobodyGone
<1> QED
  BY <1>1, <1>2, <1>3 DEF Calm

\* One request has been sent.
LEMMA OneSent ==
    ASSUME Loads(pending), NEW t, pending' \subseteq pending \cup {t}, Waits(t)',
           InSession', NobodyGone'
    PROVE  Calm'
<1>1. OneAtATime'
  BY DEF OneAtATime, Loads
<1>2. Asked'
  <2> SUFFICES ASSUME NEW r \in pending' PROVE Waits(r)'
    BY DEF Asked
  <2>1. CASE r = t
    BY <2>1
  <2>2. CASE r.kind = "load"
    BY <2>2 DEF Waits
  <2> QED
    BY <2>1, <2>2 DEF Loads
<1>3. Told'
  BY DEF Told, NobodyGone
<1> QED
  BY <1>1, <1>2, <1>3 DEF Calm

SameTop ==
    /\ Top' = Top /\ stack'[Top].screen = stack[Top].screen
    /\ AtTabs =>
          /\ stack'[Top].opened = stack[Top].opened
          /\ slot.accountDelegate = Place(Top, 0) => slot'.accountDelegate = Place(Top, 0)
    /\ stack[Top].screen = "login" => stack'[Top].appearing = stack[Top].appearing
    /\ AtRegister =>
          /\ stack'[Top].pane = "info" <=> stack[Top].pane = "info"
          /\ slot'.showAlertDelegate = slot.showAlertDelegate

LEMMA SessionStays ==
    ASSUME InSession, SameTop, UNCHANGED <<loggedIn, authUser, status>>,
           account'.id = account.id, const'.didAppearLogin = const.didAppearLogin
    PROVE  InSession'
BY DEF InSession, SameTop, AtLogin, AtRegister, AtTabs

LEMMA ReadyStays ==
    ASSUME Strong, SameTop, const'.didAppearLogin = const.didAppearLogin
    PROVE  Ready(stack', const')
<1>1. Top = Len(stack) /\ Top' = Len(stack')
  BY DEF Top
<1> QED
  BY <1>1 DEF Strong, Ready, SameTop

LEMMA PendingSent ==
    ASSUME Strong, NEW kind \in Kind, NEW u \in User \cup {None, Nobody}, Send(kind, u),
           kind \in {"link", "delete"} => u \in User
    PROVE  pending' \in SUBSET Request /\ Addressed'
<1>1. Ask(kind, u) \in Request /\ Ask(kind, u).result = "sent"
      /\ Ask(kind, u).kind = kind /\ Ask(kind, u).user = u
  BY DEF Ask, Request
<1>2. pending' = pending \cup {Ask(kind, u)}
  BY DEF Send
<1>3. Addressed'
  BY <1>1, <1>2 DEF Strong, Addressed
<1> QED
  BY <1>1, <1>2, <1>3 DEF Strong, Plain

LEMMA StraysGrow ==
    ASSUME Strong, GoOn
    PROVE  strays' \in 0..(MaxStrays + 1)
<1>1. strays \in Nat /\ MaxStrays \in Nat
  BY Tops, SessionAssumption
<1>2. strays' = strays \/ strays' = strays + 1
  BY <1>1 DEF GoOn
<1> QED
  BY <1>1, <1>2 DEF GoOn

\* A request is sent, and the screen on top stays.
LEMMA Asking ==
    ASSUME IInv, NEW kind \in Kind, NEW u \in User \cup {None, Nobody}, Send(kind, u), GoOn,
           kind \in {"link", "delete"} => u \in User,
           UNCHANGED <<service, kept, const, account>>, Shaped(stack', slot'), SameTop,
           Calm /\ Loads(pending) => Waits(Ask(kind, u))'
    PROVE  IInv'
<1>1. Strong
  BY DEF IInv
<1>2. pending' \in SUBSET Request /\ Addressed'
  BY <1>1, PendingSent
<1>3. Plain'
  BY <1>1, <1>2, StraysGrow DEF Strong, Plain, service, kept
<1>4. Ready(stack', const')
  BY <1>1, ReadyStays
<1>5. ASSUME strays' = 0
      PROVE  Calm'
  <2>1. Calm /\ Loads(pending) /\ NobodyGone
    BY <1>5, GoingOn
  <2>2. InSession'
    BY <2>1, SessionStays DEF Calm, service, kept
  <2>3. NobodyGone'
    BY <2>1 DEF NobodyGone, service, kept
  <2>4. PICK t : t = Ask(kind, u)
    OBVIOUS
  <2>5. pending' \subseteq pending \cup {t} /\ Waits(t)'
    BY <2>1, <2>4 DEF Send
  <2> QED
    BY <2>1, <2>2, <2>3, <2>5, OneSent
<1> QED
  BY <1>2, <1>3, <1>4, <1>5 DEF IInv, Strong

\* The user goes on, nothing is sent, and the screen on top stays.
LEMMA Going ==
    ASSUME IInv, GoOn, UNCHANGED <<service, kept, const, account, pending>>,
           Shaped(stack', slot'), SameTop
    PROVE  IInv'
<1>1. Strong
  BY DEF IInv
<1>2. Plain' /\ Addressed'
  BY <1>1, StraysGrow DEF Strong, Plain, service, kept, Addressed
<1>3. Ready(stack', const')
  BY <1>1, ReadyStays
<1>4. ASSUME strays' = 0
      PROVE  Calm'
  <2>1. Calm /\ Loads(pending) /\ NobodyGone
    BY <1>4, GoingOn
  <2>2. InSession'
    BY <2>1, SessionStays DEF Calm, service, kept
  <2>3. NobodyGone' /\ Loads(pending')
    BY <2>1 DEF NobodyGone, service, kept, Loads
  <2> QED
    BY <2>2, <2>3, OnlyLoads
<1> QED
  BY <1>2, <1>3, <1>4 DEF IInv, Strong

-----------------------------------------------------------------------------
(* The login screen *)

LEMMA BusyStep ==
    ASSUME Strong, NEW b \in BOOLEAN, stack[Top].screen \in {"login", "register"}, Busy(b),
           slot' = slot \/ slot' = [slot EXCEPT !.showChecked = Place(Top, 0)]
    PROVE  /\ Shaped(stack', slot') /\ SameTop /\ stack'[Top].busy = b
           /\ slot'.showChecked = slot.showChecked \/ slot'.showChecked = Place(Top, 0)
<1>1. Top \in Nat /\ Top > 0 /\ Top = Len(stack) /\ Top \in 1..Len(stack) /\ Shaped(stack, slot)
  BY Tops DEF Strong
<1>2. LET t == [stack EXCEPT ![Top].busy = b]
      IN  /\ Shaped(t, slot) /\ Others(stack, t, Top)
          /\ t[Top].busy = b /\ t[Top].pane = stack[Top].pane
          /\ stack[Top].screen = "login" => t[Top].appearing = stack[Top].appearing
  <2>1. Top \in 1..Len(stack) /\ Shaped(stack, slot)
    BY <1>1
  <2> QED
    BY <2>1, SetBusy
<1>3. /\ Shaped(stack', slot) /\ Others(stack, stack', Top)
      /\ stack'[Top].busy = b /\ stack'[Top].pane = stack[Top].pane
      /\ stack[Top].screen = "login" => stack'[Top].appearing = stack[Top].appearing
  BY <1>2 DEF Busy
<1>4. Place(Top, 0) \in PlaceSet /\ Stands(Place(Top, 0), stack')
  <2>1. stack'[Top].screen # "tabs" /\ Len(stack') = Top
    BY <1>1, <1>3 DEF Others
  <2> QED
    BY <1>1, <2>1 DEF Place, PlaceSet, Stands
<1>5. /\ slot' \in Slots /\ slot'.loginDelegate = slot.loginDelegate
      /\ slot'.accountDelegate = slot.accountDelegate
      /\ slot'.showAlertDelegate = slot.showAlertDelegate
      /\ slot'.showChecked = slot.showChecked \/ slot'.showChecked = Place(Top, 0)
      /\ \A d \in DOMAIN slot' : slot'[d] = slot[d] \/ slot'[d] = Place(Top, 0)
  BY <1>1, <1>4 DEF Shaped, Slotted, Slots
<1>6. Slotted(slot', stack')
  BY <1>3, <1>4, <1>5, NewSlots DEF Shaped
<1>7. Homes(slot', stack')
  BY <1>3, <1>5 DEF Homes, Shaped
<1>8. SameTop
  BY <1>1, <1>3, <1>5 DEF SameTop, Others, AtTabs, AtRegister, Top
<1> QED
  BY <1>3, <1>5, <1>6, <1>7, <1>8 DEF Shaped

LEMMA LogInStep ==
    ASSUME IInv, NEW u \in User, LogIn(u)
    PROVE  IInv'
<1>1. Strong /\ stack[Top].screen = "login" /\ ~ stack[Top].appearing
  BY DEF IInv, LogIn, OnLogin
<1>2. Shaped(stack', slot') /\ SameTop /\ stack'[Top].busy = TRUE
  BY <1>1, BusyStep DEF LogIn
<1>3. Calm => Waits(Ask("login", u))'
  BY <1>1, <1>2 DEF LogIn, Waits, Ask, SameTop, AtLogin, Calm, InSession, kept
<1>4. "login" \in Kind
  BY DEF Kind
<1> QED
  BY <1>2, <1>3, <1>4, Asking DEF LogIn

LEMMA SendCodeStep ==
    ASSUME IInv, NEW u \in User, SendCode(u)
    PROVE  IInv'
<1>1. Strong /\ stack[Top].screen = "login"
  BY DEF IInv, SendCode, OnLogin
<1>2. Shaped(stack', slot') /\ SameTop
  BY <1>1, BusyStep DEF SendCode
<1>3. Waits(Ask("sendCode", u))'
  BY DEF Waits, Ask
<1>4. "sendCode" \in Kind
  BY DEF Kind
<1> QED
  BY <1>2, <1>3, <1>4, Asking DEF SendCode

LEMMA CheckCodeStep ==
    ASSUME IInv, CheckCode \/ RegisterCheckCode
    PROVE  IInv'
<1>1. /\ Strong /\ stack[Top].screen \in {"login", "register"}
      /\ stack[Top].screen = "login" => ~ stack[Top].appearing
      /\ stack[Top].screen = "register" => stack[Top].pane # "info"
      /\ Busy(TRUE) /\ Send("check", sentTo) /\ GoOn
      /\ slot' = [slot EXCEPT !.showChecked = Place(Top, 0)]
      /\ UNCHANGED <<service, kept, const, account>>
  BY DEF IInv, CheckCode, RegisterCheckCode, OnLogin, OnRegister
<1>2. Shaped(stack', slot') /\ SameTop /\ stack'[Top].busy = TRUE
  BY <1>1, BusyStep
<1>3. slot'.showChecked = Place(Top, 0)
  BY <1>1 DEF Strong, Shaped, Slotted, Slots
<1>4. PICK u : u = sentTo
  OBVIOUS
<1>5. u \in User \cup {None, Nobody} /\ "check" \in Kind
  BY <1>1, <1>4 DEF Strong, Plain, Kind
<1>6. Calm => loggedIn = None /\ (AtLogin \/ AtRegister)
  BY <1>1 DEF Calm, InSession, AtLogin, AtRegister
<1>7. Calm => Waits(Ask("check", u))'
  BY <1>1, <1>2, <1>3, <1>6 DEF Waits, Ask, SameTop, AtLogin, AtRegister, kept
<1> QED
  BY <1>1, <1>2, <1>4, <1>5, <1>7, Asking

\* What is on its way when the screen on top waits for nothing.
LEMMA Mild ==
    ASSUME Calm, pending \subseteq Request,
           \/ stack[Top].screen \in {"login", "register"} /\ ~ stack[Top].busy
           \/ stack[Top].screen = "login" /\ stack[Top].appearing
           \/ AtTabs /\ ~ stack[Top].opened
    PROVE  /\ NobodyGone
           /\ \A r \in pending : r.kind \in {"load", "sendCode"}
<1>1. ASSUME NEW r \in pending
      PROVE  r.kind \in {"load", "sendCode"}
  <2>1. r.kind \in Kind /\ Waits(r)
    BY DEF Calm, Asked, Request
  <2> QED
    BY <2>1 DEF Kind, Waits, AtLogin, AtRegister, AtTabs
<1>2. NobodyGone
  BY <1>1 DEF Calm, Told, NobodyGone
<1> QED
  BY <1>1, <1>2

LEMMA MildStep ==
    ASSUME Calm, \A r \in pending' : r.kind = "load" \/ (r.kind = "sendCode" /\ r \in pending),
           InSession', NobodyGone'
    PROVE  Calm'
<1>1. OneAtATime'
  BY DEF OneAtATime, Calm
<1>2. Asked'
  <2> SUFFICES ASSUME NEW r \in pending' PROVE Waits(r)'
    BY DEF Asked
  <2>1. r.kind \in {"load", "sendCode"}
    OBVIOUS
  <2> QED
    BY <2>1 DEF Waits
<1>3. Told'
  BY DEF Told, NobodyGone
<1> QED
  BY <1>1, <1>2, <1>3 DEF Calm

LEMMA SlotsSet ==
    ASSUME NEW s, NEW q, Shaped(s, q), NEW p \in PlaceSet, Stands(p, s), NEW r \in Slots,
           r.loginDelegate = q.loginDelegate, r.accountDelegate = q.accountDelegate,
           \A d \in DOMAIN r : r[d] = q[d] \/ r[d] = p
    PROVE  Shaped(s, r)
<1>1. Slotted(r, s)
  BY NewSlots DEF Shaped
<1>2. Homes(r, s)
  BY DEF Homes, Shaped
<1> QED
  BY <1>1, <1>2 DEF Shaped

LEMMA ShowStep ==
    ASSUME Strong, stack[Top].screen \in {"login", "register"},
           NEW pane \in Panes(stack[Top].screen), Show(pane), UNCHANGED slot,
           pane # "info", AtRegister => stack[Top].pane # "info"
    PROVE  Shaped(stack', slot') /\ SameTop
<1>1. Top \in Nat /\ Top > 0 /\ Top = Len(stack)
  BY Tops
<1>2. LET t == [stack EXCEPT ![Top].pane = pane]
      IN  /\ Shaped(t, slot) /\ Others(stack, t, Top)
          /\ t[Top].busy = stack[Top].busy /\ t[Top].pane = pane
          /\ stack[Top].screen = "login" => t[Top].appearing = stack[Top].appearing
  <2>1. Top \in 1..Len(stack) /\ Shaped(stack, slot)
    BY Tops DEF Strong
  <2> QED
    BY <2>1, SetPane
<1>3. /\ Shaped(stack', slot) /\ Others(stack, stack', Top) /\ stack'[Top].pane = pane
      /\ stack[Top].screen = "login" => stack'[Top].appearing = stack[Top].appearing
  BY <1>2 DEF Show
<1> QED
  BY <1>1, <1>3 DEF SameTop, Others, AtTabs, AtRegister, Top

LEMMA SwitchPaneStep ==
    ASSUME IInv, SwitchPane
    PROVE  IInv'
<1>1. /\ Strong /\ stack[Top].screen = "login" /\ ~ stack[Top].busy
      /\ UNCHANGED <<service, kept, const, slot, account, pending, strays>>
      /\ \E pane \in {"main", "email", "phone"} : Show(pane)
  BY DEF IInv, SwitchPane, OnLogin
<1>2. PICK pane \in {"main", "email", "phone"} : Show(pane)
  BY <1>1
<1>3. pane \in Panes(stack[Top].screen)
  BY <1>1 DEF Panes
<1>4. Shaped(stack', slot') /\ SameTop
  BY <1>1, <1>2, <1>3, ShowStep DEF AtRegister
<1>5. Ready(stack', const') /\ Plain' /\ Addressed'
  BY <1>1, <1>4, ReadyStays DEF Strong, Plain, Addressed, service, kept
<1>6. ASSUME strays' = 0
      PROVE  Calm'
  <2>1. Calm /\ pending \subseteq Request
    BY <1>1, <1>6 DEF IInv, Strong, Plain
  <2>2. NobodyGone /\ \A r \in pending : r.kind \in {"load", "sendCode"}
    BY <1>1, <2>1, Mild
  <2>3. InSession'
    BY <1>1, <1>4, <2>1, SessionStays DEF Calm, service, kept
  <2>4. NobodyGone'
    BY <1>1, <2>2 DEF NobodyGone, service, kept
  <2> QED
    BY <1>1, <2>1, <2>2, <2>3, <2>4, MildStep
<1> QED
  BY <1>4, <1>5, <1>6 DEF IInv, Strong

LEMMA OpenRegistrationStep ==
    ASSUME IInv, OpenRegistration
    PROVE  IInv'
<1>1. /\ Strong /\ stack[Top].screen = "login" /\ ~ stack[Top].busy /\ ~ stack[Top].appearing
      /\ const' = [const EXCEPT !.didAppearLogin = FALSE]
      /\ stack' = Append(stack, Register)
      /\ slot' = [slot EXCEPT !.showChecked = Place(Top + 1, 0),
                              !.showAlertDelegate = Place(Top + 1, 0)]
      /\ UNCHANGED <<service, kept, account, pending, strays>>
  BY DEF IInv, OpenRegistration, OnLogin
<1>2. Top \in Nat /\ Top = Len(stack) /\ Shaped(stack, slot) /\ Plain
  BY <1>1, Tops DEF Strong
<1>3. Register \in Screen /\ Register.screen = "register" /\ Register.pane = "phone"
  BY DEF Register, Screen, RegisterScreen
<1>4. LET t == Append(stack, Register)
      IN  /\ Shaped(t, slot) /\ Len(t) = Len(stack) + 1 /\ t[Len(t)] = Register
  <2>1. Shaped(stack, slot) /\ stack[Len(stack)].screen = "login"
    BY <1>1, <1>2
  <2> QED
    BY <1>3, <2>1, Added
<1>5. Shaped(stack', slot) /\ Len(stack') = Top + 1 /\ stack'[Len(stack')] = Register
  BY <1>1, <1>2, <1>4
<1>6. Place(Top + 1, 0) \in PlaceSet /\ Stands(Place(Top + 1, 0), stack')
  BY <1>2, <1>3, <1>5 DEF Place, PlaceSet, Stands
<1>7. /\ slot' \in Slots /\ slot'.loginDelegate = slot.loginDelegate
      /\ slot'.accountDelegate = slot.accountDelegate
      /\ slot'.showAlertDelegate = Place(Top + 1, 0)
      /\ \A d \in DOMAIN slot' : slot'[d] = slot[d] \/ slot'[d] = Place(Top + 1, 0)
  BY <1>1, <1>2, <1>6 DEF Shaped, Slotted, Slots
<1>8. Shaped(stack', slot')
  BY <1>5, <1>6, <1>7, SlotsSet
<1>9. Ready(stack', const')
  BY <1>3, <1>5 DEF Ready
<1>10. Plain' /\ Addressed'
  BY <1>1, <1>2 DEF Plain, Strong, Addressed, service, kept
<1>11. ASSUME strays' = 0
       PROVE  Calm'
  <2>1. Calm /\ pending \subseteq Request
    BY <1>1, <1>2, <1>11 DEF IInv, Plain
  <2>2. NobodyGone /\ \A r \in pending : r.kind \in {"load", "sendCode"}
    BY <1>1, <2>1, Mild
  <2>3. loggedIn = None
    BY <1>1, <2>1 DEF Calm, InSession, AtLogin
  <2>4. InSession'
    BY <1>1, <1>3, <1>5, <1>7, <2>3 DEF InSession, AtLogin, AtRegister, AtTabs, Top, kept
  <2>5. NobodyGone'
    BY <1>1, <2>2 DEF NobodyGone, service, kept
  <2> QED
    BY <1>1, <2>1, <2>2, <2>4, <2>5, MildStep
<1> QED
  BY <1>8, <1>9, <1>10, <1>11 DEF IInv, Strong

\* A step that leaves nothing but what Mild allows on its way.
LEMMA MildlyOn ==
    ASSUME IInv, \A r \in pending' : r.kind = "load" \/ r \in pending,
           \/ stack[Top].screen \in {"login", "register"} /\ ~ stack[Top].busy
           \/ stack[Top].screen = "login" /\ stack[Top].appearing
           \/ AtTabs /\ ~ stack[Top].opened,
           Plain', Addressed', Shaped(stack', slot'), Ready(stack', const'), strays' = strays,
           InSession /\ NobodyGone => InSession' /\ NobodyGone'
    PROVE  IInv'
<1>1. ASSUME strays' = 0
      PROVE  Calm'
  <2>1. Calm /\ pending \subseteq Request
    BY <1>1 DEF IInv, Strong, Plain
  <2>2. NobodyGone /\ \A r \in pending : r.kind \in {"load", "sendCode"}
    BY <2>1, Mild
  <2>3. InSession' /\ NobodyGone'
    BY <2>1, <2>2 DEF Calm
  <2> QED
    BY <2>1, <2>2, <2>3, MildStep
<1> QED
  BY <1>1 DEF IInv, Strong

LEMMA ViewDidAppearStep ==
    ASSUME IInv, ViewDidAppear
    PROVE  IInv'
<1>1. /\ Strong /\ stack[Top].screen = "login" /\ stack[Top].appearing
      /\ const' = [const EXCEPT !.didAppearLogin = TRUE]
      /\ UNCHANGED <<service, kept, slot, strays>>
  BY DEF IInv, ViewDidAppear
<1>2. Top \in Nat /\ Top > 0 /\ Top = Len(stack) /\ Shaped(stack, slot) /\ Plain
  BY <1>1, Tops DEF Strong
<1>3. PICK t : t = [stack EXCEPT ![Top].appearing = FALSE]
  OBVIOUS
<1>4. Shaped(t, slot) /\ Others(stack, t, Top) /\ t[Top].appearing = FALSE
  <2>1. Shaped(stack, slot) /\ Top \in 1..Len(stack)
    BY <1>2
  <2>2. LET u == [stack EXCEPT ![Top].appearing = FALSE]
        IN  Shaped(u, slot) /\ Others(stack, u, Top) /\ u[Top].appearing = FALSE
            /\ u[Top].busy = stack[Top].busy
    BY <1>1, <2>1, SetAppearing
  <2> QED
    BY <1>3, <2>2
<1>5. Len(t) = Top /\ t[Top].screen = "login"
  BY <1>1, <1>2, <1>4 DEF Others
<1>6. const'.didAppearLogin /\ const' \in [didAppearLogin : BOOLEAN, updateDelete : BOOLEAN,
                                           updatePhoneEmail : BOOLEAN]
  BY <1>1, <1>2 DEF Plain
<1>7. CASE loggedIn = None /\ stack' = t /\ UNCHANGED <<account, pending>>
  <2>1. Plain' /\ Addressed' /\ Ready(stack', const')
    BY <1>1, <1>2, <1>6, <1>7 DEF Plain, Strong, Addressed, service, kept, Ready
  <2>2. NobodyGone => NobodyGone'
    BY <1>1 DEF NobodyGone, service, kept
  <2>3. InSession'
    BY <1>1, <1>5, <1>7 DEF InSession, AtLogin, AtRegister, AtTabs, Top, kept
  <2> QED
    BY <1>1, <1>4, <1>7, <2>1, <2>2, <2>3, MildlyOn
<1>8. CASE /\ loggedIn # None /\ stack' = Append([t EXCEPT ![Top].pane = "main"], Tabs)
           /\ account' = [account EXCEPT !.id = loggedIn]
           /\ pending' = pending \cup {Ask("load", loggedIn)}
  <2>1. PICK u : u = [t EXCEPT ![Top].pane = "main"]
    OBVIOUS
  <2>2. Shaped(u, slot) /\ Others(t, u, Top)
    <3>1. Shaped(t, slot) /\ Top \in 1..Len(t) /\ t[Top].screen \in {"login", "register"}
          /\ "main" \in Panes(t[Top].screen)
      BY <1>2, <1>4, <1>5 DEF Panes
    <3>2. LET v == [t EXCEPT ![Top].pane = "main"]
          IN  Shaped(v, slot) /\ Others(t, v, Top)
      BY <3>1, SetPane
    <3> QED
      BY <2>1, <3>2
  <2>3. Len(u) = Top /\ u[Len(u)].screen = "login"
    BY <1>2, <1>5, <2>2 DEF Others
  <2>4. Tabs \in Screen /\ Tabs.screen = "tabs" /\ Tabs.opened = FALSE
    BY EmptySeq DEF Tabs, Screen, TabsScreen
  <2>5. Shaped(stack', slot) /\ Len(stack') = Top + 1 /\ stack'[Len(stack')] = Tabs
    <3>1. LET v == Append(u, Tabs)
          IN  Shaped(v, slot) /\ Len(v) = Len(u) + 1 /\ v[Len(v)] = Tabs
      BY <2>2, <2>3, <2>4, Added
    <3> QED
      BY <1>8, <2>1, <2>3, <3>1
  <2>6. PICK w : w = loggedIn
    OBVIOUS
  <2>7. /\ Ask("load", w) \in Request /\ Ask("load", w).result = "sent"
        /\ Ask("load", w).kind = "load"
    BY <1>2, <1>8, <2>6 DEF Ask, Request, Kind, Plain
  <2>8. pending' \in SUBSET Request /\ Addressed'
    BY <1>1, <1>2, <1>8, <2>6, <2>7 DEF Strong, Plain, Addressed
  <2>9. Plain' /\ Ready(stack', const')
    BY <1>1, <1>2, <1>6, <1>8, <2>8 DEF Plain, service, kept, Ready
  <2>10. \A r \in pending' : r.kind = "load" \/ r \in pending
    BY <1>8, <2>6, <2>7
  <2>11. InSession => InSession'
    BY <1>1, <1>2, <1>8, <2>4, <2>5 DEF InSession, AtLogin, AtRegister, AtTabs, Top, kept, service, Plain
  <2>12. NobodyGone => NobodyGone'
    BY <1>1 DEF NobodyGone, service, kept
  <2>13. Shaped(stack', slot')
    BY <1>1, <2>5
  <2> QED
    BY <1>1, <2>8, <2>9, <2>10, <2>11, <2>12, <2>13, MildlyOn
<1> QED
  BY <1>3, <1>7, <1>8 DEF ViewDidAppear

-----------------------------------------------------------------------------
(* The registration screen *)

LEMMA RegisterSendCodeStep ==
    ASSUME IInv, NEW u \in User, RegisterSendCode(u)
    PROVE  IInv'
<1>1. Strong /\ stack[Top].screen = "register"
  BY DEF IInv, RegisterSendCode, OnRegister
<1>2. Shaped(stack', slot') /\ SameTop
  BY <1>1, BusyStep DEF RegisterSendCode
<1>3. Waits(Ask("sendCode", u))'
  BY DEF Waits, Ask
<1>4. "sendCode" \in Kind
  BY DEF Kind
<1> QED
  BY <1>2, <1>3, <1>4, Asking DEF RegisterSendCode

\* Whatever was on top has gone, and a login screen will appear.
LEMMA Appears ==
    ASSUME stack'[Len(stack')].screen = "login", stack'[Len(stack')].appearing
    PROVE  /\ Ready(stack', const')
           /\ (loggedIn # None => authUser = loggedIn /\ status[loggedIn] \in {"live", "deleted"})' => InSession'
BY DEF Ready, InSession, AtLogin, AtRegister, AtTabs, Top

LEMMA RegisterBackStep ==
    ASSUME IInv, RegisterBack
    PROVE  IInv'
<1>1. /\ Strong /\ stack[Top].screen = "register" /\ stack[Top].pane \in {"phone", "code"}
      /\ GoOn /\ UNCHANGED <<service, kept, const, account, pending>>
      /\ (Show("phone") /\ UNCHANGED slot) \/ EndRegistration
  BY DEF IInv, RegisterBack, OnRegister
<1>2. CASE Show("phone") /\ UNCHANGED slot
  <2>1. "phone" \in Panes(stack[Top].screen)
    BY <1>1 DEF Panes
  <2>2. Shaped(stack', slot') /\ SameTop
    BY <1>1, <1>2, <2>1, ShowStep
  <2> QED
    BY <1>1, <2>2, Going
<1>3. CASE EndRegistration
  <2>1. /\ Shaped(stack', slot')
        /\ stack'[Len(stack')].screen = "login" /\ stack'[Len(stack')].appearing
    BY <1>1, <1>3, EndRegistrationStep DEF Strong
  <2>2. Plain' /\ Addressed'
    BY <1>1, StraysGrow DEF Strong, Plain, Addressed, service, kept
  <2>3. ASSUME strays' = 0
        PROVE  Calm'
    <3>1. Calm /\ Loads(pending) /\ NobodyGone
      BY <1>1, <2>3, GoingOn
    <3>2. NobodyGone' /\ Loads(pending')
      BY <1>1, <3>1 DEF NobodyGone, service, kept, Loads
    <3>3. (loggedIn # None => authUser = loggedIn /\ status[loggedIn] \in {"live", "deleted"})'
      BY <1>1, <3>1 DEF Calm, InSession, service, kept
    <3> QED
      BY <2>1, <3>2, <3>3, Appears, OnlyLoads
  <2> QED
    BY <2>1, <2>2, <2>3, Appears DEF IInv, Strong
<1> QED
  BY <1>1, <1>2, <1>3

LEMMA LinkWithCredentialStep ==
    ASSUME IInv, LinkWithCredential
    PROVE  IInv'
<1>1. /\ Strong /\ stack[Top].screen = "register" /\ stack[Top].pane = "email"
      /\ Busy(TRUE) /\ GoOn
      /\ UNCHANGED <<service, kept, const, slot, account>>
  BY DEF IInv, LinkWithCredential, OnRegister
<1>2. Shaped(stack', slot') /\ SameTop /\ stack'[Top].busy = TRUE
  BY <1>1, BusyStep
<1>3. CASE authUser # None /\ Send("link", authUser)
  <2>1. PICK u : u = authUser
    OBVIOUS
  <2>2. u \in User /\ "link" \in Kind
    BY <1>1, <1>3, <2>1 DEF Strong, Plain, Kind
  <2>3. Calm => loggedIn = None
    BY <1>1 DEF Calm, InSession, AtRegister
  <2>4. Calm => Waits(Ask("link", u))'
    BY <1>1, <1>2, <2>1, <2>3 DEF Waits, Ask, SameTop, AtRegister, kept
  <2> QED
    BY <1>1, <1>2, <1>3, <2>1, <2>2, <2>4, Asking
<1>4. CASE UNCHANGED pending
  BY <1>1, <1>2, <1>4, Going
<1> QED
  BY <1>3, <1>4 DEF LinkWithCredential

LEMMA AddUserInfoStep ==
    ASSUME IInv, AddUserInfo
    PROVE  IInv'
<1>1. /\ Strong /\ stack[Top].screen = "register" /\ stack[Top].pane = "info" /\ ~ stack[Top].busy
      /\ profile' \in {profile, profile \cup ({authUser} \ {None})} /\ EndRegistration
      /\ UNCHANGED <<status, kept, const, account, pending, strays>>
  BY DEF IInv, AddUserInfo, OnRegister
<1>2. /\ Shaped(stack', slot')
      /\ stack'[Len(stack')].screen = "login" /\ stack'[Len(stack')].appearing
  BY <1>1, EndRegistrationStep DEF Strong
<1>3. Plain' /\ Addressed'
  BY <1>1 DEF Strong, Plain, Addressed, kept
<1>4. ASSUME InSession, NobodyGone
      PROVE  InSession' /\ NobodyGone'
  <2>1. authUser = loggedIn /\ loggedIn # None
    BY <1>1, <1>4 DEF InSession, AtRegister
  <2>2. NobodyGone'
    BY <1>1, <1>4, <2>1 DEF NobodyGone, kept
  <2>3. (loggedIn # None => authUser = loggedIn /\ status[loggedIn] \in {"live", "deleted"})'
    BY <1>1, <1>4 DEF InSession, kept
  <2> QED
    BY <1>2, <2>2, <2>3, Appears
<1> QED
  BY <1>1, <1>2, <1>3, <1>4, Appears, MildlyOn

-----------------------------------------------------------------------------
(* The account screen and what is pushed on it *)

LEMMA OpenAccountTabStep ==
    ASSUME IInv, OpenAccountTab
    PROVE  IInv'
<1>1. /\ Strong /\ stack[Top].screen = "tabs" /\ ~ stack[Top].opened
      /\ stack' = [stack EXCEPT ![Top].opened = TRUE]
      /\ slot' = [slot EXCEPT !.accountDelegate = Place(Top, 0)]
      /\ UNCHANGED <<service, kept, const, account, pending, strays>>
  BY DEF IInv, OpenAccountTab
<1>2. Top \in Nat /\ Top > 0 /\ Top = Len(stack) /\ Top \in 1..Len(stack) /\ Shaped(stack, slot)
  BY <1>1, Tops DEF Strong
<1>3. Shaped(stack', slot) /\ Others(stack, stack', Top) /\ stack'[Top].opened
  <2>1. Shaped(stack, slot) /\ Top \in 1..Len(stack)
    BY <1>2
  <2>2. LET t == [stack EXCEPT ![Top].opened = TRUE]
        IN  Shaped(t, slot) /\ Others(stack, t, Top) /\ t[Top].opened
    BY <1>1, <2>1, SetOpened
  <2> QED
    BY <1>1, <2>2
<1>4. Len(stack') = Top /\ Top' = Top /\ stack'[Top].screen = "tabs"
  BY <1>1, <1>2, <1>3 DEF Others, Top
<1>5. stack'[Top] \in TabsScreen
  BY <1>2, <1>4, <1>3, PushedLength DEF Shaped
<1>6. Place(Top, 0) \in PlaceSet /\ Stands(Place(Top, 0), stack')
  <2>1. Len(stack'[Top].pushed) \in Nat
    BY <1>2, <1>3, <1>4, PushedLength DEF Shaped
  <2> QED
    BY <1>2, <1>4, <2>1 DEF Place, PlaceSet, Stands
<1>7. /\ slot' \in Slots /\ slot'.loginDelegate = slot.loginDelegate
      /\ slot'.accountDelegate = Place(Top, 0)
      /\ slot'.showAlertDelegate = slot.showAlertDelegate
      /\ \A d \in DOMAIN slot' : slot'[d] = slot[d] \/ slot'[d] = Place(Top, 0)
  BY <1>1, <1>2, <1>6 DEF Shaped, Slotted, Slots
<1>8. Slotted(slot', stack')
  BY <1>3, <1>6, <1>7, NewSlots DEF Shaped
<1>9. Homes(slot', stack')
  BY <1>3, <1>4, <1>7 DEF Homes, Shaped, Place
<1>10. Plain' /\ Addressed' /\ Ready(stack', const')
  BY <1>1, <1>2, <1>4 DEF Strong, Plain, Addressed, service, kept, Ready
<1>11. NobodyGone => NobodyGone'
  BY <1>1 DEF NobodyGone, service, kept
<1>12. InSession => InSession'
  BY <1>1, <1>4, <1>7 DEF InSession, AtLogin, AtRegister, AtTabs, service, kept
<1>13. Shaped(stack', slot')
  BY <1>3, <1>8, <1>9 DEF Shaped
<1>14. \A r \in pending' : r.kind = "load" \/ r \in pending
  BY <1>1
<1>15. AtTabs /\ ~ stack[Top].opened /\ strays' = strays
  BY <1>1 DEF AtTabs
<1> QED
  BY <1>10, <1>11, <1>12, <1>13, <1>14, <1>15, MildlyOn

LEMMA ExitStep ==
    ASSUME IInv, Exit
    PROVE  IInv'
<1>1. /\ Strong /\ AtTabs /\ stack[Top].opened /\ loggedIn' = None /\ PresentLogin(Top) /\ GoOn
      /\ UNCHANGED <<service, authUser, sentTo, const, account, pending>>
  BY DEF IInv, Exit, OnAccount, AtTabs
<1>2. Top \in Nat /\ Top > 0 /\ Top \in 1..Top /\ Shaped(stack, slot) /\ Ready(stack, const)
  BY <1>1, Tops DEF Strong
<1>3. /\ Shaped(stack', slot') /\ Ready(stack', const)
      /\ (const.didAppearLogin => Top > 1) =>
            stack'[Len(stack')].screen = "login" /\ stack'[Len(stack')].appearing
  <2>1. PICK level : level = Top
    OBVIOUS
  <2>2. level \in Nat /\ (level # 0 => level \in 1..Top /\ stack[level].screen = "tabs")
        /\ PresentLogin(level) /\ level = Top
    BY <1>1, <1>2, <2>1 DEF AtTabs
  <2> QED
    BY <1>2, <2>2, PresentLoginStep
<1>4. Plain' /\ Addressed'
  BY <1>1, StraysGrow DEF Strong, Plain, Addressed, service
<1>5. ASSUME strays' = 0
      PROVE  Calm'
  <2>1. Calm /\ Loads(pending) /\ NobodyGone
    BY <1>1, <1>5, GoingOn
  <2>2. stack'[Len(stack')].screen = "login" /\ stack'[Len(stack')].appearing
    BY <1>1, <1>3, <2>1 DEF Calm, InSession
  <2>3. InSession'
    BY <1>1, <2>2, Appears
  <2>4. NobodyGone' /\ Loads(pending')
    BY <1>1, <2>1, SessionAssumption DEF NobodyGone, service, Loads
  <2> QED
    BY <2>3, <2>4, OnlyLoads
<1>6. Ready(stack', const')
  BY <1>1, <1>3
<1> QED
  BY <1>3, <1>4, <1>5, <1>6 DEF IInv, Strong

LEMMA EditProfileStep ==
    ASSUME IInv, EditProfile
    PROVE  IInv'
<1>1. /\ Strong /\ AtTabs /\ profile' = profile \cup ({account.id} \ {None})
      /\ UNCHANGED <<status, kept, stack, const, slot, account, pending, strays>>
  BY DEF IInv, EditProfile, OnAccount, AtTabs
<1>2. Strong'
  BY <1>1 DEF Strong, Plain, Addressed, Shaped, kept
<1>3. ASSUME strays' = 0
      PROVE  Calm'
  <2>1. Calm
    BY <1>1, <1>3 DEF IInv
  <2>2. account.id = loggedIn
    BY <1>1, <2>1 DEF Calm, InSession
  <2>3. Told'
    BY <1>1, <2>1, <2>2 DEF Calm, Told, kept
  <2>4. OneAtATime' /\ Asked' /\ InSession'
    BY <1>1, <2>1 DEF Calm, OneAtATime, Asked, Waits, InSession, AtLogin, AtRegister, AtTabs, Top, kept
  <2> QED
    BY <2>3, <2>4 DEF Calm
<1> QED
  BY <1>2, <1>3 DEF IInv

\* Something is pushed, and takes one or more of the delegates.
LEMMA PushedStep ==
    ASSUME Strong, NEW l \in 1..Top, stack[l].screen = "tabs",
           NEW x \in PushedScreen, Push(l, x),
           slot' \in Slots, slot'.loginDelegate = slot.loginDelegate,
           slot'.accountDelegate = slot.accountDelegate,
           \A d \in DOMAIN slot' : slot'[d] = slot[d] \/ slot'[d] = Pushed(l)
    PROVE  /\ Shaped(stack', slot') /\ Others(stack, stack', l)
           /\ stack'[l].opened = stack[l].opened
<1>1. /\ Shaped(stack', slot) /\ Others(stack, stack', l)
      /\ stack'[l].opened = stack[l].opened
      /\ Pushed(l) \in PlaceSet /\ Stands(Pushed(l), stack')
  BY PushStep DEF Strong
<1>2. Shaped(stack', slot')
  BY <1>1, SlotsSet
<1> QED
  BY <1>1, <1>2

\* A change of the account screen's own, seen from the top.
LEMMA TabsTop ==
    ASSUME Strong, NEW l \in 1..Top, stack[l].screen = "tabs", Others(stack, stack', l),
           stack'[l].opened = stack[l].opened, AtTabs \/ AtLogin \/ l = Top,
           AtTabs /\ slot.accountDelegate = Place(Top, 0) => slot'.accountDelegate = Place(Top, 0)
    PROVE  SameTop
<1>1. Top \in Nat /\ Top > 0 /\ Top = Len(stack)
  BY Tops
<1>2. Top' = Top /\ stack'[Top].screen = stack[Top].screen
  BY <1>1 DEF Others, Top
<1>3. l # Top => stack'[Top] = stack[Top]
  BY <1>1 DEF Others
<1> QED
  BY <1>1, <1>2, <1>3 DEF SameTop, AtTabs, AtRegister, AtLogin

LEMMA OpenStep ==
    ASSUME IInv, (\E row \in {"phone", "email"} : OpenChange(row)) \/ OpenDelete
    PROVE  IInv'
<1>1. /\ Strong /\ AtTabs /\ stack[Top].opened
      /\ UNCHANGED <<service, kept, account, pending, strays>>
      /\ const' \in [didAppearLogin : BOOLEAN, updateDelete : BOOLEAN, updatePhoneEmail : BOOLEAN]
      /\ const'.didAppearLogin = const.didAppearLogin
      /\ \E x \in PushedScreen : Push(Top, x)
      /\ \/ slot' = [slot EXCEPT !.showChecked = Pushed(Top), !.showAlertDelegate = Pushed(Top)]
         \/ slot' = [slot EXCEPT !.accountDelegateForConfirmation = Pushed(Top),
                                 !.showAlertDelegate = Pushed(Top)]
  <2>1. Strong /\ const \in [didAppearLogin : BOOLEAN, updateDelete : BOOLEAN, updatePhoneEmail : BOOLEAN]
    BY DEF IInv, Strong, Plain
  <2>2. CASE OpenDelete
    <3>1. Sheet(TRUE) \in PushedScreen
      BY DEF Sheet, PushedScreen
    <3> QED
      BY <2>1, <2>2, <3>1 DEF OpenDelete, OnAccount, AtTabs
  <2>3. ASSUME NEW row \in {"phone", "email"}, OpenChange(row)
        PROVE  <1>1!:
    <3>1. Change(row) \in PushedScreen
      BY DEF Change, PushedScreen
    <3> QED
      BY <2>1, <2>3, <3>1 DEF OpenChange, OnAccount, AtTabs
  <2> QED
    BY <2>2, <2>3
<1>2. PICK x \in PushedScreen : Push(Top, x)
  BY <1>1
<1>3. Top \in 1..Top /\ stack[Top].screen = "tabs" /\ slot \in Slots
  BY <1>1, Tops DEF AtTabs, Strong, Shaped, Slotted
<1>4. Pushed(Top) \in PlaceSet
  <2>1. Shaped(stack, slot)
    BY <1>1 DEF Strong
  <2>2. PICK l : l = Top
    OBVIOUS
  <2>3. l \in 1..Top /\ stack[l].screen = "tabs" /\ Push(l, x)
    BY <1>2, <1>3, <2>2
  <2>4. Pushed(l) \in PlaceSet
    BY <2>1, <2>3, PushStep
  <2> QED
    BY <2>2, <2>4
<1>5. /\ slot' \in Slots /\ slot'.loginDelegate = slot.loginDelegate
      /\ slot'.accountDelegate = slot.accountDelegate
      /\ \A d \in DOMAIN slot' : slot'[d] = slot[d] \/ slot'[d] = Pushed(Top)
  BY <1>1, <1>3, <1>4 DEF Slots
<1>6. Shaped(stack', slot') /\ SameTop
  <2>1. PICK l : l = Top
    OBVIOUS
  <2>2. l \in 1..Top /\ stack[l].screen = "tabs" /\ Push(l, x)
        /\ \A d \in DOMAIN slot' : slot'[d] = slot[d] \/ slot'[d] = Pushed(l)
    BY <1>2, <1>3, <1>5, <2>1
  <2>3. Shaped(stack', slot') /\ Others(stack, stack', l) /\ stack'[l].opened = stack[l].opened
    BY <1>1, <1>5, <2>2, PushedStep
  <2>4. SameTop
    BY <1>1, <1>5, <2>1, <2>2, <2>3, TabsTop
  <2> QED
    BY <2>3, <2>4
<1>7. Plain' /\ Addressed' /\ Ready(stack', const')
  BY <1>1, <1>6, ReadyStays DEF Strong, Plain, Addressed, service, kept
<1>8. ASSUME strays' = 0
      PROVE  Calm'
  <2>1. Calm
    BY <1>1, <1>8 DEF IInv
  <2>2. InSession'
    BY <1>1, <1>6, <2>1, SessionStays DEF Calm, service, kept
  <2>3. OneAtATime' /\ Told'
    BY <1>1, <2>1 DEF Calm, OneAtATime, Told, service, kept
  <2>4. AtTabs' /\ stack'[Top'].opened /\ Top' = Top
    BY <1>1, <1>6 DEF SameTop, AtTabs
  <2>5. Asked'
    <3> SUFFICES ASSUME NEW r \in pending' PROVE Waits(r)'
      BY DEF Asked
    <3>1. Waits(r)
      BY <1>1, <2>1 DEF Calm, Asked
    <3> QED
      BY <1>1, <2>4, <3>1 DEF Waits, AtTabs, AtLogin, AtRegister, service, kept
  <2> QED
    BY <2>2, <2>3, <2>5 DEF Calm
<1> QED
  BY <1>6, <1>7, <1>8 DEF IInv, Strong

\* What is on top of the account screen goes.
LEMMA PoppedStep ==
    ASSUME Strong, NEW l \in 1..Top, stack[l].screen = "tabs", NEW n \in Nat,
           n <= Len(stack[l].pushed), PopTo(l, n), AtTabs \/ AtLogin \/ l = Top
    PROVE  Shaped(stack', slot') /\ SameTop /\ Others(stack, stack', l)
<1>1. /\ Shaped(stack', slot') /\ Others(stack, stack', l)
      /\ stack'[l].opened = stack[l].opened
      /\ \A d \in DOMAIN slot :
            slot[d].level \in 1..Top /\ slot[d].depth = 0 => slot'[d] = slot[d]
  BY PopToStep DEF Strong
<1>2. Top \in 1..Top
  BY Tops
<1>3. slot \in Slots /\ slot' \in Slots
  BY <1>1 DEF Strong, Shaped, Slotted
<1>4. slot.accountDelegate = Place(Top, 0) => slot'.accountDelegate = Place(Top, 0)
  BY <1>1, <1>2, <1>3 DEF Slots, Place
<1> QED
  BY <1>1, <1>4, TabsTop

LEMMA BackStep ==
    ASSUME IInv, Back
    PROVE  IInv'
<1>1. /\ Strong /\ AtTabs /\ Depth(Top) # 0 /\ PopTo(Top, Depth(Top) - 1) /\ GoOn
      /\ UNCHANGED <<service, kept, const, account, pending>>
  BY DEF IInv, Back, OnAccount, AtTabs
<1>2. Top \in 1..Top /\ stack[Top].screen = "tabs" /\ Depth(Top) = Len(stack[Top].pushed)
  BY <1>1, Tops DEF AtTabs, Depth
<1>3. Len(stack[Top].pushed) \in Nat
  BY <1>1, <1>2, PushedLength, Tops DEF Strong, Shaped
<1>4. Shaped(stack', slot') /\ SameTop
  <2>1. PICK l, n : l = Top /\ n = Depth(Top) - 1
    OBVIOUS
  <2>2. l \in 1..Top /\ stack[l].screen = "tabs" /\ n \in Nat /\ n <= Len(stack[l].pushed)
        /\ PopTo(l, n) /\ l = Top
    BY <1>1, <1>2, <1>3, <2>1
  <2> QED
    BY <1>1, <2>2, PoppedStep
<1> QED
  BY <1>1, <1>4, Going

LEMMA SecondThingStep ==
    ASSUME Strong, AtTabs, Depth(Top) # 0, SecondThing, UNCHANGED slot
    PROVE  Shaped(stack', slot') /\ SameTop
<1>1. Top \in 1..Top /\ Top = Len(stack) /\ stack[Top].screen = "tabs" /\ Shaped(stack, slot)
      /\ Depth(Top) = Len(stack[Top].pushed)
  BY Tops DEF AtTabs, Depth, Strong
<1>2. /\ stack[Top] \in TabsScreen /\ stack[Top].pushed \in Seq(PushedScreen)
      /\ Len(stack[Top].pushed) \in Nat
  BY <1>1, PushedLength DEF Shaped
<1>3. PICK k : k = Depth(Top)
  OBVIOUS
<1>4. k \in 1..Len(stack[Top].pushed)
  BY <1>1, <1>2, <1>3
<1>5. PICK x : x = [stack[Top].pushed[k] EXCEPT !.which = TRUE]
  OBVIOUS
<1>6. stack[Top].pushed[k] \in PushedScreen
  BY <1>2, <1>4, ElementOfSeq
<1>7. x \in PushedScreen
  BY <1>5, <1>6 DEF PushedScreen
<1>8. PICK v : v = [stack[Top].pushed EXCEPT ![k] = x]
  OBVIOUS
<1>9. v \in Seq(PushedScreen) /\ Len(v) = Len(stack[Top].pushed)
  BY <1>2, <1>4, <1>7, <1>8, ExceptSeq
<1>10. stack' = [stack EXCEPT ![Top].pushed = v]
  BY <1>3, <1>5, <1>8 DEF SecondThing
<1>11. Shaped(stack', slot) /\ Others(stack, stack', Top) /\ stack'[Top].opened = stack[Top].opened
  <2>0. PICK l : l = Top
    OBVIOUS
  <2>1. /\ Shaped(stack, slot) /\ l \in 1..Len(stack) /\ stack[l].screen = "tabs"
        /\ v \in Seq(PushedScreen) /\ Len(stack[l].pushed) <= Len(v)
    BY <1>1, <1>2, <1>9, <2>0
  <2>2. LET t == [stack EXCEPT ![l].pushed = v]
        IN  Shaped(t, slot) /\ Others(stack, t, l) /\ t[l].opened = stack[l].opened
    BY <2>1, SetPushed
  <2> QED
    BY <1>10, <2>0, <2>2
<1>12. SameTop
  <2>1. PICK l : l = Top
    OBVIOUS
  <2>2. l \in 1..Top /\ stack[l].screen = "tabs" /\ Others(stack, stack', l)
        /\ stack'[l].opened = stack[l].opened /\ l = Top
    BY <1>1, <1>11, <2>1
  <2> QED
    BY <2>2, TabsTop
<1> QED
  BY <1>11, <1>12

\* The account screen, or what is pushed on it, asks for something.
LEMMA AccountAsks ==
    ASSUME IInv, AtTabs, stack[Top].opened, Shaped(stack', slot'), SameTop, GoOn,
           UNCHANGED <<service, kept, const, account>>,
           \/ UNCHANGED pending
           \/ \E kind \in {"sendCode", "reauth", "updatePhone", "updateEmail", "signIn"},
                 u \in User \cup {None, Nobody} : Send(kind, u)
    PROVE  IInv'
<1>1. CASE UNCHANGED pending
  BY <1>1, Going
<1>2. ASSUME NEW kind \in {"sendCode", "reauth", "updatePhone", "updateEmail", "signIn"},
             NEW u \in User \cup {None, Nobody}, Send(kind, u)
      PROVE  IInv'
  <2>1. kind \in Kind /\ kind \notin {"link", "delete"}
    BY DEF Kind
  <2>2. Waits(Ask(kind, u))'
    BY DEF Waits, Ask, SameTop, AtTabs
  <2> QED
    BY <1>2, <2>1, <2>2, Asking
<1> QED
  BY <1>1, <1>2

LEMMA Verified ==
    ASSUME Strong, NEW kind, NEW n, SendVerified(kind, n)
    PROVE  UNCHANGED pending \/ \E u \in User \cup {None, Nobody} : Send(kind, u)
<1>1. (IF sentTo = n THEN authUser ELSE None) \in User \cup {None, Nobody}
  BY DEF Strong, Plain
<1> QED
  BY <1>1 DEF SendVerified

LEMMA ChangeNextStep ==
    ASSUME IInv, ChangeNext
    PROVE  IInv'
<1>1. /\ Strong /\ AtTabs /\ stack[Top].opened /\ Depth(Top) # 0 /\ GoOn
      /\ UNCHANGED <<service, kept, const, slot, account>>
      /\ SecondThing \/ UNCHANGED stack
      /\ \/ UNCHANGED pending \/ SendVerified("reauth", authUser)
         \/ \E n \in User \cup {None, Nobody} : Send("sendCode", n)
  BY DEF IInv, ChangeNext, OnPushed, OnAccount, AtTabs
<1>2. Shaped(stack', slot') /\ SameTop
  <2>1. CASE SecondThing
    BY <1>1, <2>1, SecondThingStep
  <2>2. CASE UNCHANGED stack
    BY <1>1, <2>2 DEF Strong, SameTop, AtTabs, AtRegister, Top
  <2> QED
    BY <1>1, <2>1, <2>2
<1>3. PICK n : n = authUser
  OBVIOUS
<1>4. \/ UNCHANGED pending
      \/ \E u \in User \cup {None, Nobody} : Send("sendCode", u)
      \/ \E u \in User \cup {None, Nobody} : Send("reauth", u)
  BY <1>1, <1>3, Verified
<1> QED
  BY <1>1, <1>2, <1>4, AccountAsks

LEMMA NewNextStep ==
    ASSUME IInv, NewNext
    PROVE  IInv'
<1>1. /\ Strong /\ AtTabs /\ stack[Top].opened /\ Depth(Top) # 0 /\ GoOn
      /\ UNCHANGED <<service, kept, const, slot, account>>
      /\ SecondThing \/ UNCHANGED stack
      /\ Send("sendCode", Nobody) \/ SendVerified("updatePhone", Nobody)
  BY DEF IInv, NewNext, OnPushed, OnAccount, AtTabs
<1>2. Shaped(stack', slot') /\ SameTop
  <2>1. CASE SecondThing
    BY <1>1, <2>1, SecondThingStep
  <2>2. CASE UNCHANGED stack
    BY <1>1, <2>2 DEF Strong, SameTop, AtTabs, AtRegister, Top
  <2> QED
    BY <1>1, <2>1, <2>2
<1>3. \/ UNCHANGED pending
      \/ \E u \in User \cup {None, Nobody} : Send("sendCode", u)
      \/ \E u \in User \cup {None, Nobody} : Send("updatePhone", u)
  BY <1>1, Verified
<1> QED
  BY <1>1, <1>2, <1>3, AccountAsks

LEMMA SheetNextStep ==
    ASSUME IInv, SheetNext
    PROVE  IInv'
<1>1. /\ Strong /\ AtTabs /\ stack[Top].opened /\ GoOn
      /\ UNCHANGED <<service, kept, stack, const, slot, account>>
      /\ Send("updateEmail", authUser) \/ Send("signIn", account.email)
  BY DEF IInv, SheetNext, OnPushed, OnAccount, AtTabs
<1>2. Shaped(stack', slot') /\ SameTop
  BY <1>1 DEF Strong, SameTop, AtTabs, AtRegister, Top
<1>3. authUser \in User \cup {None, Nobody} /\ account.email \in User \cup {None, Nobody}
  BY <1>1 DEF Strong, Plain
<1> QED
  BY <1>1, <1>2, <1>3, AccountAsks

-----------------------------------------------------------------------------
(* The start of the application *)

LEMMA FreshLogin ==
    /\ Shaped(<<Login>>, WithLogin(NoDelegates, 1))
    /\ Len(<<Login>>) = 1 /\ <<Login>>[1].screen = "login" /\ <<Login>>[1].appearing
<1>1. Login \in Screen /\ Login.screen = "login" /\ Login.appearing
  BY DEF Login, Screen, LoginScreen
<1>2. <<Login>> \in Seq(Screen) /\ Len(<<Login>>) = 1 /\ <<Login>>[1] = Login
  BY <1>1
<1>3. PICK s : s = <<Login>>
  OBVIOUS
<1>4. s \in Seq(Screen) /\ Len(s) = 1 /\ s[1] = Login /\ s # << >>
  BY <1>2, <1>3
<1>5. Stack(s)
  BY <1>1, <1>4 DEF Stack
<1>6. PICK q : q = WithLogin(NoDelegates, 1)
  OBVIOUS
<1>7. /\ q \in Slots /\ q.loginDelegate = Place(1, 0) /\ q.accountDelegate = Gone
      /\ \A d \in DOMAIN q : q[d] = Gone \/ q[d] = Place(1, 0)
  <2>1. /\ NoDelegates \in Slots /\ NoDelegates.accountDelegate = Gone
        /\ \A d \in DOMAIN NoDelegates : NoDelegates[d] = Gone
    BY DEF NoDelegates, Slots, PlaceSet, Place, Gone
  <2>2. Place(1, 0) \in PlaceSet
    BY DEF Place, PlaceSet
  <2> QED
    BY <1>6, <2>1, <2>2 DEF WithLogin, Slots
<1>8. Stands(Place(1, 0), s)
  BY <1>1, <1>4 DEF Stands, Place
<1>9. Slotted(q, s)
  BY <1>7, <1>8 DEF Slotted, Out
<1>10. Homes(q, s)
  BY <1>1, <1>4, <1>7 DEF Homes, Place, Gone
<1> QED
  BY <1>1, <1>2, <1>3, <1>5, <1>6, <1>9, <1>10 DEF Shaped

LEMMA FreshTabs ==
    /\ Shaped(<<Tabs>>, NoDelegates)
    /\ Len(<<Tabs>>) = 1 /\ <<Tabs>>[1].screen = "tabs" /\ <<Tabs>>[1].opened = FALSE
<1>1. Tabs \in Screen /\ Tabs.screen = "tabs" /\ Tabs.opened = FALSE
  BY EmptySeq DEF Tabs, Screen, TabsScreen
<1>2. <<Tabs>> \in Seq(Screen) /\ Len(<<Tabs>>) = 1 /\ <<Tabs>>[1] = Tabs
  BY <1>1
<1>3. PICK s : s = <<Tabs>>
  OBVIOUS
<1>4. s \in Seq(Screen) /\ Len(s) = 1 /\ s[1] = Tabs /\ s # << >>
  BY <1>2, <1>3
<1>5. Stack(s)
  BY <1>1, <1>4 DEF Stack
<1>6. /\ NoDelegates \in Slots /\ NoDelegates.loginDelegate = Gone
      /\ NoDelegates.accountDelegate = Gone
      /\ \A d \in DOMAIN NoDelegates : NoDelegates[d] = Gone
  BY DEF NoDelegates, Slots, PlaceSet, Place, Gone
<1>7. Slotted(NoDelegates, s)
  BY <1>6 DEF Slotted, Out
<1>8. Homes(NoDelegates, s)
  BY <1>1, <1>4, <1>6 DEF Homes, Place, Gone
<1> QED
  BY <1>1, <1>2, <1>3, <1>5, <1>7, <1>8 DEF Shaped

LEMMA InitIInv ==
    ASSUME Init
    PROVE  IInv
<1>1. /\ Shaped(stack, slot) /\ Len(stack) = 1
      /\ stack[Len(stack)].screen = "login" /\ stack[Len(stack)].appearing
  BY FreshLogin DEF Init
<1>2. Plain /\ Addressed
  BY SessionAssumption DEF Init, Plain, Addressed
<1>3. Ready(stack, const)
  BY <1>1 DEF Ready
<1>4. OneAtATime /\ Asked
  BY DEF Init, OneAtATime, Asked
<1>5. Told
  BY SessionAssumption DEF Init, Told
<1>6. InSession
  BY <1>1 DEF Init, InSession, AtLogin, AtRegister, AtTabs, Top
<1> QED
  BY <1>1, <1>2, <1>3, <1>4, <1>5, <1>6 DEF IInv, Strong, Calm

LEMMA RelaunchStep ==
    ASSUME IInv, Relaunch
    PROVE  IInv'
<1>1. /\ Strong /\ GoOn /\ UNCHANGED <<status, profile, loggedIn, authUser, sentTo>>
      /\ const' = [didAppearLogin |-> FALSE, updateDelete |-> FALSE, updatePhoneEmail |-> FALSE]
      /\ account' = [id |-> loggedIn, email |-> None]
      /\ \/ /\ loggedIn # None /\ stack' = <<Tabs>> /\ slot' = NoDelegates
            /\ pending' = {Ask("load", loggedIn)}
         \/ /\ loggedIn = None /\ stack' = <<Login>> /\ slot' = WithLogin(NoDelegates, 1)
            /\ pending' = {}
  BY DEF IInv, Relaunch
<1>2. /\ Shaped(stack', slot') /\ Len(stack') = 1
      /\ \/ loggedIn # None /\ stack'[1].screen = "tabs" /\ stack'[1].opened = FALSE
         \/ loggedIn = None /\ stack'[1].screen = "login" /\ stack'[1].appearing
  BY <1>1, FreshLogin, FreshTabs
<1>3. Ready(stack', const')
  BY <1>2 DEF Ready
<1>4. \A r \in pending' : r \in Request /\ r.kind = "load" /\ r.result = "sent"
  BY <1>1 DEF Ask, Request, Kind, Strong, Plain
<1>5. Plain' /\ Addressed'
  <2>1. const' \in [didAppearLogin : BOOLEAN, updateDelete : BOOLEAN, updatePhoneEmail : BOOLEAN]
        /\ account' \in [id : User \cup {None}, email : User \cup {None}]
    BY <1>1 DEF Strong, Plain
  <2> QED
    BY <1>1, <1>4, <2>1, StraysGrow DEF Strong, Plain, Addressed
<1>6. ASSUME strays' = 0
      PROVE  Calm'
  <2>1. Calm /\ NobodyGone
    BY <1>1, <1>6, GoingOn
  <2>2. NobodyGone' /\ Loads(pending')
    BY <1>1, <1>4, <2>1 DEF NobodyGone, Loads
  <2>3. InSession'
    BY <1>1, <1>2, <2>1 DEF Calm, InSession, AtLogin, AtRegister, AtTabs, Top
  <2> QED
    BY <2>2, <2>3, OnlyLoads
<1> QED
  BY <1>2, <1>3, <1>5, <1>6 DEF IInv, Strong

-----------------------------------------------------------------------------
(* The service takes a request *)

\* It takes r, and t is what it makes of it.
LEMMA Taken ==
    ASSUME IInv, NEW r \in pending, r.kind # "load", r.result = "sent",
           NEW t \in Request, Answered(r, t), t.kind = r.kind, t.user \in User,
           status' \in [User -> {"free", "half", "live", "deleted"}],
           sentTo' \in User \cup {None, Nobody},
           account' \in [id : User \cup {None}, email : User \cup {None}],
           account'.id = account.id,
           UNCHANGED <<profile, loggedIn, authUser, stack, const, slot, strays>>,
           Calm /\ NobodyGone =>
              /\ Waits(t)' /\ Told'
              /\ loggedIn # None => status'[loggedIn] \in {"live", "deleted"}
    PROVE  IInv'
<1>1. Strong
  BY DEF IInv
<1>2. pending' = (pending \ {r}) \cup {t}
  BY DEF Answered
<1>3. Plain' /\ Addressed'
  BY <1>1, <1>2 DEF Strong, Plain, Addressed
<1>4. Shaped(stack', slot') /\ Ready(stack', const')
  BY <1>1 DEF Strong
<1>5. ASSUME strays' = 0
      PROVE  Calm'
  <2>1. Calm
    BY <1>5 DEF IInv
  <2>2. NobodyGone /\ Loads(pending \ {r})
    BY <2>1, NobodyIsGone
  <2>3. OneAtATime'
    BY <1>2, <2>2 DEF OneAtATime, Loads
  <2>4. Asked'
    <3> SUFFICES ASSUME NEW q \in pending' PROVE Waits(q)'
      BY DEF Asked
    <3>1. CASE q = t
      BY <2>1, <2>2, <3>1
    <3>2. CASE q.kind = "load"
      BY <3>2 DEF Waits
    <3> QED
      BY <1>2, <2>2, <3>1, <3>2 DEF Loads
  <2>5. InSession'
    BY <2>1, <2>2 DEF Calm, InSession, AtLogin, AtRegister, AtTabs, Top
  <2> QED
    BY <2>1, <2>2, <2>3, <2>4, <2>5 DEF Calm
<1> QED
  BY <1>3, <1>4, <1>5 DEF IInv, Strong

LEMMA ServeStep ==
    ASSUME IInv, NEW r \in pending, Serve(r)
    PROVE  IInv'
<1>1. /\ Strong /\ Plain /\ r \in Request /\ r.result = "sent"
      /\ UNCHANGED <<profile, loggedIn, authUser, stack, const, slot, strays>>
      /\ ServeCheck(r) \/ ServeLive(r) \/ ServeAccount(r)
  <2>1. Strong /\ Plain /\ r \in Request
    BY DEF IInv, Strong, Plain
  <2> QED
    BY <2>1 DEF Serve
<1>2. Calm => Waits(r)
  BY DEF Calm, Asked
<1>3. ASSUME UNCHANGED status, Calm, NobodyGone
      PROVE  Told' /\ (loggedIn # None => status'[loggedIn] \in {"live", "deleted"})
  BY <1>1, <1>3 DEF Told, NobodyGone, Calm, InSession
<1>4. CASE ServeCheck(r)
  <2>0. PICK u \in SignedIn(r.user) : SignInAs(r, u)
    BY <1>4 DEF ServeCheck
  <2>1. /\ status' = [status EXCEPT ![u] = IF @ = "free" THEN "half" ELSE @]
        /\ Answered(r, [r EXCEPT !.user = u, !.result = "ok"])
    BY <2>0 DEF SignInAs
  <2>2. r.kind = "check" /\ u \in User /\ status[u] # "deleted" /\ UNCHANGED <<sentTo, account>>
    BY <1>4, <2>1 DEF SignedIn, ServeCheck
  <2>3. PICK t : t = [r EXCEPT !.user = u, !.result = "ok"]
    OBVIOUS
  <2>4. t \in Request /\ t.kind = "check" /\ t.user = u /\ t.result = "ok" /\ Answered(r, t)
    BY <1>1, <2>1, <2>2, <2>3 DEF Request
  <2>5. /\ status' \in [User -> {"free", "half", "live", "deleted"}]
        /\ status'[u] \in {"half", "live"}
        /\ \A w \in User : status'[w] = "deleted" => status[w] = "deleted"
    BY <1>1, <2>1, <2>2 DEF Plain
  <2>6. ASSUME Calm, NobodyGone
        PROVE  /\ Waits(t)' /\ Told'
               /\ loggedIn # None => status'[loggedIn] \in {"live", "deleted"}
    <3>1. loggedIn = None
      BY <1>2, <2>2, <2>6 DEF Waits
    <3>2. Waits(t)'
      BY <1>1, <1>2, <2>2, <2>4, <2>5, <2>6 DEF Waits, AtLogin, AtRegister, Top
    <3>3. Told'
      BY <1>1, <2>5, <2>6 DEF Told, NobodyGone
    <3> QED
      BY <3>1, <3>2, <3>3
  <2>7. sentTo' \in User \cup {None, Nobody} /\ account' \in [id : User \cup {None}, email : User \cup {None}]
        /\ account'.id = account.id
    BY <1>1, <2>2 DEF Plain
  <2> QED
    BY <1>1, <2>2, <2>4, <2>5, <2>6, <2>7, Taken
<1>5. ASSUME r.user \in User, r.kind # "load", r.kind # "check",
             Answered(r, [r EXCEPT !.result = "ok"]),
             NEW s \in [User -> {"free", "half", "live", "deleted"}], status' = s,
             sentTo' \in User \cup {None, Nobody},
             account' \in [id : User \cup {None}, email : User \cup {None}],
             account'.id = account.id,
             r.kind \in {"login", "link"} => s[r.user] = "live",
             r.kind = "delete" => s[r.user] = "deleted",
             \A w \in User : s[w] # status[w] =>
                 \/ r.kind = "delete" /\ w = r.user
                 \/ r.kind = "link" /\ w = r.user /\ s[w] = "live"
      PROVE  IInv'
  <2>1. PICK t : t = [r EXCEPT !.result = "ok"]
    OBVIOUS
  <2>2. t \in Request /\ t.kind = r.kind /\ t.user = r.user /\ t.result = "ok" /\ Answered(r, t)
    BY <1>1, <1>5, <2>1 DEF Request
  <2>3. ASSUME Calm, NobodyGone
        PROVE  /\ Waits(t)' /\ Told'
               /\ loggedIn # None => status'[loggedIn] \in {"live", "deleted"}
    <3>1. Waits(t)'
      BY <1>1, <1>2, <1>5, <2>2, <2>3 DEF Waits, AtLogin, AtRegister, AtTabs, Top
    <3>2. Told'
      <4> SUFFICES ASSUME NEW u \in User, status'[u] = "deleted", u = loggedIn \/ u \in profile
                   PROVE  \E q \in pending' : q.kind = "delete" /\ q.result = "ok" /\ q.user = u
        BY <1>1 DEF Told
      <4>1. status[u] # "deleted"
        BY <2>3 DEF NobodyGone
      <4>2. r.kind = "delete" /\ u = r.user
        BY <1>5, <4>1
      <4>3. t \in pending'
        BY <2>2 DEF Answered
      <4> QED
        BY <2>2, <4>2, <4>3
    <3>3. loggedIn # None => status'[loggedIn] \in {"live", "deleted"}
      BY <1>1, <1>5, <2>3 DEF Calm, InSession, Plain
    <3> QED
      BY <3>1, <3>2, <3>3
  <2> QED
    BY <1>1, <1>5, <2>2, <2>3, Taken
<1>6. CASE ServeLive(r)
  <2>1. /\ r.kind \in {"login", "signIn", "reauth", "updatePhone", "updateEmail"}
        /\ r.user \in User /\ status[r.user] = "live" /\ UNCHANGED status
        /\ Answered(r, [r EXCEPT !.result = "ok"])
    BY <1>6 DEF ServeLive
  <2>2. sentTo' \in User \cup {None, Nobody} /\ account'.id = account.id
        /\ account' \in [id : User \cup {None}, email : User \cup {None}]
    BY <1>1, <1>6, <2>1 DEF Plain, ServeLive
  <2>3. PICK s : s = status
    OBVIOUS
  <2> QED
    BY <1>1, <1>5, <2>1, <2>2, <2>3 DEF Plain
<1>7. CASE ServeAccount(r)
  <2>1. /\ r.user \in User /\ Answered(r, [r EXCEPT !.result = "ok"]) /\ UNCHANGED <<sentTo, account>>
        /\ \/ r.kind = "link" /\ status' = [status EXCEPT ![r.user] = "live"]
           \/ r.kind = "delete" /\ status' = [status EXCEPT ![r.user] = "deleted"]
    BY <1>1, <1>7 DEF ServeAccount, Strong, Addressed
  <2>2. PICK s : s = status'
    OBVIOUS
  <2>3. /\ s \in [User -> {"free", "half", "live", "deleted"}]
        /\ s[r.user] = IF r.kind = "link" THEN "live" ELSE "deleted"
        /\ \A w \in User : w # r.user => s[w] = status[w]
    BY <1>1, <2>1, <2>2 DEF Plain
  <2>4. sentTo' \in User \cup {None, Nobody} /\ account' \in [id : User \cup {None}, email : User \cup {None}]
    BY <1>1, <2>1 DEF Plain
  <2> QED
    BY <1>5, <2>1, <2>2, <2>3, <2>4
<1> QED
  BY <1>1, <1>4, <1>6, <1>7

-----------------------------------------------------------------------------
(* What the completion handlers have in common *)

\* Where the screen of a delegate is.
LEMMA ScreenPlace ==
    ASSUME Strong, NEW p \in PlaceSet, p \in Out \/ Stands(p, stack)
    PROVE  /\ ScreenOf(p) \in {"login", "register"} =>
                 p.level \in 1..Top /\ p.depth = 0 /\ stack[p.level].screen = ScreenOf(p)
           /\ ScreenOf(p) \in {"change", "new", "sheet"} =>
                 p.level \in 1..Top /\ stack[p.level].screen = "tabs"
           /\ p.level # 0 => p.level \in 1..Top
<1>1. Top = Len(stack) /\ Shaped(stack, slot)
  BY Tops DEF Strong
<1>2. CASE p \in Out
  BY <1>2 DEF Gone, GoneSheet, GoneLogin, Out, Place, ScreenOf
<1>3. CASE Stands(p, stack)
  <2>1. p.level \in 1..Top /\ p.level \in Nat /\ p.level # 0 /\ p.depth \in Nat
        /\ stack[p.level].screen \in {"login", "register", "tabs"}
    BY <1>1, <1>3, StackTop, ScreenKinds DEF Stands, PlaceSet, Shaped
  <2>2. CASE p.depth = 0
    BY <2>1, <2>2 DEF ScreenOf, At
  <2>3. CASE p.depth # 0
    <3>1. stack[p.level].screen = "tabs" /\ p.depth <= Len(stack[p.level].pushed)
      BY <1>3, <2>1, <2>3 DEF Stands
    <3>2. stack[p.level].pushed \in Seq(PushedScreen) /\ Len(stack[p.level].pushed) \in Nat
      BY <1>1, <2>1, <3>1, PushedLength DEF Shaped
    <3>3. stack[p.level].pushed[p.depth] \in PushedScreen
      BY <2>1, <2>3, <3>1, <3>2, ElementOfSeq
    <3>4. ScreenOf(p) \in {"change", "new", "sheet"}
      BY <2>1, <2>3, <3>3 DEF ScreenOf, At, PushedScreen
    <3> QED
      BY <2>1, <3>1, <3>4
  <2> QED
    BY <2>2, <2>3
<1> QED
  BY <1>2, <1>3

LEMMA Delegates ==
    ASSUME Strong
    PROVE  \A p \in {slot.showChecked, slot.showAlertDelegate, slot.loginDelegate,
                     slot.accountDelegate, slot.accountDelegateForConfirmation} :
              p \in PlaceSet /\ (p \in Out \/ Stands(p, stack))
<1>1. slot \in Slots /\ \A d \in DOMAIN slot : slot[d] \in Out \/ Stands(slot[d], stack)
  BY DEF Strong, Shaped, Slotted
<1> QED
  BY <1>1 DEF Slots

\* A login or registration screen is enabled again, and shows some pane.
LEMMA Enabling ==
    ASSUME NEW s, NEW q, Shaped(s, q), NEW i \in 1..Len(s),
           s[i].screen \in {"login", "register"}, NEW p \in Panes(s[i].screen)
    PROVE  LET t == [[s EXCEPT ![i].busy = FALSE] EXCEPT ![i].pane = p]
           IN  /\ Shaped(t, q) /\ Others(s, t, i) /\ t[i].pane = p /\ ~ t[i].busy
               /\ s[i].screen = "login" => t[i].appearing = s[i].appearing
<1>1. PICK u : u = [s EXCEPT ![i].busy = FALSE]
  OBVIOUS
<1>2. /\ Shaped(u, q) /\ Others(s, u, i) /\ ~ u[i].busy
      /\ s[i].screen = "login" => u[i].appearing = s[i].appearing
  BY <1>1, SetBusy
<1>3. i \in 1..Len(u) /\ u[i].screen = s[i].screen
  BY <1>2 DEF Others
<1>4. LET t == [u EXCEPT ![i].pane = p]
      IN  /\ Shaped(t, q) /\ Others(u, t, i) /\ t[i].pane = p /\ t[i].busy = u[i].busy
          /\ u[i].screen = "login" => t[i].appearing = u[i].appearing
  BY <1>2, <1>3, SetPane
<1>5. PICK t : t = [u EXCEPT ![i].pane = p]
  OBVIOUS
<1>6. Others(s, t, i)
  BY <1>2, <1>4, <1>5 DEF Others
<1> QED
  BY <1>1, <1>2, <1>3, <1>4, <1>5, <1>6

LEMMA PaneOf ==
    ASSUME Strong, NEW l \in 1..Top, stack[l].screen \in {"login", "register"}
    PROVE  stack[l].pane \in Panes(stack[l].screen)
<1>1. stack[l] \in Screen
  BY Tops, StackTop DEF Strong, Shaped
<1>2. stack[l] \in LoginScreen \/ stack[l] \in RegisterScreen
  BY <1>1, ScreenKinds
<1> QED
  BY <1>2 DEF LoginScreen, RegisterScreen, Panes

\* One screen changes: whatever is on top remains what it is.
LEMMA ReadyOn ==
    ASSUME Strong, NEW l \in 1..Top, Others(stack, stack', l), UNCHANGED const,
           l = Top /\ stack[l].screen = "login" => stack'[l].appearing = stack[l].appearing
    PROVE  Ready(stack', const') /\ Top' = Top
<1>1. Top = Len(stack) /\ Top \in 1..Len(stack)
  BY Tops
<1>2. Len(stack') = Top /\ stack'[Top].screen = stack[Top].screen
  BY <1>1 DEF Others
<1>3. stack[Top].screen = "login" => stack'[Top].appearing = stack[Top].appearing
  BY <1>1 DEF Others
<1> QED
  BY <1>1, <1>2, <1>3 DEF Strong, Ready, Top

LEMMA ScreenTop ==
    ASSUME Strong, NEW l \in 1..Top, Others(stack, stack', l), UNCHANGED slot,
           stack[l].screen # "tabs",
           stack[l].screen = "login" => stack'[l].appearing = stack[l].appearing,
           l = Top /\ AtRegister => (stack'[l].pane = "info" <=> stack[l].pane = "info")
    PROVE  SameTop
<1>1. Top = Len(stack) /\ Top \in 1..Len(stack)
  BY Tops
<1>2. Top' = Top /\ stack'[Top].screen = stack[Top].screen
  BY <1>1 DEF Others, Top
<1>3. l # Top => stack'[Top] = stack[Top]
  BY <1>1 DEF Others
<1> QED
  BY <1>1, <1>2, <1>3 DEF SameTop, AtTabs, AtRegister

LEMMA PendingLeft ==
    ASSUME Strong, NEW kind \in Kind, NEW u \in User \cup {None, Nobody}, NEW r,
           pending' = pending \ {r} \/ pending' = (pending \ {r}) \cup {Ask(kind, u)},
           kind \in {"link", "delete"} => u \in User
    PROVE  pending' \in SUBSET Request /\ Addressed'
<1>1. Ask(kind, u) \in Request /\ Ask(kind, u).result = "sent"
      /\ Ask(kind, u).kind = kind /\ Ask(kind, u).user = u
  BY DEF Ask, Request
<1>2. Addressed'
  BY <1>1 DEF Strong, Addressed
<1> QED
  BY <1>1, <1>2 DEF Strong, Plain

\* An answer has come, and the screen on top stays.
LEMMA Answering ==
    ASSUME IInv, NEW r \in pending, r.kind # "load", r.kind = "delete" => r.result # "ok",
           \A q \in pending' : q.kind = "load" \/ (q \in pending /\ q # r),
           UNCHANGED <<status, profile, loggedIn, authUser, const, strays>>,
           Calm => SameTop /\ account'.id = account.id
    PROVE  strays' = 0 => Calm'
<1> SUFFICES ASSUME strays' = 0 PROVE Calm'
  OBVIOUS
<1>1. Calm
  BY DEF IInv
<1>2. NobodyGone /\ Loads(pending \ {r})
  BY <1>1, NobodyIsGone
<1>3. NobodyGone' /\ Loads(pending')
  BY <1>2 DEF NobodyGone, Loads
<1>4. InSession'
  BY <1>1, SessionStays DEF Calm
<1> QED
  BY <1>3, <1>4, OnlyLoads

\* The answer that comes as the service, or the network, has it.
Due(r, b) ==
    /\ ~ (stack[Top].screen = "login" /\ stack[Top].appearing)
    /\ \/ b /\ (r.result = "ok" \/ r.kind \in {"sendCode", "load"})
       \/ ~ b /\ r.result = "sent"

-----------------------------------------------------------------------------
(* sendCode, showAlert, showNext *)

LEMMA EnabledPane ==
    ASSUME Strong, NEW l \in 1..Top, stack[l].screen \in {"login", "register"}
    PROVE  Enabled(l)[l].pane = stack[l].pane
<1>1. Shaped(stack, slot) /\ l \in 1..Len(stack)
  BY Tops DEF Strong
<1>2. LET t == [stack EXCEPT ![l].busy = FALSE] IN t[l].pane = stack[l].pane
  BY <1>1, SetBusy
<1> QED
  BY <1>2 DEF Enabled

LEMMA EnabledShown ==
    ASSUME Strong, NEW l \in 1..Top, stack[l].screen \in {"login", "register"},
           NEW x \in Panes(stack[l].screen), stack' = [Enabled(l) EXCEPT ![l].pane = x]
    PROVE  /\ Shaped(stack', slot) /\ Others(stack, stack', l) /\ stack'[l].pane = x /\ ~ stack'[l].busy
           /\ stack[l].screen = "login" => stack'[l].appearing = stack[l].appearing
<1>1. Shaped(stack, slot) /\ l \in 1..Len(stack)
  BY Tops DEF Strong
<1>2. LET t == [[stack EXCEPT ![l].busy = FALSE] EXCEPT ![l].pane = x]
      IN  /\ Shaped(t, slot) /\ Others(stack, t, l) /\ t[l].pane = x /\ ~ t[l].busy
          /\ stack[l].screen = "login" => t[l].appearing = stack[l].appearing
  BY <1>1, Enabling
<1> QED
  BY <1>2 DEF Enabled

LEMMA OnlyEnabled ==
    ASSUME Strong, NEW l \in 1..Top, stack[l].screen \in {"login", "register"},
           stack' = Enabled(l)
    PROVE  /\ Shaped(stack', slot) /\ Others(stack, stack', l)
           /\ stack'[l].pane = stack[l].pane /\ ~ stack'[l].busy
           /\ stack[l].screen = "login" => stack'[l].appearing = stack[l].appearing
<1>1. Shaped(stack, slot) /\ l \in 1..Len(stack)
  BY Tops DEF Strong
<1>2. LET t == [stack EXCEPT ![l].busy = FALSE]
      IN  /\ Shaped(t, slot) /\ Others(stack, t, l) /\ t[l].pane = stack[l].pane /\ ~ t[l].busy
          /\ stack[l].screen = "login" => t[l].appearing = stack[l].appearing
  BY <1>1, SetBusy
<1> QED
  BY <1>2 DEF Enabled

\* Nothing of the screens changes.
LEMMA Unchanged ==
    ASSUME Strong, UNCHANGED <<stack, slot, const>>
    PROVE  Shaped(stack', slot') /\ Ready(stack', const') /\ SameTop
BY DEF Strong, SameTop, AtTabs, AtRegister, Top

LEMMA SendCodeReturnStep ==
    ASSUME Strong, NEW b, SendCodeReturn(b), UNCHANGED const
    PROVE  Shaped(stack', slot') /\ Ready(stack', const') /\ SameTop
<1>1. CASE ScreenOf(slot.showChecked) \notin {"login", "register"}
  BY <1>1, Unchanged DEF SendCodeReturn
<1>2. CASE ScreenOf(slot.showChecked) \in {"login", "register"}
  <2>1. PICK l : l = slot.showChecked.level
    OBVIOUS
  <2>2. l \in 1..Top /\ stack[l].screen \in {"login", "register"}
    BY <1>2, <2>1, Delegates, ScreenPlace
  <2>3. PICK x : x = IF b /\ stack[l].pane = "phone" THEN "code" ELSE stack[l].pane
    OBVIOUS
  <2>4. x \in Panes(stack[l].screen) /\ (x = "info" <=> stack[l].pane = "info")
    BY <2>2, <2>3, PaneOf DEF Panes
  <2>5. stack' = [Enabled(l) EXCEPT ![l].pane = x]
    BY <1>2, <2>1, <2>2, <2>3, EnabledPane DEF SendCodeReturn
  <2>6. /\ Shaped(stack', slot) /\ Others(stack, stack', l) /\ stack'[l].pane = x
        /\ stack[l].screen = "login" => stack'[l].appearing = stack[l].appearing
    BY <2>2, <2>4, <2>5, EnabledShown
  <2>7. UNCHANGED slot
    BY DEF SendCodeReturn
  <2> QED
    BY <2>2, <2>4, <2>6, <2>7, ReadyOn, ScreenTop
<1> QED
  BY <1>1, <1>2

LEMMA SendCodeDoneStep ==
    ASSUME IInv, NEW r \in pending, NEW b \in BOOLEAN, SendCodeDone(r, b)
    PROVE  IInv'
<1>1. /\ Strong /\ r \in Request /\ r.kind = "sendCode" /\ SendCodeReturn(b)
      /\ sentTo' = IF b THEN r.user ELSE sentTo
      /\ pending' = pending \ {r} /\ UNCHANGED account
      /\ UNCHANGED <<service, loggedIn, authUser, const, strays>>
  BY DEF IInv, Strong, Plain, SendCodeDone, SendCodeReturn
<1>2. Shaped(stack', slot') /\ Ready(stack', const') /\ SameTop
  BY <1>1, SendCodeReturnStep
<1>3. "load" \in Kind /\ r.user \in User \cup {None, Nobody}
  BY <1>1 DEF Kind, Request
<1>4. pending' \in SUBSET Request /\ Addressed'
  BY <1>1, <1>3, PendingLeft
<1>5. Plain'
  BY <1>1, <1>3, <1>4 DEF Strong, Plain, service
<1>6. strays' = 0 => Calm'
  BY <1>1, <1>2, Answering DEF service
<1> QED
  BY <1>2, <1>4, <1>5, <1>6 DEF IInv, Strong

LEMMA ShowAlertStep ==
    ASSUME Strong, ShowAlert, UNCHANGED const
    PROVE  Shaped(stack', slot') /\ Ready(stack', const') /\ SameTop
<1>1. CASE ScreenOf(slot.showAlertDelegate) # "register"
  BY <1>1, Unchanged DEF ShowAlert
<1>2. CASE ScreenOf(slot.showAlertDelegate) = "register"
  <2>1. PICK l : l = slot.showAlertDelegate.level
    OBVIOUS
  <2>2. l \in 1..Top /\ stack[l].screen = "register"
    BY <1>2, <2>1, Delegates, ScreenPlace
  <2>3. stack' = Enabled(l) /\ UNCHANGED slot
    BY <1>2, <2>1 DEF ShowAlert
  <2>4. Shaped(stack', slot) /\ Others(stack, stack', l) /\ stack'[l].pane = stack[l].pane
    BY <2>2, <2>3, OnlyEnabled
  <2> QED
    BY <2>2, <2>3, <2>4, ReadyOn, ScreenTop
<1> QED
  BY <1>1, <1>2

LEMMA ShowNextStep ==
    ASSUME Strong, NEW from \in {0, 1}, NEW u \in User \cup {None}, ShowNext(from, u),
           UNCHANGED const
    PROVE  /\ Shaped(stack', slot') /\ Ready(stack', const')
           /\ account' \in [id : User \cup {None}, email : User \cup {None}]
           /\ account'.id = account.id
           /\ AtTabs => SameTop
           /\ AtRegister /\ slot.showAlertDelegate = Place(Top, 0) =>
                 /\ AtRegister' /\ slot' = slot /\ Top' = Top
                 /\ from = 1 => stack'[Top].pane = "info"
<1>1. account \in [id : User \cup {None}, email : User \cup {None}]
  BY DEF Strong, Plain
<1>2. account' \in [id : User \cup {None}, email : User \cup {None}] /\ account'.id = account.id
  BY <1>1 DEF ShowNext
<1>3. PICK l, p : l = slot.showAlertDelegate.level /\ p = slot.showAlertDelegate
  OBVIOUS
<1>4. CASE ScreenOf(p) = "register"
  <2>1. l \in 1..Top /\ stack[l].screen = "register"
    BY <1>3, <1>4, Delegates, ScreenPlace
  <2>2. /\ UNCHANGED slot
        /\ stack' = IF from = 1 THEN [Enabled(l) EXCEPT ![l].pane = "info"] ELSE Enabled(l)
    BY <1>3, <1>4 DEF ShowNext, Gone, GoneSheet, GoneLogin, Out, Place, ScreenOf
  <2>3. /\ Shaped(stack', slot) /\ Others(stack, stack', l)
        /\ from = 1 => stack'[l].pane = "info"
    <3>1. "info" \in Panes(stack[l].screen)
      BY <2>1 DEF Panes
    <3> QED
      BY <2>1, <2>2, <3>1, EnabledShown, OnlyEnabled
  <2>4. l = Top
    BY <2>1, Tops DEF Strong, Shaped, Stack
  <2>5. Ready(stack', const') /\ Top' = Top
    BY <2>1, <2>3, ReadyOn
  <2>6. stack'[Top].screen = "register" /\ ~ AtTabs
    BY <2>1, <2>3, <2>4, Tops DEF Others, AtTabs
  <2> QED
    BY <1>2, <2>2, <2>3, <2>4, <2>5, <2>6 DEF AtRegister
<1>5. ~ (AtRegister /\ p = Place(Top, 0) /\ ScreenOf(p) # "register")
  BY Tops DEF AtRegister, Place, ScreenOf, At
<1>6. CASE ScreenOf(p) = "sheet"
  <2>1. l \in 1..Top /\ stack[l].screen = "tabs"
    BY <1>3, <1>6, Delegates, ScreenPlace
  <2>2. PopTo(l, 0)
    BY <1>3, <1>6 DEF ShowNext, ScreenOf, GoneSheet, Place
  <2>3. Len(stack[l].pushed) \in Nat
    BY <2>1, Tops, PushedLength DEF Strong, Shaped
  <2>4. Shaped(stack', slot') /\ Others(stack, stack', l)
    BY <2>1, <2>2, <2>3, PopToStep DEF Strong
  <2>5. AtTabs => SameTop
    BY <2>1, <2>2, <2>3, PoppedStep
  <2>6. Ready(stack', const')
    BY <2>1, <2>4, ReadyOn
  <2> QED
    BY <1>2, <1>3, <1>5, <1>6, <2>4, <2>5, <2>6
<1>7. CASE ScreenOf(p) \notin {"register", "sheet"}
  <2>1. UNCHANGED <<stack, slot>>
    BY <1>3, <1>7 DEF ShowNext
  <2> QED
    BY <1>2, <1>3, <1>5, <1>7, <2>1, Unchanged
<1> QED
  BY <1>4, <1>6, <1>7

-----------------------------------------------------------------------------
(* loginSucceeded, checkingReturn *)

LEMMA LoginSucceededStep ==
    ASSUME Strong, ~ (stack[Top].screen = "login" /\ stack[Top].appearing),
           NEW l \in 1..Top, stack[l].screen = "login", NEW u \in User,
           LoginSucceeded(l, u), UNCHANGED const
    PROVE  /\ Shaped(stack', slot') /\ Ready(stack', const')
           /\ account' \in [id : User \cup {None}, email : User \cup {None}] /\ account'.id = u
           /\ l # Top => SameTop
           /\ l = Top => AtTabs' /\ Top' = Top + 1 /\ ~ stack'[Top'].opened
<1>1. Top \in Nat /\ Top > 0 /\ Top = Len(stack) /\ l \in 1..Len(stack) /\ Shaped(stack, slot)
  BY Tops DEF Strong
<1>2. PICK s, t : s = [stack EXCEPT ![l].pane = "main"] /\ t = [s EXCEPT ![l].busy = FALSE]
  OBVIOUS
<1>3. /\ Shaped(s, slot) /\ Others(stack, s, l)
      /\ s[l].appearing = stack[l].appearing
  <2>1. /\ Shaped(stack, slot) /\ l \in 1..Len(stack)
        /\ "main" \in Panes(stack[l].screen) /\ stack[l].screen \in {"login", "register"}
    BY <1>1 DEF Panes
  <2>2. LET v == [stack EXCEPT ![l].pane = "main"]
        IN  /\ Shaped(v, slot) /\ Others(stack, v, l)
            /\ stack[l].screen = "login" => v[l].appearing = stack[l].appearing
    BY <2>1, SetPane
  <2> QED
    BY <1>2, <2>2
<1>4. /\ Shaped(t, slot) /\ Others(s, t, l)
      /\ t[l].appearing = s[l].appearing
  <2>1. s[l].screen = "login" /\ l \in 1..Len(s)
    BY <1>1, <1>3 DEF Others
  <2>2. LET v == [s EXCEPT ![l].busy = FALSE]
        IN  /\ Shaped(v, slot) /\ Others(s, v, l)
            /\ s[l].screen = "login" => v[l].appearing = s[l].appearing
    BY <1>3, <2>1, SetBusy
  <2> QED
    BY <1>2, <2>1, <2>2
<1>5. Others(stack, t, l) /\ t[l].appearing = stack[l].appearing
  BY <1>1, <1>3, <1>4 DEF Others
<1>6. /\ stack' = IF l = Top THEN Append(t, Tabs) ELSE t
      /\ account' = [account EXCEPT !.id = u] /\ UNCHANGED slot
  BY <1>2 DEF LoginSucceeded
<1>7. account' \in [id : User \cup {None}, email : User \cup {None}] /\ account'.id = u
  BY <1>6 DEF Strong, Plain
<1>8. CASE l # Top
  <2>1. stack' = t
    BY <1>6, <1>8
  <2>2. Ready(stack', const')
    BY <1>5, <2>1, ReadyOn
  <2>3. SameTop
    BY <1>5, <1>6, <1>8, <2>1, ScreenTop
  <2> QED
    BY <1>4, <1>6, <1>7, <1>8, <2>1, <2>2, <2>3
<1>9. CASE l = Top
  <2>1. Len(t) = Top /\ t[Len(t)].screen = "login"
    BY <1>1, <1>5, <1>9 DEF Others
  <2>2. Tabs \in Screen /\ Tabs.screen = "tabs" /\ Tabs.opened = FALSE
    BY EmptySeq DEF Tabs, Screen, TabsScreen
  <2>3. Shaped(stack', slot) /\ Len(stack') = Top + 1 /\ stack'[Len(stack')] = Tabs
    <3>1. LET v == Append(t, Tabs)
          IN  Shaped(v, slot) /\ Len(v) = Len(t) + 1 /\ v[Len(v)] = Tabs
      BY <1>4, <2>1, <2>2, Added
    <3> QED
      BY <1>6, <1>9, <2>1, <3>1
  <2>4. const.didAppearLogin
    BY <1>1, <1>9 DEF Strong, Ready
  <2>5. Ready(stack', const')
    BY <2>2, <2>3, <2>4 DEF Ready
  <2> QED
    BY <1>6, <1>7, <1>9, <2>2, <2>3, <2>5 DEF AtTabs, Top
<1> QED
  BY <1>8, <1>9

LEMMA LoginCheckedStep ==
    ASSUME Strong, ~ (stack[Top].screen = "login" /\ stack[Top].appearing),
           NEW r \in pending, NEW b \in BOOLEAN, NEW u \in User \cup {None},
           LoginChecked(r, b, u), UNCHANGED const
    PROVE  /\ Shaped(stack', slot') /\ Ready(stack', const')
           /\ account' \in [id : User \cup {None}, email : User \cup {None}]
           /\ pending' = pending \ {r} \/ (pending' = (pending \ {r}) \cup {Ask("load", u)})
           /\ AtTabs => SameTop /\ account'.id \in {account.id, u}
           /\ AtLogin /\ slot.showChecked = Place(Top, 0) =>
                 \/ /\ b /\ u # None /\ AtTabs' /\ Top' = Top + 1
                    /\ ~ stack'[Top'].opened /\ account'.id = u
                 \/ /\ ~ b \/ u = None
                    /\ SameTop /\ account' = account
<1>1. ScreenOf(slot.showChecked) = "login"
  BY DEF LoginChecked
<1>2. PICK l : l = slot.showChecked.level
  OBVIOUS
<1>3. l \in 1..Top /\ stack[l].screen = "login"
  BY <1>1, <1>2, Delegates, ScreenPlace
<1>4. AtTabs => l # Top
  BY <1>3 DEF AtTabs
<1>5. slot.showChecked = Place(Top, 0) => l = Top
  BY <1>2 DEF Place
<1>6. CASE b /\ u # None /\ LoginSucceeded(l, u)
           /\ pending' = (pending \ {r}) \cup {Ask("load", u)}
  <2>1. u \in User
    BY <1>6
  <2>2. /\ Shaped(stack', slot') /\ Ready(stack', const')
        /\ account' \in [id : User \cup {None}, email : User \cup {None}] /\ account'.id = u
        /\ l # Top => SameTop
        /\ l = Top => AtTabs' /\ Top' = Top + 1 /\ ~ stack'[Top'].opened
    BY <1>3, <1>6, <2>1, LoginSucceededStep
  <2> QED
    BY <1>4, <1>5, <1>6, <2>2
<1>7. CASE /\ ~ b \/ u = None
           /\ stack' = Enabled(l) /\ pending' = pending \ {r} /\ UNCHANGED <<slot, account>>
  <2>1. /\ Shaped(stack', slot) /\ Others(stack, stack', l)
        /\ stack[l].screen = "login" => stack'[l].appearing = stack[l].appearing
    BY <1>3, <1>7, OnlyEnabled
  <2>2. Ready(stack', const') /\ SameTop
    BY <1>3, <1>7, <2>1, ReadyOn, ScreenTop DEF AtRegister
  <2>3. account' \in [id : User \cup {None}, email : User \cup {None}]
    BY <1>7 DEF Strong, Plain
  <2> QED
    BY <1>7, <2>1, <2>2, <2>3
<1> QED
  BY <1>2, <1>6, <1>7 DEF LoginChecked

LEMMA RegisterCheckedStep ==
    ASSUME Strong, NEW r \in pending, NEW b \in BOOLEAN, NEW u \in User \cup {None},
           RegisterChecked(r, b, u), UNCHANGED const
    PROVE  /\ Shaped(stack', slot') /\ Ready(stack', const')
           /\ UNCHANGED account /\ pending' = pending \ {r}
           /\ AtRegister
           /\ \/ u # None /\ stack'[Len(stack')].screen = "login" /\ stack'[Len(stack')].appearing
              \/ u = None /\ (stack[Top].pane # "info" => SameTop)
<1>1. ScreenOf(slot.showChecked) = "register" /\ UNCHANGED account /\ pending' = pending \ {r}
  BY DEF RegisterChecked
<1>2. PICK l : l = slot.showChecked.level
  OBVIOUS
<1>3. l \in 1..Top /\ stack[l].screen = "register"
  BY <1>1, <1>2, Delegates, ScreenPlace
<1>4. l = Top /\ AtRegister
  BY <1>3, Tops DEF Strong, Shaped, Stack, AtRegister
<1>5. CASE u # None /\ EndRegistration
  BY <1>1, <1>4, <1>5, EndRegistrationStep, Appears DEF Strong, AtRegister
<1>6. CASE /\ u = None /\ UNCHANGED slot
           /\ stack' = [Enabled(l) EXCEPT ![l].pane = IF b THEN "email" ELSE @]
  <2>1. PICK x : x = IF b THEN "email" ELSE stack[l].pane
    OBVIOUS
  <2>2. x \in Panes(stack[l].screen) /\ (x = "info" => stack[l].pane = "info")
    BY <1>3, <2>1, PaneOf DEF Panes
  <2>3. stack' = [Enabled(l) EXCEPT ![l].pane = x]
    BY <1>3, <1>6, <2>1, EnabledPane
  <2>4. Shaped(stack', slot) /\ Others(stack, stack', l) /\ stack'[l].pane = x
    BY <1>3, <2>2, <2>3, EnabledShown
  <2>5. Ready(stack', const')
    BY <1>3, <2>4, ReadyOn
  <2>6. stack[Top].pane # "info" => SameTop
    BY <1>3, <1>4, <1>6, <2>2, <2>4, ScreenTop
  <2> QED
    BY <1>1, <1>4, <1>6, <2>4, <2>5, <2>6
<1> QED
  BY <1>2, <1>5, <1>6 DEF RegisterChecked

LEMMA PushedCheckedStep ==
    ASSUME Strong, NEW r \in pending, NEW b \in BOOLEAN, NEW u, PushedChecked(r, b, u),
           UNCHANGED const
    PROVE  /\ Shaped(stack', slot') /\ Ready(stack', const')
           /\ UNCHANGED account /\ pending' = pending \ {r}
           /\ AtTabs => SameTop
           /\ ScreenOf(slot.showChecked) \notin {"login", "register"}
<1>1. /\ ScreenOf(slot.showChecked) \in {"change", "new", "gone"}
      /\ UNCHANGED account /\ pending' = pending \ {r}
  BY DEF PushedChecked
<1>2. PICK l : l = slot.showChecked.level
  OBVIOUS
<1>3. ScreenOf(slot.showChecked) # "gone" => l \in 1..Top /\ stack[l].screen = "tabs"
  BY <1>1, <1>2, Delegates, ScreenPlace
<1>4. slot \in Slots
  BY DEF Strong, Shaped, Slotted
<1>5. CASE UNCHANGED <<stack, slot>>
  BY <1>1, <1>5, Unchanged
<1>6. CASE ScreenOf(slot.showChecked) = "new" /\ PopTo(l, 0)
  <2>1. l \in 1..Top /\ stack[l].screen = "tabs"
    BY <1>3, <1>6
  <2>2. Len(stack[l].pushed) \in Nat
    BY <2>1, Tops, PushedLength DEF Strong, Shaped
  <2>3. Shaped(stack', slot') /\ Others(stack, stack', l)
    BY <1>6, <2>1, <2>2, PopToStep DEF Strong
  <2>4. AtTabs => SameTop
    BY <1>6, <2>1, <2>2, PoppedStep
  <2>5. Ready(stack', const')
    BY <2>1, <2>3, ReadyOn
  <2> QED
    BY <1>1, <2>3, <2>4, <2>5
<1>7. ASSUME ScreenOf(slot.showChecked) = "change", NEW x \in PushedScreen, Push(l, x),
             \/ slot' = [slot EXCEPT !.accountDelegateForConfirmation = Pushed(l),
                                     !.showAlertDelegate = Pushed(l)]
             \/ slot' = [slot EXCEPT !.showChecked = Pushed(l), !.showAlertDelegate = Pushed(l)]
      PROVE  Shaped(stack', slot') /\ Ready(stack', const') /\ (AtTabs => SameTop)
  <2>1. l \in 1..Top /\ stack[l].screen = "tabs"
    BY <1>3, <1>7
  <2>2. Pushed(l) \in PlaceSet
    BY <1>7, <2>1, PushStep DEF Strong
  <2>3. /\ slot' \in Slots /\ slot'.loginDelegate = slot.loginDelegate
        /\ slot'.accountDelegate = slot.accountDelegate
        /\ \A d \in DOMAIN slot' : slot'[d] = slot[d] \/ slot'[d] = Pushed(l)
    BY <1>4, <1>7, <2>2 DEF Slots
  <2>4. Shaped(stack', slot') /\ Others(stack, stack', l) /\ stack'[l].opened = stack[l].opened
    BY <1>7, <2>1, <2>3, PushedStep
  <2>5. AtTabs => SameTop
    BY <2>1, <2>3, <2>4, TabsTop
  <2>6. Ready(stack', const')
    BY <2>1, <2>4, ReadyOn
  <2> QED
    BY <2>4, <2>5, <2>6
<1>8. PICK w : w = const.updateDelete
  OBVIOUS
<1>9. Sheet(w) \in PushedScreen /\ New \in PushedScreen
  BY <1>8 DEF Strong, Plain, Sheet, New, PushedScreen
<1>10. \/ UNCHANGED <<stack, slot>>
       \/ ScreenOf(slot.showChecked) = "new" /\ PopTo(l, 0)
       \/ /\ ScreenOf(slot.showChecked) = "change" /\ Push(l, Sheet(w))
          /\ slot' = [slot EXCEPT !.accountDelegateForConfirmation = Pushed(l),
                                  !.showAlertDelegate = Pushed(l)]
       \/ /\ ScreenOf(slot.showChecked) = "change" /\ Push(l, New)
          /\ slot' = [slot EXCEPT !.showChecked = Pushed(l), !.showAlertDelegate = Pushed(l)]
  BY <1>2, <1>8 DEF PushedChecked
<1> QED
  BY <1>1, <1>5, <1>6, <1>7, <1>9, <1>10

LEMMA GoneLoginCheckedStep ==
    ASSUME Strong, NEW r \in pending, NEW b \in BOOLEAN, NEW u \in User \cup {None},
           GoneLoginChecked(r, b, u), UNCHANGED const
    PROVE  /\ Shaped(stack', slot') /\ Ready(stack', const')
           /\ account' \in [id : User \cup {None}, email : User \cup {None}] /\ account'.id = u
           /\ pending' = (pending \ {r}) \cup {Ask("load", u)}
           /\ AtTabs => SameTop
           /\ ScreenOf(slot.showChecked) \notin {"login", "register"}
<1>1. /\ UNCHANGED <<stack, slot>> /\ slot.showChecked = GoneLogin
      /\ account' = [account EXCEPT !.id = u]
      /\ pending' = (pending \ {r}) \cup {Ask("load", u)}
  BY DEF GoneLoginChecked
<1>2. account' \in [id : User \cup {None}, email : User \cup {None}] /\ account'.id = u
  BY <1>1 DEF Strong, Plain
<1>3. Shaped(stack', slot') /\ Ready(stack', const') /\ SameTop
  BY <1>1, Unchanged
<1> QED
  BY <1>1, <1>2, <1>3 DEF ScreenOf, GoneLogin, Place

-----------------------------------------------------------------------------
(* The answers that log in, and those that verify *)

LEMMA CheckDoneStep ==
    ASSUME IInv, NEW r \in pending, NEW b \in BOOLEAN, Due(r, b), CheckDone(r, b)
    PROVE  IInv'
<1>1. /\ Strong /\ r \in Request /\ r.kind = "check"
      /\ authUser' = IF b THEN r.user ELSE authUser
      /\ loggedIn' = IF b /\ status[r.user] # "half" THEN r.user ELSE loggedIn
      /\ CheckingReturn(r, b, loggedIn')
      /\ UNCHANGED <<service, sentTo, const, strays>>
  BY DEF IInv, Strong, Plain, CheckDone
<1>2. b => r.result = "ok" /\ r.user \in User
  BY <1>1 DEF Due, Strong, Addressed
<1>3. ~ (stack[Top].screen = "login" /\ stack[Top].appearing)
  BY DEF Due
<1>4. loggedIn' \in User \cup {None} /\ authUser' \in User \cup {None}
  BY <1>1, <1>2 DEF Strong, Plain
<1>5. PICK u : u = loggedIn'
  OBVIOUS
<1>6. u \in User \cup {None} /\ u \in User \cup {None, Nobody}
  BY <1>4, <1>5
<1>7. \/ LoginChecked(r, b, u) \/ GoneLoginChecked(r, b, u)
      \/ RegisterChecked(r, b, u) \/ PushedChecked(r, b, u)
  BY <1>1, <1>5 DEF CheckingReturn
<1>8. /\ Shaped(stack', slot') /\ Ready(stack', const')
      /\ account' \in [id : User \cup {None}, email : User \cup {None}]
      /\ pending' = pending \ {r} \/ (pending' = (pending \ {r}) \cup {Ask("load", u)})
  <2>1. account \in [id : User \cup {None}, email : User \cup {None}]
    BY <1>1 DEF Strong, Plain
  <2> QED
    BY <1>1, <1>3, <1>6, <1>7, <2>1, LoginCheckedStep, GoneLoginCheckedStep, RegisterCheckedStep,
       PushedCheckedStep
<1>9. pending' \in SUBSET Request /\ Addressed'
  <2>1. "load" \in Kind /\ "load" \notin {"link", "delete"}
    BY DEF Kind
  <2> QED
    BY <1>1, <1>6, <1>8, <2>1, PendingLeft
<1>10. Plain'
  BY <1>1, <1>4, <1>8, <1>9 DEF Strong, Plain, service
<1>11. ASSUME strays' = 0
       PROVE  Calm'
  <2>1. Calm
    BY <1>1, <1>11 DEF IInv
  <2>2. NobodyGone /\ Loads(pending \ {r}) /\ Waits(r)
    BY <1>1, <2>1, NobodyIsGone DEF Calm, Asked
  <2>3. /\ AtLogin \/ AtRegister
        /\ slot.showChecked = Place(Top, 0) /\ loggedIn = None
        /\ b => status[r.user] \in {"half", "live"}
    BY <1>1, <1>2, <2>2 DEF Waits
  <2>4. Loads(pending')
    BY <1>8, <2>2 DEF Loads, Ask
  <2>5. NobodyGone'
    BY <1>1, <1>2, <2>2, <2>3 DEF NobodyGone, service
  <2>6. u # None => b /\ u = r.user /\ authUser' = u /\ status[u] = "live"
    BY <1>1, <1>5, <2>3
  <2>7. ScreenOf(slot.showChecked) = stack[Top].screen
    BY <1>1, <2>3, Tops DEF ScreenOf, At, Place
  <2>8. ~ PushedChecked(r, b, u) /\ ~ GoneLoginChecked(r, b, u)
    BY <1>1, <1>6, <2>3, <2>7, PushedCheckedStep, GoneLoginCheckedStep DEF AtLogin, AtRegister
  <2>9. CASE LoginChecked(r, b, u)
    <3>1. AtLogin
      BY <2>3, <2>7, <2>9 DEF LoginChecked, AtRegister
    <3>2. \/ /\ b /\ u # None /\ AtTabs' /\ Top' = Top + 1
             /\ ~ stack'[Top'].opened /\ account'.id = u
          \/ /\ ~ b \/ u = None
             /\ SameTop /\ account' = account
      BY <1>1, <1>3, <1>6, <2>3, <2>9, <3>1, LoginCheckedStep
    <3>3. CASE /\ b /\ u # None /\ AtTabs' /\ Top' = Top + 1
               /\ ~ stack'[Top'].opened /\ account'.id = u
      <4>1. Top' > 1
        BY <1>1, <3>3, Tops
      <4>2. InSession'
        BY <1>1, <1>5, <2>6, <3>3, <4>1 DEF InSession, AtTabs, AtLogin, AtRegister, service
      <4> QED
        BY <2>4, <2>5, <4>2, OnlyLoads
    <3>4. CASE SameTop /\ u = None
      <4>1. InSession'
        BY <1>5, <3>1, <3>4 DEF InSession, SameTop, AtTabs, AtLogin, AtRegister
      <4> QED
        BY <2>4, <2>5, <4>1, OnlyLoads
    <3> QED
      BY <2>6, <3>2, <3>3, <3>4
  <2>10. CASE RegisterChecked(r, b, u)
    <3>1. /\ AtRegister
          /\ \/ u # None /\ stack'[Len(stack')].screen = "login" /\ stack'[Len(stack')].appearing
             \/ u = None /\ (stack[Top].pane # "info" => SameTop)
      BY <1>1, <1>6, <2>10, RegisterCheckedStep
    <3>2. CASE u # None /\ stack'[Len(stack')].screen = "login" /\ stack'[Len(stack')].appearing
      <4>1. (loggedIn # None => authUser = loggedIn /\ status[loggedIn] \in {"live", "deleted"})'
        BY <1>1, <1>5, <2>6, <3>2 DEF service
      <4> QED
        BY <2>4, <2>5, <3>2, <4>1, Appears, OnlyLoads
    <3>3. CASE u = None /\ (stack[Top].pane # "info" => SameTop)
      <4>1. stack[Top].pane # "info" /\ slot.showAlertDelegate = Place(Top, 0)
        BY <2>1, <2>3, <3>1 DEF Calm, InSession
      <4>2. InSession'
        BY <1>5, <3>1, <3>3, <4>1 DEF InSession, SameTop, AtTabs, AtLogin, AtRegister
      <4> QED
        BY <2>4, <2>5, <4>2, OnlyLoads
    <3> QED
      BY <3>1, <3>2, <3>3
  <2> QED
    BY <1>7, <2>8, <2>9, <2>10
<1> QED
  BY <1>8, <1>9, <1>10, <1>11 DEF IInv, Strong

LEMMA LoginDoneStep ==
    ASSUME IInv, NEW r \in pending, NEW b \in BOOLEAN, Due(r, b), LoginDone(r, b)
    PROVE  IInv'
<1>1. /\ Strong /\ r.kind = "login" /\ UNCHANGED <<service, sentTo, const, strays>>
      /\ ~ (stack[Top].screen = "login" /\ stack[Top].appearing)
  BY DEF IInv, LoginDone, Due
<1>2. PICK l, u : l = slot.loginDelegate.level /\ u = r.user
  OBVIOUS
<1>3. l # 0 => l \in 1..Top /\ stack[l].screen = "login"
  <2>1. /\ slot.loginDelegate \in PlaceSet
        /\ slot.loginDelegate \in Out \/ Stands(slot.loginDelegate, stack)
    BY <1>1, Delegates
  <2>2. l # 0 => l \in 1..Top
    BY <1>1, <1>2, <2>1, ScreenPlace
  <2> QED
    BY <1>1, <1>2, <2>2 DEF Strong, Shaped, Homes
<1>4. AtLogin => l = Top
  <2>1. Top \in 1..Len(stack) /\ Homes(slot, stack)
    BY <1>1, Tops DEF Strong, Shaped
  <2>2. AtLogin => slot.loginDelegate = Place(Top, 0)
    BY <2>1 DEF Homes, AtLogin
  <2>3. Place(Top, 0).level = Top
    BY DEF Place
  <2> QED
    BY <1>2, <2>2, <2>3
<1>5. Top > 0 /\ Top \in Nat
  BY <1>1, Tops
<1>6. "load" \in Kind /\ "load" \notin {"link", "delete"}
  BY DEF Kind
<1>7. ASSUME strays' = 0
      PROVE  /\ Calm /\ NobodyGone /\ Loads(pending \ {r})
             /\ AtLogin /\ loggedIn = None
             /\ r.result = "ok" => status[r.user] = "live"
  <2>1. Calm
    BY <1>1, <1>7 DEF IInv
  <2>2. NobodyGone /\ Loads(pending \ {r}) /\ Waits(r)
    BY <1>1, <2>1, NobodyIsGone DEF Calm, Asked
  <2> QED
    BY <1>1, <2>1, <2>2 DEF Waits
<1>8. CASE b
  <2>1. /\ loggedIn' = u /\ authUser' = u
        /\ IF l # 0 THEN LoginSucceeded(l, u)
           ELSE account' = [account EXCEPT !.id = u] /\ UNCHANGED <<stack, slot>>
        /\ pending' = (pending \ {r}) \cup {Ask("load", u)}
    BY <1>2, <1>8 DEF LoginDone
  <2>2. r.result = "ok" /\ u \in User /\ u \in User \cup {None, Nobody}
    BY <1>1, <1>2, <1>8 DEF Due, Strong, Addressed
  <2>3. /\ Shaped(stack', slot') /\ Ready(stack', const')
        /\ account' \in [id : User \cup {None}, email : User \cup {None}] /\ account'.id = u
        /\ l = Top => AtTabs' /\ Top' = Top + 1 /\ ~ stack'[Top'].opened
    <3>1. CASE l # 0
      <4>1. LoginSucceeded(l, u) /\ l \in 1..Top /\ stack[l].screen = "login" /\ UNCHANGED const
        BY <1>1, <1>3, <2>1, <3>1
      <4> QED
        BY <1>1, <2>2, <4>1, LoginSucceededStep
    <3>2. CASE l = 0
      <4>1. account' = [account EXCEPT !.id = u] /\ UNCHANGED <<stack, slot>> /\ l # Top
        BY <1>5, <2>1, <3>2
      <4> QED
        BY <1>1, <2>2, <4>1, Unchanged DEF Strong, Plain
    <3> QED
      BY <3>1, <3>2
  <2>4. pending' \in SUBSET Request /\ Addressed'
    BY <1>1, <1>6, <2>1, <2>2, PendingLeft
  <2>5. Plain'
    BY <1>1, <2>1, <2>2, <2>3, <2>4 DEF Strong, Plain, service
  <2>6. ASSUME strays' = 0
        PROVE  Calm'
    <3>1. AtTabs' /\ Top' = Top + 1 /\ ~ stack'[Top'].opened /\ status[u] = "live"
      BY <1>2, <1>4, <1>7, <2>2, <2>3, <2>6
    <3>2. InSession'
      <4>1. loggedIn' = u /\ authUser' = u /\ u # None /\ status'[u] = "live" /\ account'.id = u
        BY <1>1, <2>1, <2>2, <2>3, <3>1, SessionAssumption DEF service
      <4> QED
        BY <1>5, <3>1, <4>1 DEF InSession, AtTabs, AtLogin, AtRegister
    <3>3. NobodyGone' /\ Loads(pending')
      BY <1>1, <1>7, <2>1, <2>6, <3>1 DEF NobodyGone, Loads, Ask, service
    <3> QED
      BY <3>2, <3>3, OnlyLoads
  <2> QED
    BY <2>3, <2>4, <2>5, <2>6 DEF IInv, Strong
<1>9. CASE ~ b
  <2>1. /\ stack' = IF l # 0 THEN Enabled(l) ELSE stack
        /\ pending' = pending \ {r} /\ UNCHANGED <<loggedIn, authUser, slot, account>>
    BY <1>2, <1>9 DEF LoginDone
  <2>2. Shaped(stack', slot') /\ Ready(stack', const') /\ (AtLogin => SameTop)
    <3>1. CASE l # 0
      <4>1. /\ Shaped(stack', slot) /\ Others(stack, stack', l)
            /\ stack[l].screen = "login" => stack'[l].appearing = stack[l].appearing
        BY <1>1, <1>3, <2>1, <3>1, OnlyEnabled
      <4> QED
        BY <1>1, <1>3, <2>1, <3>1, <4>1, ReadyOn, ScreenTop DEF AtLogin, AtRegister
    <3>2. CASE l = 0
      BY <1>1, <2>1, <3>2, Unchanged
    <3> QED
      BY <3>1, <3>2
  <2>3. PICK w : w = None
    OBVIOUS
  <2>4. pending' \in SUBSET Request /\ Addressed'
    <3>1. w \in User \cup {None, Nobody}
      BY <2>3
    <3> QED
      BY <1>1, <1>6, <2>1, <3>1, PendingLeft
  <2>5. Plain'
    BY <1>1, <2>1, <2>4 DEF Strong, Plain, service
  <2>6. strays' = 0 => Calm'
    <3> SUFFICES ASSUME strays' = 0 PROVE Calm'
      OBVIOUS
    <3>1. Calm => SameTop /\ account'.id = account.id
      BY <1>7, <2>1, <2>2
    <3> QED
      BY <1>1, <2>1, <3>1, Answering DEF service
  <2> QED
    BY <2>2, <2>4, <2>5, <2>6 DEF IInv, Strong
<1> QED
  BY <1>8, <1>9

LEMMA LinkDoneStep ==
    ASSUME IInv, NEW r \in pending, NEW b \in BOOLEAN, Due(r, b), LinkDone(r, b)
    PROVE  IInv'
<1>1. /\ Strong /\ r.kind = "link" /\ UNCHANGED <<service, authUser, sentTo, const, strays>>
      /\ pending' = pending \ {r}
  BY DEF IInv, LinkDone
<1>2. PICK w : w = None
  OBVIOUS
<1>3. w \in User \cup {None} /\ w \in User \cup {None, Nobody}
  BY <1>2
<1>4. pending' \in SUBSET Request /\ Addressed'
  <2>1. "load" \in Kind /\ "load" \notin {"link", "delete"}
    BY DEF Kind
  <2> QED
    BY <1>1, <1>3, <2>1, PendingLeft
<1>5. CASE b
  <2>1. ShowNext(1, w) /\ loggedIn' = authUser
    BY <1>2, <1>5 DEF LinkDone
  <2>2. /\ Shaped(stack', slot') /\ Ready(stack', const')
        /\ account' \in [id : User \cup {None}, email : User \cup {None}]
        /\ AtRegister /\ slot.showAlertDelegate = Place(Top, 0) =>
              AtRegister' /\ slot' = slot /\ Top' = Top /\ stack'[Top].pane = "info"
    BY <1>1, <1>3, <2>1, ShowNextStep
  <2>3. Plain'
    BY <1>1, <1>4, <2>1, <2>2 DEF Strong, Plain, service
  <2>4. ASSUME strays' = 0
        PROVE  Calm'
    <3>1. Calm
      BY <1>1, <2>4 DEF IInv
    <3>2. NobodyGone /\ Loads(pending \ {r}) /\ Waits(r)
      BY <1>1, <3>1, NobodyIsGone DEF Calm, Asked
    <3>3. r.user \in User /\ r.result = "ok"
      BY <1>1, <1>5 DEF Due, Strong, Addressed
    <3>4. AtRegister /\ r.user = authUser /\ status[authUser] = "live"
      BY <1>1, <3>2, <3>3 DEF Waits
    <3>5. slot.showAlertDelegate = Place(Top, 0)
      BY <3>1, <3>4 DEF Calm, InSession
    <3>6. AtRegister' /\ slot' = slot /\ Top' = Top /\ stack'[Top].pane = "info"
      BY <2>2, <3>4, <3>5
    <3>7. loggedIn' # None
      BY <2>1, <3>3, <3>4, SessionAssumption
    <3>8. InSession'
      BY <1>1, <2>1, <3>4, <3>5, <3>6, <3>7 DEF InSession, AtTabs, AtLogin, AtRegister, service
    <3>9. NobodyGone' /\ Loads(pending')
      BY <1>1, <2>1, <3>2, <3>4 DEF NobodyGone, service
    <3> QED
      BY <3>8, <3>9, OnlyLoads
  <2> QED
    BY <1>4, <2>2, <2>3, <2>4 DEF IInv, Strong
<1>6. CASE ~ b
  <2>1. ShowAlert /\ UNCHANGED <<loggedIn, account>> /\ r.result = "sent"
    BY <1>6 DEF LinkDone, ShowAlert, Due
  <2>2. Shaped(stack', slot') /\ Ready(stack', const') /\ SameTop
    BY <1>1, <2>1, ShowAlertStep
  <2>3. Plain'
    BY <1>1, <1>4, <2>1 DEF Strong, Plain, service
  <2>4. strays' = 0 => Calm'
    BY <1>1, <2>1, <2>2, Answering DEF service
  <2> QED
    BY <1>4, <2>2, <2>3, <2>4 DEF IInv, Strong
<1> QED
  BY <1>5, <1>6

LEMMA VerifiedDoneStep ==
    ASSUME IInv, NEW r \in pending, NEW b \in BOOLEAN, Due(r, b), VerifiedDone(r, b)
    PROVE  IInv'
<1>1. /\ Strong /\ r.kind \in {"reauth", "updatePhone"}
      /\ UNCHANGED <<service, kept, const, strays>>
      /\ ~ (stack[Top].screen = "login" /\ stack[Top].appearing)
  BY DEF IInv, VerifiedDone, Due
<1>2. PICK u : u = loggedIn
  OBVIOUS
<1>3. u \in User \cup {None} /\ u \in User \cup {None, Nobody}
      /\ account \in [id : User \cup {None}, email : User \cup {None}]
  BY <1>1, <1>2 DEF Strong, Plain
<1>4. \/ ShowAlert /\ pending' = pending \ {r}
      \/ LoginChecked(r, TRUE, u) \/ GoneLoginChecked(r, TRUE, u)
      \/ RegisterChecked(r, TRUE, u) \/ PushedChecked(r, TRUE, u)
  BY <1>2 DEF VerifiedDone, CheckingReturn
<1>5. TRUE \in BOOLEAN
  OBVIOUS
<1>6. ShowAlert => UNCHANGED account
  BY DEF ShowAlert
<1>7. /\ Shaped(stack', slot') /\ Ready(stack', const')
      /\ account' \in [id : User \cup {None}, email : User \cup {None}]
      /\ pending' = pending \ {r} \/ (pending' = (pending \ {r}) \cup {Ask("load", u)})
      /\ AtTabs => SameTop /\ account'.id \in {account.id, u}
  <2>1. CASE ShowAlert /\ pending' = pending \ {r}
    BY <1>1, <1>3, <1>6, <2>1, ShowAlertStep
  <2>2. CASE LoginChecked(r, TRUE, u)
    BY <1>1, <1>3, <1>5, <2>2, LoginCheckedStep
  <2>3. CASE RegisterChecked(r, TRUE, u)
    BY <1>1, <1>3, <1>5, <2>3, RegisterCheckedStep DEF AtTabs, AtRegister
  <2>4. CASE PushedChecked(r, TRUE, u)
    BY <1>1, <1>3, <1>5, <2>4, PushedCheckedStep
  <2>5. CASE GoneLoginChecked(r, TRUE, u)
    BY <1>1, <1>3, <1>5, <2>5, GoneLoginCheckedStep
  <2> QED
    BY <1>4, <2>1, <2>2, <2>3, <2>4, <2>5
<1>8. pending' \in SUBSET Request /\ Addressed'
  <2>1. "load" \in Kind /\ "load" \notin {"link", "delete"}
    BY DEF Kind
  <2> QED
    BY <1>1, <1>3, <1>7, <2>1, PendingLeft
<1>9. Plain'
  BY <1>1, <1>7, <1>8 DEF Strong, Plain, service, kept
<1>10. Calm => SameTop /\ account'.id = account.id
  <2> SUFFICES ASSUME Calm PROVE SameTop /\ account'.id = account.id
    OBVIOUS
  <2>1. AtTabs
    BY <1>1 DEF Calm, Asked, Waits
  <2>2. account.id = u
    BY <1>2, <2>1 DEF Calm, InSession
  <2> QED
    BY <1>7, <2>1, <2>2
<1>11. \A q \in pending' : q.kind = "load" \/ (q \in pending /\ q # r)
  BY <1>7 DEF Ask
<1>12. strays' = 0 => Calm'
  BY <1>1, <1>10, <1>11, Answering DEF service, kept
<1> QED
  BY <1>7, <1>8, <1>9, <1>12 DEF IInv, Strong

-----------------------------------------------------------------------------
(* The other answers *)

LEMMA UpdateEmailDoneStep ==
    ASSUME IInv, NEW r \in pending, NEW b \in BOOLEAN, Due(r, b), UpdateEmailDone(r, b)
    PROVE  IInv'
<1>1. /\ Strong /\ r.kind = "updateEmail" /\ pending' = pending \ {r}
      /\ UNCHANGED <<service, kept, const, strays>>
  BY DEF IInv, UpdateEmailDone
<1>2. PICK u : u = r.user
  OBVIOUS
<1>3. \/ ShowAlert /\ UNCHANGED account
      \/ ShowNext(0, u) /\ u \in User
  BY <1>1, <1>2 DEF UpdateEmailDone, Due, Strong, Addressed, ShowAlert
<1>4. account \in [id : User \cup {None}, email : User \cup {None}]
  BY <1>1 DEF Strong, Plain
<1>5. /\ Shaped(stack', slot') /\ Ready(stack', const')
      /\ account' \in [id : User \cup {None}, email : User \cup {None}]
      /\ account'.id = account.id
      /\ AtTabs => SameTop
  <2>1. CASE ShowAlert /\ UNCHANGED account
    BY <1>1, <1>4, <2>1, ShowAlertStep
  <2>2. CASE ShowNext(0, u) /\ u \in User
    BY <1>1, <2>2, ShowNextStep
  <2> QED
    BY <1>3, <2>1, <2>2
<1>6. pending' \in SUBSET Request /\ Addressed'
  <2>1. PICK w : w = None
    OBVIOUS
  <2>2. "load" \in Kind /\ "load" \notin {"link", "delete"} /\ w \in User \cup {None, Nobody}
    BY <2>1 DEF Kind
  <2> QED
    BY <1>1, <2>2, PendingLeft
<1>7. Plain'
  BY <1>1, <1>5, <1>6 DEF Strong, Plain, service, kept
<1>8. Calm => SameTop /\ account'.id = account.id
  <2> SUFFICES ASSUME Calm PROVE SameTop /\ account'.id = account.id
    OBVIOUS
  <2>1. AtTabs
    BY <1>1 DEF Calm, Asked, Waits
  <2> QED
    BY <1>5, <2>1
<1>9. strays' = 0 => Calm'
  BY <1>1, <1>8, Answering DEF service, kept
<1> QED
  BY <1>5, <1>6, <1>7, <1>9 DEF IInv, Strong

LEMMA LoadDoneStep ==
    ASSUME IInv, NEW r \in pending, NEW b \in BOOLEAN, LoadDone(r, b)
    PROVE  IInv'
<1>1. /\ Strong /\ r.kind = "load" /\ pending' = pending \ {r}
      /\ UNCHANGED <<service, kept, stack, const, slot, strays>>
      /\ account' = IF b
                    THEN [account EXCEPT !.email =
                            IF authUser # None /\ status[authUser] = "live" THEN authUser ELSE None]
                    ELSE account
  BY DEF IInv, LoadDone
<1>2. account' \in [id : User \cup {None}, email : User \cup {None}] /\ account'.id = account.id
  BY <1>1 DEF Strong, Plain
<1>3. Strong'
  BY <1>1, <1>2 DEF Strong, Plain, Addressed, service, kept
<1>4. ASSUME strays' = 0
      PROVE  Calm'
  <2>1. Calm
    BY <1>1, <1>4 DEF IInv
  <2>2. OneAtATime'
    BY <1>1, <2>1 DEF Calm, OneAtATime
  <2>3. Asked'
    <3> SUFFICES ASSUME NEW q \in pending' PROVE Waits(q)'
      BY DEF Asked
    <3>1. Waits(q)
      BY <1>1, <2>1 DEF Calm, Asked
    <3> QED
      BY <1>1, <1>2, <3>1 DEF Waits, AtLogin, AtRegister, AtTabs, Top, service, kept
  <2>4. InSession'
    BY <1>1, <1>2, <2>1 DEF Calm, InSession, AtLogin, AtRegister, AtTabs, Top, service, kept
  <2>5. Told'
    <3> SUFFICES ASSUME NEW u \in User, status[u] = "deleted", u = loggedIn \/ u \in profile
                 PROVE  \E q \in pending' : q.kind = "delete" /\ q.result = "ok" /\ q.user = u
      BY <1>1 DEF Told, service, kept
    <3>1. PICK q \in pending : q.kind = "delete" /\ q.result = "ok" /\ q.user = u
      BY <2>1 DEF Calm, Told
    <3>2. q # r
      BY <1>1, <3>1
    <3> QED
      BY <1>1, <3>1, <3>2
  <2> QED
    BY <2>2, <2>3, <2>4, <2>5 DEF Calm
<1> QED
  BY <1>3, <1>4 DEF IInv

LEMMA SignInDoneStep ==
    ASSUME IInv, NEW r \in pending, NEW b \in BOOLEAN, Due(r, b), SignInDone(r, b)
    PROVE  IInv'
<1>1. /\ Strong /\ r.kind = "signIn"
      /\ UNCHANGED <<service, loggedIn, sentTo, const, account>>
  BY DEF IInv, SignInDone
<1>2. CASE ~ b
  <2>1. pending' = pending \ {r} /\ UNCHANGED <<authUser, stack, slot, strays>>
    BY <1>2 DEF SignInDone
  <2>2. Shaped(stack', slot') /\ Ready(stack', const') /\ SameTop
    BY <1>1, <2>1, Unchanged
  <2>3. pending' \in SUBSET Request /\ Addressed'
    <3>1. PICK w : w = None
      OBVIOUS
    <3>2. "load" \in Kind /\ "load" \notin {"link", "delete"} /\ w \in User \cup {None, Nobody}
      BY <3>1 DEF Kind
    <3> QED
      BY <1>1, <2>1, <3>2, PendingLeft
  <2>4. Plain'
    BY <1>1, <2>1, <2>3 DEF Strong, Plain, service
  <2>5. strays' = 0 => Calm'
    BY <1>1, <2>1, <2>2, Answering DEF service
  <2> QED
    BY <2>2, <2>3, <2>4, <2>5 DEF IInv, Strong
<1>3. CASE b
  <2>1. PICK u, l : u = r.user /\ l = slot.accountDelegateForConfirmation.level
    OBVIOUS
  <2>2. /\ authUser' = u /\ pending' = (pending \ {r}) \cup {Ask("delete", u)}
        /\ strays' = IF u # loggedIn /\ strays = 0 THEN 1 ELSE strays
        /\ \/ ScreenOf(slot.accountDelegateForConfirmation) = "sheet" /\ PopTo(l, 0)
           \/ UNCHANGED <<stack, slot>>
    BY <1>3, <2>1 DEF SignInDone
  <2>3. u \in User /\ u \in User \cup {None, Nobody}
    BY <1>1, <1>3, <2>1 DEF Due, Strong, Addressed
  <2>4. "delete" \in Kind
    BY DEF Kind
  <2>5. pending' \in SUBSET Request /\ Addressed'
    BY <1>1, <2>2, <2>3, <2>4, PendingLeft
  <2>6. strays \in 0..(MaxStrays + 1) /\ MaxStrays \in Nat
    BY <1>1, SessionAssumption DEF Strong, Plain
  <2>7. strays' \in 0..(MaxStrays + 1)
    BY <2>2, <2>6
  <2>8. Plain'
    BY <1>1, <2>2, <2>3, <2>5, <2>7 DEF Strong, Plain, service
  <2>9. Shaped(stack', slot') /\ Ready(stack', const') /\ (AtTabs => SameTop)
    <3>1. CASE UNCHANGED <<stack, slot>>
      BY <1>1, <3>1, Unchanged
    <3>2. CASE ScreenOf(slot.accountDelegateForConfirmation) = "sheet" /\ PopTo(l, 0)
      <4>1. l \in 1..Top /\ stack[l].screen = "tabs"
        BY <1>1, <2>1, <3>2, Delegates, ScreenPlace
      <4>2. Len(stack[l].pushed) \in Nat
        BY <1>1, <4>1, Tops, PushedLength DEF Strong, Shaped
      <4>3. Shaped(stack', slot') /\ Others(stack, stack', l)
        BY <1>1, <3>2, <4>1, <4>2, PopToStep DEF Strong
      <4>4. AtTabs => SameTop
        BY <1>1, <3>2, <4>1, <4>2, PoppedStep
      <4>5. Ready(stack', const')
        BY <1>1, <4>1, <4>3, ReadyOn
      <4> QED
        BY <4>3, <4>4, <4>5
    <3> QED
      BY <2>2, <3>1, <3>2
  <2>10. ASSUME strays' = 0
         PROVE  Calm'
    <3>1. strays = 0 /\ u = loggedIn
      BY <2>2, <2>6, <2>10
    <3>2. Calm
      BY <3>1 DEF IInv
    <3>3. NobodyGone /\ Loads(pending \ {r}) /\ Waits(r)
      BY <1>1, <3>2, NobodyIsGone DEF Calm, Asked
    <3>4. AtTabs /\ stack[Top].opened
      BY <1>1, <3>3 DEF Waits
    <3>5. SameTop /\ account.id = u /\ authUser = u
      BY <2>3, <2>9, <3>1, <3>2, <3>4, SessionAssumption DEF Calm, InSession
    <3>6. InSession'
      BY <1>1, <2>2, <3>2, <3>5, SessionStays DEF Calm, service
    <3>7. PICK q : q = Ask("delete", u)
      OBVIOUS
    <3>8. Waits(q)'
      BY <1>1, <3>4, <3>5, <3>7 DEF Waits, Ask, SameTop, AtTabs
    <3>9. NobodyGone'
      BY <1>1, <3>3 DEF NobodyGone, service
    <3>10. \A t \in pending' : t = q \/ t.kind = "load"
      BY <2>2, <3>3, <3>7 DEF Loads
    <3>11. OneAtATime'
      BY <3>10 DEF OneAtATime
    <3>12. Asked'
      <4> SUFFICES ASSUME NEW t \in pending' PROVE Waits(t)'
        BY DEF Asked
      <4>1. CASE t = q
        BY <3>8, <4>1
      <4>2. CASE t.kind = "load"
        BY <4>2 DEF Waits
      <4> QED
        BY <3>10, <4>1, <4>2
    <3>13. Told'
      BY <3>9 DEF Told, NobodyGone
    <3> QED
      BY <3>6, <3>11, <3>12, <3>13 DEF Calm
  <2> QED
    BY <2>5, <2>8, <2>9, <2>10 DEF IInv, Strong
<1> QED
  BY <1>2, <1>3

LEMMA DeleteDoneStep ==
    ASSUME IInv, NEW r \in pending, NEW b \in BOOLEAN, Due(r, b), DeleteDone(r, b)
    PROVE  IInv'
<1>1. /\ Strong /\ r.kind = "delete" /\ pending' = pending \ {r}
      /\ UNCHANGED <<status, sentTo, const, account, strays>>
  BY DEF IInv, DeleteDone
<1>2. pending' \in SUBSET Request /\ Addressed'
  <2>1. PICK w : w = None
    OBVIOUS
  <2>2. "load" \in Kind /\ "load" \notin {"link", "delete"} /\ w \in User \cup {None, Nobody}
    BY <2>1 DEF Kind
  <2> QED
    BY <1>1, <2>2, PendingLeft
<1>3. CASE ~ b
  <2>1. UNCHANGED <<profile, loggedIn, authUser, stack, slot>> /\ r.result = "sent"
    BY <1>3 DEF DeleteDone, Due
  <2>2. Shaped(stack', slot') /\ Ready(stack', const') /\ SameTop
    BY <1>1, <2>1, Unchanged
  <2>3. Plain'
    BY <1>1, <1>2, <2>1 DEF Strong, Plain
  <2>4. strays' = 0 => Calm'
    BY <1>1, <2>1, <2>2, Answering
  <2> QED
    BY <1>2, <2>2, <2>3, <2>4 DEF IInv, Strong
<1>4. CASE b
  <2>1. PICK l : l = slot.accountDelegate.level
    OBVIOUS
  <2>2. /\ authUser' = IF authUser = r.user THEN None ELSE authUser
        /\ profile' = profile \ {account.id} /\ PresentLogin(l) /\ loggedIn' = None
    BY <1>4, <2>1 DEF DeleteDone, Erase
  <2>3. l \in Nat /\ (l # 0 => l \in 1..Top /\ stack[l].screen = "tabs")
    <3>1. /\ slot.accountDelegate \in PlaceSet
          /\ slot.accountDelegate \in Out \/ Stands(slot.accountDelegate, stack)
      BY <1>1, Delegates
    <3>2. l # 0 => l \in 1..Top
      BY <1>1, <2>1, <3>1, ScreenPlace
    <3>3. Homes(slot, stack)
      BY <1>1 DEF Strong, Shaped
    <3>4. l # 0 => stack[l].screen = "tabs"
      BY <2>1, <3>3 DEF Homes
    <3> QED
      BY <2>1, <3>1, <3>2, <3>4 DEF PlaceSet
  <2>4. /\ Shaped(stack', slot') /\ Ready(stack', const)
        /\ l = Top /\ (const.didAppearLogin => Top > 1) =>
              stack'[Len(stack')].screen = "login" /\ stack'[Len(stack')].appearing
    BY <1>1, <2>2, <2>3, PresentLoginStep DEF Strong
  <2>5. Plain' /\ Ready(stack', const')
    BY <1>1, <1>2, <2>2, <2>4 DEF Strong, Plain
  <2>6. ASSUME strays' = 0
        PROVE  Calm'
    <3>1. Calm
      BY <1>1, <2>6 DEF IInv
    <3>2. Waits(r) /\ r.result = "ok"
      BY <1>1, <1>4, <3>1 DEF Calm, Asked, Due
    <3>3. AtTabs /\ stack[Top].opened /\ r.user = account.id
      BY <1>1, <3>2 DEF Waits
    <3>4. slot.accountDelegate = Place(Top, 0) /\ (const.didAppearLogin => Top > 1)
      BY <3>1, <3>3 DEF Calm, InSession
    <3>5. l = Top
      BY <2>1, <3>4 DEF Place
    <3>6. InSession'
      BY <2>2, <2>4, <3>4, <3>5, Appears
    <3>7. Loads(pending')
      BY <1>1, <3>1 DEF Calm, OneAtATime, Loads
    <3>8. NobodyGone'
      <4> SUFFICES ASSUME NEW u \in User, u \in profile', status[u] = "deleted" PROVE FALSE
        BY <1>1, <2>2, SessionAssumption DEF NobodyGone
      <4>1. PICK q \in pending : q.kind = "delete" /\ q.user = u
        BY <2>2, <3>1 DEF Calm, Told
      <4>2. q = r
        BY <1>1, <3>1, <4>1 DEF Calm, OneAtATime
      <4> QED
        BY <2>2, <3>3, <4>1, <4>2
    <3> QED
      BY <3>6, <3>7, <3>8, OnlyLoads
  <2> QED
    BY <1>2, <2>4, <2>5, <2>6 DEF IInv, Strong
<1> QED
  BY <1>3, <1>4

-----------------------------------------------------------------------------
(* The invariant *)

\* Every answer, as it comes.
LEMMA HandleStep ==
    ASSUME IInv, NEW r \in pending, Handle(r)
    PROVE  IInv'
<1>1. PICK b \in BOOLEAN : Due(r, b) /\ Done(r, b)
  BY DEF Handle, Due
<1>2. CASE SendCodeDone(r, b)
  BY <1>2, SendCodeDoneStep
<1>3. CASE CheckDone(r, b)
  BY <1>1, <1>3, CheckDoneStep
<1>4. CASE LoginDone(r, b)
  BY <1>1, <1>4, LoginDoneStep
<1>5. CASE LinkDone(r, b)
  BY <1>1, <1>5, LinkDoneStep
<1>6. CASE VerifiedDone(r, b)
  BY <1>1, <1>6, VerifiedDoneStep
<1>7. CASE UpdateEmailDone(r, b)
  BY <1>1, <1>7, UpdateEmailDoneStep
<1>8. CASE LoadDone(r, b)
  BY <1>8, LoadDoneStep
<1>9. CASE SignInDone(r, b)
  BY <1>1, <1>9, SignInDoneStep
<1>10. CASE DeleteDone(r, b)
  BY <1>1, <1>10, DeleteDoneStep
<1> QED
  BY <1>1, <1>2, <1>3, <1>4, <1>5, <1>6, <1>7, <1>8, <1>9, <1>10 DEF Done

LEMMA NextIInv ==
    ASSUME IInv, [Next]_vars
    PROVE  IInv'
<1>1. CASE UNCHANGED vars
  <2>1. Strong'
    BY <1>1 DEF vars, IInv, Strong, Plain, Addressed
  <2>2. Calm => Calm'
    BY <1>1 DEF vars, Calm, OneAtATime, Asked, Waits, InSession, Told,
                AtLogin, AtRegister, AtTabs, Top
  <2> QED
    BY <1>1, <2>1, <2>2 DEF IInv, vars
<1>2. CASE Relaunch \/ ViewDidAppear \/ SwitchPane \/ OpenRegistration
  BY <1>2, RelaunchStep, ViewDidAppearStep, SwitchPaneStep, OpenRegistrationStep
<1>3. CASE CheckCode \/ RegisterCheckCode \/ RegisterBack \/ LinkWithCredential \/ AddUserInfo
  BY <1>3, CheckCodeStep, RegisterBackStep, LinkWithCredentialStep, AddUserInfoStep
<1>4. CASE OpenAccountTab \/ Exit \/ EditProfile \/ OpenDelete \/ Back
  BY <1>4, OpenAccountTabStep, ExitStep, EditProfileStep, OpenStep, BackStep
<1>5. CASE ChangeNext \/ NewNext \/ SheetNext
  BY <1>5, ChangeNextStep, NewNextStep, SheetNextStep
<1>6. CASE \E u \in User : LogIn(u) \/ SendCode(u) \/ RegisterSendCode(u)
  BY <1>6, LogInStep, SendCodeStep, RegisterSendCodeStep
<1>7. CASE \E row \in {"phone", "email"} : OpenChange(row)
  BY <1>7, OpenStep
<1>8. CASE \E r \in pending : Serve(r) \/ Handle(r)
  BY <1>8, ServeStep, HandleStep
<1> QED
  BY <1>1, <1>2, <1>3, <1>4, <1>5, <1>6, <1>7, <1>8 DEF Next

\* The screens and the delegates fit each other, and as long as the user waits
\* for the answers, so do the screens, the requests and who is logged in.
THEOREM SessionInvariant == Spec => []IInv
<1>1. Init => IInv
  BY InitIInv
<1>2. IInv /\ [Next]_vars => IInv'
  BY NextIInv
<1> QED
  BY <1>1, <1>2, PTL DEF Spec

\* One login screen at most, a registration only on a login screen, and no
\* delegate anywhere but at a screen that is shown, or out of sight.
THEOREM SessionTypeCorrect == Spec => []TypeOK
<1>1. IInv => TypeOK
  <2> SUFFICES ASSUME IInv PROVE TypeOK
    OBVIOUS
  <2>1. Plain /\ Stack(stack) /\ Slotted(slot, stack) /\ Strong
    BY DEF IInv, Strong, Shaped
  <2>2. DOMAIN stack = 1..Len(stack) /\ Top = Len(stack)
    BY <2>1, StackTop, Tops
  <2>3. /\ stack \in Seq(LoginScreen \cup RegisterScreen \cup TabsScreen) /\ stack # << >>
        /\ \A i, j \in DOMAIN stack :
              stack[i].screen = "login" /\ stack[j].screen = "login" => i = j
        /\ \A i \in DOMAIN stack :
              stack[i].screen = "register" => i = Top /\ i > 1 /\ stack[i - 1].screen = "login"
    <3>1. stack \in Seq(LoginScreen \cup RegisterScreen \cup TabsScreen) /\ stack # << >>
      BY <2>1 DEF Stack, Screen
    <3>2. \A i, j \in DOMAIN stack :
             stack[i].screen = "login" /\ stack[j].screen = "login" => i = j
      BY <2>1, <2>2 DEF Stack
    <3>3. \A i \in DOMAIN stack :
             stack[i].screen = "register" => i = Top /\ i > 1 /\ stack[i - 1].screen = "login"
      BY <2>1, <2>2 DEF Stack
    <3> QED
      BY <3>1, <3>2, <3>3
  <2>4. /\ slot \in Slots
        /\ \A d \in DOMAIN slot : slot[d] \in Out \/ Stands(slot[d], stack)
    BY <2>1 DEF Slotted
  <2> QED
    BY <2>1, <2>3, <2>4 DEF TypeOK, Plain
<1> QED
  BY <1>1, SessionInvariant, PTL

\* Who is logged in is signed in.
THEOREM LoggedInIsSignedIn == Spec => []SessionIsSignedIn
<1>1. IInv => SessionIsSignedIn
  BY DEF IInv, Calm, InSession, SessionIsSignedIn
<1> QED
  BY <1>1, SessionInvariant, PTL

\* Nobody is logged in without an address, as long as the user waits for the
\* answers.
THEOREM RegisteredFirst == Spec => []LoggedInIsRegistered
<1>1. IInv => LoggedInIsRegistered
  BY DEF IInv, Calm, InSession, LoggedInIsRegistered
<1> QED
  BY <1>1, SessionInvariant, PTL

\* The account screen writes below the id of who is logged in.
THEOREM OwnProfile == Spec => []EditsOwnProfile
<1>1. IInv => EditsOwnProfile
  BY DEF IInv, Calm, InSession, AtTabs, EditsOwnProfile
<1> QED
  BY <1>1, SessionInvariant, PTL

\* The login screen that is shown and waits for input means that nobody is
\* logged in.
THEOREM LoginIsForTheLoggedOut == Spec => []LoginMeansLoggedOut
<1>1. IInv => LoginMeansLoggedOut
  BY DEF IInv, Calm, InSession, AtLogin, LoginMeansLoggedOut
<1> QED
  BY <1>1, SessionInvariant, PTL

\* The tabs on top mean that somebody is logged in.
THEOREM TabsAreForTheLoggedIn == Spec => []TabsMeanLoggedIn
<1>1. IInv => TabsMeanLoggedIn
  BY DEF IInv, Calm, InSession, AtTabs, TabsMeanLoggedIn
<1> QED
  BY <1>1, SessionInvariant, PTL

\* Only the answer of a deletion takes a profile away.
LEMMA OthersKeepProfile ==
    ASSUME [Next]_vars, ~ \E r \in pending : Due(r, TRUE) /\ DeleteDone(r, TRUE)
    PROVE  profile \subseteq profile'
<1>1. CASE UNCHANGED profile
  BY <1>1
<1>2. CASE AddUserInfo \/ EditProfile
  BY <1>2 DEF AddUserInfo, EditProfile
<1>3. CASE \E r \in pending : Handle(r)
  <2>1. PICK r \in pending, b \in BOOLEAN : Due(r, b) /\ Done(r, b)
    BY <1>3 DEF Handle, Due
  <2>2. CASE DeleteDone(r, b)
    <3>1. b = FALSE
      BY <2>1, <2>2
    <3> QED
      BY <2>2, <3>1 DEF DeleteDone
  <2>3. CASE ~ DeleteDone(r, b)
    BY <2>1, <2>3 DEF Done, SendCodeDone, CheckDone, LoginDone, LinkDone, VerifiedDone,
          UpdateEmailDone, LoadDone, SignInDone, service
  <2> QED
    BY <2>2, <2>3
<1>4. CASE UNCHANGED vars \/ Relaunch \/ ViewDidAppear \/ SwitchPane \/ CheckCode \/ OpenRegistration
  BY <1>4 DEF vars, Relaunch, ViewDidAppear, SwitchPane, CheckCode, OpenRegistration, service
<1>5. CASE RegisterCheckCode \/ RegisterBack \/ LinkWithCredential
  BY <1>5 DEF RegisterCheckCode, RegisterBack, LinkWithCredential, service
<1>6. CASE OpenAccountTab \/ Exit \/ OpenDelete \/ Back \/ ChangeNext \/ NewNext \/ SheetNext
  BY <1>6 DEF OpenAccountTab, Exit, OpenDelete, Back, ChangeNext, NewNext, SheetNext, service
<1>7. CASE \/ \E u \in User : LogIn(u) \/ SendCode(u) \/ RegisterSendCode(u)
           \/ \E row \in {"phone", "email"} : OpenChange(row)
  BY <1>7 DEF LogIn, SendCode, RegisterSendCode, OpenChange, service
<1>8. CASE \E r \in pending : Serve(r)
  BY <1>8 DEF Serve
<1> QED
  BY <1>2, <1>3, <1>4, <1>5, <1>6, <1>7, <1>8 DEF Next

\* A profile goes only with the account.
THEOREM ProfileGoesWithAccount == Spec => LivingKeepProfile
<1>1. IInv /\ [Next]_vars => [strays' = 0 => \A u \in profile \ profile' : status[u] = "deleted"]_vars
  <2> SUFFICES ASSUME IInv, [Next]_vars, strays' = 0, NEW u \in profile \ profile'
               PROVE  status[u] = "deleted"
    OBVIOUS
  <2>1. PICK r \in pending : Due(r, TRUE) /\ DeleteDone(r, TRUE)
    BY OthersKeepProfile
  <2>2. r.kind = "delete" /\ r.result = "ok" /\ UNCHANGED strays /\ profile' = profile \ {account.id}
    BY <2>1 DEF DeleteDone, Erase, Due
  <2>3. r.user = account.id /\ status[r.user] = "deleted"
    BY <2>2 DEF IInv, Calm, Asked, Waits
  <2> QED
    BY <2>2, <2>3
<1> QED
  BY <1>1, SessionInvariant, PTL DEF Spec, LivingKeepProfile

\* Only the device, when it is told, takes away the answer to a deletion.
LEMMA DeletionIsTold ==
    ASSUME [Next]_vars, ~ Relaunch, NEW r \in pending, r \notin pending',
           r.kind = "delete", r.result = "ok"
    PROVE  DeleteDone(r, TRUE)
<1>1. CASE pending \subseteq pending'
  BY <1>1
<1>2. ASSUME NEW q \in pending, Handle(q)
      PROVE  DeleteDone(r, TRUE)
  <2>1. PICK b \in BOOLEAN : Due(q, b) /\ Done(q, b)
    BY <1>2 DEF Handle, Due
  <2>2. pending \ {q} \subseteq pending'
    BY <2>1 DEF Done, SendCodeDone, CheckDone, LoginDone, LinkDone, VerifiedDone, UpdateEmailDone,
                LoadDone, SignInDone, DeleteDone, CheckingReturn, LoginChecked, GoneLoginChecked,
                RegisterChecked, PushedChecked
  <2>3. q = r
    BY <2>2
  <2>4. DeleteDone(r, b)
    BY <2>1, <2>3 DEF Done, SendCodeDone, CheckDone, LoginDone, LinkDone, VerifiedDone,
                UpdateEmailDone, LoadDone, SignInDone
  <2>5. b = TRUE
    BY <2>1, <2>3 DEF Due
  <2> QED
    BY <2>4, <2>5
<1>3. ASSUME NEW q \in pending, Serve(q)
      PROVE  FALSE
  <2>1. q.result = "sent" /\ \E w : Answered(q, w)
    BY <1>3 DEF Serve, ServeCheck, SignInAs, ServeLive, ServeAccount
  <2> QED
    BY <2>1 DEF Answered
<1>4. CASE UNCHANGED vars \/ ViewDidAppear \/ SwitchPane \/ CheckCode \/ OpenRegistration
  BY <1>1, <1>4 DEF vars, ViewDidAppear, SwitchPane, CheckCode, OpenRegistration, Send
<1>5. CASE RegisterCheckCode \/ RegisterBack \/ LinkWithCredential \/ AddUserInfo
  BY <1>1, <1>5 DEF RegisterCheckCode, RegisterBack, LinkWithCredential, AddUserInfo, Send
<1>6. CASE OpenAccountTab \/ Exit \/ EditProfile \/ OpenDelete \/ Back
  BY <1>1, <1>6 DEF OpenAccountTab, Exit, EditProfile, OpenDelete, Back
<1>7. CASE ChangeNext \/ NewNext \/ SheetNext
  BY <1>1, <1>7 DEF ChangeNext, NewNext, SheetNext, SendVerified, Send
<1>8. CASE \/ \E u \in User : LogIn(u) \/ SendCode(u) \/ RegisterSendCode(u)
           \/ \E row \in {"phone", "email"} : OpenChange(row)
  BY <1>1, <1>8 DEF LogIn, SendCode, RegisterSendCode, OpenChange, Send
<1> QED
  BY <1>2, <1>3, <1>4, <1>5, <1>6, <1>7, <1>8 DEF Next

\* An account that is deleted now, and was not: its answer is on its way.
LEMMA DeletionIsUntold ==
    ASSUME Strong, [Next]_vars, NEW u \in User, status'[u] = "deleted", status[u] # "deleted"
    PROVE  Untold(u)'
<1>1. CASE UNCHANGED status
  BY <1>1
<1>2. ASSUME NEW r \in pending, Serve(r)
      PROVE  Untold(u)'
  <2>1. r \in Request /\ status \in [User -> {"free", "half", "live", "deleted"}]
    BY DEF Strong, Plain
  <2>2. CASE ServeCheck(r)
    <3>1. PICK v : status' = [status EXCEPT ![v] = IF status[v] = "free" THEN "half" ELSE status[v]]
      BY <2>2 DEF ServeCheck, SignInAs
    <3> QED
      BY <2>1, <3>1
  <2>3. CASE ServeLive(r)
    BY <2>3 DEF ServeLive
  <2>4. CASE ServeAccount(r)
    <3>1. r.kind = "delete" /\ r.user = u
      BY <2>1, <2>4 DEF ServeAccount
    <3>2. PICK w : w = [r EXCEPT !.result = "ok"]
      OBVIOUS
    <3>3. w \in pending' /\ w.kind = "delete" /\ w.result = "ok" /\ w.user = u
      BY <2>1, <2>4, <3>1, <3>2 DEF ServeAccount, Answered, Request
    <3> QED
      BY <3>3 DEF Untold
  <2> QED
    BY <1>2, <2>2, <2>3, <2>4 DEF Serve
<1>3. ASSUME NEW r \in pending, Handle(r)
      PROVE  UNCHANGED status
  <2>1. PICK b \in BOOLEAN : Done(r, b)
    BY <1>3 DEF Handle
  <2> QED
    BY <2>1 DEF Done, SendCodeDone, CheckDone, LoginDone, LinkDone, VerifiedDone,
          UpdateEmailDone, LoadDone, SignInDone, DeleteDone, service
<1>4. CASE UNCHANGED vars \/ Relaunch \/ ViewDidAppear \/ SwitchPane \/ CheckCode \/ OpenRegistration
  BY <1>1, <1>4 DEF vars, Relaunch, ViewDidAppear, SwitchPane, CheckCode, OpenRegistration, service
<1>5. CASE RegisterCheckCode \/ RegisterBack \/ LinkWithCredential \/ AddUserInfo
  BY <1>1, <1>5 DEF RegisterCheckCode, RegisterBack, LinkWithCredential, AddUserInfo, service
<1>6. CASE OpenAccountTab \/ Exit \/ EditProfile \/ OpenDelete \/ Back
  BY <1>1, <1>6 DEF OpenAccountTab, Exit, EditProfile, OpenDelete, Back, service
<1>7. CASE ChangeNext \/ NewNext \/ SheetNext
  BY <1>1, <1>7 DEF ChangeNext, NewNext, SheetNext, service
<1>8. CASE \/ \E v \in User : LogIn(v) \/ SendCode(v) \/ RegisterSendCode(v)
           \/ \E row \in {"phone", "email"} : OpenChange(row)
  BY <1>1, <1>8 DEF LogIn, SendCode, RegisterSendCode, OpenChange, service
<1> QED
  BY <1>1, <1>2, <1>3, <1>4, <1>5, <1>6, <1>7, <1>8 DEF Next

\* Late answers included: who has deleted his account is logged out in the step
\* that tells the device, and stays logged in only if the process has ended between
\* the deletion and that step.
THEOREM DeletedIsOut == Spec => DeletedIsLoggedOut
<1>1. IInv /\ [Next]_vars
        => [\A u \in User : StillIn(u)' => StillIn(u) \/ Relaunch \/ loggedIn # u]_vars
  <2> SUFFICES ASSUME IInv, [Next]_vars, NEW u \in User, StillIn(u)',
                      ~ StillIn(u), ~ Relaunch, loggedIn = u
               PROVE  FALSE
    OBVIOUS
  <2>1. loggedIn' = u /\ status'[u] = "deleted" /\ ~ Untold(u)'
    BY DEF StillIn
  <2>2. status[u] = "deleted"
    BY <2>1, DeletionIsUntold DEF IInv
  <2>3. PICK r \in pending : r.kind = "delete" /\ r.result = "ok" /\ r.user = u
    BY <2>2 DEF StillIn, Untold
  <2>4. r \notin pending'
    BY <2>1, <2>3 DEF Untold
  <2>5. loggedIn' = None
    BY <2>3, <2>4, DeletionIsTold DEF DeleteDone
  <2> QED
    BY <2>1, <2>5, SessionAssumption
<1> QED
  BY <1>1, SessionInvariant, PTL DEF Spec, DeletedIsLoggedOut

\* Late answers included: the profile of who has deleted his account goes in the
\* step that tells the device.  It outlives that step only if the process has ended
\* before it, or if Account has the id of another user by then.
THEOREM DeletedIsGone == Spec => DeletedLeavesNoProfile
<1>1. IInv /\ [Next]_vars
        => [\A u \in User :
               StillRead(u)' => StillRead(u) \/ Relaunch \/ account.id # u \/ u \notin profile]_vars
  <2> SUFFICES ASSUME IInv, [Next]_vars, NEW u \in User, StillRead(u)',
                      ~ StillRead(u), ~ Relaunch, account.id = u, u \in profile
               PROVE  FALSE
    OBVIOUS
  <2>1. u \in profile' /\ status'[u] = "deleted" /\ ~ Untold(u)'
    BY DEF StillRead
  <2>2. status[u] = "deleted"
    BY <2>1, DeletionIsUntold DEF IInv
  <2>3. PICK r \in pending : r.kind = "delete" /\ r.result = "ok" /\ r.user = u
    BY <2>2 DEF StillRead, Untold
  <2>4. r \notin pending'
    BY <2>1, <2>3 DEF Untold
  <2>5. profile' = profile \ {account.id}
    BY <2>3, <2>4, DeletionIsTold DEF DeleteDone, Erase
  <2> QED
    BY <2>1, <2>5
<1> QED
  BY <1>1, SessionInvariant, PTL DEF Spec, DeletedLeavesNoProfile

-----------------------------------------------------------------------------
(* Screens that wait *)

LoginAsks    == {"login", "sendCode", "check"}
RegisterAsks == {"sendCode", "check", "link"}

\* A busy screen that the answers find waits for one of its own.  Answers find
\* the registration screen as long as it is there: nothing else takes a slot.  It
\* may wait for nothing only at the levels L: those where it does already, and
\* the one where nobody asks to link.
Answerable(L) ==
    /\ \A i \in 1..Top :
          stack[i].screen = "login" /\ stack[i].busy /\ slot.showChecked = Place(i, 0)
              => \E r \in pending : r.kind \in LoginAsks
    /\ \A i \in 1..Top : stack[i].screen = "register" =>
          /\ slot.showChecked = Place(i, 0) /\ slot.showAlertDelegate = Place(i, 0)
          /\ stack[i].busy => i \in L \/ \E r \in pending : r.kind \in RegisterAsks

\* A screen that a step leaves alone, or enables.
Stays(i) ==
    /\ i \in 1..Top /\ stack'[i].screen = stack[i].screen
    /\ stack'[i].busy => stack[i].busy
    /\ slot'.showChecked = Place(i, 0) => slot.showChecked = Place(i, 0)
    /\ stack[i].screen = "register" =>
          /\ slot'.showChecked = slot.showChecked
          /\ slot'.showAlertDelegate = slot.showAlertDelegate

StillAsked(K) == \A r \in pending : r.kind \in K => \E t \in pending' : t.kind \in K

RegistrationAsks ==
    (\E i \in 1..Top : stack[i].screen = "register") => StillAsked(RegisterAsks)

LEMMA Carried ==
    ASSUME NEW L, Answerable(L), StillAsked(LoginAsks), RegistrationAsks,
           \A i \in 1..Len(stack') : stack'[i].screen \in {"login", "register"} =>
              Stays(i) \/ (stack'[i].screen = "login" /\ ~ stack'[i].busy)
    PROVE  Answerable(L)'
<1>1. Top' = Len(stack')
  BY DEF Top
<1>2. ASSUME NEW i \in 1..Top', stack'[i].screen = "login", stack'[i].busy,
             slot'.showChecked = Place(i, 0)
      PROVE  \E r \in pending' : r.kind \in LoginAsks
  <2>1. Stays(i)
    BY <1>1, <1>2
  <2>2. PICK r \in pending : r.kind \in LoginAsks
    BY <1>2, <2>1 DEF Answerable, Stays
  <2> QED
    BY <2>2 DEF StillAsked
<1>3. ASSUME NEW i \in 1..Top', stack'[i].screen = "register"
      PROVE  /\ slot'.showChecked = Place(i, 0) /\ slot'.showAlertDelegate = Place(i, 0)
             /\ stack'[i].busy => i \in L \/ \E r \in pending' : r.kind \in RegisterAsks
  <2>1. Stays(i)
    BY <1>1, <1>3
  <2>2. slot'.showChecked = Place(i, 0) /\ slot'.showAlertDelegate = Place(i, 0)
    BY <1>3, <2>1 DEF Answerable, Stays
  <2>3. ASSUME stack'[i].busy, i \notin L
        PROVE  \E r \in pending' : r.kind \in RegisterAsks
    <3>1. PICK r \in pending : r.kind \in RegisterAsks
      BY <1>3, <2>1, <2>3 DEF Answerable, Stays
    <3>2. stack[i].screen = "register" /\ i \in 1..Top
      BY <1>3, <2>1 DEF Stays
    <3> QED
      BY <3>1, <3>2 DEF RegistrationAsks, StillAsked
  <2> QED
    BY <2>2, <2>3
<1> QED
  BY <1>2, <1>3 DEF Answerable

\* One screen of the stack changes, and does not get busy.
LEMMA OneChanges ==
    ASSUME NEW L, Strong, Answerable(L), StillAsked(LoginAsks), RegistrationAsks,
           NEW l \in 1..Top, Others(stack, stack', l),
           stack[l].screen # "tabs" => (stack'[l].busy => stack[l].busy),
           slot'.showChecked = slot.showChecked, slot'.showAlertDelegate = slot.showAlertDelegate
    PROVE  Answerable(L)'
<1>1. Top = Len(stack) /\ Len(stack') = Top
  BY DEF Top, Others
<1>2. ASSUME NEW i \in 1..Len(stack'), stack'[i].screen \in {"login", "register"}
      PROVE  Stays(i)
  <2>1. i \in 1..Top /\ stack'[i].screen = stack[i].screen /\ (i # l => stack'[i] = stack[i])
    BY <1>1 DEF Others
  <2>2. stack'[i].busy => stack[i].busy
    BY <1>2, <2>1
  <2> QED
    BY <2>1, <2>2 DEF Stays
<1> QED
  BY <1>2, Carried

\* Nothing changes but what is pending, and nobody's request is lost.
LEMMA NothingChanges ==
    ASSUME NEW L, Answerable(L), StillAsked(LoginAsks), RegistrationAsks, UNCHANGED <<stack, slot>>
    PROVE  Answerable(L)'
<1>1. \A i \in 1..Len(stack') : Stays(i)
  BY DEF Stays, Top
<1> QED
  BY <1>1, Carried

LEMMA SentMore ==
    ASSUME pending \subseteq pending'
    PROVE  StillAsked(LoginAsks) /\ StillAsked(RegisterAsks) /\ RegistrationAsks
BY DEF RegistrationAsks, StillAsked

\* An answer to none of the screens' requests.
LEMMA AnsweredElse ==
    ASSUME NEW r, r.kind \notin {"login", "sendCode", "check", "link"}, pending \ {r} \subseteq pending'
    PROVE  StillAsked(LoginAsks) /\ StillAsked(RegisterAsks) /\ RegistrationAsks
BY DEF RegistrationAsks, StillAsked, LoginAsks, RegisterAsks

\* Delegates and places.
LEMMA Gones ==
    ASSUME Detach, NEW i, i # 0, Strong
    PROVE  /\ slot'.showChecked \in {slot.showChecked} \cup Out
           /\ slot'.showChecked = Place(i, 0) => slot.showChecked = Place(i, 0)
<1>1. slot \in Slots
  BY DEF Strong, Shaped, Slotted
<1>2. "showChecked" \in DOMAIN slot
  BY <1>1 DEF Slots
<1>3. slot'["showChecked"] \in {slot["showChecked"]} \cup Out
  <2>1. \A screen : OutOf(screen) \in Out
    BY DEF OutOf, Out
  <2> QED
    BY <1>2, <2>1 DEF Detach
<1>4. Place(i, 0) \notin Out
  BY DEF Place, Gone, GoneSheet, GoneLogin, Out
<1> QED
  BY <1>3, <1>4

\* The screen on top asks for something and disables its buttons.
LEMMA AsksAndWaits ==
    ASSUME NEW L, Strong, Answerable(L), Busy(TRUE), NEW kind, NEW u, Send(kind, u),
           \/ stack[Top].screen = "login" /\ kind \in LoginAsks
           \/ stack[Top].screen = "register" /\ kind \in RegisterAsks,
           slot' = slot \/ slot' = [slot EXCEPT !.showChecked = Place(Top, 0)]
    PROVE  Answerable(L)'
<1>1. Top \in 1..Len(stack) /\ Top = Len(stack) /\ Shaped(stack, slot)
  BY Tops DEF Strong
<1>2. Others(stack, stack', Top)
  <2>1. LET t == [stack EXCEPT ![Top].busy = TRUE] IN Others(stack, t, Top)
    BY <1>1, SetBusy
  <2> QED
    BY <2>1 DEF Busy
<1>3. Top' = Top
  BY <1>1, <1>2 DEF Top, Others
<1>4. /\ slot'.showChecked = slot.showChecked \/ slot'.showChecked = Place(Top, 0)
      /\ slot'.showAlertDelegate = slot.showAlertDelegate
  BY <1>1 DEF Shaped, Slotted, Slots
<1>5. Ask(kind, u) \in pending' /\ Ask(kind, u).kind = kind /\ pending \subseteq pending'
  BY DEF Send, Ask
<1>6. ASSUME NEW i \in 1..Top, stack'[i].screen = "login", stack'[i].busy,
             slot'.showChecked = Place(i, 0)
      PROVE  \E r \in pending' : r.kind \in LoginAsks
  <2>1. CASE i = Top
    BY <1>1, <1>2, <1>5, <1>6, <2>1 DEF Others
  <2>2. CASE i # Top
    <3>1. slot.showChecked = Place(i, 0)
      BY <1>4, <1>6, <2>2 DEF Place
    <3>2. stack[i] = stack'[i]
      BY <1>1, <1>2, <2>2 DEF Others
    <3> QED
      BY <1>5, <1>6, <3>1, <3>2 DEF Answerable
  <2> QED
    BY <2>1, <2>2
<1>7. ASSUME NEW i \in 1..Top, stack'[i].screen = "register"
      PROVE  /\ slot'.showChecked = Place(i, 0) /\ slot'.showAlertDelegate = Place(i, 0)
             /\ \E r \in pending' : r.kind \in RegisterAsks
  <2>1. stack[i].screen = "register" /\ i = Top
    BY <1>1, <1>2, <1>7 DEF Others, Shaped, Stack
  <2> QED
    BY <1>4, <1>5, <2>1 DEF Answerable
<1> QED
  BY <1>3, <1>6, <1>7 DEF Answerable

\* The registration is on top, if there is one.
LEMMA RegisterOnTop ==
    ASSUME Strong
    PROVE  /\ \A i \in 1..Top : stack[i].screen = "register" => i = Top
           /\ Top \in Nat /\ Top = Len(stack) /\ Top \in 1..Top
BY Tops DEF Strong, Shaped, Stack

\* The registration screen on top disables its buttons, and asks for nothing.
LEMMA AsksNobody ==
    ASSUME NEW L, Strong, Answerable(L), Busy(TRUE), stack[Top].screen = "register", Top \in L,
           UNCHANGED <<slot, pending>>
    PROVE  Answerable(L)'
<1>1. Top \in 1..Len(stack) /\ Top = Len(stack) /\ Shaped(stack, slot)
  BY Tops DEF Strong
<1>2. Others(stack, stack', Top)
  <2>1. LET t == [stack EXCEPT ![Top].busy = TRUE] IN Others(stack, t, Top)
    BY <1>1, SetBusy
  <2> QED
    BY <2>1 DEF Busy
<1>3. Top' = Top
  BY <1>1, <1>2 DEF Top, Others
<1>4. \A i \in 1..Top : stack'[i].screen = stack[i].screen /\ (i # Top => stack'[i] = stack[i])
  BY <1>1, <1>2 DEF Others
<1>5. ASSUME NEW i \in 1..Top, stack'[i].screen = "login", stack'[i].busy,
             slot'.showChecked = Place(i, 0)
      PROVE  \E r \in pending' : r.kind \in LoginAsks
  BY <1>4, <1>5 DEF Answerable
<1>6. ASSUME NEW i \in 1..Top, stack'[i].screen = "register"
      PROVE  slot'.showChecked = Place(i, 0) /\ slot'.showAlertDelegate = Place(i, 0) /\ i \in L
  <2>1. stack[i].screen = "register" /\ i = Top
    BY <1>4, <1>6, RegisterOnTop
  <2> QED
    BY <2>1 DEF Answerable
<1> QED
  BY <1>3, <1>5, <1>6 DEF Answerable

\* A registration asks to link, and nobody is signed in.
AsksForNobody == authUser = None /\ OnRegister({"email"})

LEMMA AskingBusy ==
    ASSUME NEW L, Strong, Answerable(L), AsksForNobody => Top \in L,
           \/ \E u \in User : LogIn(u) \/ SendCode(u) \/ RegisterSendCode(u)
           \/ CheckCode \/ RegisterCheckCode \/ LinkWithCredential
    PROVE  Answerable(L)'
<1>1. CASE \E u \in User : LogIn(u) \/ SendCode(u)
  <2>1. PICK u \in User : LogIn(u) \/ SendCode(u)
    BY <1>1
  <2>2. /\ Busy(TRUE) /\ stack[Top].screen = "login" /\ slot' = slot
        /\ Send("login", u) \/ Send("sendCode", u)
    BY <2>1 DEF LogIn, SendCode, OnLogin
  <2>3. PICK kind \in {"login", "sendCode"} : Send(kind, u)
    BY <2>2
  <2>4. kind \in LoginAsks
    BY <2>3 DEF LoginAsks
  <2> QED
    BY <2>2, <2>3, <2>4, AsksAndWaits
<1>2. CASE \E u \in User : RegisterSendCode(u)
  <2>1. PICK u \in User : RegisterSendCode(u)
    BY <1>2
  <2>2. /\ Busy(TRUE) /\ stack[Top].screen = "register" /\ slot' = slot
        /\ Send("sendCode", u) /\ "sendCode" \in RegisterAsks
    BY <2>1 DEF RegisterSendCode, OnRegister, RegisterAsks
  <2> QED
    BY <2>2, AsksAndWaits
<1>3. CASE CheckCode \/ RegisterCheckCode
  <2>1. /\ Busy(TRUE) /\ stack[Top].screen \in {"login", "register"} /\ Send("check", sentTo)
        /\ slot' = [slot EXCEPT !.showChecked = Place(Top, 0)]
    BY <1>3 DEF CheckCode, RegisterCheckCode, OnLogin, OnRegister
  <2>2. "check" \in LoginAsks /\ "check" \in RegisterAsks
    BY DEF LoginAsks, RegisterAsks
  <2>3. PICK u : u = sentTo
    OBVIOUS
  <2> QED
    BY <2>1, <2>2, <2>3, AsksAndWaits
<1>4. CASE LinkWithCredential
  <2>1. /\ Busy(TRUE) /\ stack[Top].screen = "register" /\ slot' = slot /\ "link" \in RegisterAsks
        /\ Send("link", authUser) \/ (AsksForNobody /\ UNCHANGED pending)
    BY <1>4 DEF LinkWithCredential, AsksForNobody, OnRegister, RegisterAsks
  <2>2. PICK u : u = authUser
    OBVIOUS
  <2>3. CASE Send("link", u)
    BY <2>1, <2>3, AsksAndWaits
  <2>4. CASE AsksForNobody /\ UNCHANGED pending
    BY <2>1, <2>4, AsksNobody
  <2> QED
    BY <2>1, <2>2, <2>3, <2>4
<1> QED
  BY <1>1, <1>2, <1>3, <1>4

\* A screen shows another pane.
LEMMA ShowBusy ==
    ASSUME NEW L, Strong, Answerable(L), stack[Top].screen \in {"login", "register"},
           NEW pane \in Panes(stack[Top].screen), Show(pane), UNCHANGED <<slot, pending>>
    PROVE  Answerable(L)'
<1>1. Top \in 1..Len(stack) /\ Top = Len(stack) /\ Shaped(stack, slot)
  BY Tops DEF Strong
<1>2. LET t == [stack EXCEPT ![Top].pane = pane]
      IN  /\ Shaped(t, slot) /\ Others(stack, t, Top)
          /\ t[Top].busy = stack[Top].busy /\ t[Top].pane = pane
          /\ stack[Top].screen = "login" => t[Top].appearing = stack[Top].appearing
  <2>1. Top \in 1..Len(stack) /\ Shaped(stack, slot)
    BY <1>1
  <2> QED
    BY <2>1, SetPane
<1>3. Others(stack, stack', Top) /\ stack'[Top].busy = stack[Top].busy
  BY <1>2 DEF Show
<1> QED
  BY <1>1, <1>3, SentMore, OneChanges

LEMMA SwitchPaneBusy ==
    ASSUME NEW L, Strong, Answerable(L), SwitchPane
    PROVE  Answerable(L)'
<1>1. /\ stack[Top].screen = "login" /\ UNCHANGED <<slot, pending>>
      /\ \E pane \in {"main", "email", "phone"} : Show(pane)
  BY DEF SwitchPane, OnLogin
<1>2. PICK pane \in {"main", "email", "phone"} : Show(pane)
  BY <1>1
<1>3. pane \in Panes(stack[Top].screen)
  BY <1>1 DEF Panes
<1> QED
  BY <1>1, <1>2, <1>3, ShowBusy

\* No screen is there that answers find busy.
LEMMA NoneBusy ==
    ASSUME NEW L, \A i \in 1..Len(stack') :
              /\ stack'[i].screen # "register"
              /\ stack'[i].screen = "login" => ~ stack'[i].busy \/ slot'.showChecked # Place(i, 0)
    PROVE  Answerable(L)'
BY DEF Answerable, Top

LEMMA EndRegistrationBusy ==
    ASSUME NEW L, Strong, Answerable(L), stack[Top].screen = "register", EndRegistration
    PROVE  Answerable(L)'
<1>1. Top \in Nat /\ Top \in 1..Top /\ Top = Len(stack) /\ Shaped(stack, slot)
  BY RegisterOnTop DEF Strong
<1>2. Top > 1 /\ stack[Top - 1].screen = "login"
  BY <1>1 DEF Shaped, Stack
<1>3. PICK n \in 1..Top : n = Top - 1
  BY <1>1, <1>2
<1>4. n < Top /\ stack[n].screen = "login"
  BY <1>1, <1>2, <1>3
<1>5. stack' = [SubSeq(stack, 1, n) EXCEPT ![n].appearing = TRUE] /\ Detach
  BY <1>3 DEF EndRegistration
<1>6. /\ Len(stack') = n /\ stack'[n].screen = "login"
      /\ \A j \in 1..n : j # n => stack'[j] = stack[j]
  BY <1>1, <1>4, <1>5, Dismissed
<1>7. ASSUME NEW i \in 1..n
      PROVE  stack'[i].screen # "register" /\ slot'.showChecked # Place(i, 0)
  <2>1. i \in 1..Top /\ i # Top /\ i # 0
    BY <1>1, <1>4
  <2>2. stack'[i].screen # "register"
    BY <1>6, <2>1, RegisterOnTop
  <2>3. slot.showChecked = Place(Top, 0)
    BY <1>1 DEF Answerable
  <2>4. slot'.showChecked # Place(i, 0)
    BY <1>5, <2>1, <2>3, Gones DEF Place
  <2> QED
    BY <2>2, <2>4
<1> QED
  BY <1>6, <1>7, NoneBusy

LEMMA PresentLoginBusy ==
    ASSUME NEW L, Strong, Answerable(L), NEW level \in Nat,
           level # 0 => level \in 1..Top /\ stack[level].screen = "tabs",
           PresentLogin(level), StillAsked(LoginAsks), RegistrationAsks
    PROVE  Answerable(L)'
<1>1. Top \in Nat /\ Top \in 1..Top /\ Top = Len(stack) /\ Shaped(stack, slot)
  BY RegisterOnTop DEF Strong
<1>2. CASE level # 0 /\ const.didAppearLogin /\ level < Top /\ stack' = SubSeq(stack, 1, level) /\ Detach
  <2>1. Len(stack') = level /\ \A j \in 1..level : stack'[j] = stack[j]
    BY <1>1, <1>2, CutScreens DEF Shaped
  <2>2. ASSUME NEW i \in 1..level
        PROVE  Stays(i)
    <3>1. i \in 1..Top /\ i # Top /\ i # 0 /\ stack'[i] = stack[i]
      BY <1>1, <1>2, <2>1
    <3>2. stack[i].screen # "register"
      BY <3>1, RegisterOnTop
    <3>3. slot'.showChecked = Place(i, 0) => slot.showChecked = Place(i, 0)
      BY <1>2, <3>1, Gones
    <3> QED
      BY <3>1, <3>2, <3>3 DEF Stays
  <2> QED
    BY <2>1, <2>2, Carried
<1>3. CASE /\ level # 0 /\ const.didAppearLogin /\ level = Top /\ Top > 1
           /\ stack' = [SubSeq(stack, 1, Top - 1) EXCEPT ![Top - 1].appearing = TRUE]
           /\ Detach
  <2>1. PICK n \in 1..Top : n = Top - 1
    BY <1>1, <1>3
  <2>2. n < Top /\ stack[n].screen = "login" /\ stack[Top].screen # "register"
    BY <1>1, <1>3, <2>1 DEF Shaped, Stack
  <2>3. stack' = [SubSeq(stack, 1, n) EXCEPT ![n].appearing = TRUE]
    BY <1>3, <2>1
  <2>4. /\ Len(stack') = n /\ stack'[n].screen = "login" /\ stack'[n].busy = stack[n].busy
        /\ \A j \in 1..n : j # n => stack'[j] = stack[j]
    BY <1>1, <1>3, <2>2, <2>3, Dismissed
  <2>5. ASSUME NEW i \in 1..n
        PROVE  Stays(i)
    <3>1. i \in 1..Top /\ i # Top /\ i # 0
      BY <1>1, <2>1, <2>2
    <3>2. stack[i].screen # "register" /\ stack'[i].screen = stack[i].screen
          /\ stack'[i].busy = stack[i].busy
      BY <2>2, <2>4, <3>1, RegisterOnTop
    <3>3. slot'.showChecked = Place(i, 0) => slot.showChecked = Place(i, 0)
      BY <1>3, <3>1, Gones
    <3> QED
      BY <3>1, <3>2, <3>3 DEF Stays
  <2> QED
    BY <2>4, <2>5, Carried
<1>4. CASE /\ level # 0 /\ ~ const.didAppearLogin /\ level = Top
           /\ stack' = Append(stack, Login) /\ slot' = WithLogin(slot, Top + 1)
  <2>1. /\ Len(stack') = Top + 1 /\ stack'[Top + 1] = Login
        /\ \A j \in 1..Top : stack'[j] = stack[j]
    BY <1>1, <1>4, StackTop, AppendProperties DEF Shaped, Stack, Login, Screen, LoginScreen
  <2>2. Login.screen = "login" /\ ~ Login.busy
    BY DEF Login
  <2>3. slot'.showChecked = Place(Top + 1, 0)
    BY <1>1, <1>4 DEF WithLogin, Shaped, Slotted, Slots
  <2>4. ASSUME NEW i \in 1..Top
        PROVE  stack'[i].screen # "register" /\ slot'.showChecked # Place(i, 0)
    <3>1. i # Top + 1
      BY <1>1
    <3> QED
      BY <1>1, <1>4, <2>1, <2>3, <3>1, RegisterOnTop DEF Place
  <2>5. \A i \in 1..Len(stack') : i \in 1..Top \/ i = Top + 1
    BY <1>1, <2>1
  <2> QED
    BY <2>1, <2>2, <2>4, <2>5, NoneBusy
<1>5. CASE UNCHANGED <<stack, slot>>
  BY <1>5, NothingChanges
<1> QED
  BY <1>2, <1>3, <1>4, <1>5 DEF PresentLogin

LEMMA PopToBusy ==
    ASSUME NEW L, Strong, Answerable(L), NEW l \in 1..Top, stack[l].screen = "tabs", NEW n \in Nat,
           n <= Len(stack[l].pushed), PopTo(l, n), StillAsked(LoginAsks), RegistrationAsks
    PROVE  Answerable(L)'
<1>1. /\ Others(stack, stack', l) /\ Shaped(stack', slot')
      /\ \A d \in DOMAIN slot :
            slot[d].level \in 1..Top /\ slot[d].depth = 0 => slot'[d] = slot[d]
  BY PopToStep DEF Strong
<1>2. slot \in Slots /\ slot' \in Slots /\ Detach /\ Top = Len(stack)
  BY <1>1, Tops DEF Strong, Shaped, Slotted, PopTo
<1>3. ASSUME NEW i \in 1..Len(stack'), stack'[i].screen \in {"login", "register"}
      PROVE  Stays(i)
  <2>1. i \in 1..Top /\ stack'[i].screen = stack[i].screen /\ stack'[i] = stack[i] /\ i # 0
    BY <1>1, <1>2, <1>3 DEF Others
  <2>2. slot'.showChecked = Place(i, 0) => slot.showChecked = Place(i, 0)
    BY <1>2, <2>1, Gones
  <2>3. ASSUME stack[i].screen = "register"
        PROVE  /\ slot'.showChecked = slot.showChecked
               /\ slot'.showAlertDelegate = slot.showAlertDelegate
    <3>1. slot.showChecked = Place(i, 0) /\ slot.showAlertDelegate = Place(i, 0)
      BY <2>1, <2>3 DEF Answerable
    <3> QED
      BY <1>1, <1>2, <2>1, <3>1 DEF Slots, Place
  <2> QED
    BY <2>1, <2>2, <2>3 DEF Stays
<1> QED
  BY <1>3, Carried

LEMMA PushBusy ==
    ASSUME NEW L, Strong, Answerable(L), NEW l \in 1..Top, stack[l].screen = "tabs",
           NEW x \in PushedScreen, Push(l, x), StillAsked(LoginAsks), RegistrationAsks,
           slot'.showChecked \in {slot.showChecked, Pushed(l)},
           \A i \in 1..Top : stack[i].screen # "register"
    PROVE  Answerable(L)'
<1>1. Others(stack, stack', l) /\ Pushed(l) \in PlaceSet /\ Pushed(l).depth # 0
  BY PushStep DEF Strong
<1>2. Top = Len(stack)
  BY Tops
<1>3. ASSUME NEW i \in 1..Len(stack'), stack'[i].screen \in {"login", "register"}
      PROVE  Stays(i)
  <2>1. i \in 1..Top /\ stack'[i].screen = stack[i].screen /\ stack'[i] = stack[i]
    BY <1>1, <1>2, <1>3 DEF Others
  <2>2. slot'.showChecked = Place(i, 0) => slot.showChecked = Place(i, 0)
    BY <1>1 DEF Place
  <2> QED
    BY <2>1, <2>2 DEF Stays
<1> QED
  BY <1>3, Carried

LEMMA InitBusy ==
    ASSUME NEW L, Init
    PROVE  Answerable(L)
<1>1. Len(stack) = 1 /\ stack[1] = Login /\ Login.screen = "login" /\ ~ Login.busy
  BY DEF Init, Login
<1> QED
  BY <1>1 DEF Answerable, Top

LEMMA RelaunchBusy ==
    ASSUME NEW L, Relaunch
    PROVE  Answerable(L)'
<1>1. /\ Login.screen = "login" /\ ~ Login.busy /\ Tabs.screen = "tabs"
      /\ stack' \in {<<Login>>, <<Tabs>>}
  BY DEF Relaunch, Login, Tabs
<1>2. Len(stack') = 1 /\ stack'[1] \in {Login, Tabs}
  BY <1>1
<1> QED
  BY <1>1, <1>2, NoneBusy

LEMMA ViewDidAppearBusy ==
    ASSUME NEW L, Strong, Answerable(L), ViewDidAppear
    PROVE  Answerable(L)'
<1>1. /\ stack[Top].screen = "login" /\ slot' = slot /\ pending \subseteq pending'
      /\ \/ stack' = [stack EXCEPT ![Top].appearing = FALSE]
         \/ stack' = Append([[stack EXCEPT ![Top].appearing = FALSE] EXCEPT ![Top].pane = "main"], Tabs)
  BY DEF ViewDidAppear
<1>2. Top \in Nat /\ Top \in 1..Top /\ Top = Len(stack) /\ Shaped(stack, slot)
  BY RegisterOnTop DEF Strong
<1>3. PICK t : t = [stack EXCEPT ![Top].appearing = FALSE]
  OBVIOUS
<1>4. Shaped(t, slot) /\ Others(stack, t, Top) /\ t[Top].busy = stack[Top].busy
  <2>1. Shaped(stack, slot) /\ Top \in 1..Len(stack)
    BY <1>2
  <2>2. LET u == [stack EXCEPT ![Top].appearing = FALSE]
        IN  Shaped(u, slot) /\ Others(stack, u, Top) /\ u[Top].appearing = FALSE
            /\ u[Top].busy = stack[Top].busy
    BY <1>1, <2>1, SetAppearing
  <2> QED
    BY <1>3, <2>2
<1>5. CASE stack' = t
  BY <1>1, <1>2, <1>4, <1>5, SentMore, OneChanges
<1>6. CASE stack' = Append([t EXCEPT ![Top].pane = "main"], Tabs)
  <2>1. PICK u : u = [t EXCEPT ![Top].pane = "main"]
    OBVIOUS
  <2>2. Shaped(u, slot) /\ Others(t, u, Top) /\ u[Top].busy = t[Top].busy
    <3>1. Shaped(t, slot) /\ Top \in 1..Len(t) /\ t[Top].screen \in {"login", "register"}
          /\ "main" \in Panes(t[Top].screen)
      BY <1>1, <1>2, <1>4 DEF Panes, Others
    <3>2. LET v == [t EXCEPT ![Top].pane = "main"]
          IN  /\ Shaped(v, slot) /\ Others(t, v, Top)
              /\ v[Top].busy = t[Top].busy /\ v[Top].pane = "main"
              /\ t[Top].screen = "login" => v[Top].appearing = t[Top].appearing
      BY <3>1, SetPane
    <3> QED
      BY <2>1, <3>2
  <2>3. Tabs \in Screen /\ Tabs.screen = "tabs"
    BY EmptySeq DEF Tabs, Screen, TabsScreen
  <2>4. /\ Len(stack') = Top + 1 /\ stack'[Top + 1] = Tabs
        /\ \A j \in 1..Top : stack'[j] = u[j]
    <3>1. u \in Seq(Screen) /\ Len(u) = Top
      BY <1>2, <1>4, <2>2 DEF Shaped, Stack, Others
    <3> QED
      BY <1>6, <2>1, <2>3, <3>1, AppendProperties
  <2>5. ASSUME NEW i \in 1..Len(stack'), stack'[i].screen \in {"login", "register"}
        PROVE  Stays(i)
    <3>1. i \in 1..Top
      BY <1>2, <1>5, <2>3, <2>4, <2>5
    <3>2. stack'[i].screen = stack[i].screen /\ stack'[i].busy = stack[i].busy
      BY <1>2, <1>4, <2>2, <2>4, <3>1 DEF Others
    <3> QED
      BY <1>1, <3>1, <3>2 DEF Stays
  <2> QED
    BY <1>1, <2>5, SentMore, Carried
<1> QED
  BY <1>1, <1>3, <1>5, <1>6

LEMMA OpenRegistrationBusy ==
    ASSUME NEW L, Strong, OpenRegistration
    PROVE  Answerable(L)'
<1>1. /\ stack[Top].screen = "login" /\ stack' = Append(stack, Register)
      /\ slot' = [slot EXCEPT !.showChecked = Place(Top + 1, 0),
                              !.showAlertDelegate = Place(Top + 1, 0)]
  BY DEF OpenRegistration, OnLogin
<1>2. Top \in Nat /\ Top = Len(stack) /\ Shaped(stack, slot) /\ slot \in Slots
  BY RegisterOnTop DEF Strong, Shaped, Slotted
<1>3. /\ Register \in Screen /\ Register.screen = "register" /\ ~ Register.busy
  BY DEF Register, Screen, RegisterScreen
<1>4. /\ Len(stack') = Top + 1 /\ stack'[Top + 1] = Register
      /\ \A j \in 1..Top : stack'[j] = stack[j]
  BY <1>1, <1>2, <1>3, AppendProperties DEF Shaped, Stack
<1>5. slot'.showChecked = Place(Top + 1, 0) /\ slot'.showAlertDelegate = Place(Top + 1, 0)
  BY <1>1, <1>2 DEF Slots
<1>6. ASSUME NEW i \in 1..Top
      PROVE  stack'[i].screen # "register" /\ slot'.showChecked # Place(i, 0)
  <2>1. stack[i].screen # "register"
    BY <1>1, RegisterOnTop
  <2>2. i # Top + 1
    BY <1>2
  <2> QED
    BY <1>4, <1>5, <2>1, <2>2 DEF Place
<1>7. \A i \in 1..Len(stack') : i \in 1..Top \/ i = Top + 1
  BY <1>2, <1>4
<1>8. Top' = Len(stack')
  BY DEF Top
<1> QED
  BY <1>3, <1>4, <1>5, <1>6, <1>7, <1>8 DEF Answerable

LEMMA RegisterBackBusy ==
    ASSUME NEW L, Strong, Answerable(L), RegisterBack
    PROVE  Answerable(L)'
<1>1. stack[Top].screen = "register" /\ UNCHANGED pending
  BY DEF RegisterBack, OnRegister
<1>2. CASE Show("phone") /\ UNCHANGED slot
  <2>1. "phone" \in Panes(stack[Top].screen)
    BY <1>1 DEF Panes
  <2> QED
    BY <1>1, <1>2, <2>1, ShowBusy
<1>3. CASE EndRegistration
  BY <1>1, <1>3, EndRegistrationBusy
<1> QED
  BY <1>2, <1>3 DEF RegisterBack

LEMMA AddUserInfoBusy ==
    ASSUME NEW L, Strong, Answerable(L), AddUserInfo
    PROVE  Answerable(L)'
BY EndRegistrationBusy DEF AddUserInfo, OnRegister

LEMMA OpenAccountTabBusy ==
    ASSUME NEW L, Strong, Answerable(L), OpenAccountTab
    PROVE  Answerable(L)'
<1>1. /\ stack[Top].screen = "tabs" /\ stack' = [stack EXCEPT ![Top].opened = TRUE]
      /\ slot' = [slot EXCEPT !.accountDelegate = Place(Top, 0)] /\ UNCHANGED pending
  BY DEF OpenAccountTab
<1>2. Top \in 1..Top /\ Top \in 1..Len(stack) /\ Shaped(stack, slot) /\ slot \in Slots
  BY RegisterOnTop DEF Strong, Shaped, Slotted
<1>3. Others(stack, stack', Top)
  <2>1. LET t == [stack EXCEPT ![Top].opened = TRUE]
        IN  Shaped(t, slot) /\ Others(stack, t, Top) /\ t[Top].opened
    BY <1>1, <1>2, SetOpened
  <2> QED
    BY <1>1, <2>1
<1>4. /\ slot'.showChecked = slot.showChecked
      /\ slot'.showAlertDelegate = slot.showAlertDelegate
  BY <1>1, <1>2 DEF Slots
<1> QED
  BY <1>1, <1>2, <1>3, <1>4, SentMore, OneChanges

LEMMA ExitBusy ==
    ASSUME NEW L, Strong, Answerable(L), Exit
    PROVE  Answerable(L)'
<1>1. stack[Top].screen = "tabs" /\ PresentLogin(Top) /\ UNCHANGED pending
  BY DEF Exit, OnAccount
<1>2. PICK l : l = Top
  OBVIOUS
<1>3. l \in Nat /\ l \in 1..Top /\ stack[l].screen = "tabs" /\ PresentLogin(l)
  BY <1>1, <1>2, RegisterOnTop
<1> QED
  BY <1>1, <1>3, SentMore, PresentLoginBusy

LEMMA OpenBusy ==
    ASSUME NEW L, Strong, Answerable(L), (\E row \in {"phone", "email"} : OpenChange(row)) \/ OpenDelete
    PROVE  Answerable(L)'
<1>1. /\ stack[Top].screen = "tabs" /\ UNCHANGED pending
      /\ \E x \in PushedScreen : Push(Top, x)
      /\ \/ slot' = [slot EXCEPT !.showChecked = Pushed(Top), !.showAlertDelegate = Pushed(Top)]
         \/ slot' = [slot EXCEPT !.accountDelegateForConfirmation = Pushed(Top),
                                 !.showAlertDelegate = Pushed(Top)]
  <2>1. CASE OpenDelete
    <3>1. Sheet(TRUE) \in PushedScreen
      BY DEF Sheet, PushedScreen
    <3> QED
      BY <2>1, <3>1 DEF OpenDelete, OnAccount
  <2>2. ASSUME NEW row \in {"phone", "email"}, OpenChange(row)
        PROVE  <1>1!:
    <3>1. Change(row) \in PushedScreen
      BY DEF Change, PushedScreen
    <3> QED
      BY <2>2, <3>1 DEF OpenChange, OnAccount
  <2> QED
    BY <2>1, <2>2
<1>2. PICK x \in PushedScreen : Push(Top, x)
  BY <1>1
<1>3. PICK l : l = Top
  OBVIOUS
<1>4. /\ l \in 1..Top /\ stack[l].screen = "tabs" /\ Push(l, x)
      /\ slot'.showChecked \in {slot.showChecked, Pushed(l)}
  BY <1>1, <1>2, <1>3, RegisterOnTop DEF Strong, Shaped, Slotted, Slots
<1>5. \A i \in 1..Top : stack[i].screen # "register"
  BY <1>1, RegisterOnTop
<1> QED
  BY <1>1, <1>4, <1>5, SentMore, PushBusy

LEMMA BackBusy ==
    ASSUME NEW L, Strong, Answerable(L), Back
    PROVE  Answerable(L)'
<1>1. /\ stack[Top].screen = "tabs" /\ Depth(Top) # 0 /\ PopTo(Top, Depth(Top) - 1)
      /\ UNCHANGED pending
  BY DEF Back, OnAccount
<1>2. Top \in 1..Top /\ Top \in 1..Len(stack) /\ Depth(Top) = Len(stack[Top].pushed)
  BY <1>1, RegisterOnTop DEF Depth
<1>3. Len(stack[Top].pushed) \in Nat
  BY <1>1, <1>2, PushedLength DEF Strong, Shaped
<1>4. PICK l, n : l = Top /\ n = Depth(Top) - 1
  OBVIOUS
<1>5. l \in 1..Top /\ stack[l].screen = "tabs" /\ n \in Nat /\ n <= Len(stack[l].pushed) /\ PopTo(l, n)
  BY <1>1, <1>2, <1>3, <1>4
<1> QED
  BY <1>1, <1>5, SentMore, PopToBusy

\* The account screen, or what is pushed on it, asks for something, or not.
LEMMA NextBusy ==
    ASSUME NEW L, Strong, Answerable(L), ChangeNext \/ NewNext \/ SheetNext
    PROVE  Answerable(L)'
<1>1. slot' = slot /\ pending \subseteq pending'
  BY DEF ChangeNext, NewNext, SheetNext, Send, SendVerified
<1>2. CASE UNCHANGED stack
  BY <1>1, <1>2, SentMore, NothingChanges
<1>3. CASE stack[Top].screen = "tabs" /\ SecondThing
  <2>1. Top \in 1..Top /\ Top = Len(stack)
    BY RegisterOnTop
  <2>2. \A j \in 1..Top : stack'[j].screen = stack[j].screen /\ (j # Top => stack'[j] = stack[j])
    <3>1. stack \in Seq(Screen)
      BY DEF Strong, Shaped, Stack
    <3>2. stack[Top] \in TabsScreen
      BY <1>3, <2>1, PushedLength DEF Strong, Shaped
    <3> QED
      BY <1>3, <2>1, <3>1, <3>2 DEF SecondThing, TabsScreen
  <2>3. Len(stack') = Top
    BY <1>3, <2>1 DEF SecondThing
  <2>4. Others(stack, stack', Top)
    BY <2>1, <2>2, <2>3 DEF Others
  <2> QED
    BY <1>1, <1>3, <2>1, <2>4, SentMore, OneChanges
<1> QED
  BY <1>2, <1>3 DEF ChangeNext, NewNext, SheetNext, OnPushed, OnAccount

\* What the service takes is still to be answered.
LEMMA ServeBusy ==
    ASSUME NEW L, Strong, Answerable(L), NEW r \in pending, Serve(r)
    PROVE  Answerable(L)'
<1>1. UNCHANGED <<stack, slot>>
  BY DEF Serve
<1>2. PICK w : Answered(r, w) /\ w.kind = r.kind
  <2>1. r \in Request
    BY DEF Strong, Plain
  <2>2. CASE ServeCheck(r)
    <3>1. PICK u : Answered(r, [r EXCEPT !.user = u, !.result = "ok"])
      BY <2>2 DEF ServeCheck, SignInAs
    <3>2. [r EXCEPT !.user = u, !.result = "ok"].kind = r.kind
      BY <2>1 DEF Request
    <3> QED
      BY <3>1, <3>2
  <2>3. CASE ServeLive(r) \/ ServeAccount(r)
    <3>1. Answered(r, [r EXCEPT !.result = "ok"])
      BY <2>3 DEF ServeLive, ServeAccount
    <3>2. [r EXCEPT !.result = "ok"].kind = r.kind
      BY <2>1 DEF Request
    <3> QED
      BY <3>1, <3>2
  <2> QED
    BY <2>2, <2>3 DEF Serve
<1>3. w \in pending' /\ pending \ {r} \subseteq pending'
  BY <1>2 DEF Answered
<1>4. StillAsked(LoginAsks) /\ RegistrationAsks
  BY <1>2, <1>3 DEF RegistrationAsks, StillAsked
<1> QED
  BY <1>1, <1>4, NothingChanges

\* The screen that gets an answer is enabled.
LEMMA OneEnabled ==
    ASSUME NEW L, Strong, Answerable(L), NEW l \in 1..Top, stack[l].screen \in {"login", "register"},
           Others(stack, stack', l), ~ stack'[l].busy, UNCHANGED slot,
           \/ slot.showChecked = Place(l, 0)
           \/ stack[l].screen = "login" /\ StillAsked(RegisterAsks)
           \/ stack[l].screen = "register" /\ StillAsked(LoginAsks)
    PROVE  Answerable(L)'
<1>1. Top = Len(stack) /\ Len(stack') = Top /\ Top' = Top /\ Stack(stack)
  BY RegisterOnTop DEF Others, Top, Strong, Shaped
<1>2. \A i \in 1..Top : stack'[i].screen = stack[i].screen /\ (i # l => stack'[i] = stack[i])
  BY <1>1 DEF Others
<1>3. ASSUME NEW i \in 1..Top, stack'[i].screen = "login", stack'[i].busy,
             slot'.showChecked = Place(i, 0)
      PROVE  \E r \in pending' : r.kind \in LoginAsks
  <2>1. i # l /\ stack[i].screen = "login" /\ stack[i].busy /\ slot.showChecked = Place(i, 0)
    BY <1>2, <1>3
  <2>2. stack[l].screen # "login"
    BY <1>1, <2>1 DEF Stack
  <2>3. StillAsked(LoginAsks)
    BY <2>1, <2>2 DEF Place
  <2>4. PICK r \in pending : r.kind \in LoginAsks
    BY <2>1 DEF Answerable
  <2> QED
    BY <2>3, <2>4 DEF StillAsked
<1>4. ASSUME NEW i \in 1..Top, stack'[i].screen = "register"
      PROVE  /\ slot'.showChecked = Place(i, 0) /\ slot'.showAlertDelegate = Place(i, 0)
             /\ stack'[i].busy => i \in L \/ \E r \in pending' : r.kind \in RegisterAsks
  <2>1. /\ stack[i].screen = "register" /\ i = Top
        /\ slot.showChecked = Place(i, 0) /\ slot.showAlertDelegate = Place(i, 0)
    BY <1>2, <1>4, RegisterOnTop DEF Answerable
  <2>2. ASSUME stack'[i].busy, i \notin L
        PROVE  \E r \in pending' : r.kind \in RegisterAsks
    <3>1. i # l /\ stack[i].busy
      BY <1>2, <2>2
    <3>2. stack[l].screen # "register"
      BY <2>1, <3>1, RegisterOnTop
    <3>3. StillAsked(RegisterAsks)
      BY <2>1, <3>1, <3>2 DEF Place
    <3>4. PICK r \in pending : r.kind \in RegisterAsks
      BY <2>1, <2>2, <3>1 DEF Answerable
    <3> QED
      BY <3>3, <3>4 DEF StillAsked
  <2> QED
    BY <2>1, <2>2
<1> QED
  BY <1>1, <1>3, <1>4 DEF Answerable

\* The answers go elsewhere: no registration is there, and no login waits.
LEMMA OthersAnswered ==
    ASSUME NEW L, Strong, Answerable(L), ScreenOf(slot.showChecked) \notin {"login", "register"},
           Len(stack') = Top, \A i \in 1..Top : stack'[i].screen = stack[i].screen,
           \A i \in 1..Top : slot'.showChecked = Place(i, 0) => slot.showChecked = Place(i, 0)
    PROVE  Answerable(L)'
<1>1. ASSUME NEW i \in 1..Top
      PROVE  slot.showChecked = Place(i, 0) => stack[i].screen \notin {"login", "register"}
  BY DEF Place, ScreenOf, At
<1> QED
  BY <1>1, NoneBusy DEF Answerable

\* Where showChecked is a login or registration screen.
LEMMA CheckedPlace ==
    ASSUME Strong, ScreenOf(slot.showChecked) \in {"login", "register"}
    PROVE  \E l \in 1..Top : /\ l = slot.showChecked.level /\ slot.showChecked = Place(l, 0)
                             /\ stack[l].screen = ScreenOf(slot.showChecked)
<1>1. PICK p \in PlaceSet : p = slot.showChecked /\ (p \in Out \/ Stands(p, stack))
  BY Delegates
<1>2. p.level \in 1..Top /\ p.depth = 0 /\ stack[p.level].screen = ScreenOf(p)
  BY <1>1, ScreenPlace
<1>3. p = Place(p.level, 0)
  BY <1>1, <1>2 DEF PlaceSet, Place
<1> QED
  BY <1>1, <1>2, <1>3

LEMMA CodeReturnedBusy ==
    ASSUME NEW L, Strong, Answerable(L), NEW b \in BOOLEAN, SendCodeReturn(b)
    PROVE  Answerable(L)'
<1>1. UNCHANGED slot
  BY DEF SendCodeReturn
<1>2. ASSUME ScreenOf(slot.showChecked) \notin {"login", "register"}
      PROVE  Answerable(L)'
  BY <1>1, <1>2, OthersAnswered, RegisterOnTop DEF SendCodeReturn
<1>3. ASSUME NEW l \in 1..Top, l = slot.showChecked.level, slot.showChecked = Place(l, 0),
             stack[l].screen = ScreenOf(slot.showChecked), stack[l].screen \in {"login", "register"}
      PROVE  Answerable(L)'
  <2>1. PICK x : x = IF b /\ stack[l].pane = "phone" THEN "code" ELSE stack[l].pane
    OBVIOUS
  <2>2. x \in Panes(stack[l].screen)
    BY <1>3, <2>1, PaneOf DEF Panes
  <2>3. stack' = [Enabled(l) EXCEPT ![l].pane = x]
    BY <1>3, <2>1, EnabledPane DEF SendCodeReturn
  <2>4. Others(stack, stack', l) /\ ~ stack'[l].busy
    BY <1>3, <2>2, <2>3, EnabledShown
  <2> QED
    BY <1>1, <1>3, <2>4, OneEnabled
<1> QED
  BY <1>2, <1>3, CheckedPlace

\* showAlert, of an answer that a login screen does not wait for.
LEMMA ShowAlertBusy ==
    ASSUME NEW L, Strong, Answerable(L), ShowAlert, StillAsked(LoginAsks)
    PROVE  Answerable(L)'
<1>1. UNCHANGED slot
  BY DEF ShowAlert
<1>2. CASE ScreenOf(slot.showAlertDelegate) = "register"
  <2>1. PICK l : l = slot.showAlertDelegate.level
    OBVIOUS
  <2>2. l \in 1..Top /\ stack[l].screen = "register"
    BY <1>2, <2>1, Delegates, ScreenPlace
  <2>3. stack' = Enabled(l)
    BY <1>2, <2>1 DEF ShowAlert
  <2>4. Others(stack, stack', l) /\ ~ stack'[l].busy
    BY <2>2, <2>3, OnlyEnabled
  <2> QED
    BY <1>1, <2>2, <2>4, OneEnabled
<1>3. CASE ScreenOf(slot.showAlertDelegate) # "register"
  <2>1. ~ AtRegister
    <3>1. AtRegister => slot.showAlertDelegate = Place(Top, 0) /\ Top # 0
      BY RegisterOnTop DEF AtRegister, Answerable
    <3> QED
      BY <1>3, <3>1 DEF AtRegister, Place, ScreenOf, At
  <2>2. UNCHANGED <<stack, slot>>
    BY <1>3 DEF ShowAlert
  <2>3. RegistrationAsks
    BY <2>1, RegisterOnTop DEF RegistrationAsks, AtRegister
  <2> QED
    BY <2>2, <2>3, NothingChanges
<1> QED
  BY <1>2, <1>3

LEMMA ShowNextBusy ==
    ASSUME NEW L, Strong, Answerable(L), NEW from \in {0, 1}, NEW u, ShowNext(from, u),
           StillAsked(LoginAsks)
    PROVE  Answerable(L)'
<1>1. PICK l, p : l = slot.showAlertDelegate.level /\ p = slot.showAlertDelegate
  OBVIOUS
<1>2. CASE ScreenOf(p) = "register"
  <2>1. l \in 1..Top /\ stack[l].screen = "register"
    BY <1>1, <1>2, Delegates, ScreenPlace
  <2>2. /\ UNCHANGED slot
        /\ stack' = IF from = 1 THEN [Enabled(l) EXCEPT ![l].pane = "info"] ELSE Enabled(l)
    BY <1>1, <1>2 DEF ShowNext, Gone, GoneSheet, GoneLogin, Out, Place, ScreenOf
  <2>3. Others(stack, stack', l) /\ ~ stack'[l].busy
    <3>1. "info" \in Panes(stack[l].screen)
      BY <2>1 DEF Panes
    <3> QED
      BY <2>1, <2>2, <3>1, EnabledShown, OnlyEnabled
  <2> QED
    BY <2>1, <2>2, <2>3, OneEnabled
<1>3. ASSUME ScreenOf(p) # "register"
      PROVE  RegistrationAsks
  <2>1. AtRegister => p = Place(Top, 0) /\ Top # 0
    BY <1>1, RegisterOnTop DEF AtRegister, Answerable
  <2>2. ~ AtRegister
    BY <1>3, <2>1 DEF AtRegister, Place, ScreenOf, At
  <2> QED
    BY <2>2, RegisterOnTop DEF RegistrationAsks, AtRegister
<1>4. CASE ScreenOf(p) = "sheet"
  <2>1. l \in 1..Top /\ stack[l].screen = "tabs"
    BY <1>1, <1>4, Delegates, ScreenPlace
  <2>2. PopTo(l, 0)
    BY <1>1, <1>4 DEF ShowNext, ScreenOf, GoneSheet, Place
  <2>3. Len(stack[l].pushed) \in Nat
    BY <2>1, Tops, PushedLength DEF Strong, Shaped
  <2>4. 0 \in Nat /\ 0 <= Len(stack[l].pushed)
    BY <2>3
  <2> QED
    BY <1>3, <1>4, <2>1, <2>2, <2>4, PopToBusy
<1>5. CASE ScreenOf(p) \notin {"register", "sheet"}
  <2>1. UNCHANGED <<stack, slot>>
    BY <1>1, <1>5 DEF ShowNext
  <2> QED
    BY <1>3, <1>5, <2>1, NothingChanges
<1> QED
  BY <1>2, <1>4, <1>5

\* The login screen that has succeeded, and the tabs on it.
LEMMA LoginSucceededBusy ==
    ASSUME NEW L, Strong, Answerable(L), NEW l \in 1..Top, stack[l].screen = "login", NEW u,
           LoginSucceeded(l, u), slot.showChecked = Place(l, 0) \/ StillAsked(RegisterAsks)
    PROVE  Answerable(L)'
<1>1. /\ Top \in Nat /\ Top = Len(stack) /\ l \in 1..Len(stack)
      /\ Shaped(stack, slot) /\ Stack(stack)
  BY RegisterOnTop DEF Strong, Shaped
<1>2. PICK s, t : s = [stack EXCEPT ![l].pane = "main"] /\ t = [s EXCEPT ![l].busy = FALSE]
  OBVIOUS
<1>3. Shaped(s, slot) /\ Others(stack, s, l)
  <2>1. /\ Shaped(stack, slot) /\ l \in 1..Len(stack)
        /\ "main" \in Panes(stack[l].screen) /\ stack[l].screen \in {"login", "register"}
    BY <1>1 DEF Panes
  <2>2. LET v == [stack EXCEPT ![l].pane = "main"]
        IN  Shaped(v, slot) /\ Others(stack, v, l)
    BY <2>1, SetPane
  <2> QED
    BY <1>2, <2>2
<1>4. Shaped(t, slot) /\ Others(s, t, l) /\ t[l].busy = FALSE
  <2>1. s[l].screen \in {"login", "register"} /\ l \in 1..Len(s)
    BY <1>1, <1>3 DEF Others
  <2>2. LET v == [s EXCEPT ![l].busy = FALSE]
        IN  /\ Shaped(v, slot) /\ Others(s, v, l)
            /\ v[l].busy = FALSE /\ v[l].pane = s[l].pane
            /\ s[l].screen = "login" => v[l].appearing = s[l].appearing
    BY <1>3, <2>1, SetBusy
  <2> QED
    BY <1>2, <2>2
<1>5. Others(stack, t, l)
  BY <1>1, <1>3, <1>4 DEF Others
<1>6. stack' = (IF l = Top THEN Append(t, Tabs) ELSE t) /\ UNCHANGED slot
  BY <1>2 DEF LoginSucceeded
<1>7. CASE l # Top
  BY <1>4, <1>5, <1>6, <1>7, OneEnabled
<1>8. CASE l = Top
  <2>1. Tabs \in Screen /\ Tabs.screen = "tabs"
    BY EmptySeq DEF Tabs, Screen, TabsScreen
  <2>2. /\ Len(stack') = Top + 1 /\ stack'[Top + 1] = Tabs
        /\ \A j \in 1..Top : stack'[j] = t[j]
    <3>1. t \in Seq(Screen) /\ Len(t) = Top
      BY <1>1, <1>4, <1>5 DEF Shaped, Stack, Others
    <3> QED
      BY <1>6, <1>8, <2>1, <3>1, AppendProperties
  <2>3. ASSUME NEW i \in 1..Len(stack')
        PROVE  /\ stack'[i].screen # "register"
               /\ stack'[i].screen = "login" => ~ stack'[i].busy
    <3>1. CASE i = Top + 1
      BY <2>1, <2>2, <3>1
    <3>2. CASE i \in 1..Top
      <4>1. stack'[i] = t[i] /\ t[i].screen = stack[i].screen
        BY <1>1, <1>5, <2>2, <3>2 DEF Others
      <4>2. stack[i].screen # "register"
        BY <1>8, <3>2, RegisterOnTop
      <4>3. stack[i].screen = "login" => i = l
        BY <1>1, <3>2 DEF Stack
      <4> QED
        BY <1>4, <4>1, <4>2, <4>3
    <3> QED
      BY <1>1, <2>2, <3>1, <3>2
  <2> QED
    BY <2>3, NoneBusy
<1> QED
  BY <1>7, <1>8

LEMMA LoginCheckedBusy ==
    ASSUME NEW L, Strong, Answerable(L), NEW r, NEW b, NEW u, LoginChecked(r, b, u)
    PROVE  Answerable(L)'
<1>1. PICK l \in 1..Top : /\ l = slot.showChecked.level /\ slot.showChecked = Place(l, 0)
                          /\ stack[l].screen = "login"
  BY CheckedPlace DEF LoginChecked
<1>2. CASE LoginSucceeded(l, u)
  BY <1>1, <1>2, LoginSucceededBusy
<1>3. CASE stack' = Enabled(l) /\ UNCHANGED slot
  <2>1. Others(stack, stack', l) /\ ~ stack'[l].busy
    BY <1>1, <1>3, OnlyEnabled
  <2> QED
    BY <1>1, <1>3, <2>1, OneEnabled
<1> QED
  BY <1>1, <1>2, <1>3 DEF LoginChecked

LEMMA RegisterCheckedBusy ==
    ASSUME NEW L, Strong, Answerable(L), NEW r, NEW b, NEW u, RegisterChecked(r, b, u)
    PROVE  Answerable(L)'
<1>1. PICK l \in 1..Top : /\ l = slot.showChecked.level /\ slot.showChecked = Place(l, 0)
                          /\ stack[l].screen = "register"
  BY CheckedPlace DEF RegisterChecked
<1>2. CASE EndRegistration
  BY <1>1, <1>2, RegisterOnTop, EndRegistrationBusy
<1>3. CASE /\ stack' = [Enabled(l) EXCEPT ![l].pane = IF b THEN "email" ELSE @]
           /\ UNCHANGED slot
  <2>1. PICK x : x = IF b THEN "email" ELSE stack[l].pane
    OBVIOUS
  <2>2. x \in Panes(stack[l].screen)
    BY <1>1, <2>1, PaneOf DEF Panes
  <2>3. stack' = [Enabled(l) EXCEPT ![l].pane = x]
    BY <1>1, <1>3, <2>1, EnabledPane
  <2>4. Others(stack, stack', l) /\ ~ stack'[l].busy
    BY <1>1, <2>2, <2>3, EnabledShown
  <2> QED
    BY <1>1, <1>3, <2>4, OneEnabled
<1> QED
  BY <1>1, <1>2, <1>3 DEF RegisterChecked

LEMMA PushedCheckedBusy ==
    ASSUME NEW L, Strong, Answerable(L), NEW r, NEW b, NEW u, PushedChecked(r, b, u)
    PROVE  Answerable(L)'
<1>1. ScreenOf(slot.showChecked) \in {"change", "new", "gone"}
  BY DEF PushedChecked
<1>2. PICK l : l = slot.showChecked.level
  OBVIOUS
<1>3. ScreenOf(slot.showChecked) # "gone" => l \in 1..Top /\ stack[l].screen = "tabs"
  BY <1>1, <1>2, Delegates, ScreenPlace
<1>4. slot \in Slots /\ Top = Len(stack)
  BY RegisterOnTop DEF Strong, Shaped, Slotted
<1>5. CASE UNCHANGED <<stack, slot>>
  BY <1>1, <1>4, <1>5, OthersAnswered
<1>6. CASE ScreenOf(slot.showChecked) = "new" /\ PopTo(l, 0)
  <2>1. l \in 1..Top /\ stack[l].screen = "tabs"
    BY <1>3, <1>6
  <2>2. Len(stack[l].pushed) \in Nat
    BY <2>1, Tops, PushedLength DEF Strong, Shaped
  <2>3. Others(stack, stack', l)
    BY <1>6, <2>1, <2>2, PopToStep DEF Strong
  <2>4. Detach /\ \A i \in 1..Top : i # 0
    BY <1>6 DEF PopTo
  <2>5. \A i \in 1..Top : slot'.showChecked = Place(i, 0) => slot.showChecked = Place(i, 0)
    BY <2>4, Gones
  <2> QED
    BY <1>1, <1>4, <2>3, <2>5, OthersAnswered DEF Others
<1>7. ASSUME ScreenOf(slot.showChecked) = "change", NEW x \in PushedScreen, Push(l, x),
             slot'.showChecked \in {slot.showChecked, Pushed(l)}
      PROVE  Answerable(L)'
  <2>1. l \in 1..Top /\ stack[l].screen = "tabs"
    BY <1>3, <1>7
  <2>2. Others(stack, stack', l) /\ Pushed(l).depth # 0
    BY <1>7, <2>1, PushStep DEF Strong
  <2>3. \A i \in 1..Top : slot'.showChecked = Place(i, 0) => slot.showChecked = Place(i, 0)
    BY <1>7, <2>2 DEF Place
  <2> QED
    BY <1>1, <1>4, <2>2, <2>3, OthersAnswered DEF Others
<1>8. PICK w : w = const.updateDelete
  OBVIOUS
<1>9. Sheet(w) \in PushedScreen /\ New \in PushedScreen
  BY <1>8 DEF Strong, Plain, Sheet, New, PushedScreen
<1>10. \/ UNCHANGED <<stack, slot>>
       \/ ScreenOf(slot.showChecked) = "new" /\ PopTo(l, 0)
       \/ /\ ScreenOf(slot.showChecked) = "change"
          /\ Push(l, Sheet(w)) \/ Push(l, New)
          /\ slot'.showChecked \in {slot.showChecked, Pushed(l)}
  BY <1>2, <1>4, <1>8 DEF PushedChecked, Slots
<1> QED
  BY <1>5, <1>6, <1>7, <1>9, <1>10

\* A login screen out of sight is told.
LEMMA GoneLoginCheckedBusy ==
    ASSUME NEW L, Strong, Answerable(L), NEW r, NEW b, NEW u, GoneLoginChecked(r, b, u)
    PROVE  Answerable(L)'
<1>1. UNCHANGED <<stack, slot>> /\ ScreenOf(slot.showChecked) = "gone"
  BY DEF GoneLoginChecked, ScreenOf, GoneLogin, Place
<1>2. Top = Len(stack)
  BY RegisterOnTop
<1> QED
  BY <1>1, <1>2, OthersAnswered

LEMMA CheckingReturnBusy ==
    ASSUME NEW L, Strong, Answerable(L), NEW r, NEW b, NEW u, CheckingReturn(r, b, u)
    PROVE  Answerable(L)'
BY LoginCheckedBusy, GoneLoginCheckedBusy, RegisterCheckedBusy, PushedCheckedBusy
   DEF CheckingReturn

\* Nobody is told who is not there.
LEMMA NoLoginBusy ==
    ASSUME NEW L, Answerable(L), UNCHANGED <<stack, slot>>, StillAsked(RegisterAsks),
           \A i \in 1..Top : stack[i].screen # "login"
    PROVE  Answerable(L)'
<1>1. Top' = Top
  BY DEF Top
<1> QED
  BY <1>1 DEF Answerable, StillAsked

LEMMA LoginDoneBusy ==
    ASSUME NEW L, Strong, Answerable(L), NEW r \in pending, NEW b \in BOOLEAN, LoginDone(r, b)
    PROVE  Answerable(L)'
<1>1. StillAsked(RegisterAsks)
  <2>1. r.kind = "login" /\ pending \ {r} \subseteq pending'
    BY DEF LoginDone
  <2> QED
    BY <2>1 DEF StillAsked, RegisterAsks
<1>2. PICK l : l = slot.loginDelegate.level
  OBVIOUS
<1>3. Top = Len(stack) /\ Homes(slot, stack)
  BY RegisterOnTop DEF Strong, Shaped
<1>4. CASE l # 0
  <2>1. l \in 1..Top /\ stack[l].screen = "login"
    BY <1>2, <1>3, <1>4, Delegates, ScreenPlace DEF Homes
  <2>2. CASE LoginSucceeded(l, r.user)
    BY <1>1, <2>1, <2>2, LoginSucceededBusy
  <2>3. CASE stack' = Enabled(l) /\ UNCHANGED slot
    <3>1. Others(stack, stack', l) /\ ~ stack'[l].busy
      BY <2>1, <2>3, OnlyEnabled
    <3> QED
      BY <1>1, <2>1, <2>3, <3>1, OneEnabled
  <2> QED
    BY <1>2, <1>4, <2>2, <2>3 DEF LoginDone
<1>5. CASE l = 0
  <2>1. ASSUME NEW i \in 1..Top
        PROVE  stack[i].screen # "login"
    <3>1. Place(i, 0).level # 0
      BY DEF Place
    <3> QED
      BY <1>2, <1>3, <1>5, <3>1 DEF Homes
  <2>2. UNCHANGED <<stack, slot>>
    BY <1>2, <1>5 DEF LoginDone
  <2> QED
    BY <1>1, <2>1, <2>2, NoLoginBusy
<1> QED
  BY <1>4, <1>5

LEMMA LinkDoneBusy ==
    ASSUME NEW L, Strong, Answerable(L), NEW r \in pending, NEW b \in BOOLEAN, LinkDone(r, b)
    PROVE  Answerable(L)'
<1>1. r.kind = "link" /\ pending' = pending \ {r} /\ (ShowNext(1, None) \/ ShowAlert)
  BY DEF LinkDone
<1>2. StillAsked(LoginAsks)
  BY <1>1 DEF LinkDone, StillAsked, LoginAsks
<1> QED
  BY <1>1, <1>2, ShowNextBusy, ShowAlertBusy

LEMMA VerifiedDoneBusy ==
    ASSUME NEW L, Strong, Answerable(L), NEW r \in pending, NEW b \in BOOLEAN,
           VerifiedDone(r, b) \/ UpdateEmailDone(r, b)
    PROVE  Answerable(L)'
<1>1. CASE VerifiedDone(r, b) /\ CheckingReturn(r, TRUE, loggedIn)
  <2>1. PICK u : u = loggedIn
    OBVIOUS
  <2> QED
    BY <1>1, <2>1, CheckingReturnBusy
<1>2. CASE /\ r.kind \in {"reauth", "updatePhone", "updateEmail"} /\ pending' = pending \ {r}
           /\ \/ ShowAlert
              \/ ShowNext(0, r.user)
  <2>1. r.kind \notin {"login", "sendCode", "check", "link"} /\ pending \ {r} \subseteq pending'
    BY <1>2
  <2>2. StillAsked(LoginAsks)
    BY <2>1, AnsweredElse
  <2>3. PICK u : u = r.user
    OBVIOUS
  <2> QED
    BY <1>2, <2>2, <2>3, ShowNextBusy, ShowAlertBusy
<1> QED
  BY <1>1, <1>2 DEF VerifiedDone, UpdateEmailDone

LEMMA SignInDoneBusy ==
    ASSUME NEW L, Strong, Answerable(L), NEW r \in pending, NEW b \in BOOLEAN, SignInDone(r, b)
    PROVE  Answerable(L)'
<1>1. r.kind = "signIn" /\ pending \ {r} \subseteq pending'
  BY DEF SignInDone
<1>2. StillAsked(LoginAsks) /\ RegistrationAsks
  <2>1. r.kind \notin {"login", "sendCode", "check", "link"}
    BY <1>1
  <2> QED
    BY <1>1, <2>1, AnsweredElse
<1>3. CASE UNCHANGED <<stack, slot>>
  BY <1>2, <1>3, NothingChanges
<1>4. PICK l, p : l = slot.accountDelegateForConfirmation.level
                  /\ p = slot.accountDelegateForConfirmation
  OBVIOUS
<1>5. CASE ScreenOf(p) = "sheet" /\ PopTo(l, 0)
  <2>1. l \in 1..Top /\ stack[l].screen = "tabs"
    BY <1>4, <1>5, Delegates, ScreenPlace
  <2>2. Len(stack[l].pushed) \in Nat
    BY <2>1, Tops, PushedLength DEF Strong, Shaped
  <2>3. 0 \in Nat /\ 0 <= Len(stack[l].pushed)
    BY <2>2
  <2> QED
    BY <1>2, <1>5, <2>1, <2>3, PopToBusy
<1> QED
  BY <1>3, <1>4, <1>5 DEF SignInDone

LEMMA DeleteDoneBusy ==
    ASSUME NEW L, Strong, Answerable(L), NEW r \in pending, NEW b \in BOOLEAN, DeleteDone(r, b)
    PROVE  Answerable(L)'
<1>1. r.kind = "delete" /\ pending' = pending \ {r}
  BY DEF DeleteDone
<1>2. StillAsked(LoginAsks) /\ RegistrationAsks
  <2>1. r.kind \notin {"login", "sendCode", "check", "link"} /\ pending \ {r} \subseteq pending'
    BY <1>1
  <2> QED
    BY <2>1, AnsweredElse
<1>3. CASE UNCHANGED <<stack, slot>>
  BY <1>2, <1>3, NothingChanges
<1>4. CASE PresentLogin(slot.accountDelegate.level)
  <2>1. PICK l : l = slot.accountDelegate.level
    OBVIOUS
  <2>2. l \in Nat /\ (l # 0 => l \in 1..Top)
    BY <2>1, Delegates, ScreenPlace DEF PlaceSet
  <2>3. l # 0 => stack[l].screen = "tabs"
    BY <2>1 DEF Strong, Shaped, Homes
  <2> QED
    BY <1>2, <1>4, <2>1, <2>2, <2>3, PresentLoginBusy
<1> QED
  BY <1>3, <1>4 DEF DeleteDone

LEMMA DoneBusy ==
    ASSUME NEW L, Strong, Answerable(L), NEW r \in pending, NEW b \in BOOLEAN, Done(r, b)
    PROVE  Answerable(L)'
<1>1. CASE SendCodeDone(r, b)
  BY <1>1, CodeReturnedBusy DEF SendCodeDone
<1>2. CASE CheckDone(r, b)
  <2>1. PICK u : u = loggedIn'
    OBVIOUS
  <2>2. CheckingReturn(r, b, u)
    BY <1>2, <2>1 DEF CheckDone
  <2> QED
    BY <2>2, CheckingReturnBusy
<1>3. CASE LoadDone(r, b)
  <2>1. /\ r.kind \notin {"login", "sendCode", "check", "link"}
        /\ pending \ {r} \subseteq pending' /\ UNCHANGED <<stack, slot>>
    BY <1>3 DEF LoadDone
  <2>2. StillAsked(LoginAsks) /\ RegistrationAsks
    BY <2>1, AnsweredElse
  <2> QED
    BY <2>1, <2>2, NothingChanges
<1> QED
  BY <1>1, <1>2, <1>3, LoginDoneBusy, LinkDoneBusy, VerifiedDoneBusy, SignInDoneBusy,
     DeleteDoneBusy DEF Done

LEMMA NextBusyStep ==
    ASSUME NEW L, Strong, Answerable(L), [Next]_vars, AsksForNobody => Top \in L
    PROVE  Answerable(L)'
<1>1. CASE UNCHANGED vars
  <2>1. UNCHANGED <<stack, slot>> /\ pending \subseteq pending'
    BY <1>1 DEF vars
  <2> QED
    BY <2>1, SentMore, NothingChanges
<1>2. CASE Relaunch \/ ViewDidAppear \/ SwitchPane \/ OpenRegistration \/ RegisterBack \/ AddUserInfo
  BY <1>2, RelaunchBusy, ViewDidAppearBusy, SwitchPaneBusy, OpenRegistrationBusy,
     RegisterBackBusy, AddUserInfoBusy
<1>3. CASE \/ CheckCode \/ RegisterCheckCode \/ LinkWithCredential
           \/ \E u \in User : LogIn(u) \/ SendCode(u) \/ RegisterSendCode(u)
  BY <1>3, AskingBusy
<1>4. CASE OpenAccountTab \/ Exit \/ Back \/ ChangeNext \/ NewNext \/ SheetNext
  BY <1>4, OpenAccountTabBusy, ExitBusy, BackBusy, NextBusy
<1>5. CASE EditProfile
  <2>1. UNCHANGED <<stack, slot>> /\ pending \subseteq pending'
    BY <1>5 DEF EditProfile
  <2> QED
    BY <2>1, SentMore, NothingChanges
<1>6. CASE (\E row \in {"phone", "email"} : OpenChange(row)) \/ OpenDelete
  BY <1>6, OpenBusy
<1>7. ASSUME NEW r \in pending, Serve(r)
      PROVE  Answerable(L)'
  BY <1>7, ServeBusy
<1>8. ASSUME NEW r \in pending, Handle(r)
      PROVE  Answerable(L)'
  <2>1. PICK b \in BOOLEAN : Done(r, b)
    BY <1>8 DEF Handle
  <2> QED
    BY <2>1, DoneBusy
<1> QED
  BY <1>1, <1>2, <1>3, <1>4, <1>5, <1>6, <1>7, <1>8 DEF Next

\* Whatever the user does, and whatever is answered late: no screen in showChecked
\* that can be used, or waits for an answer, comes to wait for nothing, but the
\* registration that asks to link when nobody is signed in any more.
THEOREM ScreensAreAnswered == Spec => BusyIsAnswered
<1>1. Init => Answerable(Nat)
  BY InitBusy
<1>2. IInv /\ Answerable(Nat) /\ [Next]_vars => Answerable(Nat)'
  <2> SUFFICES ASSUME IInv, Answerable(Nat), [Next]_vars PROVE Answerable(Nat)'
    OBVIOUS
  <2>1. Strong /\ Top \in Nat
    BY RegisterOnTop DEF IInv
  <2>2. PICK L : L = Nat
    OBVIOUS
  <2>3. Answerable(L)'
    BY <2>1, <2>2, NextBusyStep
  <2> QED
    BY <2>2, <2>3
<1>3. IInv /\ Answerable(Nat) /\ [Next]_vars
         => [\A i \in DOMAIN stack' :
                Unanswered(i)' => \/ Unanswered(i)
                                  \/ authUser = None /\ i = Top /\ OnRegister({"email"})]_vars
  <2> SUFFICES ASSUME IInv, Answerable(Nat), [Next]_vars, NEW i \in DOMAIN stack', Unanswered(i)'
               PROVE  Unanswered(i) \/ (AsksForNobody /\ i = Top)
    BY DEF AsksForNobody
  <2>1. Strong /\ Stack(stack) /\ Top \in Nat
    BY RegisterOnTop DEF IInv, Strong, Shaped
  <2>2. Stack(stack')
    BY NextIInv DEF IInv, Strong, Shaped
  <2>3. i \in 1..Top'
    BY <2>2, StackTop DEF Top
  <2>4. PICK L : L = {j \in Nat : Unanswered(j) \/ (AsksForNobody /\ j = Top)}
    OBVIOUS
  <2>5. \A j \in 1..Top : j \in DOMAIN stack /\ j \in Nat
    BY <2>1, StackTop DEF Top
  <2>6. Answerable(L)
    <3>1. ASSUME NEW j \in 1..Top, stack[j].screen = "register", stack[j].busy, j \notin L
          PROVE  \E r \in pending : r.kind \in RegisterAsks
      <4>1. ~ Unanswered(j) /\ j \in DOMAIN stack
        BY <2>4, <2>5, <3>1
      <4>2. slot.showChecked = Place(j, 0)
        BY <3>1 DEF Answerable
      <4> QED
        BY <3>1, <4>1, <4>2 DEF Unanswered, RegisterAsks
    <3> QED
      BY <3>1 DEF Answerable
  <2>7. AsksForNobody => Top \in L
    BY <2>1, <2>4
  <2>8. Answerable(L)'
    BY <2>1, <2>6, <2>7, NextBusyStep
  <2>9. i \in L
    <3>1. /\ stack'[i].screen \in {"login", "register"} /\ stack'[i].busy
          /\ slot'.showChecked = Place(i, 0)
          /\ \A r \in pending' : r.kind \notin {"sendCode", "check",
                                      IF stack'[i].screen = "login" THEN "login" ELSE "link"}
      BY DEF Unanswered
    <3>2. stack'[i].screen # "login"
      BY <2>3, <2>8, <3>1 DEF Answerable, LoginAsks
    <3> QED
      BY <2>3, <2>8, <3>1, <3>2 DEF Answerable, RegisterAsks
  <2> QED
    BY <2>4, <2>9
<1> QED
  BY <1>1, <1>2, <1>3, SessionInvariant, PTL DEF Spec, BusyIsAnswered

-----------------------------------------------------------------------------
(* Who is logged in by which answer *)

\* What the service has taken is of a user who has an account by then, and keeps
\* it: for a password or a link, one that is registered.
Served ==
    \A r \in pending : r.result = "ok" =>
        /\ r.kind = "check" => status[r.user] # "free"
        /\ r.kind \in {"login", "link"} => status[r.user] \in {"live", "deleted"}

\* No account is taken back.
Kept ==
    \A u \in User :
        /\ status[u] # "free" => status'[u] # "free"
        /\ status[u] \in {"live", "deleted"} => status'[u] \in {"live", "deleted"}

LEMMA ServedKept ==
    ASSUME Strong, Served, Kept, \A r \in pending' : r \in pending \/ r.result = "sent"
    PROVE  Served'
<1>1. \A r \in pending : r.result = "ok" => r.user \in User
  BY DEF Strong, Addressed
<1> QED
  BY <1>1 DEF Served, Kept

\* The service takes a request: w is what is left of r.
LEMMA ServeServed ==
    ASSUME Strong, Served, NEW r \in pending, Serve(r)
    PROVE  Served'
<1>1. r \in Request /\ r.result = "sent" /\ status \in [User -> {"free", "half", "live", "deleted"}]
  BY DEF Serve, Strong, Plain
<1>2. ASSUME Kept, NEW w, Answered(r, w),
             w.kind = "check" => status'[w.user] # "free",
             w.kind \in {"login", "link"} => status'[w.user] \in {"live", "deleted"}
      PROVE  Served'
  <2>1. \A q \in pending : q.result = "ok" => q.user \in User
    BY DEF Strong, Addressed
  <2>2. pending' = (pending \ {r}) \cup {w}
    BY <1>2 DEF Answered
  <2> QED
    BY <1>2, <2>1, <2>2 DEF Served, Kept
<1>3. CASE ServeCheck(r)
  <2>1. PICK u \in User : SignInAs(r, u)
    BY <1>3 DEF ServeCheck, SignedIn
  <2>2. status' = [status EXCEPT ![u] = IF status[u] = "free" THEN "half" ELSE status[u]]
    BY <2>1 DEF SignInAs
  <2>3. Kept /\ status'[u] # "free"
    BY <1>1, <2>2 DEF Kept
  <2>4. PICK w : w = [r EXCEPT !.user = u, !.result = "ok"]
    OBVIOUS
  <2>5. w.kind = "check" /\ w.user = u /\ Answered(r, w)
    BY <1>1, <1>3, <2>1, <2>4 DEF ServeCheck, SignInAs, Request
  <2> QED
    BY <1>2, <2>3, <2>5
<1>4. PICK w : w = [r EXCEPT !.result = "ok"]
  OBVIOUS
<1>5. w.kind = r.kind /\ w.user = r.user
  BY <1>1, <1>4 DEF Request
<1>6. CASE ServeLive(r)
  <2>1. status' = status /\ status[r.user] = "live" /\ Answered(r, w)
    BY <1>4, <1>6 DEF ServeLive
  <2>2. Kept
    BY <2>1 DEF Kept
  <2> QED
    BY <1>2, <1>5, <2>1, <2>2
<1>7. CASE ServeAccount(r)
  <2>1. r.user \in User
    BY <1>7 DEF ServeAccount, Strong, Addressed
  <2>2. /\ Answered(r, w) /\ r.kind \in {"link", "delete"}
        /\ \/ status[r.user] = "half" /\ status' = [status EXCEPT ![r.user] = "live"]
           \/ status[r.user] = "live" /\ status' = [status EXCEPT ![r.user] = "deleted"]
    BY <1>4, <1>7 DEF ServeAccount
  <2>3. Kept /\ status'[r.user] \in {"live", "deleted"}
    BY <1>1, <2>1, <2>2 DEF Kept
  <2> QED
    BY <1>2, <1>5, <2>2, <2>3
<1> QED
  BY <1>3, <1>6, <1>7 DEF Serve

LEMMA NextServed ==
    ASSUME Strong, Served, [Next]_vars
    PROVE  Served'
<1>0. \A kind, u : Ask(kind, u).result = "sent"
  BY DEF Ask
<1>1. CASE \E r \in pending : Serve(r)
  BY <1>1, ServeServed
<1>2. ASSUME UNCHANGED status, \A r \in pending' : r \in pending \/ r.result = "sent"
      PROVE  Served'
  <2>1. Kept
    BY <1>2 DEF Kept
  <2> QED
    BY <1>2, <2>1, ServedKept
<1>3. CASE UNCHANGED vars \/ Relaunch \/ ViewDidAppear \/ SwitchPane \/ CheckCode \/ OpenRegistration
  <2>1. UNCHANGED status /\ \A r \in pending' : r \in pending \/ r.result = "sent"
    BY <1>0, <1>3 DEF vars, Relaunch, ViewDidAppear, SwitchPane, CheckCode, OpenRegistration,
       service, Send
  <2> QED
    BY <1>2, <2>1
<1>4. CASE RegisterCheckCode \/ RegisterBack \/ LinkWithCredential \/ AddUserInfo
  <2>1. UNCHANGED status /\ \A r \in pending' : r \in pending \/ r.result = "sent"
    BY <1>0, <1>4 DEF RegisterCheckCode, RegisterBack, LinkWithCredential, AddUserInfo, service, Send
  <2> QED
    BY <1>2, <2>1
<1>5. CASE OpenAccountTab \/ Exit \/ EditProfile \/ OpenDelete \/ Back
  BY <1>2, <1>5 DEF OpenAccountTab, Exit, EditProfile, OpenDelete, Back, service
<1>6. CASE ChangeNext \/ NewNext \/ SheetNext
  <2>1. UNCHANGED status /\ \A r \in pending' : r \in pending \/ r.result = "sent"
    BY <1>0, <1>6 DEF ChangeNext, NewNext, SheetNext, SendVerified, service, Send
  <2> QED
    BY <1>2, <2>1
<1>7. CASE \/ \E u \in User : LogIn(u) \/ SendCode(u) \/ RegisterSendCode(u)
           \/ \E row \in {"phone", "email"} : OpenChange(row)
  <2>1. UNCHANGED status /\ \A r \in pending' : r \in pending \/ r.result = "sent"
    BY <1>0, <1>7 DEF LogIn, SendCode, RegisterSendCode, OpenChange, service, Send
  <2> QED
    BY <1>2, <2>1
<1>8. ASSUME NEW r \in pending, Handle(r)
      PROVE  Served'
  <2>1. PICK b \in BOOLEAN : Done(r, b)
    BY <1>8 DEF Handle
  <2>2. UNCHANGED status
    BY <2>1 DEF Done, SendCodeDone, CheckDone, LoginDone, LinkDone, VerifiedDone, UpdateEmailDone,
       LoadDone, SignInDone, DeleteDone, service
  <2>3. \A q \in pending' : q \in pending \/ q.result = "sent"
    BY <2>1 DEF Done, SendCodeDone, CheckDone, LoginDone, LinkDone, VerifiedDone, UpdateEmailDone,
       LoadDone, SignInDone, DeleteDone, CheckingReturn, LoginChecked, GoneLoginChecked,
       RegisterChecked, PushedChecked, Ask
  <2> QED
    BY <1>2, <2>2, <2>3
<1> QED
  BY <1>1, <1>3, <1>4, <1>5, <1>6, <1>7, <1>8 DEF Next

\* Nothing but an answer logs in.
LEMMA LoggedInByAnswer ==
    ASSUME [Next]_vars, loggedIn' \notin {loggedIn, None}
    PROVE  \E r \in pending : /\ Due(r, TRUE)
                              /\ CheckDone(r, TRUE) \/ LoginDone(r, TRUE) \/ LinkDone(r, TRUE)
<1>1. CASE \E r \in pending : Handle(r)
  <2>1. PICK r \in pending, b \in BOOLEAN : Due(r, b) /\ Done(r, b)
    BY <1>1 DEF Handle, Due
  <2>2. CheckDone(r, b) \/ LoginDone(r, b) \/ LinkDone(r, b)
    BY <2>1 DEF Done, SendCodeDone, VerifiedDone, UpdateEmailDone, LoadDone, SignInDone,
       DeleteDone, kept
  <2>3. b = TRUE
    BY <2>2 DEF CheckDone, LoginDone, LinkDone
  <2> QED
    BY <2>1, <2>2, <2>3
<1>2. CASE UNCHANGED vars \/ Relaunch \/ ViewDidAppear \/ SwitchPane \/ CheckCode \/ OpenRegistration
  BY <1>2 DEF vars, Relaunch, ViewDidAppear, SwitchPane, CheckCode, OpenRegistration, kept
<1>3. CASE RegisterCheckCode \/ RegisterBack \/ LinkWithCredential \/ AddUserInfo
  BY <1>3 DEF RegisterCheckCode, RegisterBack, LinkWithCredential, AddUserInfo, kept
<1>4. CASE OpenAccountTab \/ Exit \/ EditProfile \/ OpenDelete \/ Back \/ ChangeNext \/ NewNext \/ SheetNext
  BY <1>4 DEF OpenAccountTab, Exit, EditProfile, OpenDelete, Back, ChangeNext, NewNext, SheetNext, kept
<1>5. CASE \/ \E u \in User : LogIn(u) \/ SendCode(u) \/ RegisterSendCode(u)
           \/ \E row \in {"phone", "email"} : OpenChange(row)
  BY <1>5 DEF LogIn, SendCode, RegisterSendCode, OpenChange, kept
<1>6. CASE \E r \in pending : Serve(r)
  BY <1>6 DEF Serve
<1> QED
  BY <1>1, <1>2, <1>3, <1>4, <1>5, <1>6 DEF Next

\* However late the answers come: only the answer to a link logs in a user whose
\* registration is not complete, and then it is the link of another one.
THEOREM OnlyOvertakenLinks == Spec => RegisteredUnlessOvertaken
<1>1. Init => Served
  BY DEF Init, Served
<1>2. IInv /\ Served /\ [Next]_vars => Served'
  BY NextServed DEF IInv
<1>3. IInv /\ Served /\ [Next]_vars =>
        [loggedIn' \notin {loggedIn, None} /\ status[loggedIn'] \notin {"live", "deleted"}
           => \E r \in pending \ pending' : r.kind = "link" /\ r.user # loggedIn']_vars
  <2> SUFFICES ASSUME Strong, Served, [Next]_vars, loggedIn' \notin {loggedIn, None},
                      status[loggedIn'] \notin {"live", "deleted"}
               PROVE  \E r \in pending \ pending' : r.kind = "link" /\ r.user # loggedIn'
    BY DEF IInv
  <2>1. PICK r \in pending : /\ Due(r, TRUE)
                             /\ CheckDone(r, TRUE) \/ LoginDone(r, TRUE) \/ LinkDone(r, TRUE)
    BY LoggedInByAnswer
  <2>2. r.result = "ok" /\ r.user \in User
    BY <2>1 DEF Due, CheckDone, LoginDone, LinkDone, Strong, Addressed
  <2>3. status[r.user] \in {"free", "half", "live", "deleted"}
    BY <2>2 DEF Strong, Plain
  <2>4. ~ CheckDone(r, TRUE)
    BY <2>2, <2>3 DEF CheckDone, Served
  <2>5. ~ LoginDone(r, TRUE)
    BY <2>2 DEF LoginDone, Served
  <2>6. r.kind = "link" /\ pending' = pending \ {r} /\ loggedIn' = authUser
    BY <2>1, <2>4, <2>5 DEF LinkDone
  <2>7. r.user # loggedIn'
    BY <2>2, <2>6 DEF Served
  <2> QED
    BY <2>6, <2>7
<1> QED
  BY <1>1, <1>2, <1>3, SessionInvariant, PTL DEF Spec, RegisteredUnlessOvertaken

=============================================================================
