-------------------------- MODULE ChatRoom_proofs --------------------------
(***************************************************************************)
(* Proofs about ChatRoom, for any devices, rooms and bounds.               *)
(***************************************************************************)
EXTENDS ChatRoom, SequenceTheorems, TLAPS

\* A function on 1..n with values in S is a sequence over S.
LEMMA FunctionIsSeq ==
    ASSUME NEW S, NEW n \in Nat, NEW f \in [1..n -> S]
    PROVE  f \in Seq(S) /\ Len(f) = n
  OBVIOUS

\* What a device reads is a document or nothing.
LEMMA ReadType ==
    ASSUME TypeOK, NEW d \in Device, NEW r \in Room
    PROVE  Read(d, r) \in Document \cup {None}
<1>1. outbox[d] \in Seq(Write) /\ rooms[r] \in Document \cup {None}
  BY DEF TypeOK
<1>2. CASE \E i \in DOMAIN outbox[d] : IsLatestWrite(d, r, i)
  <2> DEFINE i == CHOOSE i \in DOMAIN outbox[d] : IsLatestWrite(d, r, i)
  <2>1. i \in DOMAIN outbox[d]
    BY <1>2
  <2>2. i \in 1..Len(outbox[d])
    BY <2>1, <1>1, LenProperties
  <2>3. outbox[d][i] \in Write
    BY <2>2, <1>1, ElementOfSeq
  <2> QED
    BY <2>3, <1>2 DEF Read, Write
<1>3. CASE ~ \E i \in DOMAIN outbox[d] : IsLatestWrite(d, r, i)
  BY <1>1, <1>3 DEF Read
<1> QED
  BY <1>2, <1>3

LEMMA InitTypeOK == Init => TypeOK
<1> SUFFICES ASSUME Init PROVE TypeOK
  OBVIOUS
<1>1. << >> \in Document /\ << >> \in Seq(Write) /\ << >> \in Seq(Callback)
  BY DEF Document
<1> QED
  BY <1>1 DEF Init, TypeOK

LEMMA CommitTypeOK ==
    ASSUME TypeOK, NEW d \in Device, Commit(d) PROVE TypeOK'
<1> DEFINE w == Head(outbox[d])
<1>1. outbox[d] \in Seq(Write) /\ outbox[d] # << >>
  BY DEF TypeOK, Commit
<1>2. w \in Write /\ Tail(outbox[d]) \in Seq(Write)
  BY <1>1, HeadTailProperties
<1>3. rooms' = [rooms EXCEPT ![w.room] = w.doc]
  BY DEF Commit
<1>4. rooms' \in [Room -> Document \cup {None}]
  BY <1>2, <1>3 DEF TypeOK, Write
<1>6. outbox' \in [Device -> Seq(Write)]
  BY <1>2 DEF TypeOK, Commit
<1> QED
  BY <1>4, <1>6 DEF TypeOK, Commit, messenger, view

LEMMA RunCallbackTypeOK ==
    ASSUME TypeOK, NEW d \in Device, RunCallback(d) PROVE TypeOK'
<1>1. mainQueue[d] \in Seq(Callback) /\ mainQueue[d] # << >>
  BY DEF TypeOK, RunCallback
<1>2. Head(mainQueue[d]) \in Callback /\ Tail(mainQueue[d]) \in Seq(Callback)
  BY <1>1, HeadTailProperties
<1>3. currentChatRoom' \in [Device -> Document \cup {None}]
  BY <1>2 DEF TypeOK, RunCallback, Callback
<1>4. mainQueue' \in [Device -> Seq(Callback)]
  BY <1>2 DEF TypeOK, RunCallback
<1> QED
  BY <1>3, <1>4 DEF TypeOK, RunCallback, view

LEMMA AnswerLoadTypeOK ==
    ASSUME TypeOK, NEW d \in Device, NEW r \in Room, AnswerLoad(d, r)
    PROVE  TypeOK'
<1>1. loads' \in [Device -> [Room -> Nat]]
  BY DEF TypeOK, AnswerLoad
<1>2. mainQueue' \in [Device -> Seq(Callback)]
  <2>1. CASE Read(d, r) = None
    BY <2>1 DEF TypeOK, AnswerLoad
  <2>2. CASE Read(d, r) # None
    <3> DEFINE c == [via |-> "load", room |-> r, doc |-> Read(d, r)]
    <3>1. c \in Callback
      BY <2>2, ReadType DEF Callback
    <3>2. Append(mainQueue[d], c) \in Seq(Callback)
      BY <3>1, AppendProperties DEF TypeOK
    <3>3. mainQueue' = [mainQueue EXCEPT ![d] = Append(mainQueue[d], c)]
      BY <2>2 DEF AnswerLoad
    <3> QED
      BY <3>2, <3>3 DEF TypeOK
  <2> QED
    BY <2>1, <2>2
<1> QED
  BY <1>1, <1>2 DEF TypeOK, AnswerLoad, messenger, view

LEMMA SnapshotTypeOK ==
    ASSUME TypeOK, NEW d \in Device, NEW r \in Room, Snapshot(d, r)
    PROVE  TypeOK'
<1>1. shown' \in [Device -> [Room -> Document \cup {None}]]
  BY ReadType DEF TypeOK, Snapshot
<1>2. mainQueue' \in [Device -> Seq(Callback)]
  <2>1. CASE Read(d, r) = None
    BY <2>1 DEF TypeOK, Snapshot
  <2>2. CASE Read(d, r) # None
    <3> DEFINE c == [via |-> "listener", room |-> r, doc |-> Read(d, r)]
    <3>1. c \in Callback
      BY <2>2, ReadType DEF Callback
    <3>2. Append(mainQueue[d], c) \in Seq(Callback)
      BY <3>1, AppendProperties DEF TypeOK
    <3>3. mainQueue' = [mainQueue EXCEPT ![d] = Append(mainQueue[d], c)]
      BY <2>2 DEF Snapshot
    <3> QED
      BY <3>2, <3>3 DEF TypeOK
  <2> QED
    BY <2>1, <2>2
<1> QED
  BY <1>1, <1>2 DEF TypeOK, Snapshot, messenger, view

\* Removing the registration leaves the queue a queue.
LEMMA RemoveListenerType ==
    ASSUME TypeOK, NEW d \in Device, RemoveListener(d)
    PROVE  /\ mainQueue' \in [Device -> Seq(Callback)]
           /\ shown' \in [Device -> [Room -> Document \cup {None}]]
<1> DEFINE r == listenerChat[d]
<1> DEFINE muted(c) == IF c.via = "listener" /\ c.room = r
                       THEN [via |-> "muted", room |-> r, doc |-> << >>] ELSE c
<1> DEFINE q == mainQueue[d]
<1> DEFINE mq == [i \in DOMAIN q |-> muted(q[i])]
<1>1. CASE r = None \/ r \in leaked[d]
  BY <1>1 DEF RemoveListener, TypeOK
<1>2. CASE r # None /\ r \notin leaked[d]
  <2>1. r \in Room
    BY <1>2 DEF TypeOK
  <2>2. q \in Seq(Callback)
    BY DEF TypeOK
  <2>3. Len(q) \in Nat /\ DOMAIN q = 1..Len(q)
    BY <2>2, LenProperties
  <2>4. << >> \in Document
    BY DEF Document
  <2>5. [via |-> "muted", room |-> r, doc |-> << >>] \in Callback
    BY <2>1, <2>4 DEF Callback
  <2>6. \A i \in 1..Len(q) : q[i] \in Callback
    BY <2>2, ElementOfSeq
  <2>7. \A i \in 1..Len(q) : muted(q[i]) \in Callback
    BY <2>5, <2>6
  <2>8. mq \in [1..Len(q) -> Callback]
    BY <2>3, <2>7
  <2>9. mq \in Seq(Callback)
    BY <2>3, <2>8, FunctionIsSeq
  <2>10. /\ mainQueue' = [mainQueue EXCEPT ![d] = mq]
         /\ shown' = [shown EXCEPT ![d][r] = None]
    BY <1>2 DEF RemoveListener
  <2>11. mainQueue' \in [Device -> Seq(Callback)]
    BY <2>9, <2>10 DEF TypeOK
  <2>12. shown' \in [Device -> [Room -> Document \cup {None}]]
    BY <2>1, <2>10 DEF TypeOK
  <2> QED
    BY <2>11, <2>12
<1> QED
  BY <1>1, <1>2

LEMMA CloseType ==
    ASSUME TypeOK, NEW d \in Device, CloseDiscussRoom(d)
    PROVE  /\ mainQueue' \in [Device -> Seq(Callback)]
           /\ shown' \in [Device -> [Room -> Document \cup {None}]]
           /\ idDiscussion' \in [Device -> Room \cup {None}]
           /\ currentChatRoom' \in [Device -> Document \cup {None}]
           /\ listenerChat' \in [Device -> Room \cup {None}]
           /\ leaked' \in [Device -> SUBSET Room]
<1>1. RemoveListener(d)
  BY DEF CloseDiscussRoom
<1> QED
  BY <1>1, RemoveListenerType DEF TypeOK, CloseDiscussRoom

LEMMA OpenTypeOK ==
    ASSUME TypeOK, NEW d \in Device, NEW r \in Room, Open(d, r)
    PROVE  TypeOK'
<1>1. loads' \in [Device -> [Room -> Nat]]
  BY DEF TypeOK, Open, LoadsPerEntry
<1>2. shown' \in [Device -> [Room -> Document \cup {None}]]
  BY DEF TypeOK, Open
<1>3. leaked' \in [Device -> SUBSET Room]
  BY DEF TypeOK, Open
<1>4. /\ screen' \in [Device -> Room \cup {None}]
      /\ idDiscussion' \in [Device -> Room \cup {None}]
      /\ listenerChat' \in [Device -> Room \cup {None}]
      /\ currentChatRoom' \in [Device -> Document \cup {None}]
  BY DEF TypeOK, Open
<1> QED
  BY <1>1, <1>2, <1>3, <1>4 DEF TypeOK, Open

\* The room a device sends to is the one on its screen.
OnScreenIsOpen == \A d \in Device : screen[d] \in {None, idDiscussion[d]}

\* What sendMessage makes: one copy, extended by one message.
LEMMA SendMakes ==
    ASSUME TypeOK, OnScreenIsOpen, NEW d \in Device, screen[d] # None
    PROVE  /\ idDiscussion[d] \in Room
           /\ Held(d) \in Document
           /\ NextMessage(d) \in Message
           /\ Append(Held(d), NextMessage(d)) \in Document
<1>1. idDiscussion[d] \in Room
  BY DEF TypeOK, OnScreenIsOpen
<1>2. Held(d) \in Document
  <2>1. << >> \in Document
    BY DEF Document
  <2> QED
    BY <2>1 DEF Held, TypeOK
<1>3. NextMessage(d) \in Message
  BY <1>1 DEF NextMessage, Message, TypeOK
<1>4. Append(Held(d), NextMessage(d)) \in Document
  BY <1>2, <1>3, AppendProperties DEF Document
<1> QED
  BY <1>1, <1>2, <1>3, <1>4

LEMMA SendMessageTypeOK ==
    ASSUME TypeOK, OnScreenIsOpen, NEW d \in Device, SendMessage(d)
    PROVE  TypeOK'
<1> DEFINE copy == Append(Held(d), NextMessage(d))
<1> DEFINE w == [room |-> idDiscussion[d], doc |-> copy]
<1>1. screen[d] # None
  BY DEF SendMessage
<1>2. idDiscussion[d] \in Room /\ copy \in Document
  BY <1>1, SendMakes
<1>3. /\ currentChatRoom' = [currentChatRoom EXCEPT ![d] = copy]
      /\ outbox' = [outbox EXCEPT ![d] = Append(outbox[d], w)]
      /\ sent' = [sent EXCEPT ![d] = sent[d] + 1]
      /\ checking' = [checking EXCEPT ![d] = TRUE]
  BY DEF SendMessage, AppendAndWrite
<1> HIDE DEF copy
<1>4. w \in Write
  BY <1>2 DEF Write
<1>5. Append(outbox[d], w) \in Seq(Write)
  BY <1>4, AppendProperties DEF TypeOK
<1>6. outbox' \in [Device -> Seq(Write)]
  BY <1>3, <1>5 DEF TypeOK
<1>7. /\ currentChatRoom' \in [Device -> Document \cup {None}]
      /\ sent' \in [Device -> Nat]
      /\ checking' \in [Device -> BOOLEAN]
  BY <1>2, <1>3 DEF TypeOK
<1> QED
  BY <1>6, <1>7 DEF TypeOK, SendMessage

LEMMA PopScreenType ==
    ASSUME TypeOK, NEW d \in Device, PopScreen(d)
    PROVE  /\ screen' \in [Device -> Room \cup {None}]
           /\ checking' \in [Device -> BOOLEAN]
           /\ popped' \in [Device -> Nat]
  BY DEF TypeOK, PopScreen

LEMMA BackTypeOK ==
    ASSUME TypeOK, NEW d \in Device, Back(d) PROVE TypeOK'
<1>1. PopScreen(d)
  BY DEF Back
<1>2. CASE checking[d]
  BY <1>1, <1>2, PopScreenType DEF TypeOK, Back, messenger
<1>3. CASE ~ checking[d]
  <2>1. CloseDiscussRoom(d)
    BY <1>3 DEF Back
  <2> QED
    BY <1>1, <2>1, PopScreenType, CloseType DEF TypeOK, Back
<1> QED
  BY <1>2, <1>3

LEMMA CheckAnsweredTypeOK ==
    ASSUME TypeOK, NEW d \in Device, CheckAnswered(d) PROVE TypeOK'
<1>1. CASE popped[d] > 0
  <2>1. /\ CloseDiscussRoom(d)
        /\ popped' = [popped EXCEPT ![d] = popped[d] - 1]
        /\ UNCHANGED checking
    BY <1>1 DEF CheckAnswered
  <2>2. popped' \in [Device -> Nat]
    BY <1>1, <2>1 DEF TypeOK
  <2> QED
    BY <2>1, <2>2, CloseType DEF TypeOK, CheckAnswered
<1>2. CASE ~ (popped[d] > 0)
  BY <1>2 DEF TypeOK, CheckAnswered, messenger
<1> QED
  BY <1>1, <1>2

LEMMA DeleteChatTypeOK ==
    ASSUME TypeOK, NEW d \in Device, NEW r \in Room, DeleteChat(d, r)
    PROVE  TypeOK'
<1> DEFINE w == [room |-> r, doc |-> None]
<1>1. w \in Write
  BY DEF TypeOK, DeleteChat, Write
<1>2. Append(outbox[d], w) \in Seq(Write)
  BY <1>1, AppendProperties DEF TypeOK
<1>3. outbox' = [outbox EXCEPT ![d] = Append(outbox[d], w)]
  BY DEF DeleteChat
<1>4. outbox' \in [Device -> Seq(Write)]
  BY <1>2, <1>3 DEF TypeOK
<1>6. CloseDiscussRoom(d) /\ PopScreen(d)
  BY DEF DeleteChat
<1> QED
  BY <1>4, <1>6, CloseType, PopScreenType DEF TypeOK, DeleteChat

LEMMA RelaunchTypeOK ==
    ASSUME TypeOK, NEW d \in Device, Relaunch(d) PROVE TypeOK'
<1>1. << >> \in Seq(Callback)
  OBVIOUS
<1>3. /\ loads' \in [Device -> [Room -> Nat]]
      /\ shown' \in [Device -> [Room -> Document \cup {None}]]
      /\ mainQueue' \in [Device -> Seq(Callback)]
  BY <1>1 DEF TypeOK, Relaunch
<1>4. /\ idDiscussion' \in [Device -> Room \cup {None}]
      /\ currentChatRoom' \in [Device -> Document \cup {None}]
      /\ listenerChat' \in [Device -> Room \cup {None}]
      /\ leaked' \in [Device -> SUBSET Room]
      /\ screen' \in [Device -> Room \cup {None}]
      /\ checking' \in [Device -> BOOLEAN]
      /\ popped' \in [Device -> Nat]
  BY DEF TypeOK, Relaunch
<1> QED
  BY <1>3, <1>4 DEF TypeOK, Relaunch

\* The steps that only touch loads, a flag, or nothing.
LEMMA OtherTypeOK ==
    ASSUME TypeOK,
           \/ \E d \in Device : SendNothing(d)
           \/ \E d \in Device, r \in Room : FailLoad(d, r)
           \/ UNCHANGED vars
    PROVE  TypeOK'
<1>1. ASSUME NEW d \in Device, SendNothing(d) PROVE TypeOK'
  BY <1>1 DEF TypeOK, SendNothing, sdk, messenger
<1>2. ASSUME NEW d \in Device, NEW r \in Room, FailLoad(d, r) PROVE TypeOK'
  <2>1. loads' \in [Device -> [Room -> Nat]]
    BY <1>2 DEF TypeOK, FailLoad
  <2> QED
    BY <1>2, <2>1 DEF TypeOK, FailLoad, messenger, view
<1>3. CASE UNCHANGED vars
  BY <1>3 DEF TypeOK, vars, sdk, messenger, view
<1> QED
  BY <1>1, <1>2, <1>3

LEMMA NextTypeOK == TypeOK /\ OnScreenIsOpen /\ [Next]_vars => TypeOK'
<1> SUFFICES ASSUME TypeOK, OnScreenIsOpen, [Next]_vars PROVE TypeOK'
  OBVIOUS
<1>1. ASSUME NEW d \in Device, Kill(d) \/ DeleteMissing(d) PROVE TypeOK'
  BY <1>1, RelaunchTypeOK DEF Kill, DeleteMissing
<1> QED
  BY <1>1, CommitTypeOK, RunCallbackTypeOK, AnswerLoadTypeOK, SnapshotTypeOK,
     OpenTypeOK, SendMessageTypeOK, BackTypeOK, CheckAnsweredTypeOK,
     DeleteChatTypeOK, OtherTypeOK DEF Next

-----------------------------------------------------------------------------
(* The screen and the registration *)

LEMMA NextOnScreenIsOpen ==
    TypeOK /\ OnScreenIsOpen /\ [Next]_vars => OnScreenIsOpen'
<1> SUFFICES ASSUME TypeOK, OnScreenIsOpen, [Next]_vars PROVE OnScreenIsOpen'
  OBVIOUS
<1> USE DEF OnScreenIsOpen
<1>1. CASE UNCHANGED vars
  BY <1>1 DEF vars, messenger, view
<1>2. ASSUME NEW d \in Device,
             \/ Commit(d) \/ RunCallback(d) \/ SendNothing(d) \/ SendMessage(d)
             \/ \E r \in Room : \/ AnswerLoad(d, r) \/ FailLoad(d, r)
                                 \/ Snapshot(d, r)
      PROVE  OnScreenIsOpen'
  BY <1>2 DEF Commit, RunCallback, SendNothing, SendMessage, AnswerLoad,
     FailLoad, Snapshot, messenger, view
<1>3. ASSUME NEW d \in Device, NEW r \in Room, Open(d, r) PROVE OnScreenIsOpen'
  BY <1>3 DEF Open, TypeOK
<1>4. ASSUME NEW d \in Device, Back(d) \/ \E r \in Room : DeleteChat(d, r)
      PROVE  OnScreenIsOpen'
  BY <1>4 DEF Back, DeleteChat, PopScreen, CloseDiscussRoom, messenger, TypeOK
<1>5. ASSUME NEW d \in Device, CheckAnswered(d) PROVE OnScreenIsOpen'
  BY <1>5 DEF CheckAnswered, CloseDiscussRoom, messenger, TypeOK
<1>6. ASSUME NEW d \in Device, Kill(d) \/ DeleteMissing(d) PROVE OnScreenIsOpen'
  BY <1>6 DEF Kill, DeleteMissing, Relaunch, TypeOK
<1> QED
  BY <1>1, <1>2, <1>3, <1>4, <1>5, <1>6 DEF Next

LEMMA NextNoIdleListener ==
    TypeOK /\ NoIdleListener /\ [Next]_vars => NoIdleListener'
<1> SUFFICES ASSUME TypeOK, NoIdleListener, [Next]_vars PROVE NoIdleListener'
  OBVIOUS
<1> USE DEF NoIdleListener
<1>1. CASE UNCHANGED vars
  BY <1>1 DEF vars, messenger, view
<1>2. ASSUME NEW d \in Device,
             \/ Commit(d) \/ RunCallback(d) \/ SendNothing(d) \/ SendMessage(d)
             \/ \E r \in Room : \/ AnswerLoad(d, r) \/ FailLoad(d, r)
                                 \/ Snapshot(d, r)
      PROVE  NoIdleListener'
  BY <1>2 DEF Commit, RunCallback, SendNothing, SendMessage, AnswerLoad,
     FailLoad, Snapshot, messenger, view
<1>3. ASSUME NEW d \in Device, NEW r \in Room, Open(d, r) PROVE NoIdleListener'
  <2>1. screen'[d] # None
    BY <1>3, NoneAssumption DEF Open, TypeOK
  <2>2. \A e \in Device : e # d => /\ screen'[e] = screen[e]
                                   /\ listenerChat'[e] = listenerChat[e]
    BY <1>3 DEF Open, TypeOK
  <2>3. popped' = popped
    BY <1>3 DEF Open
  <2> QED
    BY <2>1, <2>2, <2>3
<1>4. ASSUME NEW d \in Device, Back(d)
      PROVE  NoIdleListener'
  <2>1. CASE checking[d]
    <3>1. popped' = [popped EXCEPT ![d] = popped[d] + 1]
      BY <1>4, <2>1 DEF Back, PopScreen
    <3>2. popped'[d] # 0
      BY <3>1 DEF TypeOK
    <3>3. \A e \in Device : e # d => /\ screen'[e] = screen[e]
                                     /\ popped'[e] = popped[e]
      BY <1>4, <3>1 DEF Back, PopScreen, TypeOK
    <3>4. listenerChat' = listenerChat
      BY <1>4, <2>1 DEF Back, messenger
    <3> QED
      BY <3>2, <3>3, <3>4
  <2>2. CASE ~ checking[d]
    BY <1>4, <2>2 DEF Back, PopScreen, CloseDiscussRoom, TypeOK
  <2> QED
    BY <2>1, <2>2
<1>5. ASSUME NEW d \in Device, NEW r \in Room, DeleteChat(d, r)
      PROVE  NoIdleListener'
  <2>1. listenerChat' = [listenerChat EXCEPT ![d] = None]
    BY <1>5 DEF DeleteChat, CloseDiscussRoom
  <2>2. \A e \in Device : e # d => /\ screen'[e] = screen[e]
                                   /\ popped'[e] = popped[e]
    BY <1>5 DEF DeleteChat, PopScreen, TypeOK
  <2> QED
    BY <2>1, <2>2 DEF TypeOK
<1>6. ASSUME NEW d \in Device, CheckAnswered(d) PROVE NoIdleListener'
  <2>1. CASE popped[d] > 0
    <3>1. /\ listenerChat' = [listenerChat EXCEPT ![d] = None]
          /\ popped' = [popped EXCEPT ![d] = popped[d] - 1]
          /\ screen' = screen
      BY <1>6, <2>1 DEF CheckAnswered, CloseDiscussRoom
    <3> QED
      BY <3>1 DEF TypeOK
  <2>2. CASE ~ (popped[d] > 0)
    BY <1>6, <2>2 DEF CheckAnswered, messenger
  <2> QED
    BY <2>1, <2>2
<1>7. ASSUME NEW d \in Device, Kill(d) \/ DeleteMissing(d) PROVE NoIdleListener'
  BY <1>7 DEF Kill, DeleteMissing, Relaunch, TypeOK
<1> QED
  BY <1>1, <1>2, <1>3, <1>4, <1>5, <1>6, <1>7 DEF Next

\* The invariant the theorems rest on.
Core == TypeOK /\ OnScreenIsOpen /\ NoIdleListener

LEMMA InitCore == Init => Core
<1> SUFFICES ASSUME Init PROVE Core
  OBVIOUS
<1>1. OnScreenIsOpen /\ NoIdleListener
  BY DEF Init, OnScreenIsOpen, NoIdleListener
<1> QED
  BY <1>1, InitTypeOK DEF Core

LEMMA NextCore == Core /\ [Next]_vars => Core'
  BY NextTypeOK, NextOnScreenIsOpen, NextNoIdleListener DEF Core

LEMMA AlwaysCore == Spec => []Core
  BY InitCore, NextCore, PTL DEF Spec

\* Every variable keeps its type, on any number of devices and rooms.
THEOREM TypeCorrect == Spec => []TypeOK
<1>1. Core => TypeOK
  BY DEF Core
<1> QED
  BY AlwaysCore, <1>1, PTL

\* However screens are popped, held and released, none left means none is
\* registered.
THEOREM NoListenerLeftBehind == Spec => []NoIdleListener
<1>1. Core => NoIdleListener
  BY DEF Core
<1> QED
  BY AlwaysCore, <1>1, PTL

-----------------------------------------------------------------------------
(* The copies of the discussions are the versions of a RoomHistory *)

\* Where a copy may be.
LEMMA CopiesHave ==
    /\ << >> \in Copies
    /\ \A r \in Room : rooms[r] # None => rooms[r] \in Copies
    /\ \A d \in Device : currentChatRoom[d] # None => currentChatRoom[d] \in Copies
    /\ \A d \in Device : \A i \in DOMAIN outbox[d] :
          outbox[d][i].doc # None => outbox[d][i].doc \in Copies
    /\ \A d \in Device : \A i \in DOMAIN mainQueue[d] :
          mainQueue[d][i].doc # None => mainQueue[d][i].doc \in Copies
<1>1. << >> \in Copies
  BY DEF Copies
<1>2. ASSUME NEW r \in Room, rooms[r] # None PROVE rooms[r] \in Copies
  BY <1>2 DEF Copies
<1>3. ASSUME NEW d \in Device, currentChatRoom[d] # None
      PROVE  currentChatRoom[d] \in Copies
  BY <1>3 DEF Copies
<1>4. ASSUME NEW d \in Device, NEW i \in DOMAIN outbox[d], outbox[d][i].doc # None
      PROVE  outbox[d][i].doc \in Copies
  <2>1. outbox[d][i].doc \in Docs(outbox[d])
    BY DEF Docs
  <2> QED
    BY <1>4, <2>1 DEF Copies
<1>5. ASSUME NEW d \in Device, NEW i \in DOMAIN mainQueue[d],
             mainQueue[d][i].doc # None
      PROVE  mainQueue[d][i].doc \in Copies
  <2>1. mainQueue[d][i].doc \in Docs(mainQueue[d])
    BY DEF Docs
  <2> QED
    BY <1>5, <2>1 DEF Copies
<1> QED
  BY <1>1, <1>2, <1>3, <1>4, <1>5

\* After a step every copy is in S if each place holds nothing or a copy in S.
LEMMA CopiesWithin ==
    ASSUME NEW S, << >> \in S,
           \A r \in Room : rooms'[r] \in S \cup {None},
           \A d \in Device : currentChatRoom'[d] \in S \cup {None},
           \A d \in Device : \A i \in DOMAIN outbox'[d] :
              outbox'[d][i].doc \in S \cup {None},
           \A d \in Device : \A i \in DOMAIN mainQueue'[d] :
              mainQueue'[d][i].doc \in S \cup {None}
    PROVE  Copies' \subseteq S
<1> SUFFICES ASSUME NEW v \in Copies', v # << >> PROVE v \in S
  OBVIOUS
<1>1. v # None
  BY NoneAssumption DEF Copies, Document
<1>2. \/ \E r \in Room : v = rooms'[r]
      \/ \E d \in Device : v = currentChatRoom'[d]
      \/ \E d \in Device : \E i \in DOMAIN outbox'[d] : v = outbox'[d][i].doc
      \/ \E d \in Device : \E i \in DOMAIN mainQueue'[d] : v = mainQueue'[d][i].doc
  <2>1. \/ \E r \in Room : v = rooms'[r]
        \/ \E d \in Device : v = currentChatRoom'[d]
        \/ \E d \in Device : v \in Docs(outbox'[d])
        \/ \E d \in Device : v \in Docs(mainQueue'[d])
    BY DEF Copies
  <2> QED
    BY <2>1, Zenon DEF Docs
<1> QED
  BY <1>1, <1>2

\* The same before the step, in the form the steps below use.
LEMMA PlacesHoldCopies ==
    /\ \A r \in Room : rooms[r] \in Copies \cup {None}
    /\ \A d \in Device : currentChatRoom[d] \in Copies \cup {None}
    /\ \A d \in Device : \A i \in DOMAIN outbox[d] :
          outbox[d][i].doc \in Copies \cup {None}
    /\ \A d \in Device : \A i \in DOMAIN mainQueue[d] :
          mainQueue[d][i].doc \in Copies \cup {None}
  BY CopiesHave

\* A device reads a copy, or nothing.
LEMMA ReadsACopy ==
    ASSUME NEW d \in Device, NEW r \in Room
    PROVE  Read(d, r) \in Copies \cup {None}
<1>1. CASE \E i \in DOMAIN outbox[d] : IsLatestWrite(d, r, i)
  <2> DEFINE i == CHOOSE i \in DOMAIN outbox[d] : IsLatestWrite(d, r, i)
  <2>1. i \in DOMAIN outbox[d]
    BY <1>1
  <2>2. Read(d, r) = outbox[d][i].doc
    BY <1>1 DEF Read
  <2> HIDE DEF i
  <2> QED
    BY <2>1, <2>2, PlacesHoldCopies
<1>2. CASE ~ \E i \in DOMAIN outbox[d] : IsLatestWrite(d, r, i)
  BY <1>2, PlacesHoldCopies DEF Read
<1> QED
  BY <1>1, <1>2

\* What a queue holds after something is appended to it, or its head removed.
LEMMA QueueAppend ==
    ASSUME NEW T, NEW q \in Seq(T), NEW x \in T
    PROVE  \A i \in DOMAIN Append(q, x) :
              \/ Append(q, x)[i] = x
              \/ i \in DOMAIN q /\ Append(q, x)[i] = q[i]
<1>1. Append(q, x) \in Seq(T) /\ Len(Append(q, x)) = Len(q) + 1
  BY AppendProperties
<1>2. DOMAIN Append(q, x) = 1..(Len(q) + 1) /\ DOMAIN q = 1..Len(q) /\ Len(q) \in Nat
  BY <1>1, LenProperties
<1> QED
  BY <1>2, AppendProperties

LEMMA QueueTail ==
    ASSUME NEW T, NEW q \in Seq(T), q # << >>
    PROVE  /\ \E j \in DOMAIN q : Head(q) = q[j]
           /\ \A i \in DOMAIN Tail(q) : \E j \in DOMAIN q : Tail(q)[i] = q[j]
<1>1. /\ Tail(q) \in Seq(T)
      /\ Len(Tail(q)) = Len(q) - 1
      /\ \A i \in 1..Len(Tail(q)) : Tail(q)[i] = q[i + 1]
  BY HeadTailProperties
<1>2. /\ DOMAIN Tail(q) = 1..Len(Tail(q))
      /\ DOMAIN q = 1..Len(q)
      /\ Len(q) \in Nat \ {0}
  BY <1>1, LenProperties, EmptySeq
<1>3. Head(q) = q[1] /\ 1 \in DOMAIN q
  BY <1>2
<1>4. \A i \in DOMAIN Tail(q) : i + 1 \in DOMAIN q /\ Tail(q)[i] = q[i + 1]
  BY <1>1, <1>2
<1> QED
  BY <1>3, <1>4

LEMMA CommitCopies ==
    ASSUME TypeOK, NEW d \in Device, Commit(d) PROVE Copies' \subseteq Copies
<1> DEFINE w == Head(outbox[d])
<1>1. outbox[d] \in Seq(Write) /\ outbox[d] # << >>
  BY DEF TypeOK, Commit
<1>2. /\ \E j \in DOMAIN outbox[d] : w = outbox[d][j]
      /\ \A i \in DOMAIN Tail(outbox[d]) :
            \E j \in DOMAIN outbox[d] : Tail(outbox[d])[i] = outbox[d][j]
  BY <1>1, QueueTail
<1>3. /\ rooms' = [rooms EXCEPT ![w.room] = w.doc]
      /\ outbox' = [outbox EXCEPT ![d] = Tail(outbox[d])]
      /\ currentChatRoom' = currentChatRoom /\ mainQueue' = mainQueue
  BY DEF Commit, messenger
<1>4. w.doc \in Copies \cup {None}
  BY <1>2, PlacesHoldCopies
<1> HIDE DEF w
<1>5. \A r \in Room : rooms'[r] \in Copies \cup {None}
  BY <1>3, <1>4, PlacesHoldCopies DEF TypeOK
<1>6. \A e \in Device : \A i \in DOMAIN outbox'[e] :
        outbox'[e][i].doc \in Copies \cup {None}
  <2> SUFFICES ASSUME NEW e \in Device, NEW i \in DOMAIN outbox'[e]
               PROVE  outbox'[e][i].doc \in Copies \cup {None}
    OBVIOUS
  <2>1. CASE e = d
    <3>1. outbox'[e] = Tail(outbox[d])
      BY <2>1, <1>3 DEF TypeOK
    <3>2. PICK j \in DOMAIN outbox[d] : outbox'[e][i] = outbox[d][j]
      BY <3>1, <1>2
    <3> QED
      BY <3>2, PlacesHoldCopies
  <2>2. CASE e # d
    <3>1. outbox'[e] = outbox[e]
      BY <2>2, <1>3 DEF TypeOK
    <3> QED
      BY <3>1, PlacesHoldCopies
  <2> QED
    BY <2>1, <2>2
<1> QED
  BY <1>3, <1>5, <1>6, CopiesWithin, CopiesHave, PlacesHoldCopies

LEMMA RunCallbackCopies ==
    ASSUME TypeOK, NEW d \in Device, RunCallback(d) PROVE Copies' \subseteq Copies
<1> DEFINE c == Head(mainQueue[d])
<1>1. mainQueue[d] \in Seq(Callback) /\ mainQueue[d] # << >>
  BY DEF TypeOK, RunCallback
<1>2. /\ \E j \in DOMAIN mainQueue[d] : c = mainQueue[d][j]
      /\ \A i \in DOMAIN Tail(mainQueue[d]) :
            \E j \in DOMAIN mainQueue[d] : Tail(mainQueue[d])[i] = mainQueue[d][j]
  BY <1>1, QueueTail
<1>3. /\ mainQueue' = [mainQueue EXCEPT ![d] = Tail(mainQueue[d])]
      /\ \/ currentChatRoom' = currentChatRoom
         \/ currentChatRoom' = [currentChatRoom EXCEPT ![d] = c.doc]
      /\ rooms' = rooms /\ outbox' = outbox
  BY DEF RunCallback
<1>4. c.doc \in Copies \cup {None}
  BY <1>2, PlacesHoldCopies
<1> HIDE DEF c
<1>5. \A e \in Device : currentChatRoom'[e] \in Copies \cup {None}
  BY <1>3, <1>4, PlacesHoldCopies DEF TypeOK
<1>6. \A e \in Device : \A i \in DOMAIN mainQueue'[e] :
        mainQueue'[e][i].doc \in Copies \cup {None}
  <2> SUFFICES ASSUME NEW e \in Device, NEW i \in DOMAIN mainQueue'[e]
               PROVE  mainQueue'[e][i].doc \in Copies \cup {None}
    OBVIOUS
  <2>1. CASE e = d
    <3>1. mainQueue'[e] = Tail(mainQueue[d])
      BY <2>1, <1>3 DEF TypeOK
    <3>2. PICK j \in DOMAIN mainQueue[d] : mainQueue'[e][i] = mainQueue[d][j]
      BY <3>1, <1>2
    <3> QED
      BY <3>2, PlacesHoldCopies
  <2>2. CASE e # d
    <3>1. mainQueue'[e] = mainQueue[e]
      BY <2>2, <1>3 DEF TypeOK
    <3> QED
      BY <3>1, PlacesHoldCopies
  <2> QED
    BY <2>1, <2>2
<1> QED
  BY <1>3, <1>5, <1>6, CopiesWithin, CopiesHave, PlacesHoldCopies

\* Posting a document that a device reads adds no copy.
LEMMA PostCopies ==
    ASSUME TypeOK, NEW d \in Device, NEW r \in Room, NEW c \in Callback,
           c.doc = Read(d, r),
           \/ mainQueue' = mainQueue
           \/ mainQueue' = [mainQueue EXCEPT ![d] = Append(mainQueue[d], c)],
           UNCHANGED <<rooms, outbox, currentChatRoom>>
    PROVE  Copies' \subseteq Copies
<1>1. mainQueue[d] \in Seq(Callback)
  BY DEF TypeOK
<1>2. \A i \in DOMAIN Append(mainQueue[d], c) :
        \/ Append(mainQueue[d], c)[i] = c
        \/ i \in DOMAIN mainQueue[d] /\ Append(mainQueue[d], c)[i] = mainQueue[d][i]
  BY <1>1, QueueAppend
<1>3. c.doc \in Copies \cup {None}
  BY ReadsACopy
<1>4. \A e \in Device : \A i \in DOMAIN mainQueue'[e] :
        mainQueue'[e][i].doc \in Copies \cup {None}
  <2> SUFFICES ASSUME NEW e \in Device, NEW i \in DOMAIN mainQueue'[e]
               PROVE  mainQueue'[e][i].doc \in Copies \cup {None}
    OBVIOUS
  <2>1. CASE mainQueue'[e] = mainQueue[e]
    BY <2>1, PlacesHoldCopies
  <2>2. CASE mainQueue'[e] # mainQueue[e]
    <3>1. e = d /\ mainQueue'[e] = Append(mainQueue[d], c)
      BY <2>2 DEF TypeOK
    <3>2. \/ mainQueue'[e][i] = c
          \/ i \in DOMAIN mainQueue[d] /\ mainQueue'[e][i] = mainQueue[d][i]
      BY <3>1, <1>2
    <3> QED
      BY <3>2, <1>3, PlacesHoldCopies
  <2> QED
    BY <2>1, <2>2
<1> QED
  BY <1>4, CopiesWithin, CopiesHave, PlacesHoldCopies

LEMMA AnswerLoadCopies ==
    ASSUME TypeOK, NEW d \in Device, NEW r \in Room, AnswerLoad(d, r)
    PROVE  Copies' \subseteq Copies
<1>1. UNCHANGED <<rooms, outbox, currentChatRoom>>
  BY DEF AnswerLoad, messenger
<1>2. CASE Read(d, r) = None
  <2>1. mainQueue' = mainQueue
    BY <1>2 DEF AnswerLoad
  <2> QED
    BY <1>1, <2>1, CopiesWithin, CopiesHave, PlacesHoldCopies
<1>3. CASE Read(d, r) # None
  <2> DEFINE c == [via |-> "load", room |-> r, doc |-> Read(d, r)]
  <2>1. c \in Callback /\ c.doc = Read(d, r)
    BY <1>3, ReadType DEF Callback
  <2>2. mainQueue' = [mainQueue EXCEPT ![d] = Append(mainQueue[d], c)]
    BY <1>3 DEF AnswerLoad
  <2> HIDE DEF c
  <2> QED
    BY <1>1, <2>1, <2>2, PostCopies
<1> QED
  BY <1>2, <1>3

LEMMA SnapshotCopies ==
    ASSUME TypeOK, NEW d \in Device, NEW r \in Room, Snapshot(d, r)
    PROVE  Copies' \subseteq Copies
<1>1. UNCHANGED <<rooms, outbox, currentChatRoom>>
  BY DEF Snapshot, messenger
<1>2. CASE Read(d, r) = None
  <2>1. mainQueue' = mainQueue
    BY <1>2 DEF Snapshot
  <2> QED
    BY <1>1, <2>1, CopiesWithin, CopiesHave, PlacesHoldCopies
<1>3. CASE Read(d, r) # None
  <2> DEFINE c == [via |-> "listener", room |-> r, doc |-> Read(d, r)]
  <2>1. c \in Callback /\ c.doc = Read(d, r)
    BY <1>3, ReadType DEF Callback
  <2>2. mainQueue' = [mainQueue EXCEPT ![d] = Append(mainQueue[d], c)]
    BY <1>3 DEF Snapshot
  <2> HIDE DEF c
  <2> QED
    BY <1>1, <2>1, <2>2, PostCopies
<1> QED
  BY <1>2, <1>3

\* Muting the callbacks of a registration adds no copy.
LEMMA CloseHolds ==
    ASSUME TypeOK, NEW d \in Device, CloseDiscussRoom(d)
    PROVE  /\ \A e \in Device : currentChatRoom'[e] \in Copies \cup {None}
           /\ \A e \in Device : \A i \in DOMAIN mainQueue'[e] :
                 mainQueue'[e][i].doc \in Copies \cup {None}
<1> DEFINE r == listenerChat[d]
<1> DEFINE muted(c) == IF c.via = "listener" /\ c.room = r
                       THEN [via |-> "muted", room |-> r, doc |-> << >>] ELSE c
<1> DEFINE q == mainQueue[d]
<1> DEFINE mq == [i \in DOMAIN q |-> muted(q[i])]
<1>1. currentChatRoom' = [currentChatRoom EXCEPT ![d] = None]
  BY DEF CloseDiscussRoom
<1>2. \A e \in Device : currentChatRoom'[e] \in Copies \cup {None}
  BY <1>1, PlacesHoldCopies DEF TypeOK
<1>3. mainQueue' = mainQueue \/ mainQueue' = [mainQueue EXCEPT ![d] = mq]
  BY DEF CloseDiscussRoom, RemoveListener
<1>4. \A i \in DOMAIN mq : mq[i].doc \in Copies \cup {None}
  <2> SUFFICES ASSUME NEW i \in DOMAIN q
               PROVE  muted(q[i]).doc \in Copies \cup {None}
    OBVIOUS
  <2>1. q[i].doc \in Copies \cup {None}
    BY PlacesHoldCopies
  <2>2. << >> \in Copies
    BY CopiesHave
  <2> QED
    BY <2>1, <2>2
<1> HIDE DEF mq
<1>5. \A e \in Device : mainQueue'[e] = mainQueue[e] \/ mainQueue'[e] = mq
  BY <1>3 DEF TypeOK
<1>6. ASSUME NEW e \in Device, NEW i \in DOMAIN mainQueue'[e]
      PROVE  mainQueue'[e][i].doc \in Copies \cup {None}
  <2>1. CASE mainQueue'[e] = mainQueue[e]
    BY <2>1, PlacesHoldCopies
  <2>2. CASE mainQueue'[e] = mq
    BY <2>2, <1>4
  <2> QED
    BY <2>1, <2>2, <1>5
<1> QED
  BY <1>2, <1>6

\* One more write in a queue adds at most its document.
LEMMA WriteHolds ==
    ASSUME TypeOK, NEW d \in Device, NEW w \in Write, NEW S,
           Copies \subseteq S, w.doc \in S \cup {None},
           outbox' = [outbox EXCEPT ![d] = Append(outbox[d], w)]
    PROVE  \A e \in Device : \A i \in DOMAIN outbox'[e] :
              outbox'[e][i].doc \in S \cup {None}
<1>1. outbox[d] \in Seq(Write)
  BY DEF TypeOK
<1>2. \A i \in DOMAIN Append(outbox[d], w) :
        \/ Append(outbox[d], w)[i] = w
        \/ i \in DOMAIN outbox[d] /\ Append(outbox[d], w)[i] = outbox[d][i]
  BY <1>1, QueueAppend
<1> SUFFICES ASSUME NEW e \in Device, NEW i \in DOMAIN outbox'[e]
             PROVE  outbox'[e][i].doc \in S \cup {None}
  OBVIOUS
<1>3. CASE e # d
  <2>1. outbox'[e] = outbox[e]
    BY <1>3 DEF TypeOK
  <2> QED
    BY <2>1, PlacesHoldCopies
<1>4. CASE e = d
  <2>1. outbox'[e] = Append(outbox[d], w)
    BY <1>4 DEF TypeOK
  <2>2. outbox'[e][i] = w \/ (i \in DOMAIN outbox[d] /\ outbox'[e][i] = outbox[d][i])
    BY <2>1, <1>2
  <2> QED
    BY <2>2, PlacesHoldCopies
<1> QED
  BY <1>3, <1>4

LEMMA SendMessageCopies ==
    ASSUME TypeOK, OnScreenIsOpen, NEW d \in Device, SendMessage(d)
    PROVE  /\ Held(d) \in Copies
           /\ idDiscussion[d] \in Room
           /\ Copies' \subseteq Copies \cup {Append(Held(d), NextMessage(d))}
<1> DEFINE copy == Append(Held(d), NextMessage(d))
<1> DEFINE w == [room |-> idDiscussion[d], doc |-> copy]
<1> DEFINE S == Copies \cup {copy}
<1>1. idDiscussion[d] \in Room /\ copy \in Document
  BY SendMakes DEF SendMessage
<1>2. Held(d) \in Copies
  BY CopiesHave DEF Held
<1>3. w \in Write /\ w.doc \in S \cup {None}
  BY <1>1 DEF Write
<1>4. /\ currentChatRoom' = [currentChatRoom EXCEPT ![d] = copy]
      /\ outbox' = [outbox EXCEPT ![d] = Append(outbox[d], w)]
      /\ rooms' = rooms /\ mainQueue' = mainQueue
  BY DEF SendMessage, AppendAndWrite
<1> HIDE DEF copy, w
<1>5. \A e \in Device : \A i \in DOMAIN outbox'[e] :
        outbox'[e][i].doc \in S \cup {None}
  BY <1>3, <1>4, WriteHolds
<1>6. \A e \in Device : currentChatRoom'[e] \in S \cup {None}
  BY <1>4, PlacesHoldCopies DEF TypeOK
<1>7. /\ << >> \in S
      /\ \A r \in Room : rooms'[r] \in S \cup {None}
      /\ \A e \in Device : \A i \in DOMAIN mainQueue'[e] :
            mainQueue'[e][i].doc \in S \cup {None}
  BY <1>4, CopiesHave, PlacesHoldCopies
<1>8. Copies' \subseteq S
  BY <1>5, <1>6, <1>7, CopiesWithin
<1> QED
  BY <1>1, <1>2, <1>8 DEF copy

LEMMA BackCopies ==
    ASSUME TypeOK, NEW d \in Device, Back(d) \/ CheckAnswered(d)
    PROVE  Copies' \subseteq Copies
<1>1. rooms' = rooms /\ outbox' = outbox
  BY DEF Back, CheckAnswered
<1>2. CASE CloseDiscussRoom(d)
  BY <1>1, <1>2, CloseHolds, CopiesWithin, CopiesHave, PlacesHoldCopies
<1>3. CASE ~ CloseDiscussRoom(d)
  <2>1. mainQueue' = mainQueue /\ currentChatRoom' = currentChatRoom
    BY <1>3 DEF Back, CheckAnswered, messenger
  <2> QED
    BY <1>1, <2>1, CopiesWithin, CopiesHave, PlacesHoldCopies
<1> QED
  BY <1>2, <1>3

LEMMA DeleteChatCopies ==
    ASSUME TypeOK, NEW d \in Device, NEW r \in Room, DeleteChat(d, r)
    PROVE  Copies' \subseteq Copies
<1> DEFINE w == [room |-> r, doc |-> None]
<1>1. w \in Write /\ w.doc \in Copies \cup {None}
  BY DEF TypeOK, DeleteChat, Write
<1>2. /\ outbox' = [outbox EXCEPT ![d] = Append(outbox[d], w)]
      /\ CloseDiscussRoom(d)
      /\ rooms' = rooms
  BY DEF DeleteChat
<1> HIDE DEF w
<1>3. \A e \in Device : \A i \in DOMAIN outbox'[e] :
        outbox'[e][i].doc \in Copies \cup {None}
  BY <1>1, <1>2, WriteHolds
<1> QED
  BY <1>2, <1>3, CloseHolds, CopiesWithin, CopiesHave, PlacesHoldCopies

LEMMA RelaunchCopies ==
    ASSUME TypeOK, NEW d \in Device, Relaunch(d)
    PROVE  Copies' \subseteq Copies
<1>1. /\ rooms' = rooms /\ outbox' = outbox
      /\ mainQueue' = [mainQueue EXCEPT ![d] = << >>]
      /\ currentChatRoom' = [currentChatRoom EXCEPT ![d] = None]
  BY DEF Relaunch
<1>2. \A e \in Device : currentChatRoom'[e] \in Copies \cup {None}
  BY <1>1, PlacesHoldCopies DEF TypeOK
<1>3. ASSUME NEW e \in Device, NEW i \in DOMAIN mainQueue'[e]
      PROVE  mainQueue'[e][i].doc \in Copies \cup {None}
  <2>1. e # d
    <3>1. DOMAIN << >> = {}
      OBVIOUS
    <3> QED
      BY <3>1, <1>1 DEF TypeOK
  <2>2. mainQueue'[e] = mainQueue[e]
    BY <2>1, <1>1 DEF TypeOK
  <2> QED
    BY <2>2, PlacesHoldCopies
<1> QED
  BY <1>1, <1>2, <1>3, CopiesWithin, CopiesHave, PlacesHoldCopies

LEMMA OtherCopies ==
    ASSUME TypeOK,
           \/ \E d \in Device : SendNothing(d)
           \/ \E d \in Device, r \in Room :
                 FailLoad(d, r) \/ Open(d, r)
           \/ UNCHANGED vars
    PROVE  Copies' \subseteq Copies
<1>1. /\ rooms' = rooms /\ outbox' = outbox /\ mainQueue' = mainQueue
      /\ \/ currentChatRoom' = currentChatRoom
         \/ \E d \in Device : currentChatRoom' = [currentChatRoom EXCEPT ![d] = None]
  BY DEF SendNothing, FailLoad, Open, vars, sdk, messenger
<1>2. \A e \in Device : currentChatRoom'[e] \in Copies \cup {None}
  BY <1>1, PlacesHoldCopies DEF TypeOK
<1> QED
  BY <1>1, <1>2, CopiesWithin, CopiesHave, PlacesHoldCopies

\* Only sending counts a message.
LEMMA OthersSendNothing ==
    ASSUME [Next]_vars, \A d \in Device : ~ SendMessage(d)
    PROVE  sent' = sent
<1>1. CASE UNCHANGED vars
  BY <1>1 DEF vars
<1>2. ASSUME NEW d \in Device,
             \/ Commit(d) \/ RunCallback(d) \/ CheckAnswered(d)
             \/ SendNothing(d) \/ Back(d) \/ \E r \in Room : DeleteChat(d, r)
      PROVE  sent' = sent
  BY <1>2 DEF Commit, RunCallback, CheckAnswered, SendNothing, Back, DeleteChat
<1>3. ASSUME NEW d \in Device, DeleteMissing(d) \/ Kill(d) PROVE sent' = sent
  BY <1>3 DEF DeleteMissing, Kill, Relaunch
<1>4. ASSUME NEW d \in Device, NEW r \in Room,
             \/ AnswerLoad(d, r) \/ FailLoad(d, r) \/ Snapshot(d, r)
             \/ Open(d, r)
      PROVE  sent' = sent
  BY <1>4 DEF AnswerLoad, FailLoad, Snapshot, Open
<1> QED
  BY <1>1, <1>2, <1>3, <1>4 DEF Next

LEMMA OthersCopies ==
    ASSUME TypeOK, [Next]_vars, \A d \in Device : ~ SendMessage(d)
    PROVE  Copies' \subseteq Copies
<1>1. ASSUME NEW d \in Device, Kill(d) \/ DeleteMissing(d)
      PROVE  Copies' \subseteq Copies
  BY <1>1, RelaunchCopies DEF Kill, DeleteMissing
<1> QED
  BY <1>1, CommitCopies, RunCallbackCopies, AnswerLoadCopies, SnapshotCopies,
     BackCopies, DeleteChatCopies, OtherCopies DEF Next

LEMMA InitHistory == Init => History!Init
<1> SUFFICES ASSUME Init PROVE History!Init
  OBVIOUS
<1>1. Copies \subseteq {<< >>}
  BY DEF Init, Copies, Docs
<1>2. sent = [a \in Device |-> 0]
  BY DEF Init
<1> QED
  BY <1>1, <1>2, CopiesHave DEF History!Init

\* A send extends one copy by one message; every other step makes no copy.
LEMMA NextHistory == Core /\ [Next]_vars => [History!Next]_(History!vars)
<1> SUFFICES ASSUME Core, [Next]_vars PROVE [History!Next]_(History!vars)
  OBVIOUS
<1>1. TypeOK /\ OnScreenIsOpen
  BY DEF Core
<1>2. << >> \in Copies'
  BY DEF Copies
<1>3. ASSUME NEW d \in Device, SendMessage(d) PROVE History!Say(d)
  <2>1. /\ Held(d) \in Copies
        /\ idDiscussion[d] \in Room
        /\ Copies' \subseteq Copies \cup {Append(Held(d), NextMessage(d))}
    BY <1>1, <1>3, SendMessageCopies
  <2>2. sent' = [sent EXCEPT ![d] = sent[d] + 1]
    BY <1>3 DEF SendMessage, AppendAndWrite
  <2>3. \E v \in Copies, r \in Room :
          Copies' \in SUBSET (Copies \cup
             {Append(v, [from |-> d, n |-> sent[d] + 1, room |-> r])})
    BY <2>1 DEF NextMessage
  <2> QED
    BY <1>2, <2>2, <2>3 DEF History!Say
<1>4. ASSUME \A d \in Device : ~ SendMessage(d) PROVE History!Forget
  <2>1. Copies' \subseteq Copies /\ sent' = sent
    BY <1>1, <1>4, OthersSendNothing, OthersCopies
  <2> QED
    BY <1>2, <2>1 DEF History!Forget
<1> QED
  BY <1>3, <1>4 DEF History!Next

\* The messenger with all its lost writes, late answers, leaked listeners and
\* restarts implements one growing tree of versions.
THEOREM RefinesRoomHistory == Spec => ImplementsRoomHistory
  BY AlwaysCore, InitHistory, NextHistory, PTL
     DEF Spec, ImplementsRoomHistory, History!Spec

\* The same proofs, about the copies.
HistoryProofs == INSTANCE RoomHistory_proofs WITH
                     Author <- Device, Discussion <- Room, versions <- Copies

LEMMA HistorySpecs == History!Spec => HistoryProofs!Spec
  BY PTL DEF History!Spec, HistoryProofs!Spec, History!Init, HistoryProofs!Init,
     History!Next, HistoryProofs!Next, History!Say, HistoryProofs!Say,
     History!Forget, HistoryProofs!Forget, History!vars, HistoryProofs!vars

\* Two copies that hold the same message agree on everything before it, for
\* any number of devices and rooms.
THEOREM OneHistoryEverywhere == Spec => []OneHistory
<1>1. Spec => HistoryProofs!Spec
  BY RefinesRoomHistory, HistorySpecs, PTL DEF ImplementsRoomHistory
<1>2. HistoryProofs!OneHistory => OneHistory
  BY DEF HistoryProofs!OneHistory, OneHistory, History!OneHistory
<1> QED
  BY <1>1, <1>2, HistoryProofs!VersionsAreOneTree, PTL

\* In every copy a user's messages stand in the order he sent them.
THEOREM SenderOrderEverywhere == Spec => []SenderOrder
<1>1. Spec => HistoryProofs!Spec
  BY RefinesRoomHistory, HistorySpecs, PTL DEF ImplementsRoomHistory
<1>2. HistoryProofs!SenderOrder => SenderOrder
  BY DEF HistoryProofs!SenderOrder, SenderOrder, History!SenderOrder
<1> QED
  BY <1>1, <1>2, HistoryProofs!VersionsAreOneTree, PTL

-----------------------------------------------------------------------------
(* What a device writes *)

\* What sendMessage and deleteChat add to the outbox.
LEMMA OutboxSteps ==
    ASSUME TypeOK, [Next]_vars, NEW e \in Device
    PROVE  \/ outbox'[e] = outbox[e]
           \/ outbox[e] # << >> /\ Commit(e) /\ outbox'[e] = Tail(outbox[e])
           \/ SendMessage(e) /\ outbox'[e] = Append(outbox[e],
                 [room |-> idDiscussion[e], doc |-> Append(Held(e), NextMessage(e))])
           \/ \E r \in Room :
                 DeleteChat(e, r) /\ outbox'[e] =
                    Append(outbox[e], [room |-> r, doc |-> None])
<1>1. CASE UNCHANGED vars
  BY <1>1 DEF vars, sdk
<1>2. ASSUME NEW d \in Device,
             \/ RunCallback(d) \/ CheckAnswered(d) \/ SendNothing(d) \/ Back(d)
             \/ \E r \in Room : \/ AnswerLoad(d, r) \/ FailLoad(d, r)
                                 \/ Snapshot(d, r)
                                 \/ Open(d, r)
      PROVE  outbox' = outbox
  BY <1>2 DEF RunCallback, CheckAnswered, SendNothing, Back, AnswerLoad,
     FailLoad, Snapshot, Open, sdk
<1>3. ASSUME NEW d \in Device, DeleteMissing(d) \/ Kill(d) PROVE outbox' = outbox
  BY <1>3 DEF DeleteMissing, Kill, Relaunch
<1>4. ASSUME NEW d \in Device, Commit(d)
      PROVE  /\ outbox[d] # << >>
             /\ outbox'[d] = Tail(outbox[d])
             /\ d # e => outbox'[e] = outbox[e]
  BY <1>4 DEF Commit, TypeOK
<1>5. ASSUME NEW d \in Device, SendMessage(d)
      PROVE  /\ outbox'[d] = Append(outbox[d], [room |-> idDiscussion[d],
                                    doc |-> Append(Held(d), NextMessage(d))])
             /\ d # e => outbox'[e] = outbox[e]
  BY <1>5 DEF SendMessage, AppendAndWrite, TypeOK
<1>6. ASSUME NEW d \in Device, NEW r \in Room, DeleteChat(d, r)
      PROVE  /\ outbox'[d] = Append(outbox[d], [room |-> r, doc |-> None])
             /\ d # e => outbox'[e] = outbox[e]
  BY <1>6 DEF DeleteChat, TypeOK
<1> QED
  BY <1>1, <1>2, <1>3, <1>4, <1>5, <1>6 DEF Next

-----------------------------------------------------------------------------
(* A quiet device is up to date *)

\* What currentChatRoom will be once the main queue has run.
EndsWith(queue, current, x) ==
    \/ /\ \A j \in DOMAIN queue : queue[j].via = "muted"
       /\ current = x
    \/ \E i \in DOMAIN queue :
          /\ queue[i].via # "muted" /\ queue[i].doc = x
          /\ \A j \in DOMAIN queue : i < j => queue[j].via = "muted"

\* QuietIsCurrent while callbacks wait: the last of them brings the document
\* the listeners were last given.
HeadsForCurrent ==
    \A d \in Device, r \in Room :
        (/\ Room = {r} /\ listenerChat[d] = r
         /\ shown[d][r] = Read(d, r) /\ Read(d, r) # None)
            => EndsWith(mainQueue[d], currentChatRoom[d], Read(d, r))

\* It is inductive because a document never comes back.  Otherwise the service
\* could leave the version shown and return to it between two snapshots, with
\* the answer of a load in between.  No two writes carry the same document ...
WritesAreDistinct ==
    \A d, e \in Device : \A i \in DOMAIN outbox[d], j \in DOMAIN outbox[e] :
        (outbox[d][i].doc # None /\ outbox[d][i].doc = outbox[e][j].doc)
            => d = e /\ i = j

\* ... nor one the service has or another device has seen ...
WritesAreNew ==
    \A d \in Device : \A i \in DOMAIN outbox[d] : outbox[d][i].doc # None =>
        /\ \A q \in Room : rooms[q] # outbox[d][i].doc
        /\ \A e \in Device, q \in Room : shown[e][q] = outbox[d][i].doc => e = d

\* ... since a send adds a message that no document has, not even one that was
\* shown and is no copy any more.
SaidIn(x, said) == \A i \in 1..Len(x) : x[i].n <= said[x[i].from]

CopiesAreSaid == \A v \in Copies : SaidIn(v, sent)

ShownIsSaid ==
    \A d \in Device, r \in Room : shown[d][r] # None => SaidIn(shown[d][r], sent)

Quiet ==
    /\ CopiesAreSaid /\ ShownIsSaid
    /\ WritesAreDistinct /\ WritesAreNew
    /\ HeadsForCurrent

LEMMA AlwaysCopiesAreSaid == Spec => []CopiesAreSaid
<1>1. Spec => HistoryProofs!Spec
  BY RefinesRoomHistory, HistorySpecs, PTL DEF ImplementsRoomHistory
<1>2. HistoryProofs!Said => CopiesAreSaid
  BY DEF HistoryProofs!Said, CopiesAreSaid, SaidIn
<1> QED
  BY <1>1, <1>2, HistoryProofs!VersionsAreOneTree, PTL

\* What a device reads is one of its own writes or what the service has.
LEMMA ReadIsWrittenOrStored ==
    ASSUME NEW d \in Device, NEW r \in Room
    PROVE  \/ Read(d, r) = rooms[r]
           \/ \E i \in DOMAIN outbox[d] : Read(d, r) = outbox[d][i].doc
<1>1. CASE \E i \in DOMAIN outbox[d] : IsLatestWrite(d, r, i)
  <2>1. (CHOOSE i \in DOMAIN outbox[d] : IsLatestWrite(d, r, i)) \in DOMAIN outbox[d]
    BY <1>1
  <2> QED
    BY <1>1, <2>1, Zenon DEF Read
<1>2. CASE ~ \E i \in DOMAIN outbox[d] : IsLatestWrite(d, r, i)
  BY <1>2 DEF Read
<1> QED
  BY <1>1, <1>2

\* In the only discussion, its last write.
LEMMA ReadOnly ==
    ASSUME TypeOK, NEW d \in Device, NEW r \in Room, Room = {r}
    PROVE  Read(d, r) = IF outbox[d] = << >> THEN rooms[r]
                        ELSE outbox[d][Len(outbox[d])].doc
<1> DEFINE q == outbox[d]
<1>1. q \in Seq(Write)
  BY DEF TypeOK
<1>2. DOMAIN q = 1..Len(q) /\ Len(q) \in Nat /\ (q = << >> <=> Len(q) = 0)
  BY <1>1, LenProperties, EmptySeq
<1>3. \A i \in 1..Len(q) : q[i].room = r
  <2>1. \A i \in 1..Len(q) : q[i] \in Write
    BY <1>1, ElementOfSeq
  <2> QED
    BY <2>1 DEF Write
<1>4. \A i \in DOMAIN q : IsLatestWrite(d, r, i) <=> i = Len(q)
  <2> SUFFICES ASSUME NEW i \in 1..Len(q)
               PROVE  IsLatestWrite(d, r, i) <=> i = Len(q)
    BY <1>2
  <2>1. i # Len(q) => Len(q) \in (i + 1)..Len(q)
    BY <1>2
  <2>2. Len(q) \in 1..Len(q)
    BY <1>2
  <2>3. i = Len(q) => (i + 1)..Len(q) = {}
    BY <1>2
  <2> QED
    BY <1>3, <2>1, <2>2, <2>3 DEF IsLatestWrite
<1>5. CASE q = << >>
  <2>1. DOMAIN q = {}
    BY <1>2, <1>5
  <2> QED
    BY <1>5, <2>1 DEF Read
<1>6. CASE q # << >>
  <2>1. Len(q) \in DOMAIN q
    BY <1>2, <1>6
  <2>2. \E i \in DOMAIN q : IsLatestWrite(d, r, i)
    BY <1>4, <2>1
  <2>3. (CHOOSE i \in DOMAIN q : IsLatestWrite(d, r, i)) = Len(q)
    BY <1>4, <2>2
  <2> QED
    BY <1>6, <2>2, <2>3 DEF Read
<1> QED
  BY <1>5, <1>6

\* A listener is shown what is read, or forgotten.
LEMMA ShownSteps ==
    ASSUME TypeOK, [Next]_vars, NEW e \in Device, NEW q \in Room
    PROVE  \/ shown'[e][q] = shown[e][q]
           \/ shown'[e][q] = None
           \/ shown'[e][q] = Read(e, q) /\ outbox' = outbox
<1>1. CASE UNCHANGED vars
  BY <1>1 DEF vars, sdk
<1>2. ASSUME NEW d \in Device,
             \/ Commit(d) \/ RunCallback(d) \/ SendNothing(d) \/ SendMessage(d)
             \/ \E r \in Room : AnswerLoad(d, r) \/ FailLoad(d, r)
      PROVE  shown' = shown
  BY <1>2 DEF Commit, RunCallback, SendNothing, SendMessage, AnswerLoad,
     FailLoad, sdk
<1>3. ASSUME NEW d \in Device, NEW r \in Room, Open(d, r)
      PROVE  shown'[e][q] \in {shown[e][q], None}
  BY <1>3 DEF Open, TypeOK
<1>4. ASSUME NEW d \in Device, NEW r \in Room, Snapshot(d, r)
      PROVE  \/ shown'[e][q] = shown[e][q]
             \/ shown'[e][q] = Read(e, q) /\ outbox' = outbox
  <2>1. shown' = [shown EXCEPT ![d][r] = Read(d, r)] /\ outbox' = outbox
    BY <1>4 DEF Snapshot
  <2> QED
    BY <2>1 DEF TypeOK
<1>5. ASSUME NEW d \in Device, CloseDiscussRoom(d)
      PROVE  shown'[e][q] \in {shown[e][q], None}
  <2>1. \/ shown' = shown
        \/ shown' = [shown EXCEPT ![d][listenerChat[d]] = None]
    BY <1>5 DEF CloseDiscussRoom, RemoveListener
  <2>2. ASSUME NEW r, shown' = [shown EXCEPT ![d][r] = None]
        PROVE  shown'[e][q] \in {shown[e][q], None}
    <3>1. shown[d] \in [Room -> Document \cup {None}]
      BY DEF TypeOK
    <3>2. e = d => shown'[e] = [shown[d] EXCEPT ![r] = None]
      BY <2>2 DEF TypeOK
    <3>3. e # d => shown'[e] = shown[e]
      BY <2>2 DEF TypeOK
    <3> QED
      BY <3>1, <3>2, <3>3
  <2> QED
    BY <2>1, <2>2
<1>6. ASSUME NEW d \in Device,
             Back(d) \/ CheckAnswered(d) \/ \E r \in Room : DeleteChat(d, r)
      PROVE  shown'[e][q] \in {shown[e][q], None}
  <2>1. CloseDiscussRoom(d) \/ shown' = shown
    BY <1>6 DEF Back, CheckAnswered, DeleteChat
  <2> QED
    BY <2>1, <1>5
<1>7. ASSUME NEW d \in Device, DeleteMissing(d) \/ Kill(d)
      PROVE  shown'[e][q] \in {shown[e][q], None}
  <2>1. shown' = [shown EXCEPT ![d] = [r \in Room |-> None]]
    BY <1>7 DEF DeleteMissing, Kill, Relaunch
  <2>2. e # d => shown'[e] = shown[e]
    BY <2>1 DEF TypeOK
  <2>3. e = d => shown'[e] = [r \in Room |-> None]
    BY <2>1 DEF TypeOK
  <2> QED
    BY <2>2, <2>3
<1> QED
  BY <1>1, <1>2, <1>3, <1>4, <1>6, <1>7 DEF Next

\* Only the service's own step changes a document there.
LEMMA RoomsSteps ==
    ASSUME [Next]_vars, \A d \in Device : ~ Commit(d)
    PROVE  rooms' = rooms
<1>1. CASE UNCHANGED vars
  BY <1>1 DEF vars
<1>2. ASSUME NEW d \in Device,
             \/ RunCallback(d) \/ CheckAnswered(d) \/ SendNothing(d)
             \/ SendMessage(d) \/ Back(d) \/ \E x \in Room : DeleteChat(d, x)
      PROVE  rooms' = rooms
  BY <1>2 DEF RunCallback, CheckAnswered, SendNothing, SendMessage, Back,
     DeleteChat
<1>3. ASSUME NEW d \in Device, DeleteMissing(d) \/ Kill(d) PROVE rooms' = rooms
  BY <1>3 DEF DeleteMissing, Kill, Relaunch
<1>4. ASSUME NEW d \in Device, NEW x \in Room,
             \/ AnswerLoad(d, x) \/ FailLoad(d, x) \/ Snapshot(d, x)
             \/ Open(d, x)
      PROVE  rooms' = rooms
  BY <1>4 DEF AnswerLoad, FailLoad, Snapshot, Open
<1> QED
  BY <1>1, <1>2, <1>3, <1>4 DEF Next

\* A document whose messages were all said does not hold the next one.
LEMMA SentIsNew ==
    ASSUME Core, NEW d \in Device, SendMessage(d), NEW v \in Document, SaidIn(v, sent)
    PROVE  v # Append(Held(d), NextMessage(d))
<1> DEFINE m == NextMessage(d)
<1>1. TypeOK /\ OnScreenIsOpen /\ sent[d] \in Nat
  BY DEF Core, TypeOK
<1>2. Held(d) \in Document /\ m \in Message
  <2>1. currentChatRoom[d] \in Document \cup {None} /\ << >> \in Document
    BY <1>1 DEF TypeOK, Document
  <2>2. idDiscussion[d] \in Room
    BY <1>1, SendMakes DEF SendMessage
  <2> QED
    BY <1>1, <2>1, <2>2 DEF Held, NextMessage, Message
<1>3. m.from = d /\ m.n = sent[d] + 1
  BY DEF NextMessage
<1> HIDE DEF m
<1> DEFINE h == Held(d)
<1>4. h \in Seq(Message)
  BY <1>2 DEF Document
<1> HIDE DEF h
<1>5. /\ Len(Append(h, m)) = Len(h) + 1 /\ Len(h) \in Nat
      /\ Append(h, m)[Len(h) + 1] = m
  BY <1>2, <1>4, AppendProperties, LenProperties
<1>6. ASSUME v = Append(h, m) PROVE FALSE
  <2>1. Len(h) + 1 \in 1..Len(v) /\ v[Len(h) + 1] = m
    BY <1>5, <1>6
  <2>2. m.n <= sent[m.from]
    BY <2>1 DEF SaidIn
  <2> QED
    BY <2>2, <1>1, <1>3
<1> QED
  BY <1>6 DEF h, m

\* What was said stays said.
LEMMA StaysSaid ==
    ASSUME Core, [Next]_vars, NEW v \in Document, SaidIn(v, sent)
    PROVE  SaidIn(v, sent')
<1>1. TypeOK
  BY DEF Core
<1>2. \A a \in Device : sent[a] \in Nat /\ sent'[a] \in Nat /\ sent[a] <= sent'[a]
  <2>1. CASE \A d \in Device : ~ SendMessage(d)
    BY <1>1, <2>1, OthersSendNothing DEF TypeOK
  <2>2. ASSUME NEW d \in Device, SendMessage(d)
        PROVE  \A a \in Device : sent[a] \in Nat /\ sent'[a] \in Nat /\ sent[a] <= sent'[a]
    BY <1>1, <2>2 DEF SendMessage, AppendAndWrite, TypeOK
  <2> QED
    BY <2>1, <2>2
<1> SUFFICES ASSUME NEW i \in 1..Len(v) PROVE v[i].n <= sent'[v[i].from]
  BY DEF SaidIn
<1>3. v[i] \in Message /\ v[i].n <= sent[v[i].from]
  BY ElementOfSeq DEF Document, SaidIn
<1>4. v[i].from \in Device /\ v[i].n \in Nat
  BY <1>3 DEF Message
<1>5. PICK a \in Device, n \in Nat : a = v[i].from /\ n = v[i].n
  BY <1>4
<1> QED
  BY <1>2, <1>3, <1>5

LEMMA NextShownIsSaid ==
    ASSUME Core, CopiesAreSaid, ShownIsSaid, [Next]_vars
    PROVE  ShownIsSaid'
<1>1. TypeOK /\ TypeOK'
  BY NextCore DEF Core
<1> SUFFICES ASSUME NEW e \in Device, NEW q \in Room, shown'[e][q] # None
             PROVE  SaidIn(shown'[e][q], sent')
  BY DEF ShownIsSaid
<1>2. shown'[e][q] \in Document
  BY <1>1 DEF TypeOK
<1>3. SaidIn(shown'[e][q], sent)
  <2>1. CASE shown'[e][q] = shown[e][q]
    <3>1. SaidIn(shown[e][q], sent)
      BY <2>1 DEF ShownIsSaid
    <3> QED
      BY <2>1, <3>1
  <2>2. CASE shown'[e][q] = Read(e, q)
    <3>1. Read(e, q) \in Copies
      BY <2>2, ReadsACopy
    <3>2. SaidIn(Read(e, q), sent)
      BY <3>1 DEF CopiesAreSaid
    <3> QED
      BY <2>2, <3>2
  <2> QED
    BY <1>1, <2>1, <2>2, ShownSteps
<1> QED
  BY <1>2, <1>3, StaysSaid

\* The elements of a longer queue, and of a shorter one, with their places.
LEMMA PlacesInTail ==
    ASSUME NEW T, NEW q \in Seq(T), q # << >>
    PROVE  /\ 1 \in DOMAIN q /\ Head(q) = q[1]
           /\ \A i \in DOMAIN Tail(q) : /\ i \in Nat /\ i + 1 # 1
                                        /\ i + 1 \in DOMAIN q
                                        /\ Tail(q)[i] = q[i + 1]
<1>1. /\ Tail(q) \in Seq(T)
      /\ Len(Tail(q)) = Len(q) - 1
      /\ \A i \in 1..Len(Tail(q)) : Tail(q)[i] = q[i + 1]
  BY HeadTailProperties
<1>2. /\ DOMAIN Tail(q) = 1..Len(Tail(q))
      /\ DOMAIN q = 1..Len(q)
      /\ Len(q) \in Nat \ {0}
  BY <1>1, LenProperties, EmptySeq
<1> QED
  BY <1>1, <1>2

LEMMA PlacesInAppend ==
    ASSUME NEW T, NEW q \in Seq(T), NEW x \in T
    PROVE  /\ DOMAIN q = 1..Len(q) /\ Len(q) \in Nat
           /\ Len(q) + 1 \in DOMAIN Append(q, x)
           /\ Append(q, x)[Len(q) + 1] = x
           /\ \A i \in DOMAIN Append(q, x) :
                 i = Len(q) + 1 \/ (i \in DOMAIN q /\ Append(q, x)[i] = q[i])
<1>1. Append(q, x) \in Seq(T) /\ Len(Append(q, x)) = Len(q) + 1
  BY AppendProperties
<1>2. DOMAIN Append(q, x) = 1..(Len(q) + 1) /\ DOMAIN q = 1..Len(q) /\ Len(q) \in Nat
  BY <1>1, LenProperties
<1> QED
  BY <1>2, AppendProperties

\* The service takes a write: the others are still unlike it.
LEMMA CommitWrites ==
    ASSUME TypeOK, WritesAreDistinct, WritesAreNew, NEW d \in Device, Commit(d)
    PROVE  WritesAreDistinct' /\ WritesAreNew'
<1> DEFINE w == Head(outbox[d])
<1>1. outbox[d] \in Seq(Write) /\ outbox[d] # << >>
  BY DEF TypeOK, Commit
<1>2. /\ 1 \in DOMAIN outbox[d] /\ w = outbox[d][1]
      /\ \A i \in DOMAIN Tail(outbox[d]) :
            /\ i \in Nat /\ i + 1 # 1
            /\ i + 1 \in DOMAIN outbox[d]
            /\ Tail(outbox[d])[i] = outbox[d][i + 1]
  BY <1>1, PlacesInTail
<1>3. /\ rooms' = [rooms EXCEPT ![w.room] = w.doc]
      /\ outbox' = [outbox EXCEPT ![d] = Tail(outbox[d])]
      /\ shown' = shown
  BY DEF Commit
<1> HIDE DEF w
<1>4. outbox'[d] = Tail(outbox[d])
  BY <1>3 DEF TypeOK
<1>5. \A e \in Device : e # d => outbox'[e] = outbox[e]
  BY <1>3 DEF TypeOK
<1>6. \A q \in Room : rooms'[q] = rooms[q] \/ rooms'[q] = outbox[d][1].doc
  BY <1>2, <1>3 DEF TypeOK
<1>7. WritesAreDistinct'
  <2> SUFFICES ASSUME NEW a \in Device, NEW b \in Device,
                      NEW i \in DOMAIN outbox'[a], NEW j \in DOMAIN outbox'[b],
                      outbox'[a][i].doc # None,
                      outbox'[a][i].doc = outbox'[b][j].doc
               PROVE  a = b /\ i = j
    BY DEF WritesAreDistinct
  <2>1. CASE a = d /\ b = d
    <3>1. /\ i \in Nat /\ j \in Nat
          /\ i + 1 \in DOMAIN outbox[d] /\ j + 1 \in DOMAIN outbox[d]
          /\ outbox[d][i + 1].doc # None
          /\ outbox[d][i + 1].doc = outbox[d][j + 1].doc
      BY <1>2, <1>4, <2>1
    <3>2. i + 1 = j + 1
      BY <3>1 DEF WritesAreDistinct
    <3> QED
      BY <2>1, <3>1, <3>2
  <2>2. CASE a = d /\ b # d
    <3>1. /\ i + 1 \in DOMAIN outbox[d] /\ j \in DOMAIN outbox[b]
          /\ outbox[d][i + 1].doc # None
          /\ outbox[d][i + 1].doc = outbox[b][j].doc
      BY <1>2, <1>4, <1>5, <2>2
    <3>2. d = b
      BY <3>1 DEF WritesAreDistinct
    <3> QED
      BY <2>2, <3>2
  <2>3. CASE a # d /\ b = d
    <3>1. /\ i \in DOMAIN outbox[a] /\ j + 1 \in DOMAIN outbox[d]
          /\ outbox[a][i].doc # None
          /\ outbox[a][i].doc = outbox[d][j + 1].doc
      BY <1>2, <1>4, <1>5, <2>3
    <3>2. a = d
      BY <3>1 DEF WritesAreDistinct
    <3> QED
      BY <2>3, <3>2
  <2>4. CASE a # d /\ b # d
    BY <1>5, <2>4 DEF WritesAreDistinct
  <2> QED
    BY <2>1, <2>2, <2>3, <2>4
<1>8. WritesAreNew'
  <2> SUFFICES ASSUME NEW a \in Device, NEW i \in DOMAIN outbox'[a],
                      outbox'[a][i].doc # None
               PROVE  /\ \A q \in Room : rooms'[q] # outbox'[a][i].doc
                      /\ \A e \in Device, q \in Room :
                            shown'[e][q] = outbox'[a][i].doc => e = a
    BY DEF WritesAreNew
  <2>1. \E k \in DOMAIN outbox[a] : /\ outbox'[a][i] = outbox[a][k]
                                    /\ (a # d \/ k # 1)
    BY <1>2, <1>4, <1>5
  <2>2. PICK k \in DOMAIN outbox[a] : /\ outbox'[a][i] = outbox[a][k]
                                     /\ (a # d \/ k # 1)
    BY <2>1
  <2>3. outbox[a][k].doc # None
    BY <2>2
  <2>4. outbox[a][k].doc # outbox[d][1].doc
    BY <1>2, <2>2, <2>3 DEF WritesAreDistinct
  <2>5. /\ \A q \in Room : rooms[q] # outbox[a][k].doc
        /\ \A e \in Device, q \in Room : shown[e][q] = outbox[a][k].doc => e = a
    BY <2>3 DEF WritesAreNew
  <2> QED
    BY <1>3, <1>6, <2>2, <2>4, <2>5
<1> QED
  BY <1>7, <1>8

\* One more write, without a document or with a new one.
LEMMA AppendWrites ==
    ASSUME TypeOK, WritesAreDistinct, WritesAreNew, NEW d \in Device, NEW w \in Write,
           outbox' = [outbox EXCEPT ![d] = Append(outbox[d], w)],
           rooms' = rooms,
           \A e \in Device, q \in Room : shown'[e][q] \in {shown[e][q], None},
           w.doc = None \/
             /\ \A e \in Device : \A j \in DOMAIN outbox[e] : outbox[e][j].doc # w.doc
             /\ \A q \in Room : rooms[q] # w.doc
             /\ \A e \in Device, q \in Room : shown[e][q] # w.doc
    PROVE  WritesAreDistinct' /\ WritesAreNew'
<1> DEFINE n == Len(outbox[d]) + 1
<1>1. outbox[d] \in Seq(Write)
  BY DEF TypeOK
<1>2. /\ n \in DOMAIN Append(outbox[d], w) /\ Append(outbox[d], w)[n] = w
      /\ \A i \in DOMAIN Append(outbox[d], w) :
            i = n \/ (/\ i \in DOMAIN outbox[d]
                      /\ Append(outbox[d], w)[i] = outbox[d][i])
  BY <1>1, PlacesInAppend
<1> HIDE DEF n
<1>3. outbox'[d] = Append(outbox[d], w)
  BY DEF TypeOK
<1>4. \A e \in Device : e # d => outbox'[e] = outbox[e]
  BY DEF TypeOK
<1>5. \A e \in Device : \A i \in DOMAIN outbox'[e] :
        \/ e = d /\ i = n /\ outbox'[e][i] = w
        \/ i \in DOMAIN outbox[e] /\ outbox'[e][i] = outbox[e][i]
  BY <1>2, <1>3, <1>4
<1>6. WritesAreDistinct'
  <2> SUFFICES ASSUME NEW a \in Device, NEW b \in Device,
                      NEW i \in DOMAIN outbox'[a], NEW j \in DOMAIN outbox'[b],
                      outbox'[a][i].doc # None,
                      outbox'[a][i].doc = outbox'[b][j].doc
               PROVE  a = b /\ i = j
    BY DEF WritesAreDistinct
  <2>1. CASE a = d /\ i = n /\ outbox'[a][i] = w
    BY <1>5, <2>1
  <2>2. CASE b = d /\ j = n /\ outbox'[b][j] = w
    BY <1>5, <2>2
  <2>3. CASE /\ i \in DOMAIN outbox[a] /\ outbox'[a][i] = outbox[a][i]
             /\ j \in DOMAIN outbox[b] /\ outbox'[b][j] = outbox[b][j]
    BY <2>3 DEF WritesAreDistinct
  <2> QED
    BY <1>5, <2>1, <2>2, <2>3
<1>7. WritesAreNew'
  <2> SUFFICES ASSUME NEW a \in Device, NEW i \in DOMAIN outbox'[a],
                      outbox'[a][i].doc # None
               PROVE  /\ \A q \in Room : rooms'[q] # outbox'[a][i].doc
                      /\ \A e \in Device, q \in Room :
                            shown'[e][q] = outbox'[a][i].doc => e = a
    BY DEF WritesAreNew
  <2>1. CASE outbox'[a][i] = w
    BY <2>1
  <2>2. CASE i \in DOMAIN outbox[a] /\ outbox'[a][i] = outbox[a][i]
    BY <2>2 DEF WritesAreNew
  <2> QED
    BY <1>5, <2>1, <2>2
<1> QED
  BY <1>6, <1>7

\* A sent document is none of those that waited, were stored or were shown.
LEMMA SendWrites ==
    ASSUME Core, CopiesAreSaid, ShownIsSaid, WritesAreDistinct, WritesAreNew,
           NEW d \in Device, SendMessage(d)
    PROVE  WritesAreDistinct' /\ WritesAreNew'
<1> DEFINE copy == Append(Held(d), NextMessage(d))
<1> DEFINE w == [room |-> idDiscussion[d], doc |-> copy]
<1>1. TypeOK /\ OnScreenIsOpen
  BY DEF Core
<1>2. w \in Write /\ w.doc = copy
  BY <1>1, SendMakes DEF SendMessage, Write
<1>3. /\ outbox' = [outbox EXCEPT ![d] = Append(outbox[d], w)]
      /\ rooms' = rooms /\ shown' = shown
  BY DEF SendMessage, AppendAndWrite
<1>4. \A v \in Document : SaidIn(v, sent) => v # copy
  BY SentIsNew
<1> HIDE DEF copy, w
<1>5. \A v \in Copies : v # None /\ v \in Document => v # copy
  BY <1>4 DEF CopiesAreSaid
<1>6. \A e \in Device : \A j \in DOMAIN outbox[e] : outbox[e][j].doc # w.doc
  <2> SUFFICES ASSUME NEW e \in Device, NEW j \in DOMAIN outbox[e],
                      outbox[e][j].doc = copy
               PROVE  FALSE
    BY <1>2
  <2>1. outbox[e][j].doc \in Copies \cup {None}
    BY PlacesHoldCopies
  <2>2. copy \in Document /\ copy # None
    BY <1>1, SendMakes, NoneAssumption DEF SendMessage, copy
  <2> QED
    BY <1>5, <2>1, <2>2
<1>7. \A q \in Room : rooms[q] # w.doc
  <2> SUFFICES ASSUME NEW q \in Room, rooms[q] = copy PROVE FALSE
    BY <1>2
  <2>1. rooms[q] \in Copies \cup {None}
    BY PlacesHoldCopies
  <2>2. copy \in Document /\ copy # None
    BY <1>1, SendMakes, NoneAssumption DEF SendMessage, copy
  <2> QED
    BY <1>5, <2>1, <2>2
<1>8. \A e \in Device, q \in Room : shown[e][q] # w.doc
  <2> SUFFICES ASSUME NEW e \in Device, NEW q \in Room, shown[e][q] = copy
               PROVE  FALSE
    BY <1>2
  <2>1. copy \in Document /\ copy # None
    BY <1>1, SendMakes, NoneAssumption DEF SendMessage, copy
  <2>2. SaidIn(shown[e][q], sent)
    BY <2>1 DEF ShownIsSaid
  <2> QED
    BY <1>4, <2>1, <2>2
<1>9. \A e \in Device, q \in Room : shown'[e][q] \in {shown[e][q], None}
  BY <1>3
<1> QED
  BY <1>1, <1>2, <1>3, <1>6, <1>7, <1>8, <1>9, AppendWrites

LEMMA NextWrites ==
    ASSUME Core, CopiesAreSaid, ShownIsSaid, WritesAreDistinct, WritesAreNew,
           [Next]_vars
    PROVE  WritesAreDistinct' /\ WritesAreNew'
<1>1. TypeOK
  BY DEF Core
<1>2. ASSUME NEW d \in Device, NEW r \in Room, DeleteChat(d, r)
      PROVE  WritesAreDistinct' /\ WritesAreNew'
  <2> DEFINE w == [room |-> r, doc |-> None]
  <2>1. w \in Write /\ w.doc = None
    BY <1>1, <1>2 DEF TypeOK, DeleteChat, Write
  <2>2. /\ outbox' = [outbox EXCEPT ![d] = Append(outbox[d], w)]
        /\ rooms' = rooms
        /\ CloseDiscussRoom(d)
    BY <1>2 DEF DeleteChat
  <2> HIDE DEF w
  <2>3. outbox' # outbox
    <3>1. outbox[d] \in Seq(Write) /\ outbox'[d] = Append(outbox[d], w)
      BY <1>1, <2>2 DEF TypeOK
    <3>2. Len(outbox[d]) \in Nat /\ Len(outbox'[d]) = Len(outbox[d]) + 1
      BY <2>1, <3>1, AppendProperties, LenProperties
    <3> QED
      BY <3>2
  <2>4. \A e \in Device, q \in Room : shown'[e][q] \in {shown[e][q], None}
    BY <1>1, <2>3, ShownSteps
  <2> QED
    BY <1>1, <2>1, <2>2, <2>4, AppendWrites
<1>3. ASSUME \A d \in Device : ~ (\/ Commit(d) \/ SendMessage(d)
                                 \/ \E r \in Room : DeleteChat(d, r))
      PROVE  WritesAreDistinct' /\ WritesAreNew'
  <2>1. rooms' = rooms
    BY <1>3, RoomsSteps
  <2>2. \A e \in Device : outbox'[e] = outbox[e]
    BY <1>1, <1>3, OutboxSteps
  <2>3. WritesAreDistinct'
    BY <2>2 DEF WritesAreDistinct
  <2>4. WritesAreNew'
    <3> SUFFICES ASSUME NEW a \in Device, NEW i \in DOMAIN outbox[a],
                        outbox[a][i].doc # None
                 PROVE  \A e \in Device, q \in Room :
                           shown'[e][q] = outbox[a][i].doc => e = a
      BY <2>1, <2>2 DEF WritesAreNew
    <3> SUFFICES ASSUME NEW e \in Device, NEW q \in Room,
                        shown'[e][q] = outbox[a][i].doc
                 PROVE  e = a
      OBVIOUS
    <3>1. CASE shown'[e][q] = shown[e][q]
      BY <3>1 DEF WritesAreNew
    <3>2. CASE shown'[e][q] = Read(e, q)
      <4>1. CASE Read(e, q) = rooms[q]
        BY <3>2, <4>1 DEF WritesAreNew
      <4>2. CASE \E k \in DOMAIN outbox[e] : Read(e, q) = outbox[e][k].doc
        BY <3>2, <4>2 DEF WritesAreDistinct
      <4> QED
        BY <4>1, <4>2, ReadIsWrittenOrStored
    <3> QED
      BY <1>1, <3>1, <3>2, ShownSteps
  <2> QED
    BY <2>3, <2>4
<1> QED
  BY <1>1, <1>2, <1>3, CommitWrites, SendWrites

\* The same after a step.
OnlyReads ==
    \A d \in Device, r \in Room : Room = {r} =>
        Read(d, r) = IF outbox[d] = << >> THEN rooms[r]
                     ELSE outbox[d][Len(outbox[d])].doc

LEMMA ReadsOnly == TypeOK => OnlyReads
  BY ReadOnly DEF OnlyReads

LEMMA ReadOnlyNext ==
    ASSUME TypeOK', NEW d \in Device, NEW r \in Room, Room = {r}
    PROVE  Read(d, r)' = IF outbox'[d] = << >> THEN rooms'[r]
                         ELSE outbox'[d][Len(outbox'[d])].doc
<1>1. TypeOK' => OnlyReads'
  BY ReadsOnly, PTL
<1>2. \A a \in Device, q \in Room : Room = {q} =>
         Read(a, q)' = IF outbox'[a] = << >> THEN rooms'[q]
                       ELSE outbox'[a][Len(outbox'[a])].doc
  BY <1>1 DEF OnlyReads
<1> QED
  BY <1>2

\* A document posted last is the one the main queue ends with.
LEMMA PostedLast ==
    ASSUME TypeOK, NEW d \in Device, NEW c \in Callback, c.via # "muted",
           mainQueue' = [mainQueue EXCEPT ![d] = Append(mainQueue[d], c)]
    PROVE  EndsWith(mainQueue'[d], currentChatRoom'[d], c.doc)
<1> DEFINE n == Len(mainQueue[d]) + 1
<1>1. mainQueue[d] \in Seq(Callback) /\ mainQueue'[d] = Append(mainQueue[d], c)
  BY DEF TypeOK
<1>2. /\ Len(mainQueue[d]) \in Nat
      /\ DOMAIN mainQueue[d] = 1..Len(mainQueue[d])
      /\ n \in DOMAIN mainQueue'[d] /\ mainQueue'[d][n] = c
      /\ \A i \in DOMAIN mainQueue'[d] : i = n \/ i \in DOMAIN mainQueue[d]
  BY <1>1, PlacesInAppend
<1>3. \A i \in DOMAIN mainQueue'[d] : ~ (n < i)
  BY <1>2
<1> HIDE DEF n
<1> QED
  BY <1>2, <1>3 DEF EndsWith

\* Running a callback does not change what the queue ends with.
LEMMA RunEndsAlike ==
    ASSUME TypeOK, NEW d \in Device, RunCallback(d), NEW x,
           EndsWith(mainQueue[d], currentChatRoom[d], x)
    PROVE  EndsWith(mainQueue'[d], currentChatRoom'[d], x)
<1> DEFINE q == mainQueue[d]
<1>1. q \in Seq(Callback) /\ q # << >>
  BY DEF TypeOK, RunCallback
<1>2. /\ 1 \in DOMAIN q /\ Head(q) = q[1]
      /\ \A i \in DOMAIN Tail(q) : /\ i \in Nat /\ i + 1 # 1
                                   /\ i + 1 \in DOMAIN q
                                   /\ Tail(q)[i] = q[i + 1]
  BY <1>1, PlacesInTail
<1>3. /\ DOMAIN q = 1..Len(q) /\ Len(q) \in Nat
      /\ DOMAIN Tail(q) = 1..Len(Tail(q)) /\ Len(Tail(q)) = Len(q) - 1
  BY <1>1, HeadTailProperties, LenProperties
<1>4. /\ mainQueue'[d] = Tail(q)
      /\ currentChatRoom'[d] = IF q[1].via = "muted" THEN currentChatRoom[d]
                               ELSE q[1].doc
  BY <1>2 DEF RunCallback, TypeOK
<1>5. CASE /\ \A j \in DOMAIN q : q[j].via = "muted"
           /\ currentChatRoom[d] = x
  BY <1>2, <1>4, <1>5 DEF EndsWith
<1>6. ASSUME NEW i \in DOMAIN q, q[i].via # "muted", q[i].doc = x,
             \A j \in DOMAIN q : i < j => q[j].via = "muted"
      PROVE  EndsWith(mainQueue'[d], currentChatRoom'[d], x)
  <2>1. CASE i = 1
    <3>1. currentChatRoom'[d] = x
      BY <1>4, <1>6, <2>1
    <3>2. \A j \in DOMAIN Tail(q) : Tail(q)[j].via = "muted"
      <4> SUFFICES ASSUME NEW j \in DOMAIN Tail(q) PROVE Tail(q)[j].via = "muted"
        OBVIOUS
      <4>1. j + 1 \in DOMAIN q /\ Tail(q)[j] = q[j + 1] /\ 1 < j + 1
        BY <1>2, <1>3
      <4> QED
        BY <4>1, <1>6, <2>1
    <3> QED
      BY <3>1, <3>2, <1>4 DEF EndsWith
  <2>2. CASE i # 1
    <3>1. PICK k \in DOMAIN Tail(q) : k + 1 = i /\ Tail(q)[k] = q[i]
      <4>1. i - 1 \in DOMAIN Tail(q) /\ (i - 1) + 1 = i
        BY <1>3, <2>2
      <4> QED
        BY <4>1, <1>2
    <3>2. \A j \in DOMAIN Tail(q) : k < j => Tail(q)[j].via = "muted"
      <4> SUFFICES ASSUME NEW j \in DOMAIN Tail(q), k < j
                   PROVE  Tail(q)[j].via = "muted"
        OBVIOUS
      <4>1. j + 1 \in DOMAIN q /\ Tail(q)[j] = q[j + 1] /\ i < j + 1
        BY <1>2, <1>3, <3>1
      <4> QED
        BY <4>1, <1>6
    <3> QED
      BY <3>1, <3>2, <1>4, <1>6 DEF EndsWith
  <2> QED
    BY <2>1, <2>2
<1> HIDE DEF q
<1>7. \/ /\ \A j \in DOMAIN q : q[j].via = "muted"
         /\ currentChatRoom[d] = x
      \/ \E i \in DOMAIN q :
            /\ q[i].via # "muted" /\ q[i].doc = x
            /\ \A j \in DOMAIN q : i < j => q[j].via = "muted"
  BY DEF EndsWith, q
<1> QED
  BY <1>5, <1>6, <1>7

\* Committing one's own write does not change what one reads.
LEMMA CommitReadsAlike ==
    ASSUME TypeOK, NEW d \in Device, NEW r \in Room, Room = {r}, Commit(d)
    PROVE  Read(d, r)' = Read(d, r)
<1> DEFINE q == outbox[d]
<1>1. q \in Seq(Write) /\ q # << >> /\ TypeOK'
  BY CommitTypeOK DEF TypeOK, Commit
<1>2. /\ outbox'[d] = Tail(q) /\ rooms'[r] = q[1].doc
  <2>1. 1 \in DOMAIN q /\ Head(q) = q[1]
    BY <1>1, PlacesInTail
  <2>2. q[1].room = r
    <3>1. Head(q) \in Write
      BY <1>1, HeadTailProperties
    <3> QED
      BY <2>1, <3>1 DEF Write
  <2>3. rooms' = [rooms EXCEPT ![Head(q).room] = Head(q).doc]
    BY DEF Commit
  <2>4. rooms'[r] = q[1].doc
    BY <2>1, <2>2, <2>3 DEF TypeOK
  <2> QED
    BY <2>4 DEF Commit, TypeOK
<1>3. Read(d, r) = q[Len(q)].doc
  BY <1>1, ReadOnly
<1>4. Read(d, r)' = IF Tail(q) = << >> THEN q[1].doc
                    ELSE Tail(q)[Len(Tail(q))].doc
  <2>1. Read(d, r)' = IF outbox'[d] = << >> THEN rooms'[r]
                      ELSE outbox'[d][Len(outbox'[d])].doc
    BY <1>1, ReadOnlyNext
  <2> QED
    BY <1>2, <2>1
<1>5. /\ Len(q) \in Nat \ {0}
      /\ Tail(q) \in Seq(Write) /\ Len(Tail(q)) = Len(q) - 1
      /\ \A i \in 1..Len(Tail(q)) : Tail(q)[i] = q[i + 1]
  BY <1>1, HeadTailProperties, LenProperties, EmptySeq
<1>6. CASE Tail(q) = << >>
  <2>1. Len(Tail(q)) = 0
    BY <1>5, <1>6, EmptySeq
  <2>2. Len(q) = 1
    BY <1>5, <2>1
  <2> QED
    BY <1>3, <1>4, <1>6, <2>2
<1>7. CASE Tail(q) # << >>
  <2>1. Len(Tail(q)) \in 1..Len(Tail(q)) /\ Len(Tail(q)) + 1 = Len(q)
    BY <1>5, <1>7, EmptySeq
  <2> QED
    BY <1>3, <1>4, <1>5, <1>7, <2>1
<1> QED
  BY <1>6, <1>7

\* Every step leaves a device that is told of the newest document heading for
\* it: a post brings what is read, another device's write is one it has not been
\* shown, its own is one nobody has.
LEMMA NextHeads ==
    ASSUME Core, CopiesAreSaid, ShownIsSaid, WritesAreNew, HeadsForCurrent,
           [Next]_vars, NEW d \in Device, NEW r \in Room,
           Room = {r}, listenerChat'[d] = r,
           shown'[d][r] = Read(d, r)', Read(d, r)' # None
    PROVE  EndsWith(mainQueue'[d], currentChatRoom'[d], Read(d, r)')
<1>1. TypeOK /\ TypeOK' /\ OnScreenIsOpen
  BY NextCore DEF Core
<1>2. \A q \in Room : q = r
  OBVIOUS
<1>3. r # None
  BY NoneAssumption
\* What is read changes with the service or the device's own writes only.
<1>4. ASSUME outbox'[d] = outbox[d], rooms'[r] = rooms[r]
      PROVE  Read(d, r)' = Read(d, r)
  <2>1. Read(d, r) = IF outbox[d] = << >> THEN rooms[r]
                     ELSE outbox[d][Len(outbox[d])].doc
    BY <1>1, ReadOnly
  <2>2. Read(d, r)' = IF outbox'[d] = << >> THEN rooms'[r]
                      ELSE outbox'[d][Len(outbox'[d])].doc
    BY <1>1, ReadOnlyNext
  <2> QED
    BY <1>4, <2>1, <2>2
\* Nothing else of the device changes: it was heading for the same document.
<1>5. ASSUME Read(d, r)' = Read(d, r), shown'[d][r] = shown[d][r],
             listenerChat'[d] = listenerChat[d], mainQueue'[d] = mainQueue[d],
             currentChatRoom'[d] = currentChatRoom[d]
      PROVE  EndsWith(mainQueue'[d], currentChatRoom'[d], Read(d, r)')
  BY <1>5 DEF HeadsForCurrent
<1>6. ASSUME UNCHANGED vars
      PROVE  EndsWith(mainQueue'[d], currentChatRoom'[d], Read(d, r)')
  <2>1. /\ outbox' = outbox /\ rooms' = rooms /\ shown' = shown
        /\ listenerChat' = listenerChat /\ mainQueue' = mainQueue
        /\ currentChatRoom' = currentChatRoom
    BY <1>6 DEF vars, sdk, messenger
  <2> QED
    BY <1>4, <1>5, <2>1
<1>7. ASSUME NEW e \in Device, Commit(e)
      PROVE  EndsWith(mainQueue'[d], currentChatRoom'[d], Read(d, r)')
  <2>1. /\ shown' = shown /\ listenerChat' = listenerChat /\ mainQueue' = mainQueue
        /\ currentChatRoom' = currentChatRoom
    BY <1>7 DEF Commit, messenger
  <2>2. CASE e = d
    <3>1. Read(d, r)' = Read(d, r)
      BY <1>1, <1>7, <2>2, CommitReadsAlike
    <3> QED
      BY <1>5, <2>1, <3>1
  <2>3. CASE e # d
    <3>1. outbox'[d] = outbox[d]
      BY <1>1, <1>7, <2>3 DEF Commit, TypeOK
    <3>2. CASE rooms'[r] = rooms[r]
      BY <1>4, <1>5, <2>1, <3>1, <3>2
    <3>3. CASE rooms'[r] # rooms[r]
      <4>1. outbox[e] \in Seq(Write) /\ outbox[e] # << >>
        BY <1>1, <1>7 DEF TypeOK, Commit
      <4>2. 1 \in DOMAIN outbox[e] /\ Head(outbox[e]) = outbox[e][1]
        BY <4>1, PlacesInTail
      <4>3. rooms' = [rooms EXCEPT ![Head(outbox[e]).room] = Head(outbox[e]).doc]
        BY <1>7 DEF Commit
      <4>4. rooms'[r] = outbox[e][1].doc
        BY <1>1, <3>3, <4>2, <4>3 DEF TypeOK
      <4>5. outbox[d] # << >>
        <5>1. ASSUME outbox[d] = << >> PROVE FALSE
          <6>1. Read(d, r)' = rooms'[r]
            BY <1>1, <3>1, <5>1, ReadOnlyNext
          <6>2. outbox[e][1].doc # None /\ shown[d][r] = outbox[e][1].doc
            BY <2>1, <4>4, <6>1
          <6>3. d = e
            BY <4>2, <6>2 DEF WritesAreNew
          <6> QED
            BY <2>3, <6>3
        <5> QED
          BY <5>1
      <4>6. Read(d, r)' = Read(d, r)
        <5>1. Read(d, r) = outbox[d][Len(outbox[d])].doc
          BY <1>1, <4>5, ReadOnly
        <5>2. Read(d, r)' = outbox'[d][Len(outbox'[d])].doc
          BY <1>1, <3>1, <4>5, ReadOnlyNext
        <5> QED
          BY <3>1, <5>1, <5>2
      <4> QED
        BY <1>5, <2>1, <4>6
    <3> QED
      BY <3>2, <3>3
  <2> QED
    BY <2>2, <2>3
<1>8. ASSUME NEW e \in Device, RunCallback(e)
      PROVE  EndsWith(mainQueue'[d], currentChatRoom'[d], Read(d, r)')
  <2>1. /\ outbox' = outbox /\ rooms' = rooms /\ shown' = shown
        /\ listenerChat' = listenerChat
    BY <1>8 DEF RunCallback
  <2>2. Read(d, r)' = Read(d, r)
    BY <1>4, <2>1
  <2>3. CASE e = d
    <3>1. EndsWith(mainQueue[d], currentChatRoom[d], Read(d, r))
      BY <2>1, <2>2 DEF HeadsForCurrent
    <3>2. PICK x : x = Read(d, r)
      OBVIOUS
    <3>3. EndsWith(mainQueue'[d], currentChatRoom'[d], x)
      BY <1>1, <1>8, <2>3, <3>1, <3>2, RunEndsAlike
    <3> QED
      BY <2>2, <3>2, <3>3
  <2>4. CASE e # d
    <3>1. mainQueue'[d] = mainQueue[d] /\ currentChatRoom'[d] = currentChatRoom[d]
      BY <1>1, <1>8, <2>4 DEF RunCallback, TypeOK
    <3> QED
      BY <1>5, <2>1, <2>2, <3>1
  <2> QED
    BY <2>3, <2>4
\* Leaving the room unregisters the device.
<1>9. ASSUME NEW e \in Device, CloseDiscussRoom(e), rooms' = rooms, e # d => outbox'[d] = outbox[d]
      PROVE  EndsWith(mainQueue'[d], currentChatRoom'[d], Read(d, r)')
  <2>1. listenerChat' = [listenerChat EXCEPT ![e] = None]
    BY <1>9 DEF CloseDiscussRoom
  <2>2. e # d
    BY <1>1, <1>3, <2>1 DEF TypeOK
  <2>3. /\ \/ mainQueue' = mainQueue
           \/ \E q : mainQueue' = [mainQueue EXCEPT ![e] = q]
        /\ \/ shown' = shown
           \/ \E x : shown' = [shown EXCEPT ![e] = x]
        /\ currentChatRoom' = [currentChatRoom EXCEPT ![e] = None]
    BY <1>9 DEF CloseDiscussRoom, RemoveListener
  <2>4. mainQueue'[d] = mainQueue[d]
    <3>1. CASE mainQueue' = mainQueue
      BY <3>1
    <3>2. CASE \E q : mainQueue' = [mainQueue EXCEPT ![e] = q]
      BY <1>1, <2>2, <3>2 DEF TypeOK
    <3> QED
      BY <2>3, <3>1, <3>2
  <2>5. shown'[d] = shown[d]
    <3>1. CASE shown' = shown
      BY <3>1
    <3>2. CASE \E x : shown' = [shown EXCEPT ![e] = x]
      BY <1>1, <2>2, <3>2 DEF TypeOK
    <3> QED
      BY <2>3, <3>1, <3>2
  <2>6. /\ currentChatRoom'[d] = currentChatRoom[d]
        /\ listenerChat'[d] = listenerChat[d]
    BY <1>1, <2>1, <2>2, <2>3 DEF TypeOK
  <2> QED
    BY <1>4, <1>5, <1>9, <2>2, <2>4, <2>5, <2>6
<1>10. ASSUME NEW e \in Device, Back(e) \/ CheckAnswered(e)
       PROVE  EndsWith(mainQueue'[d], currentChatRoom'[d], Read(d, r)')
  <2>1. outbox' = outbox /\ rooms' = rooms
    BY <1>10 DEF Back, CheckAnswered
  <2>2. CASE CloseDiscussRoom(e)
    BY <1>9, <2>1, <2>2
  <2>3. CASE ~ CloseDiscussRoom(e)
    <3>1. /\ shown' = shown /\ mainQueue' = mainQueue
          /\ listenerChat' = listenerChat /\ currentChatRoom' = currentChatRoom
      BY <1>10, <2>3 DEF Back, CheckAnswered, messenger
    <3> QED
      BY <1>4, <1>5, <2>1, <3>1
  <2> QED
    BY <2>2, <2>3
<1>11. ASSUME NEW e \in Device, NEW q \in Room, DeleteChat(e, q)
       PROVE  EndsWith(mainQueue'[d], currentChatRoom'[d], Read(d, r)')
  <2>1. CloseDiscussRoom(e) /\ rooms' = rooms /\ (e # d => outbox'[d] = outbox[d])
    BY <1>1, <1>11 DEF DeleteChat, TypeOK
  <2> QED
    BY <1>9, <2>1
<1>12. ASSUME NEW e \in Device, DeleteMissing(e) \/ Kill(e)
       PROVE  EndsWith(mainQueue'[d], currentChatRoom'[d], Read(d, r)')
  <2>1. Relaunch(e)
    BY <1>12 DEF DeleteMissing, Kill
  <2>2. /\ outbox' = outbox /\ rooms' = rooms
        /\ listenerChat' = [listenerChat EXCEPT ![e] = None]
        /\ shown' = [shown EXCEPT ![e] = [q \in Room |-> None]]
        /\ mainQueue' = [mainQueue EXCEPT ![e] = << >>]
        /\ currentChatRoom' = [currentChatRoom EXCEPT ![e] = None]
    BY <2>1 DEF Relaunch
  <2>3. e # d
    BY <1>1, <1>3, <2>2 DEF TypeOK
  <2>4. /\ mainQueue'[d] = mainQueue[d] /\ shown'[d] = shown[d]
        /\ currentChatRoom'[d] = currentChatRoom[d]
        /\ listenerChat'[d] = listenerChat[d]
    BY <1>1, <2>2, <2>3 DEF TypeOK
  <2> QED
    BY <1>4, <1>5, <2>2, <2>4
<1>13. ASSUME NEW e \in Device, SendMessage(e)
       PROVE  EndsWith(mainQueue'[d], currentChatRoom'[d], Read(d, r)')
  <2> DEFINE copy == Append(Held(e), NextMessage(e))
  <2> DEFINE w == [room |-> idDiscussion[e], doc |-> copy]
  <2>1. /\ rooms' = rooms /\ shown' = shown /\ mainQueue' = mainQueue
        /\ listenerChat' = listenerChat
        /\ currentChatRoom' = [currentChatRoom EXCEPT ![e] = copy]
        /\ outbox' = [outbox EXCEPT ![e] = Append(outbox[e], w)]
    BY <1>13 DEF SendMessage, AppendAndWrite
  <2>2. w \in Write /\ w.doc = copy /\ copy \in Document
    BY <1>1, <1>13, SendMakes DEF SendMessage, Write
  <2>3. \A v \in Document : SaidIn(v, sent) => v # copy
    BY <1>13, SentIsNew
  <2> HIDE DEF copy, w
  <2>4. CASE e = d
    <3>1. outbox[d] \in Seq(Write) /\ outbox'[d] = Append(outbox[d], w)
      BY <1>1, <2>1, <2>4 DEF TypeOK
    <3>2. /\ Len(outbox'[d]) = Len(outbox[d]) + 1 /\ Len(outbox[d]) \in Nat
          /\ outbox'[d][Len(outbox[d]) + 1] = w
      BY <2>2, <3>1, AppendProperties, LenProperties
    <3>3. outbox'[d] # << >>
      BY <3>1, <2>2, AppendProperties
    <3>4. Read(d, r)' = copy
      BY <1>1, <2>2, <3>2, <3>3, ReadOnlyNext
    <3>5. shown[d][r] = copy /\ copy # None
      BY <2>1, <3>4
    <3>6. SaidIn(shown[d][r], sent)
      BY <3>5 DEF ShownIsSaid
    <3> QED
      BY <2>2, <2>3, <3>5, <3>6
  <2>5. CASE e # d
    <3>1. outbox'[d] = outbox[d] /\ currentChatRoom'[d] = currentChatRoom[d]
      BY <1>1, <2>1, <2>5 DEF TypeOK
    <3> QED
      BY <1>4, <1>5, <2>1, <3>1
  <2> QED
    BY <2>4, <2>5
<1>14. ASSUME NEW e \in Device, NEW q \in Room, AnswerLoad(e, q) \/ Snapshot(e, q)
       PROVE  EndsWith(mainQueue'[d], currentChatRoom'[d], Read(d, r)')
  <2>1. /\ outbox' = outbox /\ rooms' = rooms
        /\ listenerChat' = listenerChat /\ currentChatRoom' = currentChatRoom
    BY <1>14 DEF AnswerLoad, Snapshot, messenger
  <2>2. Read(d, r)' = Read(d, r)
    BY <1>4, <2>1
  <2>3. CASE e = d
    <3>1. q = r /\ Read(e, q) # None
      BY <1>2, <2>2, <2>3
    <3>2. PICK via \in {"load", "listener"} :
            mainQueue' = [mainQueue EXCEPT ![d] = Append(mainQueue[d],
                            [via |-> via, room |-> r, doc |-> Read(d, r)])]
      BY <1>14, <2>3, <3>1 DEF AnswerLoad, Snapshot
    <3> DEFINE c == [via |-> via, room |-> r, doc |-> Read(d, r)]
    <3>3. c \in Callback /\ c.via # "muted" /\ c.doc = Read(d, r)
      BY <1>1, <2>3, <3>1, ReadType DEF Callback
    <3>4. mainQueue' = [mainQueue EXCEPT ![d] = Append(mainQueue[d], c)]
      BY <3>2
    <3> HIDE DEF c
    <3>5. PICK k \in Callback : k = c
      BY <3>3
    <3>6. EndsWith(mainQueue'[d], currentChatRoom'[d], k.doc)
      BY <1>1, <3>3, <3>4, <3>5, PostedLast
    <3> QED
      BY <2>2, <3>3, <3>5, <3>6
  <2>4. CASE e # d
    <3>1. /\ \/ mainQueue' = mainQueue
             \/ \E x : mainQueue' = [mainQueue EXCEPT ![e] = x]
          /\ \/ shown' = shown
             \/ \E x : shown' = [shown EXCEPT ![e] = x]
      BY <1>14 DEF AnswerLoad, Snapshot
    <3>2. mainQueue'[d] = mainQueue[d] /\ shown'[d] = shown[d]
      BY <1>1, <2>4, <3>1 DEF TypeOK
    <3> QED
      BY <1>5, <2>1, <2>2, <3>2
  <2> QED
    BY <2>3, <2>4
<1>15. ASSUME NEW e \in Device, NEW q \in Room, Open(e, q)
       PROVE  EndsWith(mainQueue'[d], currentChatRoom'[d], Read(d, r)')
  <2>1. /\ outbox' = outbox /\ rooms' = rooms /\ mainQueue' = mainQueue
        /\ currentChatRoom' = [currentChatRoom EXCEPT ![e] = None]
        /\ listenerChat' = [listenerChat EXCEPT ![e] = q]
        /\ shown' = [shown EXCEPT ![e] = [shown[e] EXCEPT ![q] = None]]
    BY <1>15 DEF Open
  <2>2. e # d
    <3>1. e = d => shown'[d][r] = None
      BY <1>1, <1>2, <2>1 DEF TypeOK
    <3> QED
      BY <3>1
  <2>3. /\ shown'[d] = shown[d] /\ currentChatRoom'[d] = currentChatRoom[d]
        /\ listenerChat'[d] = listenerChat[d]
    BY <1>1, <2>1, <2>2 DEF TypeOK
  <2> QED
    BY <1>4, <1>5, <2>1, <2>3
<1>16. ASSUME NEW e \in Device,
              \/ SendNothing(e)
              \/ \E q \in Room : FailLoad(e, q)
       PROVE  EndsWith(mainQueue'[d], currentChatRoom'[d], Read(d, r)')
  <2>1. /\ outbox' = outbox /\ rooms' = rooms /\ shown' = shown
        /\ listenerChat' = listenerChat /\ mainQueue' = mainQueue
        /\ currentChatRoom' = currentChatRoom
    BY <1>16 DEF SendNothing, FailLoad, sdk, messenger
  <2> QED
    BY <1>4, <1>5, <2>1
<1> QED
  BY <1>6, <1>7, <1>8, <1>10, <1>11, <1>12, <1>13, <1>14, <1>15, <1>16 DEF Next

LEMMA InitQuiet == Init => Quiet
<1> SUFFICES ASSUME Init PROVE Quiet
  OBVIOUS
<1>1. \A d \in Device : DOMAIN outbox[d] = {}
  <2>1. \A d \in Device : outbox[d] = << >>
    BY DEF Init
  <2>2. DOMAIN << >> = {}
    OBVIOUS
  <2> QED
    BY <2>1, <2>2
<1>2. \A d \in Device, r \in Room : shown[d][r] = None /\ listenerChat[d] = None
  BY DEF Init
<1>3. CopiesAreSaid
  <2>1. \A v \in Copies : v = << >> /\ Len(v) = 0
    BY DEF Init, Copies, Docs
  <2> QED
    BY <2>1 DEF CopiesAreSaid, SaidIn
<1>4. ShownIsSaid
  BY <1>2 DEF ShownIsSaid
<1>5. WritesAreDistinct /\ WritesAreNew
  BY <1>1 DEF WritesAreDistinct, WritesAreNew
<1>6. HeadsForCurrent
  BY <1>2, NoneAssumption DEF HeadsForCurrent
<1> QED
  BY <1>3, <1>4, <1>5, <1>6 DEF Quiet

LEMMA NextQuiet == Core /\ Quiet /\ CopiesAreSaid' /\ [Next]_vars => Quiet'
<1> SUFFICES ASSUME Core, Quiet, CopiesAreSaid', [Next]_vars PROVE Quiet'
  OBVIOUS
<1>1. /\ CopiesAreSaid /\ ShownIsSaid
      /\ WritesAreDistinct /\ WritesAreNew /\ HeadsForCurrent
  BY DEF Quiet
<1>2. ShownIsSaid'
  BY <1>1, NextShownIsSaid
<1>3. WritesAreDistinct' /\ WritesAreNew'
  BY <1>1, NextWrites
<1>4. HeadsForCurrent'
  BY <1>1, NextHeads DEF HeadsForCurrent
<1> QED
  BY <1>2, <1>3, <1>4 DEF Quiet

\* With nothing left to run and the newest document shown, a device of the only
\* discussion has that document at hand: late answers, foreign snapshots and
\* its own sends never leave it behind.
THEOREM QuietDevicesAreCurrent == Spec => []QuietIsCurrent
<1>1. Quiet /\ Core => QuietIsCurrent
  <2> SUFFICES ASSUME HeadsForCurrent, NEW d \in Device, NEW r \in Room,
                      Room = {r}, listenerChat[d] = r, mainQueue[d] = << >>,
                      shown[d][r] = Read(d, r), Read(d, r) # None
               PROVE  Read(d, r) = currentChatRoom[d]
    BY DEF Quiet, QuietIsCurrent
  <2>1. EndsWith(mainQueue[d], currentChatRoom[d], Read(d, r))
    BY DEF HeadsForCurrent
  <2>2. DOMAIN mainQueue[d] = {}
    OBVIOUS
  <2> QED
    BY <2>1, <2>2 DEF EndsWith
<1> QED
  BY <1>1, AlwaysCore, AlwaysCopiesAreSaid, InitQuiet, NextQuiet, PTL DEF Spec

=============================================================================
