------------------------------ MODULE ChatRoom ------------------------------
(***************************************************************************)
(* The life of a discussion on the devices that take part in it.           *)
(*                                                                         *)
(* A device has one FirestoreMessenger (a singleton) with one current      *)
(* room, whatever screens are open: `currentChatRoom` is assigned by every *)
(* answer to a load, by every snapshot of every listener that still lives, *)
(* by sending and by closing.  Nothing ties an assignment to the room the  *)
(* user is looking at.  This module models that singleton, the room        *)
(* screen that drives it and its late deinit, and what the Firestore SDK   *)
(* does underneath: a queue of writes that survives a restart, answers and *)
(* snapshots captured by the SDK and run later on the main queue.          *)
(*                                                                         *)
(* The list of chats, by which rooms are created, found and deleted, is    *)
(* ChatList's: there it is an array with duplicates that loads, observers  *)
(* and the user change.  Here every room exists at first with an empty     *)
(* history, and the list may at any time offer any room, a deleted one     *)
(* included, or none.  Whatever the list of the code offers is among that. *)
(***************************************************************************)
EXTENDS Naturals, Sequences, FiniteSets

CONSTANTS
    Device,     \* the phones, one signed-in user on each
    Room,       \* documents of the collection "rooms" (chatLink)
    None,       \* nil, and the absent document
    MaxSent,    \* bound: messages each device sends
    MaxLoads,   \* bound: getDocument calls of a device without an answer
    MaxQueue,   \* bound: callbacks waiting on a device's main queue
    MaxPopped,  \* bound: popped screens not released yet
    MaxDeleted  \* bound: writes waiting and rooms absent when one is deleted

ASSUME ConstantsAssumption ==
    /\ MaxSent \in [Device -> Nat]
    /\ MaxLoads \in Nat /\ MaxQueue \in Nat
    /\ MaxPopped \in Nat /\ MaxDeleted \in Nat

VARIABLES
    rooms,      \* the service: the documents
    \* The SDK on each device.
    outbox,     \* writes not acknowledged yet, oldest first; kept on disk
    loads,      \* getDocument calls in flight, per room
    shown,      \* the document the listeners of a room were last given
    mainQueue,  \* callbacks posted to the main queue, with what they captured
    \* FirestoreMessenger.
    idDiscussion, currentChatRoom,
    listenerChat,   \* room of the live registration in that property, or None
    leaked,         \* rooms with a live registration nothing refers to
    \* ChatRoomViewController.
    screen,     \* the room on screen, or None
    checking,   \* a checkFirestore closure holds the screen
    popped,     \* screens popped, each kept alive by such a closure
    \* Numbers the messages of a device.
    sent

sdk == <<outbox, loads, shown, mainQueue>>
messenger == <<idDiscussion, currentChatRoom, listenerChat, leaked>>
view == <<screen, checking, popped>>
vars == <<rooms, sdk, messenger, view, sent>>

-----------------------------------------------------------------------------
\* Who said it, as which of his messages, and the room it was addressed to.
Message == [from : Device, n : Nat \ {0}, room : Room]

\* ChatRoom: three parallel arrays, always appended to together.
Document == Seq(Message)

\* setData with a whole document, or delete (None).
Write == [room : Room, doc : Document \cup {None}]

\* A completion on the main queue: of getDocument, or of a snapshot listener.
Callback == [via : {"load", "listener", "muted"}, room : Room, doc : Document]

\* nil is neither an id nor a document.
ASSUME NoneAssumption == None \notin Room /\ None \notin Document

TypeOK ==
    /\ rooms \in [Room -> Document \cup {None}]
    /\ outbox \in [Device -> Seq(Write)]
    /\ loads \in [Device -> [Room -> Nat]]
    /\ shown \in [Device -> [Room -> Document \cup {None}]]
    /\ mainQueue \in [Device -> Seq(Callback)]
    /\ idDiscussion \in [Device -> Room \cup {None}]
    /\ currentChatRoom \in [Device -> Document \cup {None}]
    /\ listenerChat \in [Device -> Room \cup {None}]
    /\ leaked \in [Device -> SUBSET Room]
    /\ screen \in [Device -> Room \cup {None}]
    /\ checking \in [Device -> BOOLEAN]
    /\ popped \in [Device -> Nat]
    /\ sent \in [Device -> Nat]

Init ==
    /\ rooms = [r \in Room |-> << >>]
    /\ outbox = [d \in Device |-> << >>]
    /\ loads = [d \in Device |-> [r \in Room |-> 0]]
    /\ shown = [d \in Device |-> [r \in Room |-> None]]
    /\ mainQueue = [d \in Device |-> << >>]
    /\ idDiscussion = [d \in Device |-> None]
    /\ currentChatRoom = [d \in Device |-> None]
    /\ listenerChat = [d \in Device |-> None]
    /\ leaked = [d \in Device |-> {}]
    /\ screen = [d \in Device |-> None]
    /\ checking = [d \in Device |-> FALSE]
    /\ popped = [d \in Device |-> 0]
    /\ sent = [d \in Device |-> 0]

-----------------------------------------------------------------------------
(* The SDK *)

IsLatestWrite(d, r, i) ==
    /\ outbox[d][i].room = r
    /\ \A j \in (i + 1)..Len(outbox[d]) : outbox[d][j].room # r

\* What a device reads: its own newest unacknowledged write of the document,
\* else what the service has.
Read(d, r) ==
    IF \E i \in DOMAIN outbox[d] : IsLatestWrite(d, r, i)
    THEN outbox[d][CHOOSE i \in DOMAIN outbox[d] : IsLatestWrite(d, r, i)].doc
    ELSE rooms[r]

Listening(d, r) == r \in leaked[d] \/ listenerChat[d] = r

\* The service takes the oldest write.
Commit(d) ==
    /\ outbox[d] # << >>
    /\ LET w == Head(outbox[d])
       IN  rooms' = [rooms EXCEPT ![w.room] = w.doc]
    /\ outbox' = [outbox EXCEPT ![d] = Tail(@)]
    /\ UNCHANGED <<loads, shown, mainQueue, messenger, view, sent>>

\* Mutant of AnswerLoad: the guard on the document's data is missing.
AnswerLoadUnguarded(d, r) ==
    /\ loads[d][r] > 0
    /\ Len(mainQueue[d]) < MaxQueue
    /\ loads' = [loads EXCEPT ![d][r] = @ - 1]
    /\ mainQueue' = [mainQueue EXCEPT ![d] =
                        Append(@, [via |-> "load", room |-> r,
                                   doc |-> Read(d, r)])]
    /\ UNCHANGED <<rooms, outbox, shown, messenger, view, sent>>

\* getDocument is answered with the document; without one the completion
\* returns at once.
AnswerLoad(d, r) ==
    /\ loads[d][r] > 0
    /\ Len(mainQueue[d]) < MaxQueue
    /\ loads' = [loads EXCEPT ![d][r] = @ - 1]
    /\ mainQueue' = IF Read(d, r) = None
                    THEN mainQueue
                    ELSE [mainQueue EXCEPT ![d] =
                            Append(@, [via |-> "load", room |-> r,
                                       doc |-> Read(d, r)])]
    /\ UNCHANGED <<rooms, outbox, shown, messenger, view, sent>>

\* getDocument fails: the completion prints the error and returns.
FailLoad(d, r) ==
    /\ loads[d][r] > 0
    /\ loads' = [loads EXCEPT ![d][r] = @ - 1]
    /\ UNCHANGED <<rooms, outbox, shown, mainQueue, messenger, view, sent>>

\* The listeners of a room are given what changed since they were last
\* called.  An absent document ends the callback at its guard.
Snapshot(d, r) ==
    /\ Listening(d, r)
    /\ Read(d, r) # shown[d][r]
    /\ Len(mainQueue[d]) < MaxQueue
    /\ shown' = [shown EXCEPT ![d][r] = Read(d, r)]
    /\ mainQueue' = IF Read(d, r) = None
                    THEN mainQueue
                    ELSE [mainQueue EXCEPT ![d] =
                            Append(@, [via |-> "listener", room |-> r,
                                       doc |-> Read(d, r)])]
    /\ UNCHANGED <<rooms, outbox, loads, messenger, view, sent>>

\* Mutant of RunCallback: the first answer wins, later ones are dropped.
RunCallbackOnce(d) ==
    /\ mainQueue[d] # << >>
    /\ currentChatRoom' =
         IF Head(mainQueue[d]).via = "muted" \/ currentChatRoom[d] # None
         THEN currentChatRoom
         ELSE [currentChatRoom EXCEPT ![d] = Head(mainQueue[d]).doc]
    /\ mainQueue' = [mainQueue EXCEPT ![d] = Tail(@)]
    /\ UNCHANGED <<rooms, outbox, loads, shown, idDiscussion, listenerChat,
                   leaked, view, sent>>

\* Mutant of RunCallback: what the device has and the answer lacks is kept.
RunCallbackMerging(d) ==
    /\ mainQueue[d] # << >>
    /\ LET doc == Head(mainQueue[d]).doc
           have == IF currentChatRoom[d] = None THEN << >> ELSE currentChatRoom[d]
           new(m) == \A i \in DOMAIN doc : doc[i] # m
       IN  currentChatRoom' = [currentChatRoom EXCEPT
                                 ![d] = doc \o SelectSeq(have, new)]
    /\ mainQueue' = [mainQueue EXCEPT ![d] = Tail(@)]
    /\ UNCHANGED <<rooms, outbox, loads, shown, idDiscussion, listenerChat,
                   leaked, view, sent>>

\* The main queue runs its oldest callback: both kinds assign the captured
\* document to currentChatRoom, whichever room is open by now.
RunCallback(d) ==
    /\ mainQueue[d] # << >>
    /\ currentChatRoom' =
         IF Head(mainQueue[d]).via = "muted" THEN currentChatRoom
         ELSE [currentChatRoom EXCEPT ![d] = Head(mainQueue[d]).doc]
    /\ mainQueue' = [mainQueue EXCEPT ![d] = Tail(@)]
    /\ UNCHANGED <<rooms, outbox, loads, shown, idDiscussion, listenerChat,
                   leaked, view, sent>>

-----------------------------------------------------------------------------
(* FirestoreMessenger *)

\* loadDiscussionRoom asks for the room named by idDiscussion at the call.
\* Entering a room calls it twice: in startDiscussRoom, for nobody, and in
\* loadInfoForTable.
LoadsPerEntry == 2

\* closeDiscussRoom: removes whatever registration listenerChat holds, so
\* that its callbacks do nothing any more, and drops the current room,
\* whichever screen asked for it.  idDiscussion stays.
RemoveListener(d) ==
    LET r == listenerChat[d]
        muted(c) == IF c.via = "listener" /\ c.room = r
                    THEN [via |-> "muted", room |-> r, doc |-> << >>] ELSE c
    IN  IF r = None \/ r \in leaked[d]
        THEN UNCHANGED <<mainQueue, shown>>
        ELSE /\ mainQueue' = [mainQueue EXCEPT
                               ![d] = [i \in DOMAIN @ |-> muted(@[i])]]
             /\ shown' = [shown EXCEPT ![d][r] = None]

CloseDiscussRoom(d) ==
    /\ RemoveListener(d)
    /\ listenerChat' = [listenerChat EXCEPT ![d] = None]
    /\ currentChatRoom' = [currentChatRoom EXCEPT ![d] = None]
    /\ UNCHANGED <<idDiscussion, leaked>>

\* The array sendMessage appends to: a fresh ChatRoom() when nothing is loaded.
Held(d) == IF currentChatRoom[d] = None THEN << >> ELSE currentChatRoom[d]

NextMessage(d) == [from |-> d, n |-> sent[d] + 1, room |-> idDiscussion[d]]

\* Mutant of AppendAndWrite: the newest message goes to the front.
PrependAndWrite(d) ==
    LET copy == <<NextMessage(d)>> \o Held(d) IN
      /\ currentChatRoom' = [currentChatRoom EXCEPT ![d] = copy]
      /\ outbox' = [outbox EXCEPT ![d] =
                      Append(@, [room |-> idDiscussion[d], doc |-> copy])]
      /\ sent' = [sent EXCEPT ![d] = @ + 1]

\* sendMessage: append to the copy at hand, write that copy as a whole.
AppendAndWrite(d) ==
    LET copy == Append(Held(d), NextMessage(d)) IN
      /\ currentChatRoom' = [currentChatRoom EXCEPT ![d] = copy]
      /\ outbox' = [outbox EXCEPT ![d] =
                      Append(@, [room |-> idDiscussion[d], doc |-> copy])]
      /\ sent' = [sent EXCEPT ![d] = @ + 1]

-----------------------------------------------------------------------------
(* ChatRoomViewController *)

\* A pin is tapped: chatIsExist, by the list, then viewDidLoad of the pushed
\* screen.
\* startDiscussRoom drops the current room, takes the id from the list and
\* loads; the screen loads again; setupObserverChatRoom overwrites
\* listenerChat, so a registration still in it lives on unreachable.
Open(d, r) ==
    /\ screen[d] = None
    /\ loads[d][r] + LoadsPerEntry <= MaxLoads
    /\ screen' = [screen EXCEPT ![d] = r]
    /\ currentChatRoom' = [currentChatRoom EXCEPT ![d] = None]
    /\ idDiscussion' = [idDiscussion EXCEPT ![d] = r]
    /\ loads' = [loads EXCEPT ![d][r] = @ + LoadsPerEntry]
    /\ leaked' = [leaked EXCEPT ![d] = @ \cup ({listenerChat[d]} \ {None})]
    /\ listenerChat' = [listenerChat EXCEPT ![d] = r]
    /\ shown' = [shown EXCEPT ![d][r] = None]
    /\ UNCHANGED <<rooms, outbox, mainQueue, checking, popped, sent>>

\* The send button or the return key with an empty field: only the check.
SendNothing(d) ==
    /\ screen[d] # None
    /\ checking' = [checking EXCEPT ![d] = TRUE]
    /\ UNCHANGED <<rooms, sdk, messenger, screen, popped, sent>>

\* The same with a text.  checkFirestore comes first; its closure holds self.
SendMessage(d) ==
    /\ screen[d] # None
    /\ sent[d] < MaxSent[d]
    /\ checking' = [checking EXCEPT ![d] = TRUE]
    /\ AppendAndWrite(d)
    /\ UNCHANGED <<rooms, loads, shown, mainQueue, idDiscussion, listenerChat,
                   leaked, screen, popped>>

\* The screen leaves the stack.  Held by a check it stays allocated;
\* otherwise deinit runs and closes the room.
PopScreen(d) ==
    /\ screen' = [screen EXCEPT ![d] = None]
    /\ checking' = [checking EXCEPT ![d] = FALSE]
    /\ popped' = [popped EXCEPT ![d] = IF checking[d] THEN @ + 1 ELSE @]

Back(d) ==
    /\ screen[d] # None
    /\ checking[d] => popped[d] < MaxPopped
    /\ PopScreen(d)
    /\ IF checking[d]
       THEN UNCHANGED <<mainQueue, shown, messenger>>
       ELSE CloseDiscussRoom(d)
    /\ UNCHANGED <<rooms, outbox, loads, sent>>

\* Mutant of CheckAnswered: the released screen has no deinit.
CheckAnsweredQuietly(d) ==
    /\ IF popped[d] > 0
       THEN /\ popped' = [popped EXCEPT ![d] = @ - 1]
            /\ UNCHANGED checking
       ELSE /\ checking[d]
            /\ checking' = [checking EXCEPT ![d] = FALSE]
            /\ UNCHANGED popped
    /\ UNCHANGED <<rooms, sdk, messenger, screen, sent>>

\* enableNetwork completes, for the screens in the order they asked: a popped
\* screen is released, and its deinit closes the room of whoever is current.
CheckAnswered(d) ==
    /\ IF popped[d] > 0
       THEN /\ popped' = [popped EXCEPT ![d] = @ - 1]
            /\ CloseDiscussRoom(d)
            /\ UNCHANGED checking
       ELSE /\ checking[d]
            /\ checking' = [checking EXCEPT ![d] = FALSE]
            /\ UNCHANGED <<popped, mainQueue, shown, messenger>>
    /\ UNCHANGED <<rooms, outbox, loads, screen, sent>>

\* "Yes" in the delete alert: deleteChat, closeDiscussRoom, pop.  The room
\* deleted is that of the first entry of the name, which need not be the one
\* on screen.
DeleteChat(d, r) ==
    /\ screen[d] # None
    /\ Len(outbox[d]) + Cardinality({x \in Room : rooms[x] = None}) < MaxDeleted
    /\ checking[d] => popped[d] < MaxPopped
    /\ outbox' = [outbox EXCEPT ![d] = Append(@, [room |-> r, doc |-> None])]
    /\ CloseDiscussRoom(d)
    /\ PopScreen(d)
    /\ UNCHANGED <<rooms, loads, sent>>

\* The process ends and is started again: the writes are on disk, the rest is
\* read anew.
Relaunch(d) ==
    /\ loads' = [loads EXCEPT ![d] = [r \in Room |-> 0]]
    /\ shown' = [shown EXCEPT ![d] = [r \in Room |-> None]]
    /\ mainQueue' = [mainQueue EXCEPT ![d] = << >>]
    /\ idDiscussion' = [idDiscussion EXCEPT ![d] = None]
    /\ currentChatRoom' = [currentChatRoom EXCEPT ![d] = None]
    /\ listenerChat' = [listenerChat EXCEPT ![d] = None]
    /\ leaked' = [leaked EXCEPT ![d] = {}]
    /\ screen' = [screen EXCEPT ![d] = None]
    /\ checking' = [checking EXCEPT ![d] = FALSE]
    /\ popped' = [popped EXCEPT ![d] = 0]
    /\ UNCHANGED <<rooms, outbox, sent>>

\* "Yes" when the list has no entry of the name any more: the search of
\* deleteChat runs past the end of the array, which ends the process.
DeleteMissing(d) ==
    /\ screen[d] # None
    /\ Relaunch(d)

\* The user or the system ends the process at any time.
Kill(d) == Relaunch(d)

-----------------------------------------------------------------------------
Next ==
    \E d \in Device :
        \/ Commit(d) \/ RunCallback(d) \/ CheckAnswered(d)
        \/ SendNothing(d) \/ SendMessage(d) \/ Back(d)
        \/ DeleteMissing(d) \/ Kill(d)
        \/ \E r \in Room : \/ AnswerLoad(d, r) \/ FailLoad(d, r)
                            \/ Snapshot(d, r) \/ Open(d, r)
                            \/ DeleteChat(d, r)

Spec == Init /\ [][Next]_vars

\* The SDK and the main run loop keep going; the user owes nothing.
Fairness ==
    \A d \in Device :
        /\ WF_vars(Commit(d))
        /\ WF_vars(RunCallback(d))
        /\ WF_vars(CheckAnswered(d))
        /\ \A r \in Room : /\ WF_vars(AnswerLoad(d, r) \/ FailLoad(d, r))
                            /\ WF_vars(Snapshot(d, r))

FairSpec == Spec /\ Fairness

-----------------------------------------------------------------------------
(* Properties *)

\* Every copy of every discussion: what the service has, what a device shows,
\* what waits to be written, what waits to be shown.
Docs(queue) == {queue[i].doc : i \in DOMAIN queue}

Copies ==
    {<< >>} \cup
    ((      {rooms[r] : r \in Room}
       \cup {currentChatRoom[d] : d \in Device}
       \cup (UNION {Docs(outbox[d]) : d \in Device})
       \cup (UNION {Docs(mainQueue[d]) : d \in Device}))
     \ {None})

\* Whatever is lost, overwritten or mixed up between rooms, the copies that
\* remain are branches of one tree of versions.
History == INSTANCE RoomHistory WITH Author <- Device, Discussion <- Room,
                                     versions <- Copies
ImplementsRoomHistory == History!Spec

\* Two copies that hold the same message agree on all that stands before it,
\* although sendMessage writes whole documents and loads, snapshots and
\* restarts move them about.
OneHistory == History!OneHistory

\* In every copy a user's messages stand in the order he sent them.
SenderOrder == History!SenderOrder

\* With no room on screen and no popped screen waiting for its deinit, no
\* registration is left in listenerChat: every way out of a room removes it.
NoIdleListener ==
    \A d \in Device : screen[d] = None /\ popped[d] = 0 => listenerChat[d] = None

\* A device in the room of the only discussion, its registration alive and
\* told of the newest document, with nothing left to run on its main queue,
\* has that document at hand: neither a late answer to a load, nor a snapshot
\* of an older version, nor its own sends leave it with an outdated one.
QuietIsCurrent ==
    \A d \in Device, r \in Room :
        (/\ Room = {r} /\ listenerChat[d] = r /\ mainQueue[d] = << >>
         /\ shown[d][r] = Read(d, r))
            => Read(d, r) \in {None, currentChatRoom[d]}

\* A device that stays in a room with its own registration alive ends up
\* showing what the service has.  True of a single discussion only: with two,
\* a late answer for the other one is never corrected.
Convergence ==
    \A d \in Device, r \in Room :
        <>[](screen[d] = r /\ listenerChat[d] = r)
            => <>[](rooms[r] = None \/ currentChatRoom[d] = rooms[r])

-----------------------------------------------------------------------------
(* What the repository says of the program and the code does not keep *)

\* "Вы не сможете его восстановаить": a deleted chat cannot be restored.
DeletionIsFinal ==
    [][\A r \in Room : rooms[r] = None => rooms'[r] = None]_vars

=============================================================================
