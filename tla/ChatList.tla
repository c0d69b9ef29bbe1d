------------------------------ MODULE ChatList ------------------------------
(***************************************************************************)
(* The list of chats: the collection "chats", the list each device's       *)
(* FirestoreMessenger keeps of it, and the pins of the map screen.         *)
(*                                                                         *)
(* The list has four writers that know nothing of each other: the answer   *)
(* to loadChatInfoArray replaces it, every observer of the collection      *)
(* appends and removes one entry per change, addChat appends before the    *)
(* write is even queued, deleteChat removes.  Every map screen registers   *)
(* one more observer and none is ever removed.  Entries are found again by *)
(* name, the first that matches.                                           *)
(*                                                                         *)
(* A chat stands for the pair of its entry in "chats" and its room in      *)
(* "rooms", which one call of addChat creates.  Messages are in ChatRoom.  *)
(***************************************************************************)
EXTENDS Naturals, Sequences, FiniteSets

CONSTANTS
    Device,     \* the phones
    Name,       \* what users call chats
    MaxChats,   \* bound: chats ever created
    MaxMaps,    \* bound: map screens shown in one run of the app
    MaxQueue,   \* bound: callbacks waiting on a device's main queue
    MaxOutbox,  \* bound: writes of a device not acknowledged yet
    Creators    \* bound: devices whose users add chats

ASSUME ListAssumption ==
    /\ MaxChats \in Nat /\ MaxMaps \in Nat
    /\ MaxQueue \in Nat /\ MaxOutbox \in Nat
    /\ Creators \subseteq Device
    /\ "" \notin Name  \* nothing typed is a name like others

\* Documents get random ids: any number not used before.  Queries answer in
\* the order of the ids.
Chat == 1..MaxChats

\* firebaseID of an entry: the id of its document, or still "не добавлен еще".
Id == {"id", "placeholder"}
Entry == [chat : Chat, firebaseID : Id]

VARIABLES
    \* The service.
    chats,      \* firebaseID in the document of each chat, or "absent"
    rooms,      \* the chats whose room exists
    nameOf,     \* the name each chat was created with, "" if it never was
    \* The SDK on each device.
    outbox,     \* writes not acknowledged yet, oldest first; kept on disk
    view,       \* what the observers were last given, as chats
    loads,      \* getDocuments calls in flight, by the map screen that asked
    failed,     \* a load has failed since the launch (for the properties)
    mainQueue,  \* callbacks posted to the main queue
    \* FirestoreMessenger and MapViewController.
    observers,  \* map screens so far, each with its own observer
    chatInformationArray,
    pins        \* titles of the annotations on the map on screen

service == <<chats, rooms, nameOf>>
sdk == <<outbox, view, loads, failed, mainQueue>>
app == <<observers, chatInformationArray, pins>>
vars == <<service, sdk, app>>

-----------------------------------------------------------------------------
\* addChat queues the room, the entry with the placeholder and the entry with
\* its id; deleteChat queues the removal of the entry and of the room.
Write == [op : {"room", "entry", "setID", "deleteEntry", "deleteRoom"}, chat : Chat]

\* What a callback has captured: the documents a map screen asked for, or what
\* changed since the observers first..last were called before, each of which
\* has its own turn.
Callback ==
         [via : {"load"}, map : 1..MaxMaps, docs : SUBSET Entry]
    \cup [via : {"error"}]
    \cup [via : {"changes"}, first : 1..MaxMaps, last : 1..MaxMaps,
          removed : SUBSET Chat, added : SUBSET Entry]

TypeOK ==
    /\ chats \in [Chat -> Id \cup {"absent"}]
    /\ rooms \in SUBSET Chat
    /\ nameOf \in [Chat -> Name \cup {""}]
    /\ outbox \in [Device -> Seq(Write)]
    /\ view \in [Device -> [Chat -> Id \cup {"absent"}]]
    /\ loads \in [Device -> SUBSET (1..MaxMaps)]
    /\ failed \in [Device -> BOOLEAN]
    /\ mainQueue \in [Device -> Seq(Callback)]
    /\ observers \in [Device -> 0..MaxMaps]
    /\ chatInformationArray \in [Device -> Seq(Entry)]
    /\ pins \in [Device -> SUBSET Name]

Nothing == [c \in Chat |-> "absent"]

Init ==
    /\ chats = Nothing
    /\ rooms = {}
    /\ nameOf = [c \in Chat |-> ""]
    /\ outbox = [d \in Device |-> << >>]
    /\ view = [d \in Device |-> Nothing]
    /\ loads = [d \in Device |-> {}]
    /\ failed = [d \in Device |-> FALSE]
    /\ mainQueue = [d \in Device |-> << >>]
    /\ observers = [d \in Device |-> 0]
    /\ chatInformationArray = [d \in Device |-> << >>]
    /\ pins = [d \in Device |-> {}]

-----------------------------------------------------------------------------
(* The SDK *)

AfterWrite(w, c, id) ==
    CASE w.op = "entry" /\ w.chat = c -> "placeholder"
      [] w.op = "setID" /\ w.chat = c -> "id"
      [] w.op = "deleteEntry" /\ w.chat = c -> "absent"
      [] OTHER -> id

\* The writes of a device that say what the entry of a chat becomes.
EntryWrites(d, c) ==
    {i \in DOMAIN outbox[d] : /\ outbox[d][i].op \in {"entry", "setID", "deleteEntry"}
                              /\ outbox[d][i].chat = c}

Latest(places) == CHOOSE i \in places : \A j \in places : j <= i

\* What a device sees of a chat: its own queued writes over the service.
Read(d) ==
    [c \in Chat |->
        IF EntryWrites(d, c) = {} THEN chats[c]
        ELSE AfterWrite(outbox[d][Latest(EntryWrites(d, c))], c, chats[c])]

Present(docs) == {c \in Chat : docs[c] # "absent"}
Entries(docs, ids) == {[chat |-> c, firebaseID |-> docs[c]] : c \in ids}
Visible(d) == Present(Read(d))

Queue(d, writes) ==
    /\ Len(outbox[d] \o writes) <= MaxOutbox
    /\ outbox' = [outbox EXCEPT ![d] = @ \o writes]

Post(d, callback) ==
    /\ Len(mainQueue[d]) < MaxQueue
    /\ mainQueue' = [mainQueue EXCEPT ![d] = Append(@, callback)]

\* The service takes the oldest write.
Commit(d) ==
    /\ outbox[d] # << >>
    /\ LET w == Head(outbox[d]) IN
         /\ chats' = [chats EXCEPT ![w.chat] = AfterWrite(w, w.chat, @)]
         /\ rooms' = CASE w.op = "room" -> rooms \cup {w.chat}
                       [] w.op = "deleteRoom" -> rooms \ {w.chat}
                       [] OTHER -> rooms
    /\ outbox' = [outbox EXCEPT ![d] = Tail(@)]
    /\ UNCHANGED <<nameOf, view, loads, failed, mainQueue, app>>

\* getDocuments is answered with the whole collection.
AnswerLoad(d, map) ==
    /\ map \in loads[d]
    /\ Post(d, [via |-> "load", map |-> map,
                docs |-> Entries(Read(d), Visible(d))])
    /\ loads' = [loads EXCEPT ![d] = @ \ {map}]
    /\ UNCHANGED <<service, outbox, view, failed, app>>

FailLoad(d, map) ==
    /\ map \in loads[d]
    /\ Post(d, [via |-> "error"])
    /\ loads' = [loads EXCEPT ![d] = @ \ {map}]
    /\ failed' = [failed EXCEPT ![d] = TRUE]
    /\ UNCHANGED <<service, outbox, view, app>>

\* Mutant of Snapshot: every changed document is taken for a new one.
SnapshotOfAny(d) ==
    /\ observers[d] > 0
    /\ view[d] # Read(d)
    /\ view' = [view EXCEPT ![d] = Read(d)]
    /\ LET changed == {c \in Chat : view[d][c] # Read(d)[c]}
       IN  Post(d, [via |-> "changes", first |-> 1, last |-> observers[d],
                    removed |-> {}, added |-> Entries(Read(d), changed)])
    /\ UNCHANGED <<service, outbox, loads, failed, app>>

\* The observers are told what changed, in the order they were registered.
\* They share one query, so one view of it.  Their callbacks ignore modified
\* documents, as when addChat's second write replaces the placeholder.
Snapshot(d) ==
    /\ observers[d] > 0
    /\ view[d] # Read(d)
    /\ view' = [view EXCEPT ![d] = Read(d)]
    /\ LET gone == Present(view[d]) \ Visible(d)
           new == Visible(d) \ Present(view[d])
       IN  IF gone \cup new = {} THEN UNCHANGED mainQueue
           ELSE Post(d, [via |-> "changes", first |-> 1, last |-> observers[d],
                         removed |-> gone, added |-> Entries(Read(d), new)])
    /\ UNCHANGED <<service, outbox, loads, failed, app>>

-----------------------------------------------------------------------------
(* FirestoreMessenger *)

NamesOf(C) == {nameOf[c] : c \in C}
NamesIn(list) == NamesOf({list[i].chat : i \in DOMAIN list})

chatIsExist(d, n) == n \in NamesIn(chatInformationArray[d])

\* The k-th of a set of numbers, and the entries of a list at such places.
Nth(S, k) == CHOOSE x \in S : Cardinality({y \in S : y <= x}) = k
Kept(list, places) == [k \in 1..Cardinality(places) |-> list[Nth(places, k)]]

\* The documents of a query, in the order of their ids.
InOrder(docs) ==
    [k \in 1..Cardinality(docs) |->
        CHOOSE e \in docs : e.chat = Nth({x.chat : x \in docs}, k)]

\* Mutant of Without: the first entries go, whatever their names.
WithoutFirst(list, gone) ==
    SubSeq(list, 1 + Cardinality(gone), Len(list))

\* Entries are searched for by name and the first match is taken: here for
\* each chat of a set.
Without(list, gone) ==
    LET sameName(i, C) == {c \in C : nameOf[c] = nameOf[list[i].chat]}
        earlier(i) == {j \in 1..i : nameOf[list[j].chat] = nameOf[list[i].chat]}
    IN  Kept(list, {i \in DOMAIN list :
                      Cardinality(earlier(i)) > Cardinality(sameName(i, gone))})

FirstNamed(list, n) ==
    list[Nth({i \in DOMAIN list : nameOf[list[i].chat] = n}, 1)]

\* An observer removes and appends.
Told(callback, list) == Without(list, callback.removed) \o InOrder(callback.added)

\* Mutants of ListAfter: a load adds to the list; an observer does not.
ListAfterAdding(callback, list) ==
    CASE callback.via = "load" -> list \o InOrder(callback.docs)
      [] callback.via = "error" -> << >>
      [] callback.via = "changes" -> Told(callback, list)

ListAfterLoading(callback, list) ==
    CASE callback.via = "load" -> InOrder(callback.docs)
      [] callback.via = "error" -> << >>
      [] callback.via = "changes" -> list

\* The list after a callback.  The completion of a load assigns the array
\* inside its loop, so an empty answer leaves it alone; an error empties it.
ListAfter(callback, list) ==
    CASE callback.via = "load" /\ callback.docs # {} -> InOrder(callback.docs)
      [] callback.via = "load" /\ callback.docs = {} -> list
      [] callback.via = "error" -> << >>
      [] callback.via = "changes" -> Told(callback, list)

\* The completion belongs to the map on screen, which is the latest.  An earlier
\* map screen is alive in its load and its observer, but draws on a map nobody
\* sees, and an error has no completion.
OfMapOnScreen(d, callback) ==
    \/ callback.via = "load" /\ callback.map = observers[d]
    \/ callback.via = "changes" /\ callback.first = observers[d]

\* Mutant of PinsAfter: the observer's completion draws nothing.
PinsAfterLoad(d, callback, list) ==
    IF callback.via = "load" /\ OfMapOnScreen(d, callback) THEN NamesIn(list) ELSE pins[d]

\* setupAnotations: one pin per entry.
PinsAfter(d, callback, list) ==
    IF OfMapOnScreen(d, callback) THEN NamesIn(list) ELSE pins[d]

\* What is left of the head of a queue that is not empty: the turns of the
\* observers to come.
AfterTurn(queue) ==
    IF Head(queue).via = "changes" /\ Head(queue).first < Head(queue).last
    THEN <<[Head(queue) EXCEPT !.first = @ + 1]>> \o Tail(queue)
    ELSE Tail(queue)

RunCallback(d) ==
    /\ mainQueue[d] # << >>
    /\ LET callback == Head(mainQueue[d])
           list == ListAfter(callback, chatInformationArray[d])
       IN  /\ chatInformationArray' = [chatInformationArray EXCEPT ![d] = list]
           /\ pins' = [pins EXCEPT ![d] = PinsAfter(d, callback, list)]
    /\ mainQueue' = [mainQueue EXCEPT ![d] = AfterTurn(@)]
    /\ UNCHANGED <<service, outbox, view, loads, failed, observers>>

\* Mutant of DeleteChat: the entry is found whatever id is held.
DeleteChatFound(d, n) ==
    /\ chatIsExist(d, n)
    /\ LET e == FirstNamed(chatInformationArray[d], n)
       IN  /\ Queue(d, <<[op |-> "deleteEntry", chat |-> e.chat],
                         [op |-> "deleteRoom", chat |-> e.chat]>>)
           /\ chatInformationArray' =
                [chatInformationArray EXCEPT ![d] = Without(@, {e.chat})]
    /\ UNCHANGED <<service, view, loads, failed, mainQueue, observers, pins>>

\* deleteChat: by the first entry of that name, under the id it holds.  With
\* the placeholder for an id the first of the two deletes hits no document.
\* (ChatRoom: without an entry of that name the process ends, here Relaunch.)
DeleteChat(d, n) ==
    /\ chatIsExist(d, n)
    /\ LET e == FirstNamed(chatInformationArray[d], n)
           entry == IF e.firebaseID = "placeholder" THEN << >>
                    ELSE <<[op |-> "deleteEntry", chat |-> e.chat]>>
           room == <<[op |-> "deleteRoom", chat |-> e.chat]>>
       IN  Queue(d, entry \o room)
    /\ chatInformationArray' =
         [chatInformationArray EXCEPT ![d] = Without(@, {FirstNamed(@, n).chat})]
    /\ UNCHANGED <<service, view, loads, failed, mainQueue, observers, pins>>

-----------------------------------------------------------------------------
(* MapViewController *)

\* A map screen is built, at launch and after every login: viewDidLoad loads
\* the list and registers an observer, which is told at once of what an
\* earlier one has seen.
ShowMap(d) ==
    /\ observers[d] < MaxMaps
    /\ observers' = [observers EXCEPT ![d] = @ + 1]
    /\ loads' = [loads EXCEPT ![d] = @ \cup {observers[d] + 1}]
    /\ pins' = [pins EXCEPT ![d] = {}]
    /\ IF Present(view[d]) = {} THEN UNCHANGED mainQueue
       ELSE Post(d, [via |-> "changes",
                     first |-> observers[d] + 1, last |-> observers[d] + 1,
                     removed |-> {}, added |-> Entries(view[d], Present(view[d]))])
    /\ UNCHANGED <<service, outbox, view, failed, chatInformationArray>>

\* A long press and a name: addChat, unless the list has that name, and a pin.
\* Its three writes are one step: that the device's own observer is called
\* between them, and told of the placeholder, is left out.
AddChat(d, n) ==
    /\ d \in Creators
    /\ observers[d] > 0
    /\ ~ chatIsExist(d, n)
    /\ \E c \in Chat :
         /\ nameOf[c] = ""
         /\ nameOf' = [nameOf EXCEPT ![c] = n]
         /\ Queue(d, <<[op |-> "room", chat |-> c],
                       [op |-> "entry", chat |-> c],
                       [op |-> "setID", chat |-> c]>>)
         /\ chatInformationArray' =
              [chatInformationArray EXCEPT
                 ![d] = Append(@, [chat |-> c, firebaseID |-> "id"])]
    /\ pins' = [pins EXCEPT ![d] = @ \cup {n}]
    /\ UNCHANGED <<chats, rooms, view, loads, failed, mainQueue, observers>>

\* A tap on a pin that has no entry any more takes the pin off the map.  (With
\* an entry the room is entered: ChatRoom.)
TapDeadPin(d, n) ==
    /\ n \in pins[d]
    /\ ~ chatIsExist(d, n)
    /\ pins' = [pins EXCEPT ![d] = @ \ {n}]
    /\ UNCHANGED <<service, sdk, observers, chatInformationArray>>

\* The process ends; the queued writes are on disk.
Relaunch(d) ==
    /\ view' = [view EXCEPT ![d] = Nothing]
    /\ loads' = [loads EXCEPT ![d] = {}]
    /\ failed' = [failed EXCEPT ![d] = FALSE]
    /\ mainQueue' = [mainQueue EXCEPT ![d] = << >>]
    /\ observers' = [observers EXCEPT ![d] = 0]
    /\ chatInformationArray' = [chatInformationArray EXCEPT ![d] = << >>]
    /\ pins' = [pins EXCEPT ![d] = {}]
    /\ UNCHANGED <<service, outbox>>

-----------------------------------------------------------------------------
Next ==
    \E d \in Device :
        \/ Commit(d) \/ Snapshot(d) \/ RunCallback(d)
        \/ \E map \in 1..MaxMaps : AnswerLoad(d, map) \/ FailLoad(d, map)
        \/ ShowMap(d) \/ Relaunch(d)
        \/ \E n \in Name : AddChat(d, n) \/ DeleteChat(d, n) \/ TapDeadPin(d, n)

Spec == Init /\ [][Next]_vars

\* The SDK and the main run loop keep going; users owe nothing.
Fairness ==
    \A d \in Device :
        /\ WF_vars(Commit(d))
        /\ WF_vars(\E map \in 1..MaxMaps : AnswerLoad(d, map) \/ FailLoad(d, map))
        /\ WF_vars(Snapshot(d))
        /\ WF_vars(RunCallback(d))

FairSpec == Spec /\ Fairness

-----------------------------------------------------------------------------
(* Properties *)

Listed(d) == {chatInformationArray[d][i].chat : i \in DOMAIN chatInformationArray[d]}

Occurrences(d, c) ==
    Cardinality({i \in DOMAIN chatInformationArray[d] :
                    chatInformationArray[d][i].chat = c})

Pending(op, c) ==
    \E d \in Device : \E i \in DOMAIN outbox[d] :
        outbox[d][i] = [op |-> op, chat |-> c]

Creates == {"room", "entry", "setID"}

\* A write of addChat's, or of deleteChat's, that the service has not taken.
Creating(d, c) ==
    \E i \in DOMAIN outbox[d] : outbox[d][i].chat = c /\ outbox[d][i].op \in Creates

Deleting(d, c) ==
    \E i \in DOMAIN outbox[d] : outbox[d][i] = [op |-> "deleteEntry", chat |-> c]

\* A chat that a device deletes, or whose entry has left the collection and is
\* in nobody's queue to come back.
Ended(d, c) ==
    /\ nameOf[c] # ""
    /\ \/ Deleting(d, c)
       \/ chats[c] = "absent" /\ \A e \in Device : ~ Creating(e, c)

\* A chat nobody has begun to delete, and no other chat ever had its name.
Whole(c) ==
    /\ c \in rooms \/ Pending("room", c)
    /\ ~ Pending("deleteRoom", c)
    /\ \A x \in Chat \ {c} : nameOf[x] # nameOf[c]

\* Nothing is on its way to the device.
Settled(d) ==
    /\ observers[d] > 0
    /\ loads[d] = {}
    /\ mainQueue[d] = << >>
    /\ view[d] = Read(d)

\* Once nothing is on its way, the list has every chat of the collection,
\* although loads overwrite it while observers and the user change it: what
\* an answer lacks, an observer's callback behind it in the queue brings.
\* Not after a load has failed, and not for chats that share a name.
ListCovers ==
    \A d \in Device :
        Settled(d) /\ ~ failed[d] => {c \in Visible(d) : Whole(c)} \subseteq Listed(d)

\* A chat is listed at most once for every observer that was registered and
\* once more, for the load or for addChat: loads replace, they do not add.
ListBounded ==
    \A d \in Device, c \in Chat : Occurrences(d, c) <= observers[d] + 1

\* Once nothing is on its way, every such chat has a pin on the map on screen
\* too, although the answers of earlier maps' loads change the list and not the
\* map: the latest observer is told of every chat the others have seen.  After a
\* load has failed this is not so: the answer to an earlier map then lists
\* chats that the map on screen does not draw.
PinsCover ==
    \A d \in Device :
        Settled(d) /\ ~ failed[d] => NamesOf({c \in Visible(d) : Whole(c)}) \subseteq pins[d]

\* What a device has seen in the collection and sees no more is over for it,
\* restarts included: no write of addChat's that comes late, from this device or
\* another, brings the entry back.  (Who deletes an entry whose id is not known
\* yet deletes its room only.)
EntryGoesOnce ==
    [][\A d \in Device, c \in Chat :
          /\ c \in Visible(d) => c \in Visible(d)' \/ Ended(d, c)'
          /\ Ended(d, c) => Ended(d, c)' /\ c \notin Visible(d)]_vars

\* A chat that stays is in the end listed on every device that shows a map and
\* whose loads succeed.
EventuallyListed ==
    \A d \in Device, c \in Chat :
        <>[](observers[d] > 0 /\ ~ failed[d] /\ c \in Visible(d) /\ Whole(c)) => <>[](c \in Listed(d))

=============================================================================
