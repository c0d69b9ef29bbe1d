---------------------------- MODULE MessageTable ----------------------------
(***************************************************************************)
(* The table of a discussion: ChatRoomViewController as data source of a   *)
(* UITableView, ModelChatRoom with its buffer of profiles, and the cells.  *)
(*                                                                         *)
(* The table is told a number of rows when it reloads and asks for a row   *)
(* later; the room behind it is a field of the messenger that answers,     *)
(* listeners and late deinits change in between (module ChatRoom says how; *)
(* here any short document may arrive).  A cell is reused for other rows.  *)
(* Its owner's picture and name are looked up once per user; the cells     *)
(* that ask meanwhile wait in que1 and que2, which only grow, and are      *)
(* served by blocks posted to the main queue.                              *)
(*                                                                         *)
(* A message is its owner, and a user is also his picture and his name.    *)
(* The user's own messages have cells of another class without picture or  *)
(* name, so their rows take no cell here.                                  *)
(***************************************************************************)
EXTENDS Naturals, Sequences, FiniteSets

CONSTANTS
    Other,      \* the other users
    Me,         \* the user of this device
    None,       \* nil
    Cell,       \* the reusable cells of the class for others' messages
    Document,   \* what may be in the room when an answer comes
    MaxLen,     \* bound: messages of a room that another is sent to
    MaxQueue,   \* bound: blocks on the main queue when a reload is posted
    MaxWaits    \* bound: entries of que1 and que2

ASSUME TableAssumption ==
    /\ Me \notin Other
    /\ None \notin Other \cup {Me} \cup Seq(Other \cup {Me})
    /\ {"absent", "download"} \cap Other = {}
    /\ Document \subseteq Seq(Other \cup {Me})

VARIABLES
    \* FirestoreMessenger
    room,       \* currentChatRoom: the owner of each message, or nil
    heard,      \* the load of the open open, loadInfoForTable, is in flight
    listening,  \* the open screen's registration is alive
    \* The screen and its table
    open,       \* a discussion is on the screen
    told,       \* rows of the table: what numberOfRows answered last
    cells,      \* the row each cell shows, if any, and what is on it
    mainQueue,  \* blocks posted by the screen and its model
    \* ModelChatRoom
    buffer,     \* absent, the "download" placeholder, or the profile held
    que,        \* que1 and que2, always appended to together
    lookups,    \* calls of loadInfoByID without an answer yet
    \* For the properties
    asked,      \* whose message each cell in view was given
    unseen      \* the room has changed with no reload posted for it

messenger == <<room, heard, listening>>
model == <<buffer, que, lookups>>
vars == <<messenger, open, told, cells, mainQueue, model, asked, unseen>>

-----------------------------------------------------------------------------
Owner == Other \cup {Me}

CellState == [row : Nat \cup {None}, textOwner : Other \cup {None},
              ownerLabel : Other \cup {None}, imageAvatar : Other \cup {None}]

Waiting == [id : Other, cell : Cell]

\* reloadTableView posted by a completion; reloadData; and the blocks one
\* answer has posted, one for each entry of que2 in "at" and run in that order.
Block ==
         [do : {"reloadTableView", "reloadData"}]
    \cup [do : {"set"}, at : SUBSET (Nat \ {0}), info : Other]

TypeOK ==
    /\ room \in Seq(Owner) \cup {None}
    /\ heard \in BOOLEAN
    /\ listening \in BOOLEAN
    /\ open \in BOOLEAN
    /\ told \in Nat
    /\ cells \in [Cell -> CellState]
    /\ mainQueue \in Seq(Block)
    /\ buffer \in [Other -> Other \cup {"absent", "download"}]
    /\ que \in Seq(Waiting)
    /\ lookups \in SUBSET Waiting
    /\ asked \in [Cell -> Other \cup {None}]
    /\ unseen \in BOOLEAN

NewCell == [row |-> None, textOwner |-> None, ownerLabel |-> None, imageAvatar |-> None]

\* A table that has just been loaded, and a new ModelChatRoom.
NewTable ==
    /\ told' = 0
    /\ cells' = [c \in Cell |-> NewCell]
    /\ mainQueue' = << >>
    /\ buffer' = [u \in Other |-> "absent"]
    /\ que' = << >>
    /\ lookups' = {}
    /\ asked' = [c \in Cell |-> None]
    /\ unseen' = FALSE

Init ==
    /\ room = None
    /\ heard = FALSE
    /\ listening = FALSE
    /\ open = FALSE
    /\ told = 0
    /\ cells = [c \in Cell |-> NewCell]
    /\ mainQueue = << >>
    /\ buffer = [u \in Other |-> "absent"]
    /\ que = << >>
    /\ lookups = {}
    /\ asked = [c \in Cell |-> None]
    /\ unseen = FALSE

-----------------------------------------------------------------------------
(* FirestoreMessenger, as far as the table sees it *)

\* countMessages: the messages of the current room, none without one.
CountMessages(r) == IF r = None THEN 0 ELSE Len(r)

Reloads == {k \in DOMAIN mainQueue : mainQueue[k].do # "set"}

Post(block) == mainQueue' = Append(mainQueue, block)

\* An answer to startDiscussRoom's load, which has no completion, or to a load
\* of an earlier screen, or a snapshot of a registration left behind: whether
\* there is one is not followed here, it may come at any time.
ChangedUnheard ==
    /\ \E d \in Document : room' = d
    /\ unseen' = TRUE
    /\ UNCHANGED <<heard, listening, open, told, cells, mainQueue, model, asked>>

\* The answer to loadInfoForTable: its completion posts reloadTableView.
LoadAnswered ==
    /\ heard
    /\ Len(mainQueue) < MaxQueue
    /\ \E d \in Document : room' = d
    /\ heard' = FALSE
    /\ Post([do |-> "reloadTableView"])
    /\ UNCHANGED <<listening, open, told, cells, model, asked, unseen>>

\* The load fails or finds no document: its completion returns at a guard.
LoadFailed ==
    /\ heard
    /\ heard' = FALSE
    /\ UNCHANGED <<room, listening, open, told, cells, mainQueue, model, asked,
                   unseen>>

\* setupObserverChatRoom: a snapshot for the open screen.
Snapshot ==
    /\ listening
    /\ Len(mainQueue) < MaxQueue
    /\ \E d \in Document : room' = d
    /\ Post([do |-> "reloadData"])
    /\ UNCHANGED <<heard, listening, open, told, cells, model, asked, unseen>>

\* closeDiscussRoom, from whichever screen.
CloseDiscussRoom ==
    /\ listening' = FALSE
    /\ room' = None

-----------------------------------------------------------------------------
(* ChatRoomViewController *)

\* viewDidLoad of a new screen: startDiscussRoom drops the room and loads it,
\* loadInfoForTable loads it again, setupObserver registers.  From now on what
\* was loaded or registered for a screen that was left goes unheard.
Open ==
    /\ ~ open
    /\ heard' = TRUE
    /\ listening' = TRUE
    /\ room' = None
    /\ open' = TRUE
    /\ NewTable

\* sendMessage with a text: into a fresh ChatRoom() when none is loaded.
SendMessage ==
    /\ open
    /\ CountMessages(room) < MaxLen
    /\ Len(mainQueue) < MaxQueue
    /\ room' = IF room = None THEN <<Me>> ELSE Append(room, Me)
    /\ Post([do |-> "reloadData"])
    /\ UNCHANGED <<heard, listening, open, told, cells, model, asked, unseen>>

\* The back button.  The table is gone at once, and answers to its load and its
\* registration go unheard; deinit runs when nothing holds the screen any more.
Back ==
    /\ open
    /\ open' = FALSE
    /\ heard' = FALSE
    /\ listening' = FALSE
    /\ NewTable
    /\ UNCHANGED room

\* "Yes" in the delete alert: the room is closed, the screen popped.
DeleteChat ==
    /\ open
    /\ open' = FALSE
    /\ heard' = FALSE
    /\ CloseDiscussRoom
    /\ NewTable

\* deinit of a screen that was left, which closes the room of the one that is
\* open by now; whether there is such a screen is not followed either.
Deinit ==
    /\ CloseDiscussRoom
    /\ unseen' = TRUE
    /\ UNCHANGED <<heard, open, told, cells, mainQueue, model, asked>>

-----------------------------------------------------------------------------
(* MessageCell *)

\* textOwner's willSet puts the value that is about to be replaced on the
\* label; imageAvatar's puts the new one on the image view.
SetOwner(cell, info) ==
    [cell EXCEPT !.imageAvatar = info,
                 !.ownerLabel = cell.textOwner,
                 !.textOwner = info]

-----------------------------------------------------------------------------
(* ModelChatRoom.setAvatarAndOwnerMessage *)

Display(c, r, u) ==
    /\ cells' = [cells EXCEPT ![c].row = r]
    /\ asked' = [asked EXCEPT ![c] = u]

\* Mutant of GiveInfo: the placeholder is not told from a profile.
GiveAnyInfo(c, r, u) ==
    /\ buffer[u] # "absent"
    /\ cells' = [cells EXCEPT ![c] = [SetOwner(@, buffer[u]) EXCEPT !.row = r]]
    /\ asked' = [asked EXCEPT ![c] = u]
    /\ UNCHANGED model

\* The profile is in the buffer.
GiveInfo(c, r, u) ==
    /\ buffer[u] \notin {"absent", "download"}
    /\ cells' = [cells EXCEPT ![c] = [SetOwner(@, buffer[u]) EXCEPT !.row = r]]
    /\ asked' = [asked EXCEPT ![c] = u]
    /\ UNCHANGED model

\* Mutant of WaitForInfo: a cell that waits already is not queued again.
WaitForInfoOnce(c, r, u) ==
    /\ buffer[u] = "download"
    /\ Len(que) < MaxWaits
    /\ que' = IF \E i \in DOMAIN que : que[i].cell = c THEN que
              ELSE Append(que, [id |-> u, cell |-> c])
    /\ Display(c, r, u)
    /\ UNCHANGED <<buffer, lookups>>

\* It is being downloaded: the cell waits.
WaitForInfo(c, r, u) ==
    /\ buffer[u] = "download"
    /\ Len(que) < MaxWaits
    /\ que' = Append(que, [id |-> u, cell |-> c])
    /\ Display(c, r, u)
    /\ UNCHANGED <<buffer, lookups>>

\* Mutant of AskForInfo: the placeholder is forgotten.
AskForInfoAgain(c, r, u) ==
    /\ buffer[u] = "absent"
    /\ Len(que) < MaxWaits
    /\ que' = Append(que, [id |-> u, cell |-> c])
    /\ lookups' = lookups \cup {[id |-> u, cell |-> c]}
    /\ Display(c, r, u)
    /\ UNCHANGED buffer

\* Nobody has asked yet: the placeholder, the cell waits, loadInfoByID.
AskForInfo(c, r, u) ==
    /\ buffer[u] = "absent"
    /\ Len(que) < MaxWaits
    /\ buffer' = [buffer EXCEPT ![u] = "download"]
    /\ que' = Append(que, [id |-> u, cell |-> c])
    /\ lookups' = lookups \cup {[id |-> u, cell |-> c]}
    /\ Display(c, r, u)

\* A row whose owner is unknown, for want of a room: nothing is set.
GiveNothing(c, r) ==
    /\ Display(c, r, None)
    /\ UNCHANGED model

\* loadInfoByID has an answer: the buffer, the cell that asked first, which
\* may show another row by now, then a block for everybody that waits for it.
InfoAnswered(l) ==
    /\ l \in lookups
    /\ lookups' = lookups \ {l}
    /\ buffer' = [buffer EXCEPT ![l.id] = l.id]
    /\ cells' = [cells EXCEPT ![l.cell] = SetOwner(@, l.id)]
    /\ Post([do |-> "set", info |-> l.id,
             at |-> {i \in DOMAIN que : que[i].id = l.id}])
    /\ UNCHANGED <<messenger, open, told, que, asked, unseen>>

-----------------------------------------------------------------------------
(* UITableView *)

\* cellForRowAt, for a row that comes into view: rows count from the newest
\* message, by the messages there are now.
RowOwner(r) == room[Len(room) - r]

CellForRow(c, r) ==
    /\ open
    /\ r < told
    /\ cells[c].row = None
    /\ \A b \in Cell : cells[b].row # r
    /\ IF room = None
       THEN GiveNothing(c, r)
       ELSE /\ r < Len(room)
            /\ RowOwner(r) # Me
            /\ LET u == RowOwner(r) IN
                 GiveInfo(c, r, u) \/ WaitForInfo(c, r, u) \/ AskForInfo(c, r, u)
    /\ UNCHANGED <<messenger, open, told, mainQueue, unseen>>

\* The row goes out of view, its cell into the pool.
ScrollOut(c) ==
    /\ cells[c].row # None
    /\ cells' = [cells EXCEPT ![c].row = None]
    /\ asked' = [asked EXCEPT ![c] = None]
    /\ UNCHANGED <<messenger, open, told, mainQueue, model, unseen>>

\* The subscript of a row beyond the room ends the process; nothing of all
\* this is kept.
TrapRow ==
    /\ open
    /\ room # None
    /\ \E r \in Len(room)..(told - 1) : \A c \in Cell : cells[c].row # r
    /\ room' = None
    /\ heard' = FALSE
    /\ listening' = FALSE
    /\ open' = FALSE
    /\ NewTable

-----------------------------------------------------------------------------
(* The main queue *)

Finish == mainQueue' = Tail(mainQueue)

\* Mutant of ReloadTableView: a second reload is thought needless.
ReloadTableViewNever ==
    /\ mainQueue # << >>
    /\ Head(mainQueue).do = "reloadTableView"
    /\ Finish
    /\ UNCHANGED <<messenger, open, told, cells, model, asked, unseen>>

\* reloadTableView posts in its turn.
ReloadTableView ==
    /\ mainQueue # << >>
    /\ Head(mainQueue).do = "reloadTableView"
    /\ mainQueue' = Append(Tail(mainQueue), [do |-> "reloadData"])
    /\ UNCHANGED <<messenger, open, told, cells, model, asked, unseen>>

\* reloadData: the table asks for the number of rows, and has all its cells
\* back.
ReloadData ==
    /\ mainQueue # << >>
    /\ Head(mainQueue).do = "reloadData"
    /\ told' = CountMessages(room)
    /\ cells' = [c \in Cell |-> [cells[c] EXCEPT !.row = None]]
    /\ asked' = [c \in Cell |-> None]
    /\ unseen' = FALSE
    /\ Finish
    /\ UNCHANGED <<messenger, open, model>>

Least(S) == CHOOSE i \in S : \A j \in S : i <= j

\* The next block of the answer at the head of the queue.
NextEntry == Least(Head(mainQueue).at)

AfterEntry ==
    IF Head(mainQueue).at = {NextEntry}
    THEN Tail(mainQueue)
    ELSE [mainQueue EXCEPT ![1].at = @ \ {NextEntry}]

\* Mutant of SetEntry: the served entry is taken out, as the lines commented
\* out in the code would.
SetEntryRemoving ==
    /\ mainQueue # << >>
    /\ Head(mainQueue).do = "set"
    /\ cells' = [cells EXCEPT ![que[NextEntry].cell] =
                    SetOwner(@, Head(mainQueue).info)]
    /\ que' = SubSeq(que, 1, NextEntry - 1) \o SubSeq(que, NextEntry + 1, Len(que))
    /\ mainQueue' = AfterEntry
    /\ UNCHANGED <<messenger, open, told, buffer, lookups, asked, unseen>>

\* An entry of que2 gets the picture and the name, whatever it shows by now.
SetEntry ==
    /\ mainQueue # << >>
    /\ Head(mainQueue).do = "set"
    /\ cells' = [cells EXCEPT ![que[NextEntry].cell] =
                    SetOwner(@, Head(mainQueue).info)]
    /\ mainQueue' = AfterEntry
    /\ UNCHANGED <<messenger, open, told, model, asked, unseen>>

Next ==
    \/ ChangedUnheard \/ LoadAnswered \/ LoadFailed \/ Snapshot
    \/ Open \/ SendMessage \/ Back \/ DeleteChat \/ Deinit
    \/ \E l \in lookups : InfoAnswered(l)
    \/ \E c \in Cell : \/ ScrollOut(c)
                        \/ \E r \in 0..(told - 1) : CellForRow(c, r)
    \/ TrapRow
    \/ ReloadTableView \/ ReloadData \/ SetEntry

Spec == Init /\ [][Next]_vars

-----------------------------------------------------------------------------
(* Properties *)

\* Between telling the table how many rows there are and being asked for one,
\* the messages may have become fewer; the open screen is then about to reload
\* its table, unless the change came by a load nobody hears of or a late
\* deinit.  So a row beyond the room is asked for in that window only.
StaleTableIsReloaded ==
    open /\ told # CountMessages(room) => Reloads # {} \/ unseen

\* A posted block finds the entry it was posted for, however many cells have
\* begun to wait since: it is an index into queues that must not shrink.
BlockFindsItsCell ==
    \A k \in DOMAIN mainQueue :
        mainQueue[k].do = "set" =>
            /\ mainQueue[k].at # {}
            /\ \A i \in mainQueue[k].at :
                   i \in DOMAIN que /\ que[i].id = mainQueue[k].info

\* A profile is asked for once, and the cells that see the placeholder can
\* count on that answer.
AskedOnce ==
    /\ \A l, m \in lookups : l.id = m.id => l = m
    /\ \A u \in Other : buffer[u] = "download" <=> \E l \in lookups : l.id = u

BlockPosted(c, u) ==
    \E k \in DOMAIN mainQueue :
        /\ mainQueue[k].do = "set" /\ mainQueue[k].info = u
        /\ \E i \in mainQueue[k].at : que[i].cell = c

\* A cell in view has the picture of its message's owner, or will get it, or
\* has that of a user it waited for when it showed another message, whose
\* answer came late.  No cell that asked is forgotten.
PictureComes ==
    \A c \in Cell : asked[c] \notin {None, cells[c].imageAvatar} =>
        \/ \E l \in lookups : l.id = asked[c]
        \/ BlockPosted(c, asked[c])
        \/ \E i \in DOMAIN que : que[i] = [id |-> cells[c].imageAvatar, cell |-> c]

\* The name on a cell is that of the picture on it, when nothing is to come:
\* textOwner is a property of the message as imageAvatar is.
NameGoesWithPicture ==
    \A c \in Cell :
        asked[c] # None /\ lookups = {} /\ mainQueue = << >> =>
            cells[c].ownerLabel = cells[c].imageAvatar

=============================================================================
