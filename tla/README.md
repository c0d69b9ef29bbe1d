# onMap: models, model checking and proofs

onMap is an iOS application.  Discussions ("chats") are pins on a map, each with a
room of messages; users register with telephone, address and password and keep a
profile that others see beside their messages.  Everything shared lives in Firebase
(Auth, Firestore, Realtime Database, Storage).  The application's own code is about
4500 lines of Swift under `src/onMap/onMap`; `src/onMap/Pods` is vendored.

This directory holds TLA+ modules translated from that code, TLC configurations
that check them on small instances, and TLAPS proofs of theorems about them.

## 1. Inventory

| Component | State | Operations | Interacts with |
|---|---|---|---|
| Messenger and room screen: `FirestoreMessenger`, `ChatRoom`, `ChatRoomViewController`, `ModelChatRoom` | `idDiscussion`, `currentChatRoom`, `listenerChat` (one of each, in a singleton); the screen; the document `rooms/<id>` | enter (load + listener), send, leave, late `deinit`, delete | Firestore, chat list, profile cache |
| Chat list and map: `FirestoreMessenger`, `ChatInfo`, `MapViewController`, `PinChat` | `chatInformationArray`, pins, observers that are never removed; collection `chats` | load, observe, add, delete, select a pin | Firestore, room screen |
| Profile cache: `AccountLocalStorage`, `Account.loadInfoByID`, `Person`, `SettingOnMap.first` | a Realm file of at most ten rows, the first a sentinel; a flag in UserDefaults | set up, look up, add with eviction, update | Realtime Database, Storage, message cells |
| Session: `LoginViewController`, `PhoneAuthViewContoller`, `AccountViewController`, the three screens pushed on it, `NetworkingService`, `LoginNetworking`, `Account`, `SettingOnMap`, `Const` | `currentuserID` (UserDefaults), `Auth.currentUser` (keychain), the verification id, the screens and whether they are disabled, five delegate slots, three static flags | log in two ways, register in three steps, exit, change number and address, delete the account | Firebase Auth, all others through `currentuserID` |
| Message table: `ChatRoomViewController` as data source, `ModelChatRoom`, `MessageCell` | rows told to the table, reused cells, `que1`, `que2`, the buffer of people | tell and show rows, look up a row's sender, reload | messenger, profile cache |
| Telephone field: `InterFaceExtensions`, `editingChangedPhone` | the text of a field | format after every edit, strip, mark | login, registration, account |
| Photo: `PhotoNetworking`, `PhotoPickerExtension` | none | upload, download | Storage, `Account` |
| Animations, table layout, storyboards; empty `LocalNotifications`, `SettingsViewController` | none that is kept | | |

What is hard about it:

* *One singleton, many writers.*  `currentChatRoom` is assigned by the answer to each
  load, by each snapshot of each live listener, by sending and by closing; nothing
  ties an assignment to the room on screen.
* *Whole documents are written.*  Sending appends to the copy at hand and replaces the
  room's document; two senders overwrite each other.
* *Answers come late.*  Completion handlers run on the main queue after the user has
  moved on; delegates are whoever registered last, and may have gone.
* *Deinit comes late.*  A closure that waits for an answer keeps a popped room screen
  alive; its `deinit` closes whichever room is open then.
* *The process may end anywhere*: between two queued writes, between flag and sentinel
  of the cache, between the deletion of an account and its answer.  Firestore's write
  queue, Realm, UserDefaults and keychain survive; everything else does not.
* *Rows told are not rows there.*  The table remembers how many rows it was told and asks
  for them later, by the messages of whatever room is then in the singleton; cells
  change hands while their picture is being fetched.
* *Live objects.*  A Realm row found before a wait is read after it.

What makes each component correct:

* Room: no copy of a discussion mixes, reorders or repeats what two copies share; a
  sender's messages keep their order; leaving removes the listener; a device that stays
  in a room ends up showing what the service has.
* List: once all is delivered nothing of the collection is missing, in the list or on
  the map; nothing is listed more often than there are observers to list it; an entry
  that was seen to go does not return; a chat that stays is eventually listed everywhere.
* Cache: the sentinel stays first; a lookup gets the profile it asked for; the
  capacity is kept.
* Session: the user the device believes logged in, the one Firebase has signed in and
  the one the account screen writes for are the same; a half-registered number is
  never logged in; who exits is off the tabs; a deleted account is logged out and its
  profile goes, and no step takes the profile of a living one; no disabled screen comes
  to wait for an answer that is not on its way.
* Table: whoever asked for a picture gets it, wherever his cell has gone; a profile is
  asked for once; a table that is out of date is about to be reloaded.
* Telephone field: the number read from the text is the one the hand has made, edit by
  edit; removing never gets stuck; the border marks complete numbers.

## 2. Modules

| Module | Models | Section |
|---|---|---|
| `RoomHistory` | abstract: what copies of a discussion promise | 3 |
| `ChatRoom`, `MCChatRoom` | messenger, room screen, Firestore SDK | 3 |
| `ChatList`, `MCChatList` | list of chats, map | 4 |
| `PersonCache`, `MCPersonCache` | cache of profiles | 5 |
| `Session`, `MCSession` | login, registration, account | 6 |
| `MessageTable`, `MCMessageTable` | table of messages, cells, buffer of profiles | 7 |
| `PhoneField`, `MCPhoneField` | a telephone number as it is typed | 8 |
| `RoomHistory_proofs`, `ChatRoom_proofs`, `ChatList_proofs`, `PersonCache_proofs`, `Session_proofs`, `MessageTable_proofs`, `PhoneField_proofs` | theorems about these | 10 |

`MC` modules only add symmetry sets, a view and constants that are functions or sets.
Definitions whose name begins like another's and which a comment calls a *mutant* are
the same operation with one plausible bug; they document which fault each property would
notice.

What all models share: a write a device queues is visible to itself at once and
reaches the service later, in order; it survives a restart.  Answers and snapshots
are captured when the SDK posts them to the main queue and run in the order posted.
A block that is posted to the main queue by a tap and sends a request at once is part
of the tap.  UserDefaults is taken to be durable at once.

## 3. Rooms: `ChatRoom` implements `RoomHistory`

`RoomHistory` has the set of versions that some copy still holds and the number of
messages each author has said.  `Say` extends ONE existing version and may forget
others, `Forget` only forgets.  From this alone follow `OneHistory` (two copies that
hold the same message agree on all before it), `SenderOrder` and `Said`.

`ChatRoom` has, for each device, the write queue (`outbox`), loads in flight, the main
queue, the messenger's properties under their own names, the screen, and the number of
popped screens not yet released.  Actions and code: `Open` = `viewDidLoad` (load,
listener, and `checkFirestore`), `AnswerLoad`/`FailLoad`/`Snapshot` = the SDK,
`RunCallback` = the completion handlers, `SendMessage` = `didClickSendButton` down to
`setData`, `Back` = the back button and, when nothing holds the screen, `deinit`;
`CheckAnswered` = the closure of `checkFirestore` with the late `deinit`; `DeleteChat`
(what it writes to the room), `DeleteMissing` (the loop that runs past the end of the
list and ends the process), `Kill`.  `History == INSTANCE RoomHistory WITH versions <- Copies` is the refinement
mapping: `Copies` are all documents at the service, in queues and on devices.

Abstractions: a message is its sender, its number among the sender's, and the room it
was meant for; text and time are left out.  The list of chats is not part of this
module: it is an array with duplicates, loaded late and searched by name, and is
`ChatList`'s.  Here `Open` may enter any room at any time, one that is deleted, or that
the device has deleted itself, included, and `DeleteChat` may delete any room, since the
first entry of the name need not be the room on screen.  Whatever the list of the code
offers is among that, so the properties hold for it; nothing is claimed that would need a
deleted room to be out of reach, and it is not: a deleter whose list still has an entry
of the chat enters it again, and what he sends makes the document anew.  `MaxDeleted`
bounds the writes waiting and the rooms absent when one is deleted.  The SDK's offline
cache gives no stale answers beyond the device's own queued writes.  Rooms exist from the
beginning; creating them is in `ChatList`.

## 4. The list: `ChatList`

A chat stands for its entry in `chats` and its room; `addChat` queues three writes
(room, entry with the placeholder "не добавлен еще", entry with its id) and appends to
the list before any is acknowledged.  `loadChatInfoArray` replaces the list, every
observer of every map screen so far appends and removes by name, `deleteChat` removes
the first entry of that name.  A snapshot is posted once for the observers `first..last`
that share its state; `RunCallback` is the turn of ONE of them (`AfterTurn` leaves the
others at the head of the queue), so users act between the observers of a snapshot.
`ShowMap` is `MapViewController.viewDidLoad` (a load and one more observer).  A load is
named by the map screen that asked: its completion draws the pins of that screen only, so
that, as with an observer's, the map on screen changes when `OfMapOnScreen` and stays as it
is when the answer belongs to an earlier one, which nobody sees.  `TapDeadPin` selects a pin
whose entry is gone.  `Read` is what the SDK shows a device: the latest of
its own waiting writes to the entry (`EntryWrites`, `Latest`), else the service's
document.  Ids are random in the code and numbers in order of creation here; coordinates
and dates are left out; the empty string stands for "no name yet" and is none of `Name`.
`addChat` queues its three writes in one step, so the device's own observer is never told
of the entry between them (another device's is); the only difference would be a second
entry with the placeholder instead of the id on the creator's own list.

`PinsCover` asks for the pins of what stays in the collection, of devices whose loads have
not failed: after a failure the first map's late answer can list a chat that the second,
on screen, does not draw, and nothing corrects that.  `EntryGoesOnce` is about the writes
that wait on disk: what a device has seen and sees no more is over for it (`Ended`: it
deletes the entry, or the entry is gone and nobody is creating it), and nothing that comes
late, after a restart or from another device, brings it back.  A device that deletes an
entry it knows by the placeholder only removes the room, and ends nothing.

## 5. Profiles: `PersonCache`

The Realm file is a sequence of rows whose first should be the sentinel.  A lookup
(`LoadInfoByID`) that finds a row keeps a reference while it waits; `Delete` moves the
last row into the gap, `Follow` and `AfterDelete` say where live references go.  `Checked`,
`Refreshed`, `Fetched` are the nested completion handlers; `TrapInvalidRow` and
`TrapNoRows` the two ways the code ends the process; `Relaunch` ends it anywhere.
`SetFlag` and `WriteSentinel` are the two steps of `setupRealm`.  The date of a profile
stands for name, surname and date, which change together; photos are carried along, and
dates are distinct (the code's have seconds).  Eviction is modelled for a `Capacity` that
is ten in the code.

## 6. Session: `Session`

`stack` is the tower of full screens (login, registration, tabs), each presented by the
one below; the tabs carry the screens pushed on the account tab.  `slot` says where each
delegate's screen stands; a screen that was dismissed lives on in the slot (`Gone`,
`GoneSheet`, `GoneLogin`) and its methods run without effect, except that a gone sheet still
stores the address and a gone login screen, told that a code was right, still loads the data
of who is logged in (`GoneLoginChecked`), which changes `Account`'s id.  `pending` holds requests, answered or not.  User actions bear the code's
names; `Serve` is Firebase taking a request, `Handle` the coming of its answer, or of an
error if the request has not been taken; the operators ending in `Done` are the completion
handlers, and what they do to the delegate's screen is `SendCodeReturn`,
`LoginChecked`/`RegisterChecked`/`PushedChecked` (`checkingReturn`), `ShowNext`,
`ShowAlert`.  A user stands for the account, its number and its address, each "free"
(nobody's number yet), "half" (signed in by code, no address), "live" or "deleted".

Two branches of the code send nothing.  `LinkWithCredential` disables the registration
screen first; when nobody is signed in, `Auth.auth().currentUser?.link` is no call at all,
and the screen stays as it is.  `ChangeNext` compares the number typed with the one
`Account` has, which may be anybody's by then: the number the code is asked for is left
open.

`strays` counts how often the user did something, or the process ended, while an answer
other than the profile's was still to come.  Some properties are stated for `strays = 0`: the code
relies on disabled buttons to make the user wait, and where he need not (the screens
pushed on the account tab stay enabled, and so does a registration screen that a late
error has enabled) late answers do log in, log out or show the tabs of somebody else.
TLC shows such behaviours when the condition is removed: a code check that outlives
its screen logs a user in behind the login screen; the answer of a deletion takes away
the login screen of the next user.  `linkEmail` asks who is signed in only when its answer
comes (`NetworkingService.swift:94`): when a code has been checked in between, it logs in
the user of that code, registered or not, which is why `LoggedInIsRegistered` has the
condition too.

Four properties have no such condition, and hold whatever overtakes what; each is about the
step that does the harm and names what may do it.

* `RegisteredUnlessOvertaken`: who is not registered is logged in by nothing but that link.
* `BusyIsAnswered`: no disabled screen in `showChecked` comes to wait for a request that is
  not on its way, but by a link for nobody.  (A screen that has lost `showChecked` to another
  one may stay disabled: the code does that too.)
* `DeletedIsLoggedOut`: who has deleted his account is logged out when the device is told,
  but for a restart between the deletion and its handler, or a late answer that logs him in.
* `DeletedLeavesNoProfile`: his profile goes then, but for the same restart, for an `Account`
  whose id is another's by then, or for one who writes it again.

The restart is an exception because the code has nothing to make up for it: the next launch
shows the tabs of a user who is gone.  `TabsMeanLoggedIn` and `LoginMeansLoggedOut` are the
two sides of the flag by which `exit` chooses between dismissing the tabs and presenting a
login screen.

Abstractions: passwords and codes are right or wrong; one screen gives way to another
before the next answer comes; alerts are not screens; the delays of animations are
ignored, `viewDidAppear` follows the handler that uncovered the screen; a profile that is asked for
twice before the first answer is on its way once, since either answer does the same; requests that are on their way when the
process ends are lost, answered or not, as far as the device is concerned, and those not
taken yet never are; the reset-password pane, whose button sends nothing, is left out.

## 7. The table of messages: `MessageTable`

`told` is what `numberOfRowsInSection` answered at the last reload, `room` the messages
behind it, which answers, snapshots, sending and closing change without the table's
knowledge.  `CellForRow` is `cellForRowAt` with `setAvatarAndOwnerMessage`, in the three
cases of `getUserInfo`: the profile is in the buffer, is being downloaded, or has to be
asked for.  `que1` and `que2` are always appended to together and are one sequence here.
`InfoAnswered` sets the first cell at once and posts a block for every entry that waits
for that user; `SetEntry` runs one of them, on whatever row the cell shows by then.
`ReloadTableView` and `ReloadData` are the two posts that lie between a load's
completion and `reloadData`.  `TrapRow` is the subscript beyond the messages, which ends
the process.  `SetOwner` is the pair of property observers of `MessageCell`, as written:
the label gets the OLD name.

Abstractions: a user is also his picture and his name; text and time of a message are
set from the same row and left out.  The user's own messages have cells of another
class, so their rows take no cell.  What changes the room without the open screen
hearing of it (the answer to `startDiscussRoom`, listeners left behind, late deinits) is
`ChangedUnheard` and `Deinit`, which may come at any time with any short document:
`ChatRoom` says when they really come, here there are more of them, and `unseen` records
that one has come since the last reload.

## 8. A telephone number: `PhoneField`

`text` is the field; each edit inserts or removes one character anywhere and then runs
`editingChangedPhone`.  `number` is what the hand means by the edits, told from the place
of the character among the characters of the number alone, without any of the code's
conversions; the properties compare the two.  The conversions (`Strip`, `WorkWithPhone`,
`LabelText`, `GetRealPhone`) are those of field, label and stored number; `KeptIn` and
`Grouped` are their two loops, as joins of one piece for each character, which is the form
the proofs take them in.  A paste is a
number of typed characters, except that the code formats once.  A digit typed before the
plus, or a second plus, gives a number of two pluses, which the code keeps; length is not
limited.  An empty text would trap in `1...st.count`; the callers test for it before, and
so do the operators here.

## 9. What the runs check

| Run | Instance | States | Shows |
|---|---|---|---|
| `room_pair` | 2 devices, 1 room, each sends 1 | | `OneHistory`, `QuietIsCurrent`, and `ChatRoom` implements `RoomHistory` |
| `room_alone` | 1 device, 2 rooms, 2 messages, 1 popped screen | | `TypeOK`, `SenderOrder`, `NoIdleListener`, `OneHistory` |
| `room_converges` | 2 devices, 1 room, fair | | `Convergence` |
| `list_one` | 1 device, 2 chats, 2 names, 2 map screens | @LO@ | `TypeOK`, `ListCovers`, `ListBounded`, `PinsCover` |
| `list_fair` | creator and observer, 1 chat, fair | @LF@ | `EventuallyListed`, `EntryGoesOnce` |
| `person_cache` | 3 profiles, capacity 3, 2 lookups, 2 changes | | `TypeOK`, `SentinelFirst`, `OwnProfile`, `CacheBounded` |
| `session` | 2 users, 2 requests, 1 stray | 941,557 | the six invariants of `Session` and its five action properties |
| `message_table` | 2 other users, 2 cells, 2 messages, 3 waits | 1,046,000 or so | `TypeOK`, `StaleTableIsReloaded`, `BlockFindsItsCell`, `AskedOnce`, `PictureComes` |
| `phone_field` | 2 digits, 13 characters, 2 pluses | 26,626 | `TypeOK`, `FieldFollowsHand`, `RemovingGetsAhead`, `MarkedIsComplete` |
| `deletion_is_final`, `change_phone`, `owner_label` | smallest that fail | | the findings of section 11 |

Bounds and why they are enough.  Every hazard of the room needs at most two actors: two
devices (overwriting), or one device and two rooms (late answers, late deinit); so the
two are separate runs, each with one of them at two.  Two loads in flight and one callback
in the queue give every order of an answer against a later action.  In the list the
second map screen is the case where observers double; the second chat the one where
removal can take the wrong entry.  Three profiles in a cache for two with two
lookups give eviction of a row that a lookup holds, the move of the last row into the
gap, two additions of one user and the update that finds its row gone.  In the session
two users are needed for every confusion of identity; two requests, because the profile
load always runs beside something else; one stray is one answer overtaken by the user.
Two things of `Session` need more strays than that: `GoneLoginChecked` two, and the link
for nobody four, so the exception of `BusyIsAnswered` does not come up in the run; the
theorem is for any number.  `room_pair` and `room_alone` delete one room at a time
(`MaxDeleted`), of which the second device, or the same one, is still in possession.  The
restarts of `list_fair` come between any two writes of a creation or deletion.  In the
table two users and two cells
are needed for a cell to wait for one user and show another's message; three waits,
because a cell that waits already must be able to be queued again while another waits;
rooms of two messages suffice, since only more or fewer rows than told matter.  No
property of `message_table` names the label, and nothing depends on it, so that run takes
states that differ there as one (`ButLabels`); `owner_label`, which is about it, does not.
In the field thirteen characters are one more than a number has, so every separator and
the end of the border come up; two digits tell a digit at the wrong place.

Deadlock is checked in every run; there is always a relaunch, a screen to open, or an
edit to make.

Fairness (only in the liveness runs): weak fairness of the SDK's steps (a queued write is
taken, a load is answered or fails, a changed document gives a snapshot) and of the main
run loop (a posted callback runs).  Both run by themselves for as long as the process
lives; a load may be answered with an error forever.  Nothing is assumed of the user:
he may stay, leave or kill the application.  `Convergence` and `EventuallyListed`
therefore speak of devices that from some time on stay.

## 10. What is proved

All proofs are for arbitrary sets of devices, rooms, names, users and cells and arbitrary
bounds; they use the modules' named assumptions on the constants and nothing else.

`RoomHistory_proofs`: `VersionsAreOneTree`.  `OneHistory` is not inductive by itself: the
message appended must be new.  `Said` (no copy holds a message its author has not said)
makes it so, and `TypeOK /\ Said /\ OneHistory /\ SenderOrder` is inductive.

`ChatRoom_proofs`:

* `TypeCorrect` and `NoListenerLeftBehind`: the inductive invariant is
  `Core == TypeOK /\ OnScreenIsOpen /\ NoIdleListener`; that a room on screen is the
  messenger's open one is needed where a late deinit closes it.
* `RefinesRoomHistory`: initial states map to the initial state, `SendMessage` to `Say`,
  each other action to `Forget` or a stutter, using that no action makes a copy that
  was not there; then `OneHistoryEverywhere` and `SenderOrderEverywhere` follow from
  `VersionsAreOneTree` through the instance.
* `QuietDevicesAreCurrent` (`QuietIsCurrent`), the safety half of `Convergence`: once a
  device of the only discussion has nothing left to run and its registration was shown
  the newest document, that is the one it holds, for queues of any length (the run has
  one callback in the queue).  The invariant says what the queue will END with
  (`HeadsForCurrent`), and that is kept because no document ever comes back: were the
  service to leave a version and return to it between two snapshots, with a load answered
  in between, nothing would correct that answer.  `WritesAreDistinct`, `WritesAreNew` and
  `ShownIsSaid` say it: each send adds a message that is in no document stored, queued or
  ever shown, which comes from `Said` of `RoomHistory` through the refinement.

`ChatList_proofs`: `ListTypeCorrect`, `NothingIsMissing` (`ListCovers`),
`ListedOncePerObserver` (`ListBounded`), `NothingLacksItsPin` (`PinsCover`),
`GoneEntryIsOver` (`EntryGoesOnce`) and `EntryNeverReturns`, which says the latter of a
whole behaviour, all from `ListInvariant`.  The properties speak of what is there once all is delivered, so
the invariant has to say what is still on its way.  It has two parts.

* `Collection`, about service and outboxes: the writes of one call of `addChat` or
  `deleteChat` stand together and in order (`WriteOrder`), one device creates a chat
  (`OneCreator`), the room comes before the entry and goes after it (`RoomIsFirst`,
  `RoomGoesToo`), an entry has its id last (`IdIsLast`).  It gives: a chat that is over
  for one device (`Ended`: its deletion is queued, or it is gone and nobody is creating
  it) is over for good, which is `EntryGoesOnce`, and not `Whole`.
* `DeviceOf(d)`, about one device.  `ToldOnce` says that the waiting callbacks that add
  a chat are for disjoint, ascending ranges of observers; with it `ListedAsTold` bounds
  the entries of a chat by the observers that have HAD their turn, and each turn takes
  one observer out of `ToCome` for each entry it appends.  `InTheEnd` says that what the
  observers have seen is listed or in a waiting callback, and that every waiting answer
  that would drop it has a callback behind it that brings it back; and the same of the
  pins: it is on the map, or a callback still to come has the newest map screen, whose pins
  they are, as its last observer (`Shows`).  It is the observer that brings the pins, since
  the latest map is told on registration of all that the others have seen; the loads of
  earlier maps bring none.

  Steps that leave the collection alone (all but `Commit`, `AddChat`, `DeleteChat`) are
  `Apart`: for the other devices nothing changes (`OthersGoOn`).  Steps of the collection
  take each device `Onward`: what was over stays over, what was not yet announced stays so.

`PersonCache_proofs`: `CacheTypeCorrect`, `SentinelStaysFirst`, `ProfileIsTheUsers`,
`CacheKeepsCapacity`.  The inductive invariant is
`TypeOK /\ Prepared /\ LiveRows /\ OwnProfile /\ CacheBounded`: `Prepared` extends
`SentinelFirst` to the states of the set-up, and `LiveRows` says that a reference kept by a
lookup is invalid or names a row of that lookup's user, not the sentinel; without it neither
`OwnProfile` nor the sentinel survives a deletion.

`Session_proofs`: `SessionTypeCorrect`, `LoggedInIsSignedIn`, `RegisteredFirst`,
`OwnProfile`, `LoginIsForTheLoggedOut`, `TabsAreForTheLoggedIn` and the action
property `ProfileGoesWithAccount`.  The inductive invariant is
`Strong /\ (strays = 0 => Calm)`.  `Strong` holds whatever the user does: the tower of
screens has its shape, and each delegate slot points at a screen of the right kind, or at
nothing.  `Calm` is what waiting for answers buys: besides the profile's at most one request
is on its way (`OneAtATime`), it was asked by the screen that is still on top (`Asked`), and
device, Firebase and account screen agree (`InSession`, `Told`).  A step that leaves
`strays` at zero starts from a state where it was zero, which is why the second part is
inductive.  Four more results do not ask the user to wait:

* `ScreensAreAnswered` (`BusyIsAnswered`).  `Answerable(L)` says that a disabled login
  screen in `showChecked`, and a disabled registration screen at a level that is not in L,
  has a request of its own kinds (`LoginAsks`, `RegisterAsks`) on its way, so that another
  screen's answer does not use it up; and that a registration screen holds `showChecked` and
  `showAlertDelegate` for as long as it is there, so that answers come back to it.  For
  any L each step keeps it, if the level of a link for nobody (`AsksForNobody`) is in L: with
  the levels that wait for nothing before the step as L, that is the property.
* `DeletedIsOut` and `DeletedIsGone`, from `DeletionIsTold` and `DeletionIsUntold`: while
  its answer is on its way a deletion is untold, only its own handler takes it from there,
  and that handler logs out and erases what is below `Account`'s id.
* `OnlyOvertakenLinks` (`RegisteredUnlessOvertaken`), from `Served`: a request the service
  has taken is of a user who has an account by then, and accounts only go forward
  (`Kept` in the proof).

`MessageTable_proofs`: `TableTypeCorrect`, `TableIsReloaded`, `EntryIsFound`,
`ProfileIsAskedOnce`, `NoCellIsForgotten`.  The inductive invariant adds to `TypeOK` and
`StaleTableIsReloaded` the statement `Pictures`, which ties buffer, lookups, queues and
posted blocks to each other: that every cell with another's picture is among those that
waited for it, and that an entry of the queue is answered, about to be, or its lookup is
out.

`PhoneField_proofs`: `FieldTypeCorrect`, `FieldFollowsTheHand`, `RemovingEnds`,
`BorderIsForEleven`, all from `FieldShowsNumber`: the text is `Grouped(number)`, so it
remembers nothing but the number; and `AnyTextIsRead`, for texts that are pasted rather than
typed.  Here the work is in the conversions.  The induction theorems of the library take a
predicate as a parameter and cannot be used, so `InductionOnNumbers` (from the
well-foundedness of <) and `InductionOnSequences` state induction with a set in its place,
and each lemma is about the set of the sequences it holds of.  `FlattenOneMore` says what
`FlattenSeq` makes of one more piece: the function it looks its result up in exists
(`PiecesCanBeJoined`) and is decided by the pieces before (`JoinedAlike`).  From it follow
what `KeptIn` makes of two sequences one behind the other (`KeptOfBoth`) and what `Grouped`
makes of a number (`GroupedKeepsAll`: the number is still in it, its first two characters
come first, its length is `Spread`).  An edit then takes the text apart at its place
(`ApartBefore`, `ApartAt`), and the invariant is a matter of what is kept of each part.
`MaxKept` and `MaxPluses`, bounds of the run, are any positive numbers in the proofs.

Only model-checked: `Convergence` and `EventuallyListed` (liveness and fairness are outside
the prover).  Every invariant and action property of a passing run is a theorem.

## 11. What the code does otherwise than it says

* `change_phone` (bug): after the row "change email" was opened once, the row "Изменить
  телефон" leads, its code verified, to the screen that deletes the account:
  `Const.updatePhoneEmail` is never set back.
* `owner_label` (bug): the `willSet` of `MessageCell.textOwner` puts the property's old
  value on the label, so a cell shows no name at first and the previous message's owner
  beside this one's picture when it is reused.
* `deletion_is_final`: a participant still in a deleted room brings its document back.

More things the models do that no text of the repository speaks against, so no run
counts them: a message sent before the load is answered replaces the history (`ChatRoom`:
`SendMessage` starts an empty room when none is loaded); a late answer puts another room's
messages on screen until the next snapshot; a chat deleted by somebody who was told of it
between the two writes of `addChat` loses its room and keeps its entry, so that he may
enter the room he has deleted and write to it; of several entries of a deleted chat one goes
and the others lead into its room still; after a failed load an earlier map's answer fills
the list and not the map on screen; a registration whose user is deleted before it links
stays disabled; a process that ends between the deletion of an account and the answer leaves
its user logged in and his profile in place.

## 12. Not modelled

Photo picker, upload and download (`PhotoNetworking`, `PhotoPickerExtension`): one request
each, whose answer only changes what is shown; that an upload does not change the date the
caches compare is listed as a hazard and has no state that a model would add to
`PersonCache`.  Account table (layout; the two rows that act are `Session!OpenChange`),
animations and storyboards (no behaviour beyond the three flags of `Const`, which are in
`Session`), `LocalNotifications` and `SettingsViewController` (empty).  Of the session
screens, what is shown on them (name, number, photo) and the reset-password pane.  `Pods`
(vendored C, C++ and Objective-C: Firebase, Realm, gRPC) is modelled as the application
uses it; none of its lines is mapped.  Two devices may create chats of the same name, since
the guard asks the local list only; `ChatList` allows it, `ListCovers` excludes such chats
and `ListBounded` does not.

## 13. Plan

Done: every part of the application with state of its own has its module, and all the safety
properties that the runs check are proved.  What could follow:

1. A composition of `ChatRoom` and `ChatList` (creation of a room while another device
   lists it): both hold separately and share `outbox`; the composed state space needs
   smaller instances than either has now.
2. `Session` with the list (a restart as another user while writes of the first wait).
3. What becomes of late answers in `Session`: which of the properties that ask the user to
   wait hold for one stray, and which kinds of stray break each.
4. `PersonCache` with the bytes of photos, whose change the date does not show.
