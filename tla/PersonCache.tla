---------------------------- MODULE PersonCache ----------------------------
(***************************************************************************)
(* The cache of other users' profiles: AccountLocalStorage, a Realm file   *)
(* of at most ten rows, and Account.loadInfoByID, which fills it.          *)
(*                                                                         *)
(* The first row is no profile but a sentinel with an empty id, written    *)
(* once when the application is set up: checkPerson returns it for "not    *)
(* found".  A lookup keeps the row it found, a live Realm object, while it *)
(* waits for the service; rows are deleted meanwhile, and deleting moves   *)
(* the last row into the gap.                                              *)
(*                                                                         *)
(* Name, surname and date of a profile change together (setUserName,       *)
(* setUserSurname), so the date stands for all three; the photo is carried *)
(* along.                                                                  *)
(***************************************************************************)
EXTENDS Naturals, Sequences

CONSTANTS
    User,       \* whose profiles are looked up
    None,       \* the empty id of the sentinel
    Capacity,   \* rows the cache is meant to have (10 in the code)
    Slot,       \* bound: lookups that wait for the service
    MaxDate     \* bound: changes of a profile

ASSUME CacheAssumption ==
    /\ None \notin User
    /\ Capacity \in Nat \ {0, 1}
    /\ MaxDate \in Nat

VARIABLES
    date,       \* the service: date of the last change of each profile
    first,      \* UserDefaults: the set-up has been begun
    items,      \* the Realm file
    setup,      \* how far setupRealm has come in this run of the app
    lookup,     \* what each waiting lookup holds
    shown,      \* whose profile the last completion was for, and whose it got
    \* For the properties.
    interrupted,    \* the process ended in the middle of the set-up
    lost            \* an update found its row gone

storage == <<first, items>>
vars == <<date, storage, setup, lookup, shown, interrupted, lost>>

-----------------------------------------------------------------------------
Row == [id : User \cup {None}, date : 0..MaxDate]
Sentinel == [id |-> None, date |-> 0]

\* 0: the row has been deleted and the object is invalid.
Ref == Nat

Idle == [stage |-> "idle"]
Lookup ==
         {Idle}
    \cup [stage : {"check"}, user : User, row : Ref]                \* known: date asked for
    \cup [stage : {"refresh"}, user : User, date : 0..MaxDate]      \* known: photo asked for
    \cup [stage : {"fetch"}, user : User]                           \* unknown: all asked for

TypeOK ==
    /\ date \in [User -> 0..MaxDate]
    /\ first \in BOOLEAN
    /\ setup \in {"begin", "flagged", "ready"}
    /\ items \in Seq(Row)
    /\ lookup \in [Slot -> Lookup]
    /\ \A s \in Slot : lookup[s].stage = "check" => lookup[s].row <= Len(items)
    /\ shown \in [for : User, of : User] \cup {None}
    /\ interrupted \in BOOLEAN /\ lost \in BOOLEAN

Init ==
    /\ date = [u \in User |-> 0]
    /\ first = FALSE
    /\ items = << >>
    /\ setup = "begin"
    /\ lookup = [s \in Slot |-> Idle]
    /\ shown = None
    /\ interrupted = FALSE
    /\ lost = FALSE

-----------------------------------------------------------------------------
(* Realm *)

\* realm.delete: the last row takes the place of the deleted one.
Delete(rows, i) ==
    [k \in 1..(Len(rows) - 1) |-> IF k = i THEN rows[Len(rows)] ELSE rows[k]]

\* Live objects follow their row, and die with it.
Follow(l, i) ==
    IF l.stage # "check" THEN l
    ELSE [l EXCEPT !.row = IF @ = i THEN 0 ELSE IF @ = Len(items) THEN i ELSE @]

\* What the lookups hold when row i is deleted and lookup s is over.
AfterDelete(s, i) == [t \in Slot |-> IF t = s THEN Idle ELSE Follow(lookup[t], i)]

-----------------------------------------------------------------------------
(* AccountLocalStorage *)

\* setupRealm: the flag is set first, the sentinel written after it.
SetFlag ==
    /\ setup = "begin" /\ ~ first
    /\ first' = TRUE
    /\ setup' = "flagged"
    /\ UNCHANGED <<date, items, lookup, shown, interrupted, lost>>

WriteSentinel ==
    /\ setup = "flagged"
    /\ items' = Append(items, Sentinel)
    /\ setup' = "ready"
    /\ UNCHANGED <<date, first, lookup, shown, interrupted, lost>>

SkipSetup ==
    /\ setup = "begin" /\ first
    /\ setup' = "ready"
    /\ UNCHANGED <<date, storage, lookup, shown, interrupted, lost>>

Matches(u) == {i \in DOMAIN items : items[i].id = u}
First(S) == CHOOSE i \in S : \A j \in S : i <= j

\* Mutant of CheckPerson: the last row when there is none of the user.
CheckPersonOrLast(u) == IF Matches(u) = {} THEN Len(items) ELSE First(Matches(u))

\* checkPerson: the first row of the user, or else the first row.
CheckPerson(u) == IF Matches(u) = {} THEN 1 ELSE First(Matches(u))

\* Mutants of AddPerson: the row that goes is the first; the cache is found
\* full one row too late.
AddPersonEvictingFirst(s, row) ==
    IF Len(items) = Capacity
    THEN /\ items' = Append(Delete(items, 1), row)
         /\ lookup' = AfterDelete(s, 1)
    ELSE /\ items' = Append(items, row)
         /\ lookup' = [lookup EXCEPT ![s] = Idle]

AddPersonLate(s, row) ==
    IF Len(items) = Capacity + 1
    THEN /\ items' = Append(Delete(items, 2), row)
         /\ lookup' = AfterDelete(s, 2)
    ELSE /\ items' = Append(items, row)
         /\ lookup' = [lookup EXCEPT ![s] = Idle]

\* addPerson: in a cache of exactly Capacity rows the second one, next to the
\* sentinel, makes room.  Nothing looks whether the user has a row by now.
AddPerson(s, row) ==
    IF Len(items) = Capacity
    THEN /\ items' = Append(Delete(items, 2), row)
         /\ lookup' = AfterDelete(s, 2)
    ELSE /\ items' = Append(items, row)
         /\ lookup' = [lookup EXCEPT ![s] = Idle]

\* updatePerson: the first row of the user goes, if there is one, and the new
\* one is added, however full the cache is.
UpdatePerson(s, row) ==
    IF Matches(row.id) = {}
    THEN /\ items' = Append(items, row)
         /\ lookup' = [lookup EXCEPT ![s] = Idle]
         /\ lost' = TRUE
    ELSE LET i == First(Matches(row.id)) IN
         /\ items' = Append(Delete(items, i), row)
         /\ lookup' = AfterDelete(s, i)
         /\ UNCHANGED lost

-----------------------------------------------------------------------------
(* Account.loadInfoByID *)

\* Mutant of LoadInfoByID: the sentinel is not told from a profile.
LoadInfoByIDKnown(s, u) ==
    /\ setup = "ready"
    /\ lookup[s] = Idle
    /\ items # << >>
    /\ lookup' = [lookup EXCEPT ![s] =
                    [stage |-> "check", user |-> u, row |-> CheckPerson(u)]]
    /\ UNCHANGED <<date, storage, setup, shown, interrupted, lost>>

\* The row found decides: without an id it is the sentinel, the profile is
\* unknown and its photo asked for; else only its date.
LoadInfoByID(s, u) ==
    /\ setup = "ready"
    /\ lookup[s] = Idle
    /\ items # << >>
    /\ LET row == CheckPerson(u) IN
         lookup' = [lookup EXCEPT ![s] =
                      IF items[row].id = None
                      THEN [stage |-> "fetch", user |-> u]
                      ELSE [stage |-> "check", user |-> u, row |-> row]]
    /\ UNCHANGED <<date, storage, setup, shown, interrupted, lost>>

\* The photo and then the rest have come for an unknown profile.  A photo that
\* fails to load is replaced by a stock one and changes nothing here.
Fetched(s) ==
    /\ lookup[s].stage = "fetch"
    /\ LET u == lookup[s].user IN
         /\ AddPerson(s, [id |-> u, date |-> date[u]])
         /\ shown' = [for |-> u, of |-> u]
    /\ UNCHANGED <<date, first, setup, interrupted, lost>>

\* The date has come for a known profile, whose row is still there: the row is
\* shown, or with another date the photo is asked for.
Checked(s) ==
    /\ lookup[s].stage = "check"
    /\ lookup[s].row # 0
    /\ LET u == lookup[s].user
           person == items[lookup[s].row]
       IN  IF date[u] # person.date
           THEN /\ lookup' = [lookup EXCEPT ![s] =
                                [stage |-> "refresh", user |-> u, date |-> date[u]]]
                /\ UNCHANGED shown
           ELSE /\ lookup' = [lookup EXCEPT ![s] = Idle]
                /\ shown' = [for |-> u, of |-> person.id]
    /\ UNCHANGED <<date, storage, setup, interrupted, lost>>

\* The photo has come for a profile that had changed.
Refreshed(s) ==
    /\ lookup[s].stage = "refresh"
    /\ LET u == lookup[s].user IN
         /\ UpdatePerson(s, [id |-> u, date |-> lookup[s].date])
         /\ shown' = [for |-> u, of |-> u]
    /\ UNCHANGED <<date, first, setup, interrupted>>

-----------------------------------------------------------------------------
\* A user changes his name or surname on his own device.
ChangeProfile(u) ==
    /\ date[u] < MaxDate
    /\ date' = [date EXCEPT ![u] = @ + 1]
    /\ UNCHANGED <<storage, setup, lookup, shown, interrupted, lost>>

\* The process ends; both files stay.
Relaunch ==
    /\ setup' = "begin"
    /\ interrupted' = (interrupted \/ setup = "flagged")
    /\ lookup' = [s \in Slot |-> Idle]
    /\ shown' = None
    /\ UNCHANGED <<date, storage, lost>>

\* The code's own ways to end: a row that is invalid when the date has come,
\* and a search of 0...items.count - 1 in an empty file.
TrapInvalidRow(s) ==
    /\ lookup[s].stage = "check"
    /\ lookup[s].row = 0
    /\ Relaunch

TrapNoRows(u) ==
    /\ setup = "ready"
    /\ items = << >>
    /\ Relaunch

Kill == Relaunch

Next ==
    \/ SetFlag \/ WriteSentinel \/ SkipSetup \/ Kill
    \/ \E u \in User : ChangeProfile(u) \/ TrapNoRows(u)
    \/ \E s \in Slot : \/ Fetched(s) \/ Checked(s) \/ Refreshed(s)
                        \/ TrapInvalidRow(s)
                        \/ \E u \in User : LoadInfoByID(s, u)

Spec == Init /\ [][Next]_vars

-----------------------------------------------------------------------------
(* Properties *)

\* Once set up, the first row is the sentinel, whatever evictions and updates
\* move about: that row is what "not found" looks like.  An installation
\* whose set-up was cut between flag and row never has one.
SentinelFirst ==
    setup = "ready" =>
        IF interrupted THEN items = << >>
        ELSE items # << >> /\ items[1] = Sentinel

\* A completion gets the profile it was asked for, although the row found was
\* read again after other lookups had moved and deleted rows.
OwnProfile == shown # None => shown.of = shown.for

\* The cache keeps to its capacity as long as no update has found its row
\* evicted.  (One that has adds an eleventh row, and from then on the test for
\* exactly ten never succeeds.)
CacheBounded == ~ lost => Len(items) <= Capacity

=============================================================================
