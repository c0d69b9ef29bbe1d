------------------------- MODULE PersonCache_proofs -------------------------
(***************************************************************************)
(* Proofs about PersonCache, for any users, capacity and number of waiting *)
(* lookups.                                                                *)
(***************************************************************************)
EXTENDS PersonCache, SequenceTheorems, WellFoundedInduction, TLAPS

-----------------------------------------------------------------------------
(* Rows *)

\* A set of places that is not empty has a first one.
LEMMA FirstIsFirst ==
    ASSUME NEW S, S \subseteq Nat, S # {}
    PROVE  First(S) \in S
<1> DEFINE R == OpToRel(<, Nat)
<1>1. \E x \in S : \A y \in S : ~ (<<y, x>> \in R)
  BY NatLessThanWellFounded, WFMin
<1>2. \A x, y \in S : y < x => <<y, x>> \in R
  BY DEF OpToRel
<1> HIDE DEF R
<1>3. PICK x \in S : \A y \in S : ~ (<<y, x>> \in R)
  BY <1>1
<1>4. \A y \in S : ~ (y < x)
  BY <1>2, <1>3
<1>5. \A y \in S : x <= y
  BY <1>4, SMT
<1> QED
  BY <1>5 DEF First

\* Deleting a row that is not the first leaves the first where it is, and
\* every other row is where Follow looks for it.
LEMMA DeleteMoves ==
    ASSUME NEW rows \in Seq(Row), NEW i \in 1..Len(rows)
    PROVE  /\ Delete(rows, i) \in Seq(Row)
           /\ Len(Delete(rows, i)) = Len(rows) - 1
           /\ \A k \in 1..(Len(rows) - 1) :
                Delete(rows, i)[k] = IF k = i THEN rows[Len(rows)] ELSE rows[k]
<1>1. Len(rows) \in Nat /\ Len(rows) - 1 \in Nat
  BY LenProperties, SMT
<1>2. \A k \in 1..Len(rows) : rows[k] \in Row
  BY ElementOfSeq
<1>3. \A k \in 1..(Len(rows) - 1) :
          (IF k = i THEN rows[Len(rows)] ELSE rows[k]) \in Row
  BY <1>1, <1>2, SMT
<1>4. Delete(rows, i) \in [1..(Len(rows) - 1) -> Row]
  BY <1>3 DEF Delete
<1> QED
  BY <1>1, <1>4 DEF Delete

\* The first row of a user is never the sentinel.
LEMMA MatchIsAProfile ==
    ASSUME items \in Seq(Row), items # << >>, items[1].id = None,
           NEW u \in User, Matches(u) # {}
    PROVE  /\ First(Matches(u)) \in 2..Len(items)
           /\ items[First(Matches(u))].id = u
<1>1. Matches(u) \subseteq 1..Len(items) /\ Len(items) \in Nat
  BY LenProperties DEF Matches
<1>2. Matches(u) \subseteq Nat
  BY <1>1, SMT
<1>3. First(Matches(u)) \in Matches(u)
  BY <1>2, FirstIsFirst
<1>4. items[First(Matches(u))].id = u /\ First(Matches(u)) \in 1..Len(items)
  BY <1>1, <1>3 DEF Matches
<1>5. First(Matches(u)) # 1
  BY <1>4, CacheAssumption
<1> QED
  BY <1>1, <1>4, <1>5, SMT

-----------------------------------------------------------------------------
(* The inductive invariant *)

\* The file has its sentinel in front from the first set-up on, unless that
\* set-up was cut.
Prepared ==
    /\ ~ first => setup = "begin" /\ items = << >> /\ ~ interrupted
    /\ interrupted => items = << >> /\ setup # "flagged"
    /\ setup = "flagged" => items = << >>
    /\ first /\ setup # "flagged" /\ ~ interrupted
           => items # << >> /\ items[1] = Sentinel

\* A live row is a row of the user it was looked up for.
LiveRows ==
    \A s \in Slot :
        /\ lookup[s] # Idle => setup = "ready" /\ ~ interrupted
        /\ lookup[s].stage = "check" /\ lookup[s].row # 0
               => /\ lookup[s].row \in 2..Len(items)
                  /\ items[lookup[s].row].id = lookup[s].user

IInv == TypeOK /\ Prepared /\ LiveRows /\ OwnProfile /\ CacheBounded

\* It holds before the first launch.
LEMMA InitIInv == Init => IInv
<1> SUFFICES ASSUME Init PROVE IInv
  OBVIOUS
<1>1. << >> \in Seq(Row) /\ Len(<< >>) = 0
  BY EmptySeq
<1>2. TypeOK
  <2>1. lookup \in [Slot -> Lookup] /\ \A s \in Slot : lookup[s].stage # "check"
    BY DEF Init, Lookup, Idle
  <2>2. date \in [User -> 0..MaxDate]
    BY CacheAssumption DEF Init
  <2> QED
    BY <1>1, <2>1, <2>2 DEF Init, TypeOK
<1>3. Prepared /\ OwnProfile
  BY DEF Init, Prepared, OwnProfile
<1>4. LiveRows
  BY DEF Init, LiveRows, Idle
<1>5. CacheBounded
  BY <1>1, CacheAssumption DEF Init, CacheBounded
<1> QED
  BY <1>2, <1>3, <1>4, <1>5 DEF IInv

\* A waiting lookup means that the sentinel is in front.
LEMMA WaitingHasSentinel ==
    ASSUME IInv, NEW s \in Slot, lookup[s] # Idle
    PROVE  /\ items \in Seq(Row) /\ items # << >> /\ Len(items) \in Nat \ {0}
           /\ items[1] = Sentinel /\ items[1].id = None
           /\ setup = "ready" /\ first /\ ~ interrupted
<1>1. setup = "ready" /\ ~ interrupted
  BY DEF IInv, LiveRows
<1>2. first /\ items # << >> /\ items[1] = Sentinel
  BY <1>1 DEF IInv, Prepared, TypeOK
<1>3. items \in Seq(Row)
  BY DEF IInv, TypeOK
<1>4. Len(items) \in Nat \ {0}
  BY <1>2, <1>3, EmptySeq, LenProperties
<1> QED
  BY <1>1, <1>2, <1>3, <1>4 DEF Sentinel

\* What a step must keep of the file and of the rows that lookups hold.
FileKept ==
    /\ items' \in Seq(Row)
    /\ lookup' \in [Slot -> Lookup]
    /\ \A s \in Slot : lookup'[s].stage = "check" => lookup'[s].row <= Len(items')
    /\ Prepared' /\ LiveRows'

\* Adding a row at the end keeps it.
LEMMA AddKeepsFile ==
    ASSUME IInv, NEW s \in Slot, lookup[s] # Idle, NEW row \in Row,
           items' = Append(items, row),
           lookup' = [lookup EXCEPT ![s] = Idle],
           UNCHANGED <<first, setup, interrupted>>
    PROVE  FileKept /\ Len(items') = Len(items) + 1
<1>1. /\ items \in Seq(Row) /\ items # << >> /\ Len(items) \in Nat \ {0}
      /\ items[1] = Sentinel
      /\ setup = "ready" /\ first /\ ~ interrupted
  BY WaitingHasSentinel
<1>2. /\ items' \in Seq(Row) /\ Len(items') = Len(items) + 1
      /\ \A k \in 1..Len(items) : items'[k] = items[k]
  BY <1>1, AppendProperties
<1>3. lookup \in [Slot -> Lookup]
  BY DEF IInv, TypeOK
<1>4. /\ lookup' \in [Slot -> Lookup]
      /\ lookup'[s] = Idle
      /\ \A t \in Slot \ {s} : lookup'[t] = lookup[t]
  BY <1>3 DEF Lookup
<1>5. items'[1] = Sentinel /\ items' # << >>
  BY <1>1, <1>2, EmptySeq
<1>6. Prepared'
  BY <1>1, <1>5 DEF Prepared
<1>7. \A t \in Slot : lookup'[t].stage = "check" =>
        /\ t # s
        /\ lookup'[t] = lookup[t]
  BY <1>4 DEF Idle
<1>8. \A t \in Slot : lookup'[t].stage = "check" => lookup'[t].row <= Len(items')
  <2> SUFFICES ASSUME NEW t \in Slot, lookup'[t].stage = "check"
               PROVE  lookup'[t].row <= Len(items')
    OBVIOUS
  <2>1. lookup[t].stage = "check" /\ lookup[t].row <= Len(items)
    BY <1>7 DEF IInv, TypeOK
  <2>2. lookup[t].row \in Nat
    BY <2>1, <1>3 DEF Lookup, Idle, Ref
  <2> QED
    BY <1>1, <1>2, <1>7, <2>1, <2>2
<1>9. LiveRows'
  <2> SUFFICES ASSUME NEW t \in Slot, lookup'[t].stage = "check", lookup'[t].row # 0
               PROVE  /\ lookup'[t].row \in 2..Len(items')
                      /\ items'[lookup'[t].row].id = lookup'[t].user
    BY <1>1 DEF LiveRows
  <2>1. /\ lookup[t].row \in 2..Len(items)
        /\ items[lookup[t].row].id = lookup[t].user
    BY <1>7 DEF IInv, LiveRows
  <2> QED
    BY <1>1, <1>2, <1>7, <2>1
<1> QED
  BY <1>2, <1>4, <1>6, <1>8, <1>9 DEF FileKept

\* So does deleting a row behind the sentinel and adding one: the lookups that
\* held the row are left with none, those that held the last row follow it.
LEMMA ReplaceKeepsFile ==
    ASSUME IInv, NEW s \in Slot, lookup[s] # Idle, NEW row \in Row,
           NEW i \in 2..Len(items),
           items' = Append(Delete(items, i), row),
           lookup' = AfterDelete(s, i),
           UNCHANGED <<first, setup, interrupted>>
    PROVE  FileKept /\ Len(items') = Len(items)
<1> DEFINE n == Len(items)
<1>1. /\ items \in Seq(Row) /\ items # << >> /\ n \in Nat \ {0}
      /\ items[1] = Sentinel
      /\ setup = "ready" /\ first /\ ~ interrupted
  BY WaitingHasSentinel
<1>2. i \in 1..n /\ n - 1 \in Nat /\ 1 \in 1..(n - 1) /\ 1 # i
  BY <1>1
<1>3. /\ Delete(items, i) \in Seq(Row)
      /\ Len(Delete(items, i)) = n - 1
      /\ \A k \in 1..(n - 1) :
           Delete(items, i)[k] = IF k = i THEN items[n] ELSE items[k]
  BY <1>1, <1>2, DeleteMoves
<1>4. /\ items' \in Seq(Row) /\ Len(items') = n
      /\ \A k \in 1..(n - 1) : items'[k] = IF k = i THEN items[n] ELSE items[k]
  <2>1. /\ items' \in Seq(Row) /\ Len(items') = n - 1 + 1
        /\ \A k \in 1..(n - 1) : items'[k] = Delete(items, i)[k]
    BY <1>3, AppendProperties
  <2> QED
    BY <2>1, <1>1, <1>3
<1>5. items'[1] = Sentinel /\ items' # << >>
  BY <1>1, <1>2, <1>4, EmptySeq
<1>6. Prepared'
  BY <1>1, <1>5 DEF Prepared
<1>7. lookup \in [Slot -> Lookup]
  BY DEF IInv, TypeOK
<1>8. \A t \in Slot : lookup'[t] = IF t = s THEN Idle ELSE Follow(lookup[t], i)
  BY DEF AfterDelete
<1>9. ASSUME NEW t \in Slot, lookup[t].stage # "check" \/ t = s
      PROVE  lookup'[t] \in Lookup /\ lookup'[t].stage # "check"
  <2>1. CASE t = s
    <3>1. lookup'[t] = Idle
      BY <1>8, <2>1
    <3> QED
      BY <3>1 DEF Lookup, Idle
  <2>2. CASE t # s
    <3>1. lookup[t].stage # "check" /\ lookup[t] \in Lookup
      BY <1>7, <1>9, <2>2
    <3>2. lookup'[t] = lookup[t]
      BY <1>8, <2>2, <3>1 DEF Follow
    <3> QED
      BY <3>1, <3>2
  <2> QED
    BY <2>1, <2>2
<1>10. ASSUME NEW t \in Slot, t # s, lookup[t].stage = "check"
       PROVE  /\ lookup'[t] \in Lookup /\ lookup'[t].stage = "check"
              /\ lookup'[t].user = lookup[t].user
              /\ lookup'[t].row \in Nat /\ lookup'[t].row <= n
              /\ lookup'[t].row # 0 => /\ lookup'[t].row \in 2..n
                                       /\ items'[lookup'[t].row].id = lookup[t].user
  <2> DEFINE l == lookup[t]
  <2>1. l \in [stage : {"check"}, user : User, row : Ref]
    BY <1>7, <1>10 DEF Lookup, Idle
  <2>2. l.row \in Nat /\ l.row <= n
    BY <2>1, <1>10 DEF IInv, TypeOK, Ref
  <2>3. l.row # 0 => l.row \in 2..n /\ items[l.row].id = l.user
    BY <1>10 DEF IInv, LiveRows
  <2>4. lookup'[t] = [l EXCEPT !.row = IF @ = i THEN 0 ELSE IF @ = n THEN i ELSE @]
    BY <1>8, <1>10 DEF Follow
  <2>5. /\ lookup'[t] \in [stage : {"check"}, user : User, row : Ref]
        /\ lookup'[t].user = l.user
        /\ lookup'[t].row = IF l.row = i THEN 0 ELSE IF l.row = n THEN i ELSE l.row
    <3> DEFINE r == IF l.row = i THEN 0 ELSE IF l.row = n THEN i ELSE l.row
    <3>1. r \in Ref
      BY <2>2 DEF Ref
    <3> HIDE DEF r
    <3>2. lookup'[t] = [l EXCEPT !.row = r]
      BY <2>4 DEF r
    <3>3. lookup'[t] \in [stage : {"check"}, user : User, row : Ref]
      BY <2>1, <3>1, <3>2
    <3>4. lookup'[t].user = l.user /\ lookup'[t].row = r
      BY <2>1, <3>2
    <3> QED
      BY <3>3, <3>4 DEF r
  <2>6. lookup'[t] \in Lookup /\ lookup'[t].stage = "check"
    BY <2>5 DEF Lookup
  <2>7. CASE l.row = i \/ l.row = 0
    <3>1. lookup'[t].row = 0
      BY <2>5, <2>7, <1>1, <1>2
    <3> QED
      BY <2>5, <2>6, <3>1, <1>1
  <2>8. CASE l.row # i /\ l.row = n /\ l.row # 0
    <3>1. i \in 1..(n - 1)
      BY <2>8, <1>1, <1>2
    <3>2. lookup'[t].row = i
      BY <2>5, <2>8
    <3>3. items'[i] = items[n]
      BY <3>1, <1>4
    <3>4. items[n].id = l.user
      BY <2>3, <2>8
    <3>5. items'[lookup'[t].row].id = lookup[t].user
      BY <3>2, <3>3, <3>4
    <3>6. lookup'[t].row \in 2..n /\ lookup'[t].row \in Nat /\ lookup'[t].row <= n
      BY <3>1, <3>2, <1>1, <1>2
    <3>7. lookup'[t].user = lookup[t].user
      BY <2>5
    <3> QED
      BY <2>6, <3>5, <3>6, <3>7, Zenon
  <2>9. CASE l.row # i /\ l.row # n /\ l.row # 0
    <3>1. l.row \in 2..n /\ l.row \in 1..(n - 1)
      BY <2>2, <2>3, <2>9, <1>1
    <3>2. lookup'[t].row = l.row
      BY <2>5, <2>9
    <3>3. items'[l.row] = items[l.row]
      BY <3>1, <2>9, <1>4
    <3>4. items'[lookup'[t].row].id = lookup[t].user
      BY <2>3, <2>9, <3>2, <3>3
    <3>5. lookup'[t].row \in 2..n /\ lookup'[t].row \in Nat /\ lookup'[t].row <= n
      BY <3>1, <3>2, <1>1
    <3>6. lookup'[t].user = lookup[t].user
      BY <2>5
    <3> QED
      BY <2>6, <3>4, <3>5, <3>6, Zenon
  <2> QED
    BY <2>7, <2>8, <2>9
<1>11. lookup' \in [Slot -> Lookup]
  <2>1. \A t \in Slot : lookup'[t] \in Lookup
    BY <1>9, <1>10
  <2> QED
    BY <2>1 DEF AfterDelete
<1>12. \A t \in Slot : lookup'[t].stage = "check" => lookup'[t].row <= Len(items')
  BY <1>4, <1>9, <1>10
<1>13. LiveRows'
  <2>1. \A t \in Slot : lookup'[t].stage = "check" /\ lookup'[t].row # 0 =>
           /\ lookup'[t].row \in 2..Len(items')
           /\ items'[lookup'[t].row].id = lookup'[t].user
    BY <1>4, <1>9, <1>10
  <2> QED
    BY <2>1, <1>1 DEF LiveRows
<1> QED
  BY <1>4, <1>6, <1>11, <1>12, <1>13 DEF FileKept

-----------------------------------------------------------------------------
(* One lemma for each step *)

\* Setting up: nothing is looked up yet.
LEMMA SetupKeepsIInv ==
    ASSUME IInv, SetFlag \/ WriteSentinel \/ SkipSetup
    PROVE  IInv'
<1>1. setup # "ready"
  BY DEF SetFlag, WriteSentinel, SkipSetup
<1>2. \A s \in Slot : lookup[s] = Idle
  BY <1>1 DEF IInv, LiveRows
<1>3. UNCHANGED <<date, lookup, shown, interrupted, lost>>
  BY DEF SetFlag, WriteSentinel, SkipSetup, storage
<1>4. \A s \in Slot : lookup'[s] = Idle /\ lookup'[s].stage # "check"
  BY <1>2, <1>3 DEF Idle
<1>5. items' \in Seq(Row) /\ (items' = items \/ WriteSentinel)
  <2>1. CASE WriteSentinel
    <3>1. Sentinel \in Row
      BY CacheAssumption DEF Sentinel, Row
    <3>2. items' = Append(items, Sentinel) /\ items \in Seq(Row)
      BY <2>1 DEF WriteSentinel, IInv, TypeOK
    <3>3. items' \in Seq(Row)
      BY <3>1, <3>2, AppendProperties
    <3> QED
      BY <2>1, <3>3
  <2>2. CASE SetFlag \/ SkipSetup
    BY <2>2 DEF SetFlag, SkipSetup, storage, IInv, TypeOK
  <2> QED
    BY <2>1, <2>2
<1>6. CASE WriteSentinel
  <2>1. items = << >> /\ first /\ ~ interrupted
    BY <1>6 DEF WriteSentinel, IInv, Prepared, TypeOK
  <2>2. items' = Append(<< >>, Sentinel)
    BY <1>6, <2>1 DEF WriteSentinel
  <2>3. Len(items') = 1 /\ items'[1] = Sentinel /\ items' # << >>
    BY <2>2
  <2>4. first' = first /\ setup' = "ready"
    BY <1>6 DEF WriteSentinel
  <2>5. Prepared'
    BY <2>1, <2>3, <2>4, <1>3 DEF Prepared
  <2>6. CacheBounded'
    BY <2>3, CacheAssumption, SMT DEF CacheBounded
  <2>7. TypeOK'
    BY <1>3, <1>4, <1>5, <2>4 DEF IInv, TypeOK
  <2>8. LiveRows' /\ OwnProfile'
    BY <1>3, <1>4 DEF IInv, LiveRows, OwnProfile, Idle
  <2> QED
    BY <2>5, <2>6, <2>7, <2>8 DEF IInv
<1>7. CASE SetFlag \/ SkipSetup
  <2>1. items' = items
    BY <1>7 DEF SetFlag, SkipSetup, storage
  <2>2. first' \in BOOLEAN /\ setup' \in {"begin", "flagged", "ready"}
    BY <1>7 DEF SetFlag, SkipSetup, storage, IInv, TypeOK
  <2>3. TypeOK'
    BY <1>3, <1>4, <1>5, <2>2 DEF IInv, TypeOK
  <2>4. Prepared'
    BY <1>7, <1>3, <2>1 DEF SetFlag, SkipSetup, storage, IInv, Prepared
  <2>5. LiveRows' /\ OwnProfile' /\ CacheBounded'
    BY <1>3, <1>4, <2>1 DEF IInv, LiveRows, OwnProfile, CacheBounded, Idle
  <2> QED
    BY <2>3, <2>4, <2>5 DEF IInv
<1> QED
  BY <1>6, <1>7

\* The end of the process: no lookup survives it, both files do.
LEMMA RelaunchKeepsIInv ==
    ASSUME IInv, Relaunch
    PROVE  IInv'
<1>1. /\ setup' = "begin" /\ interrupted' = (interrupted \/ setup = "flagged")
      /\ lookup' = [s \in Slot |-> Idle] /\ shown' = None
      /\ UNCHANGED <<date, first, items, lost>>
  BY DEF Relaunch, storage
<1>2. \A s \in Slot : lookup'[s] = Idle /\ lookup'[s].stage # "check"
  BY <1>1 DEF Idle
<1>3. TypeOK'
  BY <1>1, <1>2 DEF IInv, TypeOK, Lookup
<1>4. Prepared'
  BY <1>1 DEF IInv, Prepared
<1>5. LiveRows'
  BY <1>2 DEF LiveRows
<1>6. OwnProfile' /\ CacheBounded'
  BY <1>1 DEF IInv, OwnProfile, CacheBounded
<1> QED
  BY <1>3, <1>4, <1>5, <1>6 DEF IInv

\* Changes of a profile touch nothing on the device.
LEMMA ChangeProfileKeepsIInv ==
    ASSUME IInv, NEW u \in User, ChangeProfile(u)
    PROVE  IInv'
<1>1. UNCHANGED <<first, items, setup, lookup, shown, interrupted, lost>>
  BY DEF ChangeProfile, storage
<1>2. date' \in [User -> 0..MaxDate]
  <2>1. date \in [User -> 0..MaxDate] /\ date[u] + 1 \in 0..MaxDate
    BY CacheAssumption DEF ChangeProfile, IInv, TypeOK
  <2> QED
    BY <2>1 DEF ChangeProfile
<1> QED
  BY <1>1, <1>2
  DEF IInv, TypeOK, Prepared, LiveRows, OwnProfile, CacheBounded

\* The row that checkPerson returns is the user's own or the sentinel.
LEMMA LoadKeepsIInv ==
    ASSUME IInv, NEW s \in Slot, NEW u \in User, LoadInfoByID(s, u)
    PROVE  IInv'
<1> DEFINE found == CheckPerson(u)
<1> DEFINE new == IF items[found].id = None
                  THEN [stage |-> "fetch", user |-> u]
                  ELSE [stage |-> "check", user |-> u, row |-> found]
<1>1. /\ setup = "ready" /\ items # << >>
      /\ lookup' = [lookup EXCEPT ![s] = new]
      /\ UNCHANGED <<date, first, items, setup, shown, interrupted, lost>>
  BY DEF LoadInfoByID, storage
<1>2. ~ interrupted /\ items[1] = Sentinel /\ items[1].id = None
  BY <1>1 DEF IInv, Prepared, TypeOK, Sentinel
<1>3. items \in Seq(Row) /\ lookup \in [Slot -> Lookup]
  BY DEF IInv, TypeOK
<1>4. items[found].id # None => found \in 2..Len(items) /\ items[found].id = u
  BY <1>1, <1>2, <1>3, MatchIsAProfile DEF CheckPerson
<1>5. /\ new \in Lookup
      /\ new.stage = "check" => /\ new.row \in 2..Len(items)
                                /\ items[new.row].id = new.user
  <2>1. CASE items[found].id = None
    <3>1. new = [stage |-> "fetch", user |-> u]
      BY <2>1
    <3> QED
      BY <3>1 DEF Lookup
  <2>2. CASE items[found].id # None
    <3>1. new = [stage |-> "check", user |-> u, row |-> found]
      BY <2>2
    <3>2. found \in Nat
      BY <2>2, <1>4
    <3> QED
      BY <3>1, <3>2, <1>4, <2>2 DEF Lookup, Ref
  <2> QED
    BY <2>1, <2>2
<1> HIDE DEF new
<1>6. /\ lookup' \in [Slot -> Lookup]
      /\ \A t \in Slot : lookup'[t] = IF t = s THEN new ELSE lookup[t]
  BY <1>1, <1>3, <1>5
<1>7. Len(items) \in Nat
  BY <1>3, LenProperties
<1>8. \A t \in Slot : lookup'[t].stage = "check" => lookup'[t].row <= Len(items')
  BY <1>1, <1>5, <1>6, <1>7 DEF IInv, TypeOK
<1>9. LiveRows'
  BY <1>1, <1>2, <1>5, <1>6 DEF IInv, LiveRows
<1>10. TypeOK'
  BY <1>1, <1>3, <1>6, <1>8 DEF IInv, TypeOK
<1>11. Prepared' /\ OwnProfile' /\ CacheBounded'
  BY <1>1 DEF IInv, Prepared, OwnProfile, CacheBounded
<1> QED
  BY <1>9, <1>10, <1>11 DEF IInv

\* What FileKept leaves to show of a step that ends a lookup.
LEMMA FileKeptSuffices ==
    ASSUME IInv, FileKept, OwnProfile', CacheBounded',
           UNCHANGED <<date, first, setup, interrupted>>,
           lost' \in BOOLEAN, shown' \in [for : User, of : User]
    PROVE  IInv'
<1>1. TypeOK'
  BY DEF IInv, TypeOK, FileKept
<1> QED
  BY <1>1 DEF IInv, FileKept

\* The profile fetched goes into the file, in place of the second row when the
\* file is full.
LEMMA FetchedKeepsIInv ==
    ASSUME IInv, NEW s \in Slot, Fetched(s)
    PROVE  IInv'
<1> DEFINE u == lookup[s].user
<1> DEFINE row == [id |-> u, date |-> date[u]]
<1>1. /\ lookup[s].stage = "fetch" /\ AddPerson(s, row)
      /\ shown' = [for |-> u, of |-> u]
      /\ UNCHANGED <<date, first, setup, interrupted, lost>>
  BY DEF Fetched
<1>2. lookup[s] # Idle
  BY <1>1 DEF Idle
<1>3. u \in User
  BY <1>1 DEF IInv, TypeOK, Lookup, Idle
<1>4. row \in Row
  BY <1>3 DEF IInv, TypeOK, Row
<1> HIDE DEF row
<1>5. items \in Seq(Row) /\ Len(items) \in Nat \ {0}
  BY <1>2, WaitingHasSentinel
<1>6. CASE Len(items) = Capacity
  <2>1. /\ items' = Append(Delete(items, 2), row)
        /\ lookup' = AfterDelete(s, 2)
    BY <1>1, <1>6 DEF AddPerson
  <2>2. 2 \in 2..Len(items)
    BY <1>6, CacheAssumption
  <2>3. FileKept /\ Len(items') = Len(items)
    BY <1>1, <1>2, <1>4, <2>1, <2>2, ReplaceKeepsFile
  <2>4. CacheBounded'
    BY <2>3, <1>1 DEF IInv, CacheBounded
  <2> QED
    BY <1>1, <1>3, <2>3, <2>4, FileKeptSuffices DEF OwnProfile, IInv, TypeOK
<1>7. CASE Len(items) # Capacity
  <2>1. /\ items' = Append(items, row)
        /\ lookup' = [lookup EXCEPT ![s] = Idle]
    BY <1>1, <1>7 DEF AddPerson
  <2>2. FileKept /\ Len(items') = Len(items) + 1
    BY <1>1, <1>2, <1>4, <2>1, AddKeepsFile
  <2>3. CacheBounded'
    BY <2>2, <1>1, <1>5, <1>7, CacheAssumption DEF IInv, CacheBounded
  <2> QED
    BY <1>1, <1>3, <2>2, <2>3, FileKeptSuffices DEF OwnProfile, IInv, TypeOK
<1> QED
  BY <1>6, <1>7

\* A row that is still live is shown to the lookup that holds it.
LEMMA CheckedKeepsIInv ==
    ASSUME IInv, NEW s \in Slot, Checked(s)
    PROVE  IInv'
<1> DEFINE u == lookup[s].user
<1> DEFINE person == items[lookup[s].row]
<1> DEFINE new == lookup'[s]
<1>1. /\ lookup[s].stage = "check" /\ lookup[s].row # 0
      /\ UNCHANGED <<date, first, items, setup, interrupted, lost>>
  BY DEF Checked, storage
<1>2. lookup[s] # Idle
  BY <1>1 DEF Idle
<1>3. u \in User /\ person.id = u
  BY <1>1 DEF IInv, TypeOK, LiveRows, Lookup, Idle
<1>4. /\ lookup \in [Slot -> Lookup] /\ date[u] \in 0..MaxDate
      /\ setup = "ready" /\ ~ interrupted
  BY <1>2, <1>3, WaitingHasSentinel DEF IInv, TypeOK
<1>5. \/ /\ lookup' = [lookup EXCEPT ![s] =
                         [stage |-> "refresh", user |-> u, date |-> date[u]]]
         /\ shown' = shown
      \/ /\ lookup' = [lookup EXCEPT ![s] = Idle]
         /\ shown' = [for |-> u, of |-> person.id]
  BY DEF Checked
<1>6. /\ lookup' \in [Slot -> Lookup]
      /\ lookup'[s].stage # "check"
      /\ \A t \in Slot \ {s} : lookup'[t] = lookup[t]
  <2>1. /\ [stage |-> "refresh", user |-> u, date |-> date[u]] \in Lookup
        /\ Idle \in Lookup /\ Idle.stage # "check"
    BY <1>3, <1>4 DEF Lookup, Idle
  <2> QED
    BY <1>4, <1>5, <2>1
<1>7. \A t \in Slot : lookup'[t].stage = "check" => lookup'[t] = lookup[t]
  BY <1>6
<1>8. LiveRows'
  BY <1>1, <1>4, <1>7 DEF IInv, LiveRows
<1>9. shown' \in [for : User, of : User] \cup {None} /\ OwnProfile'
  BY <1>3, <1>5 DEF IInv, TypeOK, OwnProfile
<1>10. TypeOK'
  BY <1>1, <1>6, <1>7, <1>9 DEF IInv, TypeOK
<1>11. Prepared' /\ CacheBounded'
  BY <1>1 DEF IInv, Prepared, CacheBounded
<1> QED
  BY <1>8, <1>9, <1>10, <1>11 DEF IInv

\* A refreshed profile replaces the user's row or, where that has gone, is added.
LEMMA RefreshedKeepsIInv ==
    ASSUME IInv, NEW s \in Slot, Refreshed(s)
    PROVE  IInv'
<1> DEFINE u == lookup[s].user
<1> DEFINE row == [id |-> u, date |-> lookup[s].date]
<1>1. /\ lookup[s].stage = "refresh" /\ UpdatePerson(s, row)
      /\ shown' = [for |-> u, of |-> u]
      /\ UNCHANGED <<date, first, setup, interrupted>>
  BY DEF Refreshed
<1>2. lookup[s] # Idle
  BY <1>1 DEF Idle
<1>3. u \in User /\ lookup[s].date \in 0..MaxDate
  BY <1>1 DEF IInv, TypeOK, Lookup, Idle
<1>4. row \in Row /\ row.id = u
  BY <1>3 DEF Row
<1> HIDE DEF row
<1>5. /\ items \in Seq(Row) /\ Len(items) \in Nat \ {0}
      /\ items # << >> /\ items[1].id = None
  BY <1>2, WaitingHasSentinel
<1>6. CASE Matches(u) = {}
  <2>1. /\ items' = Append(items, row)
        /\ lookup' = [lookup EXCEPT ![s] = Idle]
        /\ lost' = TRUE
    BY <1>1, <1>4, <1>6 DEF UpdatePerson
  <2>2. FileKept
    BY <1>1, <1>2, <1>4, <2>1, AddKeepsFile
  <2>3. CacheBounded' /\ OwnProfile'
    BY <2>1, <1>1 DEF CacheBounded, OwnProfile
  <2> QED
    BY <1>1, <1>3, <2>1, <2>2, <2>3, FileKeptSuffices
<1>7. CASE Matches(u) # {}
  <2> DEFINE i == First(Matches(u))
  <2>1. /\ items' = Append(Delete(items, i), row)
        /\ lookup' = AfterDelete(s, i)
        /\ lost' = lost
    BY <1>1, <1>4, <1>7 DEF UpdatePerson
  <2>2. i \in 2..Len(items)
    BY <1>3, <1>5, <1>7, MatchIsAProfile
  <2>3. FileKept /\ Len(items') = Len(items)
    BY <1>1, <1>2, <1>4, <2>1, <2>2, ReplaceKeepsFile
  <2>4. CacheBounded' /\ OwnProfile'
    BY <2>1, <2>3, <1>1 DEF IInv, CacheBounded, OwnProfile
  <2> QED
    BY <1>1, <1>3, <2>1, <2>3, <2>4, FileKeptSuffices DEF IInv, TypeOK
<1> QED
  BY <1>6, <1>7

\* Every step preserves the inductive invariant.
LEMMA NextKeepsIInv == IInv /\ [Next]_vars => IInv'
<1> SUFFICES ASSUME IInv, [Next]_vars PROVE IInv'
  OBVIOUS
<1>1. CASE SetFlag \/ WriteSentinel \/ SkipSetup
  BY <1>1, SetupKeepsIInv
<1>2. CASE Kill \/ (\E u \in User : TrapNoRows(u)) \/ (\E s \in Slot : TrapInvalidRow(s))
  BY <1>2, RelaunchKeepsIInv DEF Kill, TrapNoRows, TrapInvalidRow
<1>3. CASE \E u \in User : ChangeProfile(u)
  BY <1>3, ChangeProfileKeepsIInv
<1>4. CASE \E s \in Slot, u \in User : LoadInfoByID(s, u)
  BY <1>4, LoadKeepsIInv
<1>5. CASE \E s \in Slot : Fetched(s) \/ Checked(s) \/ Refreshed(s)
  BY <1>5, FetchedKeepsIInv, CheckedKeepsIInv, RefreshedKeepsIInv
<1>6. CASE UNCHANGED vars
  BY <1>6 DEF vars, storage, IInv, TypeOK, Prepared, LiveRows, OwnProfile, CacheBounded
<1> QED
  BY <1>1, <1>2, <1>3, <1>4, <1>5, <1>6 DEF Next

\* So it holds in every reachable state.
LEMMA IInvHolds == Spec => []IInv
<1> QED
  BY InitIInv, NextKeepsIInv, PTL DEF Spec

-----------------------------------------------------------------------------
(* What the cache promises *)

\* Every row and every lookup is well formed; a row a lookup still holds is in
\* the file.
THEOREM CacheTypeCorrect == Spec => []TypeOK
<1>1. IInv => TypeOK
  BY DEF IInv
<1> QED
  BY <1>1, IInvHolds, PTL

\* The row that means "not found" stays the first, whatever is evicted or
\* replaced, and is missing only where the set-up was cut.
THEOREM SentinelStaysFirst == Spec => []SentinelFirst
<1>1. IInv => SentinelFirst
  BY DEF IInv, TypeOK, Prepared, SentinelFirst
<1> QED
  BY <1>1, IInvHolds, PTL

\* Whoever asks for a user's profile gets that user's, although rows move
\* while he waits.
THEOREM ProfileIsTheUsers == Spec => []OwnProfile
<1>1. IInv => OwnProfile
  BY DEF IInv
<1> QED
  BY <1>1, IInvHolds, PTL

\* Until an update misses its row the cache keeps to its capacity.
THEOREM CacheKeepsCapacity == Spec => []CacheBounded
<1>1. IInv => CacheBounded
  BY DEF IInv
<1> QED
  BY <1>1, IInvHolds, PTL

=============================================================================
