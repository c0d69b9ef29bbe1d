-------------------------- MODULE ChatList_proofs --------------------------
(***************************************************************************)
(* Theorems about ChatList, for any devices, names and bounds: whatever    *)
(* loads, observers and users do to a list in whatever order, nothing that *)
(* stays is missing from it once all is delivered, nothing is in it more   *)
(* often than there are observers to put it there, and all of it is on the *)
(* map.                                                                    *)
(***************************************************************************)
EXTENDS ChatList, TLAPS, FiniteSetTheorems, SequenceTheorems, WellFoundedInduction

-----------------------------------------------------------------------------
(* The invariant *)

\* What a device has been told of the entries of the collection.
InList(d) == {chatInformationArray[d][i] : i \in DOMAIN chatInformationArray[d]}
InQueue(d) ==
    {e \in Entry : \E i \in DOMAIN mainQueue[d] :
        \/ mainQueue[d][i].via = "load" /\ e \in mainQueue[d][i].docs
        \/ mainQueue[d][i].via = "changes" /\ e \in mainQueue[d][i].added}
InView(d) == Entries(view[d], Present(view[d]))
Held(d) == InList(d) \cup InQueue(d) \cup InView(d)

OneEach(docs) == \A e, f \in docs : e.chat = f.chat => e = f

Shapes(d) ==
    \A i \in DOMAIN mainQueue[d] :
        /\ mainQueue[d][i].via = "load" => OneEach(mainQueue[d][i].docs)
        /\ mainQueue[d][i].via = "changes" =>
              /\ OneEach(mainQueue[d][i].added)
              /\ mainQueue[d][i].first <= mainQueue[d][i].last
              /\ mainQueue[d][i].last <= observers[d]
        /\ mainQueue[d][i].via = "error" => failed[d]

\* A device that shows no map has been told nothing and awaits nothing.
Idle(d) == observers[d] = 0 => view[d] = Nothing /\ mainQueue[d] = << >> /\ loads[d] = {}

\* Nobody has heard of a chat that was not created.
Named ==
    \A c \in Chat : nameOf[c] = "" =>
        /\ chats[c] = "absent" /\ c \notin rooms
        /\ \A d \in Device : \A i \in DOMAIN outbox[d] : outbox[d][i].chat # c

Heard(d) ==
    /\ \A e \in Held(d) : nameOf[e.chat] # ""
    /\ \A i \in DOMAIN mainQueue[d] :
          mainQueue[d][i].via = "changes" => \A c \in mainQueue[d][i].removed : nameOf[c] # ""

\* The writes of one operation stand together, and those of addChat come once.
WriteOrder ==
    \A d \in Device : \A i \in DOMAIN outbox[d] :
        LET w == outbox[d][i]
        IN  /\ w.op = "room" =>
                  i + 1 \in DOMAIN outbox[d] /\ outbox[d][i + 1] = [op |-> "entry", chat |-> w.chat]
            /\ w.op = "entry" =>
                  i + 1 \in DOMAIN outbox[d] /\ outbox[d][i + 1] = [op |-> "setID", chat |-> w.chat]
            /\ w.op = "deleteEntry" =>
                  i + 1 \in DOMAIN outbox[d] /\ outbox[d][i + 1] = [op |-> "deleteRoom", chat |-> w.chat]
            /\ w.op \in Creates => \A j \in DOMAIN outbox[d] :
                  /\ outbox[d][j] = w => j = i
                  /\ outbox[d][j] = [op |-> "deleteEntry", chat |-> w.chat] => i < j

OneCreator ==
    \A c \in Chat, d, e \in Device : Creating(d, c) /\ (Creating(e, c) \/ Deleting(e, c)) => d = e

\* The room is there before the entry is, and is deleted after.
RoomIsFirst ==
    \A c \in Chat, d \in Device : \A i \in DOMAIN outbox[d] :
        outbox[d][i] = [op |-> "room", chat |-> c] =>
            /\ chats[c] = "absent"
            /\ \A e \in Device : \A j \in DOMAIN outbox[e] :
                  outbox[e][j] = [op |-> "deleteRoom", chat |-> c] => e = d /\ i < j

\* An entry has its id when its creator is done with it.  Who holds the id is
\* the creator or has it from the collection, as has who holds the placeholder.
IdIsLast == \A c \in Chat : chats[c] = "id" => \A d \in Device : ~ Creating(d, c)

IdIsTold(d) ==
    \A e \in Held(d), x \in Device :
        /\ e.firebaseID = "id" /\ Creating(x, e.chat) => x = d
        /\ e.firebaseID = "placeholder" => ~ Pending("room", e.chat)

\* What the observers have seen is there, or is over.
SeenIsThere(d) == \A c \in Present(view[d]) : c \in Visible(d) \/ Ended(d, c)

RoomGoesToo ==
    \A c \in Chat :
        (nameOf[c] # "" /\ chats[c] = "absent" /\ \A d \in Device : ~ Creating(d, c)) =>
            Pending("deleteRoom", c) \/ c \notin rooms

RemovedIsOver(d) ==
    \A i \in DOMAIN mainQueue[d] :
        mainQueue[d][i].via = "changes" => \A c \in mainQueue[d][i].removed : ~ Whole(c)

Adds(callback, c) ==
    callback.via = "changes" /\ \E e \in callback.added : e.chat = c

\* Each observer is told of a chat once.
ToldOnce(d) ==
    \A c \in Chat : \A i \in DOMAIN mainQueue[d] :
        Adds(mainQueue[d][i], c) =>
            /\ c \in Present(view[d]) \/ Ended(d, c)
            /\ \A j \in DOMAIN mainQueue[d] :
                  i < j /\ Adds(mainQueue[d][j], c) => mainQueue[d][i].last < mainQueue[d][j].first

\* The observers that have not been told of a chat, and may be.
ToCome(d, c) ==
    {o \in 1..observers[d] :
        \/ c \notin Present(view[d]) /\ ~ Ended(d, c)
        \/ \E i \in DOMAIN mainQueue[d] :
              /\ Adds(mainQueue[d][i], c)
              /\ mainQueue[d][i].first <= o /\ o <= mainQueue[d][i].last}

ListedAsTold(d) ==
    \A c \in Chat : Occurrences(d, c) <= 1 + Cardinality((1..observers[d]) \ ToCome(d, c))

Brings(callback, c) ==
    \/ callback.via = "load" /\ \E e \in callback.docs : e.chat = c
    \/ Adds(callback, c)
Drops(callback, c) ==
    \/ callback.via = "load" /\ callback.docs # {} /\ \A e \in callback.docs : e.chat # c
    \/ callback.via = "error"

\* The chats that are in the list and on the map on screen.
OnMap(d) == {c \in Listed(d) : nameOf[c] \in pins[d]}

\* The latest observer is told of the chat, and after the others.
Shows(d, callback, c) == Adds(callback, c) /\ callback.last = observers[d]

\* What the observers have seen is in the list and on the map, or the latest of
\* them will be told of it; an answer that lacks it has that callback behind it.
InTheEnd(d) ==
    \A c \in Present(view[d]) :
        ~ failed[d] /\ Whole(c) =>
            /\ \/ c \in OnMap(d)
               \/ \E i \in DOMAIN mainQueue[d] : Shows(d, mainQueue[d][i], c)
            /\ \A i \in DOMAIN mainQueue[d] : Drops(mainQueue[d][i], c) =>
                  \E j \in DOMAIN mainQueue[d] : i < j /\ Shows(d, mainQueue[d][j], c)

Collection == Named /\ WriteOrder /\ OneCreator /\ RoomIsFirst /\ IdIsLast /\ RoomGoesToo

DeviceOf(d) ==
    /\ Shapes(d) /\ Idle(d) /\ Heard(d) /\ IdIsTold(d) /\ SeenIsThere(d)
    /\ RemovedIsOver(d) /\ ToldOnce(d) /\ ListedAsTold(d) /\ InTheEnd(d)

IInv == TypeOK /\ Collection /\ \A d \in Device : DeviceOf(d)

-----------------------------------------------------------------------------
(* Numbers and sets *)

LEMMA LeastNumber ==
    ASSUME NEW S \in SUBSET Nat, S # {}
    PROVE  \E i \in S : \A j \in S : i <= j
<1> DEFINE R == OpToRel(<, Nat)
<1>1. \E x \in S : \A y \in S : ~ (<<y, x>> \in R)
  BY NatLessThanWellFounded, WFMin
<1>2. \A x, y \in S : y < x => <<y, x>> \in R
  BY DEF OpToRel
<1> HIDE DEF R
<1>3. PICK x \in S : \A y \in S : ~ (<<y, x>> \in R)
  BY <1>1
<1>4. \A y \in S : ~ (y < x)
  BY <1>2, <1>3
<1>5. \A y \in S : x <= y
  BY <1>4, SMT
<1> QED
  BY <1>5

UpTo(S, x) == {y \in S : y <= x}
Rank(S, x) == Cardinality(UpTo(S, x))

LEMMA UpToIsFinite ==
    ASSUME NEW N \in Nat, NEW S \in SUBSET (1..N)
    PROVE  /\ \A x \in S : x \in Int /\ 1 <= x /\ x <= N
           /\ IsFiniteSet(S)
           /\ \A x \in Int : IsFiniteSet(UpTo(S, x)) /\ Rank(S, x) \in Nat
<1>1. \A x \in S : x \in Int /\ 1 <= x /\ x <= N
  OBVIOUS
<1>2. IsFiniteSet(1..N)
  BY FS_Interval
<1>3. IsFiniteSet(S)
  BY <1>2, FS_Subset
<1>4. \A x : UpTo(S, x) \in SUBSET S
  BY DEF UpTo
<1>5. \A x : IsFiniteSet(UpTo(S, x))
  BY <1>3, <1>4, FS_Subset
<1> QED
  BY <1>1, <1>3, <1>5, FS_CardinalityType DEF Rank

\* The rank grows by one at each number of the set and nowhere else.
LEMMA RankGrows ==
    ASSUME NEW N \in Nat, NEW S \in SUBSET (1..N), NEW n \in Int
    PROVE  /\ n = 0 => Rank(S, n) = 0
           /\ Rank(S, n) = IF n \in S THEN Rank(S, n - 1) + 1 ELSE Rank(S, n - 1)
<1>1. \A x \in S : x \in Int /\ 1 <= x /\ x <= N
  BY UpToIsFinite
<1>2. ASSUME n = 0
      PROVE  Rank(S, n) = 0
  <2>1. \A y \in S : ~ (y <= n)
    BY <1>1, <1>2
  <2>2. UpTo(S, n) = {}
    BY <2>1 DEF UpTo
  <2> QED
    BY <2>2, FS_EmptySet DEF Rank
<1>3. ASSUME NEW z \in S
      PROVE  z \in UpTo(S, n) <=> z \in UpTo(S, n - 1) \/ z = n
  <2>1. z \in Int
    BY <1>1
  <2> QED
    BY <2>1 DEF UpTo
<1>4. \A x : UpTo(S, x) \subseteq S
  BY DEF UpTo
<1>5. CASE n \in S
  <2>1. UpTo(S, n) = UpTo(S, n - 1) \cup {n}
    BY <1>3, <1>4, <1>5
  <2>2. n \notin UpTo(S, n - 1) /\ IsFiniteSet(UpTo(S, n - 1))
    BY UpToIsFinite DEF UpTo
  <2>3. Rank(S, n) = Rank(S, n - 1) + 1
    BY <2>1, <2>2, FS_AddElement DEF Rank
  <2> QED
    BY <1>2, <1>5, <2>3
<1>6. CASE n \notin S
  <2>1. \A z : z \in UpTo(S, n) <=> z \in UpTo(S, n - 1)
    BY <1>3, <1>4, <1>6
  <2>2. UpTo(S, n) = UpTo(S, n - 1)
    BY <2>1
  <2>3. Rank(S, n) = Rank(S, n - 1)
    BY <2>2 DEF Rank
  <2> QED
    BY <1>2, <1>6, <2>3
<1> QED
  BY <1>5, <1>6

LEMMA RankIsStrict ==
    ASSUME NEW N \in Nat, NEW S \in SUBSET (1..N), NEW x \in S, NEW y \in S, x < y
    PROVE  Rank(S, x) < Rank(S, y)
<1>1. /\ \A z \in S : z \in Int
      /\ IsFiniteSet(UpTo(S, y)) /\ IsFiniteSet(UpTo(S, x))
      /\ Rank(S, x) \in Nat /\ Rank(S, y) \in Nat
  BY UpToIsFinite
<1>2. UpTo(S, x) \in SUBSET (UpTo(S, y) \ {y})
  <2>1. \A z \in UpTo(S, x) : z \in UpTo(S, y) /\ z # y
    BY <1>1 DEF UpTo
  <2> QED
    BY <2>1
<1>3. y \in UpTo(S, y)
  BY <1>1 DEF UpTo
<1>4. /\ IsFiniteSet(UpTo(S, y) \ {y})
      /\ Cardinality(UpTo(S, y) \ {y}) = Rank(S, y) - 1
  BY <1>1, <1>3, FS_RemoveElement DEF Rank
<1>5. Rank(S, x) <= Rank(S, y) - 1
  BY <1>2, <1>4, FS_Subset DEF Rank
<1> QED
  BY <1>1, <1>5

\* Nth and Rank are inverse to each other.
LEMMA NthIsThere ==
    ASSUME NEW N \in Nat, NEW S \in SUBSET (1..N)
    PROVE  /\ IsFiniteSet(S) /\ Cardinality(S) \in Nat
           /\ \A k \in 1..Cardinality(S) : Nth(S, k) \in S /\ Rank(S, Nth(S, k)) = k
           /\ \A x \in S : Rank(S, x) \in 1..Cardinality(S) /\ Nth(S, Rank(S, x)) = x
<1>1. /\ IsFiniteSet(S) /\ Cardinality(S) \in Nat
      /\ \A x \in S : x \in Int /\ 1 <= x /\ x <= N
      /\ \A x \in Int : Rank(S, x) \in Nat
  BY UpToIsFinite, FS_CardinalityType
<1>7. \A n \in Int : /\ n = 0 => Rank(S, n) = 0
                    /\ Rank(S, n) = IF n \in S THEN Rank(S, n - 1) + 1 ELSE Rank(S, n - 1)
  BY RankGrows
<1>8. \A x, y \in S : x < y => Rank(S, x) < Rank(S, y)
  BY RankIsStrict
<1>2. Rank(S, N) = Cardinality(S)
  <2>1. UpTo(S, N) = S
    BY <1>1 DEF UpTo
  <2> QED
    BY <2>1 DEF Rank
<1>3. ASSUME NEW k \in 1..Cardinality(S)
      PROVE  \E x \in S : Rank(S, x) = k
  <2> DEFINE T == {n \in Nat : Rank(S, n) >= k}
  <2>1. N \in T /\ T \in SUBSET Nat
    BY <1>1, <1>2
  <2>2. PICK m \in T : \A n \in T : m <= n
    BY <2>1, LeastNumber
  <2>3. m \in Nat /\ Rank(S, m) >= k /\ k \in Nat /\ k >= 1
    BY <1>1, <2>2
  <2>4. m # 0
    BY <1>7, <2>3
  <2>5. m - 1 \in Nat /\ m - 1 \notin T
    BY <2>2, <2>3, <2>4
  <2>6. Rank(S, m - 1) \in Nat /\ Rank(S, m - 1) < k
    BY <1>1, <2>3, <2>5
  <2>7. Rank(S, m) = IF m \in S THEN Rank(S, m - 1) + 1 ELSE Rank(S, m - 1)
    BY <1>7, <2>3
  <2>8. m \in S /\ Rank(S, m) = k
    BY <2>3, <2>6, <2>7
  <2> QED
    BY <2>8
<1>4. \A k \in 1..Cardinality(S) : Nth(S, k) \in S /\ Rank(S, Nth(S, k)) = k
  BY <1>3 DEF Nth, Rank, UpTo
<1>5. ASSUME NEW x \in S
      PROVE  Rank(S, x) \in 1..Cardinality(S)
  <2>1. x \in UpTo(S, x) /\ UpTo(S, x) \in SUBSET S /\ IsFiniteSet(UpTo(S, x))
    BY <1>1, UpToIsFinite DEF UpTo
  <2>2. Rank(S, x) \in Nat /\ Rank(S, x) # 0
    BY <1>1, <2>1, FS_EmptySet DEF Rank
  <2>3. Rank(S, x) <= Cardinality(S)
    BY <1>1, <2>1, FS_Subset DEF Rank
  <2> QED
    BY <1>1, <2>2, <2>3
<1>6. ASSUME NEW x \in S
      PROVE  Nth(S, Rank(S, x)) = x
  <2>1. Nth(S, Rank(S, x)) \in S /\ Rank(S, Nth(S, Rank(S, x))) = Rank(S, x)
    BY <1>4, <1>5
  <2>2. ASSUME NEW y \in S, y # x
        PROVE  Rank(S, y) # Rank(S, x)
    <3>1. y \in Int /\ x \in Int /\ (y < x \/ x < y)
      BY <1>1, <2>2
    <3>2. Rank(S, x) \in Nat /\ Rank(S, y) \in Nat
      BY <1>1, <3>1
    <3>3. CASE y < x
      BY <3>2, <3>3, <1>8
    <3>4. CASE x < y
      BY <3>2, <3>4, <1>8
    <3> QED
      BY <3>1, <3>3, <3>4
  <2> QED
    BY <2>1, <2>2
<1> QED
  BY <1>1, <1>4, <1>5, <1>6


-----------------------------------------------------------------------------
(* Lists *)

Places(list, c) == {i \in DOMAIN list : list[i].chat = c}
Count(list, c) == Cardinality(Places(list, c))

LEMMA CountIsNat ==
    ASSUME NEW list \in Seq(Entry), NEW c
    PROVE  /\ Places(list, c) \in SUBSET (1..Len(list))
           /\ IsFiniteSet(Places(list, c)) /\ Count(list, c) \in Nat
           /\ (\A i \in DOMAIN list : list[i].chat # c) => Count(list, c) = 0
<1>1. DOMAIN list = 1..Len(list) /\ Len(list) \in Nat
  BY LenProperties
<1>2. Places(list, c) \in SUBSET (1..Len(list))
  BY <1>1 DEF Places
<1>3. IsFiniteSet(1..Len(list))
  BY <1>1, FS_Interval
<1>4. IsFiniteSet(Places(list, c))
  BY <1>2, <1>3, FS_Subset
<1>5. (\A i \in DOMAIN list : list[i].chat # c) => Places(list, c) = {}
  BY DEF Places
<1> QED
  BY <1>2, <1>4, <1>5, FS_CardinalityType, FS_EmptySet DEF Count

\* A list with no more places for a chat than another, as a map shows that
\* sends them there one to one.
LEMMA CountByMap ==
    ASSUME NEW list \in Seq(Entry), NEW to \in Seq(Entry), NEW c,
           NEW f \in [Places(list, c) -> Places(to, c)],
           \A i, j \in Places(list, c) : f[i] = f[j] => i = j
    PROVE  Count(list, c) <= Count(to, c)
<1>1. f \in Injection(Places(list, c), Places(to, c))
  BY DEF Injection, IsInjective
<1>2. IsFiniteSet(Places(to, c))
  BY CountIsNat
<1> QED
  BY <1>1, <1>2, FS_Injection DEF Count

LEMMA CountOfConcat ==
    ASSUME NEW s \in Seq(Entry), NEW t \in Seq(Entry), NEW c
    PROVE  Count(s \o t, c) <= Count(s, c) + Count(t, c)
<1>1. /\ Len(s) \in Nat /\ Len(t) \in Nat /\ DOMAIN s = 1..Len(s) /\ DOMAIN t = 1..Len(t)
      /\ s \o t \in Seq(Entry) /\ DOMAIN (s \o t) = 1..(Len(s) + Len(t))
      /\ \A i \in 1..(Len(s) + Len(t)) :
            (s \o t)[i] = IF i <= Len(s) THEN s[i] ELSE t[i - Len(s)]
  BY LenProperties, ConcatProperties
<1> DEFINE A == {i \in Places(s \o t, c) : i <= Len(s)}
           B == {i \in Places(s \o t, c) : i > Len(s)}
           f == [i \in B |-> i - Len(s)]
<1>2. /\ IsFiniteSet(Places(s \o t, c)) /\ IsFiniteSet(Places(s, c)) /\ IsFiniteSet(Places(t, c))
      /\ Places(s \o t, c) \in SUBSET (1..(Len(s) + Len(t)))
  BY <1>1, CountIsNat DEF Places
<1>3. IsFiniteSet(A) /\ IsFiniteSet(B)
  BY <1>2, FS_Subset
<1>4. Places(s \o t, c) = A \cup B
  <2>1. \A i \in Places(s \o t, c) : i <= Len(s) \/ i > Len(s)
    BY <1>1, <1>2
  <2> QED
    BY <2>1
<1>5. A \in SUBSET Places(s, c)
  BY <1>1 DEF Places
<1>6. \A i \in B : i - Len(s) \in Places(t, c)
  BY <1>1 DEF Places
<1>7. \A i, j \in B : i - Len(s) = j - Len(s) => i = j
  BY <1>1, <1>2
<1>8. f \in Injection(B, Places(t, c))
  BY <1>6, <1>7 DEF Injection, IsInjective
<1> HIDE DEF A, B, f
<1>9. Cardinality(A) <= Count(s, c) /\ Cardinality(B) <= Count(t, c)
  BY <1>2, <1>5, <1>8, FS_Subset, FS_Injection DEF Count
<1>10. Count(s \o t, c) = Cardinality(A) + Cardinality(B) - Cardinality(A \cap B)
  BY <1>3, <1>4, FS_Union DEF Count
<1>11. /\ Cardinality(A) \in Nat /\ Cardinality(B) \in Nat /\ Cardinality(A \cap B) \in Nat
       /\ Count(s, c) \in Nat /\ Count(t, c) \in Nat
  BY <1>2, <1>3, FS_CardinalityType, FS_Intersection DEF Count
<1> QED
  BY <1>9, <1>10, <1>11

\* What is kept of a list, in order.
LEMMA KeptFacts ==
    ASSUME NEW list \in Seq(Entry), NEW places \in SUBSET DOMAIN list
    PROVE  /\ Kept(list, places) \in Seq(Entry)
           /\ \A k \in DOMAIN Kept(list, places) : \E i \in places : Kept(list, places)[k] = list[i]
           /\ \A i \in places : \E k \in DOMAIN Kept(list, places) : Kept(list, places)[k] = list[i]
           /\ \A c : Count(Kept(list, places), c) <= Count(list, c)
<1>1. Len(list) \in Nat /\ DOMAIN list = 1..Len(list)
  BY LenProperties
<1>2. /\ Cardinality(places) \in Nat
      /\ \A k \in 1..Cardinality(places) : Nth(places, k) \in places /\ Rank(places, Nth(places, k)) = k
      /\ \A x \in places : Rank(places, x) \in 1..Cardinality(places) /\ Nth(places, Rank(places, x)) = x
  BY <1>1, NthIsThere
<1>3. DOMAIN Kept(list, places) = 1..Cardinality(places)
  BY DEF Kept
<1>4. \A k \in DOMAIN Kept(list, places) : Kept(list, places)[k] = list[Nth(places, k)]
  BY DEF Kept
<1>5. \A i \in DOMAIN list : list[i] \in Entry
  BY <1>1, ElementOfSeq
<1>6. Kept(list, places) \in Seq(Entry)
  BY <1>2, <1>5 DEF Kept
<1>7. \A k \in DOMAIN Kept(list, places) : \E i \in places : Kept(list, places)[k] = list[i]
  BY <1>2, <1>3, <1>4
<1>8. \A i \in places : \E k \in DOMAIN Kept(list, places) : Kept(list, places)[k] = list[i]
  <2> SUFFICES ASSUME NEW i \in places
               PROVE  \E k \in DOMAIN Kept(list, places) : Kept(list, places)[k] = list[i]
    OBVIOUS
  <2>1. Rank(places, i) \in DOMAIN Kept(list, places)
    BY <1>2, <1>3
  <2>2. Kept(list, places)[Rank(places, i)] = list[i]
    BY <1>2, <1>4, <2>1
  <2> QED
    BY <2>1, <2>2
<1>9. ASSUME NEW c
      PROVE  Count(Kept(list, places), c) <= Count(list, c)
  <2> DEFINE f == [k \in Places(Kept(list, places), c) |-> Nth(places, k)]
  <2>1. \A k \in Places(Kept(list, places), c) : k \in 1..Cardinality(places) /\ list[Nth(places, k)].chat = c
    BY <1>3, <1>4 DEF Places
  <2>2. \A k \in Places(Kept(list, places), c) : Nth(places, k) \in Places(list, c)
    BY <1>2, <2>1 DEF Places
  <2>3. f \in [Places(Kept(list, places), c) -> Places(list, c)]
    BY <2>2
  <2>4. \A k, m \in Places(Kept(list, places), c) : f[k] = f[m] => k = m
    BY <1>2, <2>1
  <2> HIDE DEF f
  <2> QED
    BY <1>6, <2>3, <2>4, CountByMap
<1> QED
  BY <1>6, <1>7, <1>8, <1>9

LEMMA WithoutFacts ==
    ASSUME NEW list \in Seq(Entry), NEW gone \in SUBSET Chat
    PROVE  /\ Without(list, gone) \in Seq(Entry)
           /\ \A k \in DOMAIN Without(list, gone) :
                 \E i \in DOMAIN list : Without(list, gone)[k] = list[i]
           /\ \A i \in DOMAIN list :
                 (\A g \in gone : nameOf[g] # nameOf[list[i].chat]) =>
                     \E k \in DOMAIN Without(list, gone) : Without(list, gone)[k] = list[i]
           /\ \A c : Count(Without(list, gone), c) <= Count(list, c)
<1> DEFINE sameName(i) == {c \in gone : nameOf[c] = nameOf[list[i].chat]}
           earlier(i) == {j \in 1..i : nameOf[list[j].chat] = nameOf[list[i].chat]}
           places == {i \in DOMAIN list : Cardinality(earlier(i)) > Cardinality(sameName(i))}
<1>1. Without(list, gone) = Kept(list, places)
  BY DEF Without
<1>2. places \in SUBSET DOMAIN list
  OBVIOUS
<1>3. ASSUME NEW i \in DOMAIN list, \A g \in gone : nameOf[g] # nameOf[list[i].chat]
      PROVE  i \in places
  <2>1. sameName(i) = {}
    BY <1>3
  <2>2. i \in 1..i /\ i \in Nat
    BY <1>3, LenProperties
  <2>3. i \in earlier(i) /\ earlier(i) \in SUBSET (1..i)
    BY <2>2
  <2>4. IsFiniteSet(1..i)
    BY <2>2, FS_Interval
  <2>5. IsFiniteSet(earlier(i))
    BY <2>3, <2>4, FS_Subset
  <2> HIDE DEF earlier, sameName
  <2>6. Cardinality(earlier(i)) \in Nat /\ Cardinality(earlier(i)) # 0
    BY <2>3, <2>5, FS_CardinalityType, FS_EmptySet
  <2>7. Cardinality(sameName(i)) = 0
    BY <2>1, FS_EmptySet
  <2> QED
    BY <2>6, <2>7
<1> HIDE DEF places
<1> QED
  BY <1>1, <1>2, <1>3, KeptFacts

LEMMA InOrderFacts ==
    ASSUME NEW docs \in SUBSET Entry, OneEach(docs)
    PROVE  /\ InOrder(docs) \in Seq(Entry)
           /\ \A k \in DOMAIN InOrder(docs) : InOrder(docs)[k] \in docs
           /\ \A e \in docs : \E k \in DOMAIN InOrder(docs) : InOrder(docs)[k] = e
           /\ \A c : Count(InOrder(docs), c) <= 1
           /\ \A c : (\A e \in docs : e.chat # c) => Count(InOrder(docs), c) = 0
<1> DEFINE C == {x.chat : x \in docs}
           g == [c \in C |-> CHOOSE e \in docs : e.chat = c]
<1>1. MaxChats \in Nat
  BY ListAssumption
<1>2. C \in SUBSET (1..MaxChats)
  BY DEF Entry, Chat
<1>3. /\ IsFiniteSet(C) /\ Cardinality(C) \in Nat
      /\ \A k \in 1..Cardinality(C) : Nth(C, k) \in C /\ Rank(C, Nth(C, k)) = k
      /\ \A x \in C : Rank(C, x) \in 1..Cardinality(C) /\ Nth(C, Rank(C, x)) = x
  <2> HIDE DEF C
  <2> QED
    BY <1>1, <1>2, NthIsThere
<1>4. \A c \in C : g[c] \in docs /\ g[c].chat = c
  OBVIOUS
<1>5. \A e \in docs : e.chat \in C /\ g[e.chat] = e
  BY <1>4 DEF OneEach
<1>6. g \in Surjection(C, docs) /\ g \in Injection(C, docs)
  <2>1. g \in [C -> docs]
    BY <1>4
  <2> HIDE DEF C, g
  <2>2. g \in Surjection(C, docs)
    BY <1>5, <2>1 DEF Surjection
  <2>3. g \in Injection(C, docs)
    BY <1>4, <2>1 DEF Injection, IsInjective
  <2> QED
    BY <2>2, <2>3
<1>7. Cardinality(docs) = Cardinality(C)
  <2> HIDE DEF C, g
  <2> QED
    BY <1>3, <1>6, FS_Surjection
<1>8. DOMAIN InOrder(docs) = 1..Cardinality(C)
  BY <1>7 DEF InOrder
<1>9. \A k \in 1..Cardinality(C) : InOrder(docs)[k] \in docs /\ InOrder(docs)[k].chat = Nth(C, k)
  <2> SUFFICES ASSUME NEW k \in 1..Cardinality(C)
               PROVE  InOrder(docs)[k] \in docs /\ InOrder(docs)[k].chat = Nth(C, k)
    OBVIOUS
  <2>1. InOrder(docs)[k] = CHOOSE e \in docs : e.chat = Nth(C, k)
    BY <1>7 DEF InOrder
  <2>2. \E e \in docs : e.chat = Nth(C, k)
    BY <1>3
  <2> QED
    BY <2>1, <2>2
<1>10. InOrder(docs) \in Seq(Entry)
  <2> DEFINE e(k) == CHOOSE x \in docs : x.chat = Nth(C, k)
  <2>1. InOrder(docs) = [k \in 1..Cardinality(docs) |-> e(k)]
    BY DEF InOrder
  <2>2. \A k \in 1..Cardinality(docs) : e(k) \in Entry
    BY <1>3, <1>7
  <2>3. Cardinality(docs) \in Nat
    BY <1>3, <1>7
  <2> HIDE DEF e, C
  <2> QED
    BY <2>1, <2>2, <2>3
<1>11. \A e \in docs : Rank(C, e.chat) \in DOMAIN InOrder(docs) /\ InOrder(docs)[Rank(C, e.chat)] = e
  <2> SUFFICES ASSUME NEW e \in docs
               PROVE  /\ Rank(C, e.chat) \in DOMAIN InOrder(docs)
                      /\ InOrder(docs)[Rank(C, e.chat)] = e
    OBVIOUS
  <2>1. e.chat \in C
    OBVIOUS
  <2> HIDE DEF C
  <2>2. Rank(C, e.chat) \in 1..Cardinality(C) /\ Nth(C, Rank(C, e.chat)) = e.chat
    BY <1>3, <2>1
  <2>3. InOrder(docs)[Rank(C, e.chat)] \in docs /\ InOrder(docs)[Rank(C, e.chat)].chat = e.chat
    BY <1>9, <2>2
  <2> QED
    BY <1>8, <2>2, <2>3 DEF OneEach
<1>12. ASSUME NEW c
       PROVE  Count(InOrder(docs), c) <= 1
  <2>1. Places(InOrder(docs), c) \subseteq {Rank(C, c)}
    BY <1>3, <1>8, <1>9 DEF Places
  <2>2. IsFiniteSet({Rank(C, c)}) /\ Cardinality({Rank(C, c)}) = 1
    BY FS_Singleton
  <2> QED
    BY <2>1, <2>2, FS_Subset DEF Count
<1>13. \A c : (\A e \in docs : e.chat # c) => Count(InOrder(docs), c) = 0
  BY <1>8, <1>9, <1>10, CountIsNat
<1> QED
  BY <1>8, <1>9, <1>10, <1>11, <1>12, <1>13

-----------------------------------------------------------------------------
(* What a device sees *)

LEMMA OutboxFacts ==
    ASSUME TypeOK, NEW d \in Device
    PROVE  /\ outbox[d] \in Seq(Write) /\ Len(outbox[d]) \in Nat
           /\ DOMAIN outbox[d] = 1..Len(outbox[d])
           /\ \A i \in DOMAIN outbox[d] :
                 /\ outbox[d][i] \in Write /\ outbox[d][i].chat \in Chat
                 /\ outbox[d][i].op \in Creates \cup {"deleteEntry", "deleteRoom"}
                 /\ outbox[d][i] = [op |-> outbox[d][i].op, chat |-> outbox[d][i].chat]
<1>1. outbox[d] \in Seq(Write)
  BY DEF TypeOK
<1>2. Len(outbox[d]) \in Nat /\ DOMAIN outbox[d] = 1..Len(outbox[d])
  BY <1>1, LenProperties
<1>3. \A i \in DOMAIN outbox[d] : outbox[d][i] \in Write
  BY <1>1, <1>2, ElementOfSeq
<1> QED
  BY <1>1, <1>2, <1>3 DEF Write, Creates

LEMMA LatestIsLatest ==
    ASSUME NEW N \in Nat, NEW S \in SUBSET (1..N), S # {}
    PROVE  Latest(S) \in S /\ \A j \in S : j <= Latest(S)
<1>1. /\ IsFiniteSet(S) /\ Cardinality(S) \in Nat
      /\ \A k \in 1..Cardinality(S) : Nth(S, k) \in S /\ Rank(S, Nth(S, k)) = k
      /\ \A x \in S : Rank(S, x) \in 1..Cardinality(S) /\ Nth(S, Rank(S, x)) = x
  BY NthIsThere
<1>2. \A x, y \in S : x < y => Rank(S, x) < Rank(S, y)
  BY RankIsStrict
<1>3. Cardinality(S) \in 1..Cardinality(S)
  BY <1>1, FS_EmptySet
<1> DEFINE m == Nth(S, Cardinality(S))
<1>4. m \in S /\ Rank(S, m) = Cardinality(S)
  BY <1>1, <1>3
<1> HIDE DEF m
<1>5. \A j \in S : j \in Int /\ m \in Int /\ ~ (m < j)
  BY <1>1, <1>2, <1>4
<1>6. \A j \in S : j <= m
  BY <1>5
<1> QED
  BY <1>4, <1>6 DEF Latest

LEMMA EntryWritesFacts ==
    ASSUME TypeOK, NEW d \in Device, NEW c \in Chat
    PROVE  /\ \A i \in EntryWrites(d, c) :
                 /\ i \in DOMAIN outbox[d] /\ outbox[d][i].chat = c
                 /\ outbox[d][i].op \in {"entry", "setID", "deleteEntry"}
           /\ EntryWrites(d, c) # {} =>
                 /\ Latest(EntryWrites(d, c)) \in EntryWrites(d, c)
                 /\ \A j \in EntryWrites(d, c) : j <= Latest(EntryWrites(d, c))
<1>1. EntryWrites(d, c) \in SUBSET (1..Len(outbox[d])) /\ Len(outbox[d]) \in Nat
  BY OutboxFacts DEF EntryWrites
<1> QED
  BY <1>1, LatestIsLatest DEF EntryWrites

LEMMA ReadFacts ==
    ASSUME TypeOK, WriteOrder, NEW d \in Device
    PROVE  /\ Read(d) \in [Chat -> Id \cup {"absent"}]
           /\ \A c \in Chat : Read(d)[c] = "id" =>
                 \/ Creating(d, c)
                 \/ chats[c] = "id"
           /\ \A c \in Chat : Read(d)[c] = "placeholder" => chats[c] = "placeholder"
<1>1. ASSUME NEW c \in Chat, EntryWrites(d, c) = {}
      PROVE  Read(d)[c] = chats[c]
  BY <1>1 DEF Read
<1>2. ASSUME NEW c \in Chat, EntryWrites(d, c) # {}
      PROVE  /\ Read(d)[c] \in {"id", "absent"}
             /\ Read(d)[c] = "id" => Creating(d, c)
  <2> DEFINE i == Latest(EntryWrites(d, c))
  <2>1. /\ i \in DOMAIN outbox[d] /\ outbox[d][i].chat = c
        /\ outbox[d][i].op \in {"entry", "setID", "deleteEntry"}
        /\ \A j \in EntryWrites(d, c) : j <= i
    BY <1>2, EntryWritesFacts
  <2>2. Read(d)[c] = AfterWrite(outbox[d][i], c, chats[c])
    BY <1>2 DEF Read
  <2>6. DOMAIN outbox[d] = 1..Len(outbox[d]) /\ Len(outbox[d]) \in Nat
    BY OutboxFacts
  <2> HIDE DEF i
  <2>3. outbox[d][i].op # "entry"
    <3> SUFFICES ASSUME outbox[d][i].op = "entry" PROVE FALSE
      OBVIOUS
    <3>1. i + 1 \in DOMAIN outbox[d] /\ outbox[d][i + 1] = [op |-> "setID", chat |-> c]
      BY <2>1 DEF WriteOrder
    <3>2. i + 1 \in EntryWrites(d, c)
      BY <3>1 DEF EntryWrites
    <3> QED
      BY <2>1, <2>6, <3>2
  <2>4. CASE outbox[d][i].op = "setID"
    BY <2>1, <2>2, <2>4 DEF AfterWrite, Creating, Creates
  <2>5. CASE outbox[d][i].op = "deleteEntry"
    BY <2>1, <2>2, <2>5 DEF AfterWrite
  <2> QED
    BY <2>1, <2>3, <2>4, <2>5
<1>3. \A c \in Chat : Read(d)[c] \in Id \cup {"absent"}
  BY <1>1, <1>2 DEF TypeOK, Id
<1>4. Read(d) \in [Chat -> Id \cup {"absent"}]
  <2> DEFINE r(c) == IF EntryWrites(d, c) = {} THEN chats[c]
                     ELSE AfterWrite(outbox[d][Latest(EntryWrites(d, c))], c, chats[c])
  <2>1. Read(d) = [c \in Chat |-> r(c)]
    BY DEF Read
  <2> HIDE DEF r
  <2> QED
    BY <1>3, <2>1
<1>5. \A c \in Chat : Read(d)[c] = "placeholder" => chats[c] = "placeholder"
  BY <1>1, <1>2
<1>6. \A c \in Chat : Read(d)[c] = "id" => Creating(d, c) \/ chats[c] = "id"
  BY <1>1, <1>2
<1> QED
  BY <1>4, <1>5, <1>6

\* A device sees a chat from addChat's first write until deleteChat's.
LEMMA VisibleIff ==
    ASSUME TypeOK, WriteOrder, NEW d \in Device, NEW c \in Chat
    PROVE  c \in Visible(d) <=> ~ Deleting(d, c) /\ (Creating(d, c) \/ chats[c] # "absent")
<1>0. c \in Visible(d) <=> Read(d)[c] # "absent"
  BY DEF Visible, Present
<1>1. CASE EntryWrites(d, c) = {}
  <2>1. \A i \in DOMAIN outbox[d] : outbox[d][i].chat = c =>
           outbox[d][i].op \notin {"entry", "setID", "deleteEntry"}
    BY <1>1 DEF EntryWrites
  <2>2. ~ Deleting(d, c)
    BY <2>1 DEF Deleting
  <2>3. ~ Creating(d, c)
    <3> SUFFICES ASSUME NEW i \in DOMAIN outbox[d], outbox[d][i].chat = c, outbox[d][i].op \in Creates
                 PROVE  FALSE
      BY DEF Creating
    <3>1. outbox[d][i].op = "room"
      BY <2>1 DEF Creates
    <3>2. i + 1 \in DOMAIN outbox[d] /\ outbox[d][i + 1] = [op |-> "entry", chat |-> c]
      BY <3>1 DEF WriteOrder
    <3> QED
      BY <2>1, <3>2
  <2>4. Read(d)[c] = chats[c]
    BY <1>1 DEF Read
  <2> QED
    BY <1>0, <2>2, <2>3, <2>4
<1>2. CASE EntryWrites(d, c) # {}
  <2> DEFINE i == Latest(EntryWrites(d, c))
  <2>1. /\ i \in DOMAIN outbox[d] /\ outbox[d][i].chat = c
        /\ outbox[d][i].op \in {"entry", "setID", "deleteEntry"}
        /\ \A j \in EntryWrites(d, c) : j <= i
    BY <1>2, EntryWritesFacts
  <2>2. Read(d)[c] = AfterWrite(outbox[d][i], c, chats[c])
    BY <1>2 DEF Read
  <2>3. /\ DOMAIN outbox[d] = 1..Len(outbox[d]) /\ Len(outbox[d]) \in Nat
        /\ outbox[d][i] = [op |-> outbox[d][i].op, chat |-> c]
    BY <2>1, OutboxFacts
  <2> HIDE DEF i
  <2>4. CASE outbox[d][i].op = "deleteEntry"
    <3>1. Deleting(d, c)
      BY <2>1, <2>3, <2>4 DEF Deleting
    <3>2. Read(d)[c] = "absent"
      BY <2>1, <2>2, <2>4 DEF AfterWrite
    <3> QED
      BY <1>0, <3>1, <3>2
  <2>5. CASE outbox[d][i].op \in {"entry", "setID"}
    <3>1. Creating(d, c)
      BY <2>1, <2>5 DEF Creating, Creates
    <3>2. Read(d)[c] # "absent"
      BY <2>1, <2>2, <2>5 DEF AfterWrite
    <3>3. ~ Deleting(d, c)
      <4> SUFFICES ASSUME NEW j \in DOMAIN outbox[d], outbox[d][j] = [op |-> "deleteEntry", chat |-> c]
                   PROVE  FALSE
        BY DEF Deleting
      <4>1. i < j
        BY <2>1, <2>5 DEF WriteOrder, Creates
      <4>2. j \in EntryWrites(d, c)
        BY DEF EntryWrites
      <4> QED
        BY <2>1, <2>3, <4>1, <4>2
    <3> QED
      BY <1>0, <3>1, <3>2, <3>3
  <2> QED
    BY <2>1, <2>4, <2>5
<1> QED
  BY <1>1, <1>2

LEMMA VisibleIffNext ==
    ASSUME NEW d \in Device, NEW c \in Chat
    PROVE  TypeOK' /\ WriteOrder' =>
              (c \in Visible(d)' <=> ~ Deleting(d, c)' /\ (Creating(d, c)' \/ chats'[c] # "absent"))
<1>1. TypeOK /\ WriteOrder =>
         (c \in Visible(d) <=> ~ Deleting(d, c) /\ (Creating(d, c) \/ chats[c] # "absent"))
  BY VisibleIff
<1>2. (TypeOK /\ WriteOrder =>
         (c \in Visible(d) <=> ~ Deleting(d, c) /\ (Creating(d, c) \/ chats[c] # "absent")))'
  BY <1>1, PTL
<1> QED
  BY <1>2

LEMMA EndedIsUnseen ==
    ASSUME TypeOK, WriteOrder, NEW d \in Device, NEW c \in Chat, Ended(d, c)
    PROVE  c \notin Visible(d)
  BY VisibleIff DEF Ended

\* Who may still see a chat that is over for a device: nobody, in the end.
LEMMA EndedIsNotWhole ==
    ASSUME TypeOK, Collection, NEW d \in Device, NEW c \in Chat, Ended(d, c)
    PROVE  ~ Whole(c)
<1>1. CASE Deleting(d, c)
  <2>1. PICK i \in DOMAIN outbox[d] : outbox[d][i] = [op |-> "deleteEntry", chat |-> c]
    BY <1>1 DEF Deleting
  <2>3. outbox[d][i].op = "deleteEntry" /\ outbox[d][i].chat = c
    BY <2>1
  <2>2. i + 1 \in DOMAIN outbox[d] /\ outbox[d][i + 1] = [op |-> "deleteRoom", chat |-> c]
    BY <2>3 DEF Collection, WriteOrder
  <2> QED
    BY <2>2 DEF Whole, Pending
<1>2. CASE ~ Deleting(d, c)
  <2>1. nameOf[c] # "" /\ chats[c] = "absent" /\ \A e \in Device : ~ Creating(e, c)
    BY <1>2 DEF Ended
  <2>2. Pending("deleteRoom", c) \/ c \notin rooms
    BY <2>1 DEF Collection, RoomGoesToo
  <2>3. ~ Pending("room", c)
    <3> SUFFICES ASSUME NEW e \in Device, NEW i \in DOMAIN outbox[e],
                        outbox[e][i] = [op |-> "room", chat |-> c]
                 PROVE  FALSE
      BY DEF Pending
    <3>1. outbox[e][i].op = "room" /\ outbox[e][i].chat = c
      OBVIOUS
    <3> QED
      BY <2>1, <3>1 DEF Creating, Creates
  <2> QED
    BY <2>2, <2>3 DEF Whole
<1> QED
  BY <1>1, <1>2

\* A name that is in a list has a first entry.
LEMMA FirstNamedFacts ==
    ASSUME TypeOK, NEW d \in Device, NEW n, chatIsExist(d, n)
    PROVE  LET e == FirstNamed(chatInformationArray[d], n)
           IN  e \in InList(d) /\ e \in Entry /\ e.chat \in Chat /\ nameOf[e.chat] = n
<1> DEFINE list == chatInformationArray[d]
           S == {i \in DOMAIN list : nameOf[list[i].chat] = n}
<1>1. list \in Seq(Entry) /\ Len(list) \in Nat /\ DOMAIN list = 1..Len(list)
  BY LenProperties DEF TypeOK
<1>2. \A i \in DOMAIN list : list[i] \in Entry
  BY <1>1, ElementOfSeq
<1>3. S # {}
  BY DEF chatIsExist, NamesIn, NamesOf
<1>4. S \in SUBSET (1..Len(list))
  BY <1>1
<1>5. /\ IsFiniteSet(S) /\ Cardinality(S) \in Nat
      /\ \A k \in 1..Cardinality(S) : Nth(S, k) \in S
  <2> HIDE DEF S, list
  <2> QED
    BY <1>1, <1>4, NthIsThere
<1>6. 1 \in 1..Cardinality(S)
  <2> HIDE DEF S, list
  <2>1. Cardinality(S) # 0
    BY <1>3, <1>5, FS_EmptySet
  <2> QED
    BY <1>5, <2>1
<1>7. Nth(S, 1) \in S
  BY <1>5, <1>6
<1>8. FirstNamed(list, n) = list[Nth(S, 1)]
  BY DEF FirstNamed
<1> QED
  BY <1>2, <1>7, <1>8 DEF InList, Entry

\* What Commit does to the outboxes.
LEMMA CommitOutbox ==
    ASSUME TypeOK, NEW d \in Device, Commit(d)
    PROVE  LET s(x) == IF x = d THEN 1 ELSE 0
           IN  /\ 1 \in DOMAIN outbox[d] /\ Head(outbox[d]) = outbox[d][1]
               /\ outbox' \in [Device -> Seq(Write)]
               /\ \A x \in Device : \A i \in DOMAIN outbox'[x] :
                     i \in Int /\ i >= 1 /\ i + s(x) \in DOMAIN outbox[x] /\ outbox'[x][i] = outbox[x][i + s(x)]
               /\ \A x \in Device : \A i \in DOMAIN outbox[x] :
                     i \in Int /\ i >= 1 /\ ((x = d /\ i = 1) \/ i - s(x) \in DOMAIN outbox'[x])
<1>1. /\ outbox[d] \in Seq(Write) /\ outbox[d] # << >>
      /\ outbox' = [outbox EXCEPT ![d] = Tail(@)]
      /\ \A x \in Device : /\ outbox[x] \in Seq(Write) /\ Len(outbox[x]) \in Nat
                           /\ DOMAIN outbox[x] = 1..Len(outbox[x])
  BY OutboxFacts DEF Commit
<1>2. /\ Head(outbox[d]) = outbox[d][1] /\ Len(outbox[d]) # 0
      /\ Tail(outbox[d]) \in Seq(Write) /\ Len(Tail(outbox[d])) = Len(outbox[d]) - 1
      /\ \A i \in 1..Len(Tail(outbox[d])) : Tail(outbox[d])[i] = outbox[d][i + 1]
      /\ DOMAIN Tail(outbox[d]) = 1..(Len(outbox[d]) - 1)
  BY <1>1, HeadTailProperties, EmptySeq
<1>3. outbox'[d] = Tail(outbox[d]) /\ \A x \in Device : x # d => outbox'[x] = outbox[x]
  BY <1>1 DEF TypeOK
<1>4. outbox' \in [Device -> Seq(Write)]
  BY <1>1, <1>2, <1>3 DEF TypeOK
<1> QED
  BY <1>1, <1>2, <1>3, <1>4

\* What queueing writes does to the outboxes.
LEMMA QueueOutbox ==
    ASSUME TypeOK, NEW d \in Device, NEW ws \in Seq(Write), Queue(d, ws)
    PROVE  /\ outbox' \in [Device -> Seq(Write)]
           /\ \A x \in Device : DOMAIN outbox[x] = 1..Len(outbox[x]) /\ Len(outbox[x]) \in Nat
           /\ DOMAIN ws = 1..Len(ws) /\ Len(ws) \in Nat
           /\ DOMAIN outbox'[d] = 1..(Len(outbox[d]) + Len(ws))
           /\ \A x \in Device : \A i \in DOMAIN outbox[x] :
                 i \in Nat /\ i \in DOMAIN outbox'[x] /\ outbox'[x][i] = outbox[x][i]
           /\ \A k \in DOMAIN ws : /\ Len(outbox[d]) + k \in DOMAIN outbox'[d]
                                   /\ outbox'[d][Len(outbox[d]) + k] = ws[k]
           /\ \A x \in Device : \A i \in DOMAIN outbox'[x] :
                 \/ i \in DOMAIN outbox[x]
                 \/ /\ x = d /\ i \in Int /\ i > Len(outbox[d]) /\ i - Len(outbox[d]) \in DOMAIN ws
                    /\ outbox'[x][i] = ws[i - Len(outbox[d])]
<1>1. /\ outbox[d] \in Seq(Write) /\ ws \in Seq(Write)
      /\ outbox' = [outbox EXCEPT ![d] = @ \o ws]
      /\ \A x \in Device : /\ outbox[x] \in Seq(Write) /\ Len(outbox[x]) \in Nat
                           /\ DOMAIN outbox[x] = 1..Len(outbox[x])
  BY OutboxFacts DEF Queue
<1>2. /\ Len(ws) \in Nat /\ DOMAIN ws = 1..Len(ws) /\ outbox[d] \o ws \in Seq(Write)
      /\ Len(outbox[d] \o ws) = Len(outbox[d]) + Len(ws)
      /\ DOMAIN (outbox[d] \o ws) = 1..(Len(outbox[d]) + Len(ws))
      /\ \A i \in 1..(Len(outbox[d]) + Len(ws)) :
            (outbox[d] \o ws)[i] = IF i <= Len(outbox[d]) THEN outbox[d][i] ELSE ws[i - Len(outbox[d])]
  BY <1>1, LenProperties, ConcatProperties
<1>3. outbox'[d] = outbox[d] \o ws /\ \A x \in Device : x # d => outbox'[x] = outbox[x]
  BY <1>1 DEF TypeOK
<1>4. outbox' \in [Device -> Seq(Write)]
  BY <1>1, <1>2, <1>3 DEF TypeOK
<1>5. \A k \in DOMAIN ws : /\ Len(outbox[d]) + k \in DOMAIN outbox'[d]
                          /\ outbox'[d][Len(outbox[d]) + k] = ws[k]
  <2> SUFFICES ASSUME NEW k \in DOMAIN ws
               PROVE  /\ Len(outbox[d]) + k \in DOMAIN outbox'[d]
                      /\ outbox'[d][Len(outbox[d]) + k] = ws[k]
    OBVIOUS
  <2>1. /\ Len(outbox[d]) + k \in 1..(Len(outbox[d]) + Len(ws))
        /\ ~ (Len(outbox[d]) + k <= Len(outbox[d])) /\ Len(outbox[d]) + k - Len(outbox[d]) = k
    BY <1>1, <1>2
  <2> QED
    BY <1>2, <1>3, <2>1
<1>6. \A x \in Device : \A i \in DOMAIN outbox[x] :
         i \in Nat /\ i \in DOMAIN outbox'[x] /\ outbox'[x][i] = outbox[x][i]
  BY <1>1, <1>2, <1>3
<1> QED
  BY <1>1, <1>2, <1>3, <1>4, <1>5, <1>6

-----------------------------------------------------------------------------
(* The collection and the writes to it *)

\* WriteOrder of one write.
LEMMA OrderOfWrites ==
    ASSUME TypeOK, WriteOrder, NEW d \in Device, NEW c \in Chat
    PROVE  /\ \A i \in DOMAIN outbox[d] : i \in Nat /\ i >= 1
           /\ \A i \in DOMAIN outbox[d] : outbox[d][i].chat = c =>
                 outbox[d][i] = [op |-> outbox[d][i].op, chat |-> c]
           /\ \A i \in DOMAIN outbox[d] : outbox[d][i] = [op |-> "room", chat |-> c] =>
                 i + 1 \in DOMAIN outbox[d] /\ outbox[d][i + 1] = [op |-> "entry", chat |-> c]
           /\ \A i \in DOMAIN outbox[d] : outbox[d][i] = [op |-> "entry", chat |-> c] =>
                 i + 1 \in DOMAIN outbox[d] /\ outbox[d][i + 1] = [op |-> "setID", chat |-> c]
           /\ \A i \in DOMAIN outbox[d] : outbox[d][i] = [op |-> "deleteEntry", chat |-> c] =>
                 i + 1 \in DOMAIN outbox[d] /\ outbox[d][i + 1] = [op |-> "deleteRoom", chat |-> c]
           /\ \A i, j \in DOMAIN outbox[d], op \in Creates :
                 outbox[d][i] = [op |-> op, chat |-> c] =>
                    /\ outbox[d][j] = [op |-> op, chat |-> c] => j = i
                    /\ outbox[d][j] = [op |-> "deleteEntry", chat |-> c] => i < j
<1>1. \A i \in DOMAIN outbox[d] : /\ i \in Nat /\ i >= 1
                                  /\ outbox[d][i] = [op |-> outbox[d][i].op, chat |-> outbox[d][i].chat]
  <2>1. Len(outbox[d]) \in Nat /\ DOMAIN outbox[d] = 1..Len(outbox[d])
    BY OutboxFacts
  <2>2. \A i \in DOMAIN outbox[d] : i \in Nat /\ i >= 1
    BY <2>1
  <2>3. \A i \in DOMAIN outbox[d] :
           outbox[d][i] = [op |-> outbox[d][i].op, chat |-> outbox[d][i].chat]
    BY OutboxFacts
  <2> QED
    BY <2>2, <2>3
<1>2. ASSUME NEW i \in DOMAIN outbox[d], NEW op, outbox[d][i] = [op |-> op, chat |-> c]
      PROVE  outbox[d][i].op = op /\ outbox[d][i].chat = c
  BY <1>2
<1>3. ASSUME NEW i \in DOMAIN outbox[d]
      PROVE  /\ outbox[d][i].op = "room" =>
                  /\ i + 1 \in DOMAIN outbox[d]
                  /\ outbox[d][i + 1] = [op |-> "entry", chat |-> outbox[d][i].chat]
             /\ outbox[d][i].op = "entry" =>
                  /\ i + 1 \in DOMAIN outbox[d]
                  /\ outbox[d][i + 1] = [op |-> "setID", chat |-> outbox[d][i].chat]
             /\ outbox[d][i].op = "deleteEntry" =>
                  /\ i + 1 \in DOMAIN outbox[d]
                  /\ outbox[d][i + 1] = [op |-> "deleteRoom", chat |-> outbox[d][i].chat]
             /\ outbox[d][i].op \in Creates => \A j \in DOMAIN outbox[d] :
                  /\ outbox[d][j] = outbox[d][i] => j = i
                  /\ outbox[d][j] = [op |-> "deleteEntry", chat |-> outbox[d][i].chat] => i < j
  BY Zenon DEF WriteOrder
<1>4. \A i \in DOMAIN outbox[d] : outbox[d][i] = [op |-> "room", chat |-> c] =>
         i + 1 \in DOMAIN outbox[d] /\ outbox[d][i + 1] = [op |-> "entry", chat |-> c]
  BY <1>2, <1>3
<1>5. \A i \in DOMAIN outbox[d] : outbox[d][i] = [op |-> "entry", chat |-> c] =>
         i + 1 \in DOMAIN outbox[d] /\ outbox[d][i + 1] = [op |-> "setID", chat |-> c]
  BY <1>2, <1>3
<1>6. \A i \in DOMAIN outbox[d] : outbox[d][i] = [op |-> "deleteEntry", chat |-> c] =>
         i + 1 \in DOMAIN outbox[d] /\ outbox[d][i + 1] = [op |-> "deleteRoom", chat |-> c]
  BY <1>2, <1>3
<1>7. ASSUME NEW i \in DOMAIN outbox[d], NEW j \in DOMAIN outbox[d], NEW op \in Creates,
             outbox[d][i] = [op |-> op, chat |-> c]
      PROVE  /\ outbox[d][j] = [op |-> op, chat |-> c] => j = i
             /\ outbox[d][j] = [op |-> "deleteEntry", chat |-> c] => i < j
  <2>1. outbox[d][i].op \in Creates /\ outbox[d][i].chat = c
    BY <1>2, <1>7
  <2>2. /\ outbox[d][j] = outbox[d][i] => j = i
        /\ outbox[d][j] = [op |-> "deleteEntry", chat |-> outbox[d][i].chat] => i < j
    BY <1>3, <2>1
  <2> QED
    BY <1>7, <2>1, <2>2
<1> QED
  BY <1>1, <1>4, <1>5, <1>6, <1>7

\* The writes of addChat for one chat stand in one outbox, each followed by the
\* next: so the one that comes first says which are behind it.
LEMMA LastWriteOfChat ==
    ASSUME TypeOK, Collection, NEW d \in Device, 1 \in DOMAIN outbox[d]
    PROVE  LET w == outbox[d][1]
           IN  /\ w.chat \in Chat
               /\ w.op \in {"setID", "deleteEntry"} =>
                     \A i \in DOMAIN outbox[d] :
                        i # 1 => ~ (outbox[d][i].chat = w.chat /\ outbox[d][i].op \in Creates)
               /\ w.op \in {"entry", "setID", "deleteEntry"} =>
                     \A i \in DOMAIN outbox[d] : ~ (outbox[d][i].chat = w.chat /\ outbox[d][i].op = "room")
<1> DEFINE w == outbox[d][1]
           c == w.chat
<1>1. c \in Chat /\ w.op \in Creates \cup {"deleteEntry", "deleteRoom"}
  BY OutboxFacts
<1>2. WriteOrder
  BY DEF Collection
<1> HIDE DEF c
<1>3. /\ \A i \in DOMAIN outbox[d] : i \in Nat /\ i >= 1
      /\ \A i \in DOMAIN outbox[d] : outbox[d][i].chat = c =>
            outbox[d][i] = [op |-> outbox[d][i].op, chat |-> c]
      /\ \A i \in DOMAIN outbox[d] : outbox[d][i] = [op |-> "room", chat |-> c] =>
            i + 1 \in DOMAIN outbox[d] /\ outbox[d][i + 1] = [op |-> "entry", chat |-> c]
      /\ \A i \in DOMAIN outbox[d] : outbox[d][i] = [op |-> "entry", chat |-> c] =>
            i + 1 \in DOMAIN outbox[d] /\ outbox[d][i + 1] = [op |-> "setID", chat |-> c]
      /\ \A i, j \in DOMAIN outbox[d], op \in Creates :
            outbox[d][i] = [op |-> op, chat |-> c] =>
               /\ outbox[d][j] = [op |-> op, chat |-> c] => j = i
               /\ outbox[d][j] = [op |-> "deleteEntry", chat |-> c] => i < j
  BY <1>1, <1>2, OrderOfWrites
<1>4. w = [op |-> w.op, chat |-> c]
  BY <1>3 DEF c
<1> HIDE DEF w
<1>5. w = outbox[d][1]
  BY DEF w
<1>6. ASSUME w.op = "deleteEntry", NEW i \in DOMAIN outbox[d], NEW op \in Creates,
             outbox[d][i] = [op |-> op, chat |-> c]
      PROVE  FALSE
  <2>1. i < 1
    BY <1>3, <1>4, <1>5, <1>6
  <2> QED
    BY <1>3, <2>1
<1>7. ASSUME w.op = "setID", NEW i \in DOMAIN outbox[d], i # 1, NEW op \in Creates,
             outbox[d][i] = [op |-> op, chat |-> c]
      PROVE  FALSE
  <2>0. /\ outbox[d][1] = [op |-> "setID", chat |-> c] /\ i \in Nat /\ i > 1
        /\ "setID" \in Creates
    BY <1>3, <1>4, <1>5, <1>7 DEF Creates
  <2>1. \A j \in DOMAIN outbox[d] : outbox[d][j] = [op |-> "setID", chat |-> c] => j = 1
    BY <1>3, <2>0
  <2>2. \A j \in DOMAIN outbox[d] : outbox[d][j] = [op |-> "entry", chat |-> c] => j + 1 = 1
    BY <1>3, <2>1
  <2>3. \A j \in DOMAIN outbox[d] : outbox[d][j] # [op |-> "entry", chat |-> c]
    BY <1>3, <2>2
  <2>4. \A j \in DOMAIN outbox[d] : outbox[d][j] # [op |-> "room", chat |-> c]
    BY <1>3, <2>3
  <2> QED
    BY <1>7, <2>0, <2>1, <2>3, <2>4 DEF Creates
<1>8. ASSUME w.op \in {"entry", "setID", "deleteEntry"}, NEW i \in DOMAIN outbox[d],
             outbox[d][i] = [op |-> "room", chat |-> c]
      PROVE  FALSE
  <2>0. i \in Nat /\ i >= 1 /\ w = [op |-> w.op, chat |-> c] /\ {"room", "entry"} \subseteq Creates
    BY <1>3, <1>4 DEF Creates
  <2>1. CASE w.op = "entry"
    <3>1. i + 1 \in DOMAIN outbox[d] /\ outbox[d][i + 1] = [op |-> "entry", chat |-> c]
      BY <1>3, <1>8
    <3>2. outbox[d][1] = [op |-> "entry", chat |-> c]
      BY <1>4, <1>5, <2>1
    <3>3. i + 1 = 1
      BY <1>3, <2>0, <3>1, <3>2
    <3> QED
      BY <2>0, <3>3
  <2>2. CASE w.op = "setID"
    <3>1. i # 1
      BY <1>4, <1>5, <1>8, <2>2
    <3> QED
      BY <1>7, <1>8, <2>0, <2>2, <3>1
  <2>3. CASE w.op = "deleteEntry"
    BY <1>6, <1>8, <2>0, <2>3
  <2> QED
    BY <1>8, <2>1, <2>2, <2>3
<1>9. w.op \in {"setID", "deleteEntry"} =>
         \A i \in DOMAIN outbox[d] : i # 1 => ~ (outbox[d][i].chat = c /\ outbox[d][i].op \in Creates)
  BY <1>3, <1>6, <1>7
<1>10. w.op \in {"entry", "setID", "deleteEntry"} =>
         \A i \in DOMAIN outbox[d] : ~ (outbox[d][i].chat = c /\ outbox[d][i].op = "room")
  BY <1>3, <1>8
<1> QED
  BY <1>1, <1>5, <1>9, <1>10 DEF c

\* What the service takes is gone from the outbox; the rest is as it was.
LEMMA CommitEffect ==
    ASSUME TypeOK, Collection, NEW d \in Device, Commit(d)
    PROVE  LET w == outbox[d][1]
           IN  /\ w \in Write /\ w.chat \in Chat /\ w.op \in Creates \cup {"deleteEntry", "deleteRoom"}
               /\ 1 \in DOMAIN outbox[d]
               /\ \A x \in Device, c \in Chat :
                     /\ Creating(x, c)' => Creating(x, c)
                     /\ Deleting(x, c)' => Deleting(x, c)
                     /\ Creating(x, c) => Creating(x, c)' \/ (x = d /\ c = w.chat /\ w.op \in Creates)
                     /\ Deleting(x, c) => Deleting(x, c)' \/ (x = d /\ c = w.chat /\ w.op = "deleteEntry")
               /\ \A c \in Chat, op \in {"room", "deleteRoom"} :
                     /\ Pending(op, c)' => Pending(op, c)
                     /\ Pending(op, c) => Pending(op, c)' \/ (c = w.chat /\ w.op = op)
<1> DEFINE w == outbox[d][1]
           s(y) == IF y = d THEN 1 ELSE 0
<1>1. /\ 1 \in DOMAIN outbox[d]
      /\ \A x \in Device : \A i \in DOMAIN outbox'[x] :
            i + s(x) \in DOMAIN outbox[x] /\ outbox'[x][i] = outbox[x][i + s(x)]
      /\ \A x \in Device : \A i \in DOMAIN outbox[x] :
            i \in Int /\ ((x = d /\ i = 1) \/ i - s(x) \in DOMAIN outbox'[x])
  BY CommitOutbox
<1>2. \A x \in Device : \A i \in DOMAIN outbox[x] :
         \/ x = d /\ i = 1
         \/ i - s(x) \in DOMAIN outbox'[x] /\ outbox'[x][i - s(x)] = outbox[x][i]
  BY <1>1
<1>3. /\ w \in Write /\ w.chat \in Chat /\ w.op \in Creates \cup {"deleteEntry", "deleteRoom"}
      /\ w = [op |-> w.op, chat |-> w.chat]
  BY <1>1, OutboxFacts
<1> HIDE DEF s
<1>4. ASSUME NEW x \in Device, NEW c \in Chat
      PROVE  /\ Creating(x, c)' => Creating(x, c)
             /\ Deleting(x, c)' => Deleting(x, c)
  <2>1. Creating(x, c)' => Creating(x, c)
    BY <1>1 DEF Creating
  <2>2. Deleting(x, c)' => Deleting(x, c)
    BY <1>1 DEF Deleting
  <2> QED
    BY <2>1, <2>2
<1>5. ASSUME NEW x \in Device, NEW c \in Chat, Creating(x, c)
      PROVE  Creating(x, c)' \/ (x = d /\ c = w.chat /\ w.op \in Creates)
  <2>1. PICK i \in DOMAIN outbox[x] : outbox[x][i].chat = c /\ outbox[x][i].op \in Creates
    BY <1>5 DEF Creating
  <2>2. CASE x = d /\ i = 1
    BY <2>1, <2>2
  <2>3. CASE i - s(x) \in DOMAIN outbox'[x] /\ outbox'[x][i - s(x)] = outbox[x][i]
    BY <2>1, <2>3 DEF Creating
  <2> QED
    BY <1>2, <2>2, <2>3
<1>6. ASSUME NEW x \in Device, NEW c \in Chat, Deleting(x, c)
      PROVE  Deleting(x, c)' \/ (x = d /\ c = w.chat /\ w.op = "deleteEntry")
  <2>1. PICK i \in DOMAIN outbox[x] : outbox[x][i] = [op |-> "deleteEntry", chat |-> c]
    BY <1>6 DEF Deleting
  <2>2. CASE x = d /\ i = 1
    BY <2>1, <2>2
  <2>3. CASE i - s(x) \in DOMAIN outbox'[x] /\ outbox'[x][i - s(x)] = outbox[x][i]
    BY <2>1, <2>3 DEF Deleting
  <2> QED
    BY <1>2, <2>2, <2>3
<1>7. ASSUME NEW c \in Chat, NEW op \in {"room", "deleteRoom"}
      PROVE  /\ Pending(op, c)' => Pending(op, c)
             /\ Pending(op, c) => Pending(op, c)' \/ (c = w.chat /\ w.op = op)
  <2>1. Pending(op, c)' => Pending(op, c)
    BY <1>1 DEF Pending
  <2>2. ASSUME Pending(op, c)
        PROVE  Pending(op, c)' \/ (c = w.chat /\ w.op = op)
    <3>0. PICK x \in Device : \E i \in DOMAIN outbox[x] : outbox[x][i] = [op |-> op, chat |-> c]
      BY <2>2 DEF Pending
    <3>1. PICK i \in DOMAIN outbox[x] : outbox[x][i] = [op |-> op, chat |-> c]
      BY <3>0
    <3>2. CASE x = d /\ i = 1
      BY <3>1, <3>2
    <3>3. CASE i - s(x) \in DOMAIN outbox'[x] /\ outbox'[x][i - s(x)] = outbox[x][i]
      <4>1. outbox'[x][i - s(x)] = [op |-> op, chat |-> c]
        BY <3>1, <3>3
      <4> QED
        BY <3>3, <4>1 DEF Pending
    <3> QED
      BY <1>2, <3>2, <3>3
  <2> QED
    BY <2>1, <2>2
<1> HIDE DEF w
<1>8. w = outbox[d][1]
  BY DEF w
<1> QED
  BY <1>1, <1>3, <1>4, <1>5, <1>6, <1>7, <1>8

\* What a write does to its chat, and what is still to come for it.
LEMMA CommitOfChat ==
    ASSUME TypeOK, Collection, NEW d \in Device, Commit(d), NEW c \in Chat
    PROVE  LET w == outbox[d][1]
           IN  /\ c # w.chat => chats'[c] = chats[c] /\ (c \in rooms' <=> c \in rooms)
               /\ c = w.chat =>
                    /\ w.op = "entry" => chats'[c] = "placeholder"
                    /\ w.op = "setID" => chats'[c] = "id"
                    /\ w.op = "deleteEntry" => chats'[c] = "absent"
                    /\ w.op \in {"room", "deleteRoom"} => chats'[c] = chats[c]
                    /\ w.op = "room" => c \in rooms'
                    /\ w.op = "deleteRoom" => c \notin rooms'
                    /\ w.op \notin {"room", "deleteRoom"} => (c \in rooms' <=> c \in rooms)
                    /\ w.op \in {"setID", "deleteEntry"} => \A x \in Device : ~ Creating(x, c)'
                    /\ w.op = "deleteEntry" => \A x \in Device : ~ Creating(x, c)
                    /\ w.op \in {"room", "entry"} => Creating(d, c)'
                    /\ w.op = "deleteEntry" => Pending("deleteRoom", c)'
<1> DEFINE w == outbox[d][1]
           s(y) == IF y = d THEN 1 ELSE 0
<1>1. /\ 1 \in DOMAIN outbox[d] /\ Head(outbox[d]) = w
      /\ \A x \in Device : \A i \in DOMAIN outbox'[x] :
            i \in Int /\ i >= 1 /\ i + s(x) \in DOMAIN outbox[x] /\ outbox'[x][i] = outbox[x][i + s(x)]
      /\ \A x \in Device : \A i \in DOMAIN outbox[x] :
            i \in Int /\ ((x = d /\ i = 1) \/ i - s(x) \in DOMAIN outbox'[x])
  BY CommitOutbox
<1>2. /\ w \in Write /\ w.chat \in Chat /\ w.op \in Creates \cup {"deleteEntry", "deleteRoom"}
      /\ w = [op |-> w.op, chat |-> w.chat]
  BY <1>1, OutboxFacts
<1>3. /\ chats' = [chats EXCEPT ![w.chat] = AfterWrite(w, w.chat, @)]
      /\ rooms' = CASE w.op = "room" -> rooms \cup {w.chat}
                    [] w.op = "deleteRoom" -> rooms \ {w.chat}
                    [] OTHER -> rooms
  BY <1>1 DEF Commit
<1>4. c # w.chat => chats'[c] = chats[c] /\ (c \in rooms' <=> c \in rooms)
  <2> HIDE DEF w
  <2>1. c # w.chat => chats'[c] = chats[c]
    BY <1>3 DEF TypeOK
  <2>2. c # w.chat => (c \in rooms' <=> c \in rooms)
    BY <1>3
  <2> QED
    BY <2>1, <2>2
<1>5. ASSUME c = w.chat
      PROVE  /\ chats'[c] = AfterWrite(w, c, chats[c])
             /\ w.op = "room" => c \in rooms'
             /\ w.op = "deleteRoom" => c \notin rooms'
             /\ w.op \notin {"room", "deleteRoom"} => (c \in rooms' <=> c \in rooms)
  <2> HIDE DEF w
  <2>1. chats'[c] = AfterWrite(w, c, chats[c])
    BY <1>2, <1>3, <1>5 DEF TypeOK
  <2>2. /\ w.op = "room" => c \in rooms'
        /\ w.op = "deleteRoom" => c \notin rooms'
        /\ w.op \notin {"room", "deleteRoom"} => (c \in rooms' <=> c \in rooms)
    BY <1>3, <1>5
  <2> QED
    BY <2>1, <2>2
<1>6. ASSUME c = w.chat
      PROVE  /\ w.op = "entry" => chats'[c] = "placeholder"
             /\ w.op = "setID" => chats'[c] = "id"
             /\ w.op = "deleteEntry" => chats'[c] = "absent"
             /\ w.op \in {"room", "deleteRoom"} => chats'[c] = chats[c]
  <2> HIDE DEF w
  <2> QED
    BY <1>5, <1>6 DEF AfterWrite
<1>7. c = w.chat /\ w.op \in {"setID", "deleteEntry"} =>
         \A i \in DOMAIN outbox[d] : i # 1 => ~ (outbox[d][i].chat = c /\ outbox[d][i].op \in Creates)
  BY <1>1, LastWriteOfChat
<1>8. ASSUME c = w.chat, w.op \in {"setID", "deleteEntry"}
      PROVE  \A x \in Device : ~ Creating(x, c)'
  <2> SUFFICES ASSUME NEW x \in Device, NEW i \in DOMAIN outbox'[x],
                      outbox'[x][i].chat = c, outbox'[x][i].op \in Creates
               PROVE  FALSE
    BY DEF Creating
  <2>1. /\ i + s(x) \in DOMAIN outbox[x] /\ i \in Int /\ i >= 1
        /\ outbox[x][i + s(x)].chat = c /\ outbox[x][i + s(x)].op \in Creates
    BY <1>1
  <2>2. CASE x = d
    <3>1. i + s(x) # 1
      BY <2>1, <2>2
    <3> HIDE DEF s, w
    <3> QED
      BY <1>7, <1>8, <2>1, <2>2, <3>1
  <2>3. CASE x # d
    <3> HIDE DEF s
    <3>1. Creating(x, c)
      BY <2>1 DEF Creating
    <3>2. w.op = "setID" => Creating(d, c)
      BY <1>1, <1>8 DEF Creating, Creates
    <3>3. w.op = "deleteEntry" => Deleting(d, c)
      BY <1>1, <1>2, <1>8 DEF Deleting
    <3> HIDE DEF w
    <3> QED
      BY <1>8, <2>3, <3>1, <3>2, <3>3 DEF Collection, OneCreator
  <2> QED
    BY <2>2, <2>3
<1>9. ASSUME c = w.chat, w.op = "deleteEntry"
      PROVE  \A x \in Device : ~ Creating(x, c)
  <2>1. \A x \in Device : Creating(x, c) => Creating(x, c)' \/ (x = d /\ c = w.chat /\ w.op \in Creates)
    BY CommitEffect
  <2>2. w.op \notin Creates
    BY <1>9 DEF Creates
  <2> HIDE DEF w
  <2> QED
    BY <1>8, <1>9, <2>1, <2>2
<1>10. /\ c = w.chat /\ w.op = "room" =>
            1 + 1 \in DOMAIN outbox[d] /\ outbox[d][1 + 1] = [op |-> "entry", chat |-> c]
       /\ c = w.chat /\ w.op = "entry" =>
            1 + 1 \in DOMAIN outbox[d] /\ outbox[d][1 + 1] = [op |-> "setID", chat |-> c]
       /\ c = w.chat /\ w.op = "deleteEntry" =>
            1 + 1 \in DOMAIN outbox[d] /\ outbox[d][1 + 1] = [op |-> "deleteRoom", chat |-> c]
  <2>1. WriteOrder
    BY DEF Collection
  <2>2. /\ \A i \in DOMAIN outbox[d] : outbox[d][i] = [op |-> "room", chat |-> c] =>
              i + 1 \in DOMAIN outbox[d] /\ outbox[d][i + 1] = [op |-> "entry", chat |-> c]
        /\ \A i \in DOMAIN outbox[d] : outbox[d][i] = [op |-> "entry", chat |-> c] =>
              i + 1 \in DOMAIN outbox[d] /\ outbox[d][i + 1] = [op |-> "setID", chat |-> c]
        /\ \A i \in DOMAIN outbox[d] : outbox[d][i] = [op |-> "deleteEntry", chat |-> c] =>
              i + 1 \in DOMAIN outbox[d] /\ outbox[d][i + 1] = [op |-> "deleteRoom", chat |-> c]
    BY <2>1, OrderOfWrites
  <2>3. \A o : c = w.chat /\ w.op = o => outbox[d][1] = [op |-> o, chat |-> c]
    BY <1>2
  <2> HIDE DEF w
  <2> QED
    BY <1>1, <2>2, <2>3
<1>11. 1 + 1 \in DOMAIN outbox[d] => 1 \in DOMAIN outbox'[d] /\ outbox'[d][1] = outbox[d][1 + 1]
  <2>1. 1 + 1 \in DOMAIN outbox[d] => 1 + 1 - s(d) \in DOMAIN outbox'[d]
    BY <1>1
  <2>2. s(d) = 1
    OBVIOUS
  <2>3. 1 \in DOMAIN outbox'[d] => outbox'[d][1] = outbox[d][1 + 1]
    BY <1>1, <2>2
  <2> HIDE DEF s
  <2> QED
    BY <2>1, <2>2, <2>3
<1>12. ASSUME c = w.chat, w.op \in {"room", "entry"}
       PROVE  Creating(d, c)'
  <2>1. /\ 1 \in DOMAIN outbox'[d] /\ outbox'[d][1].chat = c
        /\ outbox'[d][1].op \in {"entry", "setID"}
    BY <1>10, <1>11, <1>12
  <2> QED
    BY <2>1 DEF Creating, Creates
<1>13. ASSUME c = w.chat, w.op = "deleteEntry"
       PROVE  Pending("deleteRoom", c)'
  <2>1. 1 \in DOMAIN outbox'[d] /\ outbox'[d][1] = [op |-> "deleteRoom", chat |-> c]
    BY <1>10, <1>11, <1>13
  <2> QED
    BY <2>1 DEF Pending
<1> HIDE DEF w
<1>14. w = outbox[d][1]
  BY DEF w
<1> QED
  BY <1>4, <1>5, <1>6, <1>8, <1>9, <1>12, <1>13, <1>14

\* How the collection moves on under a device, whoever writes.
Onward(x) ==
    /\ \A c \in Chat : nameOf[c] # "" => nameOf'[c] = nameOf[c]
    /\ \A c \in Chat : Ended(x, c) => Ended(x, c)'
    /\ \A c \in Chat : nameOf[c] # "" /\ c \in Visible(x) => c \in Visible(x)' \/ Ended(x, c)'
    /\ \A c \in Chat : nameOf[c] # "" /\ Whole(c)' => Whole(c)
    /\ \A c \in Chat, y \in Device : nameOf[c] # "" /\ Creating(y, c)' => Creating(y, c)
    /\ \A c \in Chat : nameOf[c] # "" /\ Pending("room", c)' => Pending("room", c)

LEMMA CommitTyped ==
    ASSUME TypeOK, Collection, NEW d \in Device, Commit(d)
    PROVE  TypeOK'
<1> DEFINE w == outbox[d][1]
<1>1. outbox' \in [Device -> Seq(Write)] /\ Head(outbox[d]) = w
  BY CommitOutbox
<1>2. w.chat \in Chat
  BY CommitEffect
<1>3. chats' = [chats EXCEPT ![w.chat] = AfterWrite(w, w.chat, @)]
  BY <1>1 DEF Commit
<1>4. AfterWrite(w, w.chat, chats[w.chat]) \in Id \cup {"absent"}
  BY <1>2 DEF AfterWrite, TypeOK, Id
<1>5. chats' \in [Chat -> Id \cup {"absent"}]
  <2> HIDE DEF w
  <2> QED
    BY <1>2, <1>3, <1>4 DEF TypeOK
<1>6. rooms' \in SUBSET Chat
  <2>1. rooms' \in {rooms \cup {w.chat}, rooms \ {w.chat}, rooms}
    BY <1>1 DEF Commit
  <2> HIDE DEF w
  <2> QED
    BY <1>2, <2>1 DEF TypeOK
<1>7. UNCHANGED <<nameOf, view, loads, failed, mainQueue, observers, chatInformationArray, pins>>
  BY DEF Commit, app
<1> QED
  BY <1>1, <1>5, <1>6, <1>7 DEF TypeOK

LEMMA CommitKeepsCollection ==
    ASSUME TypeOK, Collection, NEW d \in Device, Commit(d)
    PROVE  Collection'
<1> DEFINE w == outbox[d][1]
           s(y) == IF y = d THEN 1 ELSE 0
<1>1. /\ 1 \in DOMAIN outbox[d]
      /\ \A x \in Device : \A i \in DOMAIN outbox'[x] :
            i \in Int /\ i >= 1 /\ i + s(x) \in DOMAIN outbox[x] /\ outbox'[x][i] = outbox[x][i + s(x)]
      /\ \A x \in Device : \A i \in DOMAIN outbox[x] :
            i \in Int /\ i >= 1 /\ ((x = d /\ i = 1) \/ i - s(x) \in DOMAIN outbox'[x])
  BY CommitOutbox
<1>2. /\ w.chat \in Chat /\ w.op \in Creates \cup {"deleteEntry", "deleteRoom"}
      /\ \A x \in Device, c \in Chat :
            /\ Creating(x, c)' => Creating(x, c)
            /\ Deleting(x, c)' => Deleting(x, c)
            /\ Creating(x, c) => Creating(x, c)' \/ (x = d /\ c = w.chat /\ w.op \in Creates)
            /\ Deleting(x, c) => Deleting(x, c)' \/ (x = d /\ c = w.chat /\ w.op = "deleteEntry")
      /\ \A c \in Chat, op \in {"room", "deleteRoom"} :
            /\ Pending(op, c)' => Pending(op, c)
            /\ Pending(op, c) => Pending(op, c)' \/ (c = w.chat /\ w.op = op)
  BY CommitEffect
<1>3. \A c \in Chat :
         /\ c # w.chat => chats'[c] = chats[c] /\ (c \in rooms' <=> c \in rooms)
         /\ c = w.chat =>
              /\ w.op = "entry" => chats'[c] = "placeholder"
              /\ w.op = "setID" => chats'[c] = "id"
              /\ w.op = "deleteEntry" => chats'[c] = "absent"
              /\ w.op \in {"room", "deleteRoom"} => chats'[c] = chats[c]
              /\ w.op = "room" => c \in rooms'
              /\ w.op = "deleteRoom" => c \notin rooms'
              /\ w.op \notin {"room", "deleteRoom"} => (c \in rooms' <=> c \in rooms)
              /\ w.op \in {"setID", "deleteEntry"} => \A x \in Device : ~ Creating(x, c)'
              /\ w.op = "deleteEntry" => \A x \in Device : ~ Creating(x, c)
              /\ w.op \in {"room", "entry"} => Creating(d, c)'
              /\ w.op = "deleteEntry" => Pending("deleteRoom", c)'
  BY CommitOfChat
<1>4. nameOf' = nameOf
  BY DEF Commit
<1>5. \A x \in Device : \A i \in DOMAIN outbox[x] : outbox[x][i].chat \in Chat
  BY OutboxFacts
<1>6. TypeOK'
  BY CommitTyped
<1>7. /\ w.chat \in Chat
      /\ w.op \in {"entry", "setID", "deleteEntry"} =>
            \A i \in DOMAIN outbox[d] : ~ (outbox[d][i].chat = w.chat /\ outbox[d][i].op = "room")
  BY <1>1, LastWriteOfChat
<1>8. w.op = "entry" => Creating(d, w.chat)
  BY <1>1 DEF Creating, Creates
<1>9. w.op \in Creates => Creating(d, w.chat)
  BY <1>1 DEF Creating, Creates
<1> HIDE DEF w
<1>10. Named'
  <2> SUFFICES ASSUME NEW c \in Chat, nameOf[c] = ""
               PROVE  /\ chats'[c] = "absent" /\ c \notin rooms'
                      /\ \A x \in Device : \A i \in DOMAIN outbox'[x] : outbox'[x][i].chat # c
    BY <1>4 DEF Named
  <2>1. /\ chats[c] = "absent" /\ c \notin rooms
        /\ \A x \in Device : \A i \in DOMAIN outbox[x] : outbox[x][i].chat # c
    BY DEF Collection, Named
  <2>2. c # w.chat
    <3>1. 1 \in DOMAIN outbox[d]
      BY <1>1
    <3>2. outbox[d][1].chat # c
      BY <2>1, <3>1
    <3> QED
      BY <3>2 DEF w
  <2> HIDE DEF s
  <2>3. \A x \in Device : \A i \in DOMAIN outbox'[x] : outbox'[x][i].chat # c
    BY <1>1, <2>1
  <2> QED
    BY <1>3, <2>1, <2>2, <2>3
<1>11. WriteOrder'
  <2> SUFFICES ASSUME NEW x \in Device, NEW i \in DOMAIN outbox'[x]
               PROVE  /\ outbox'[x][i].op = "room" =>
                           /\ i + 1 \in DOMAIN outbox'[x]
                           /\ outbox'[x][i + 1] = [op |-> "entry", chat |-> outbox'[x][i].chat]
                      /\ outbox'[x][i].op = "entry" =>
                           /\ i + 1 \in DOMAIN outbox'[x]
                           /\ outbox'[x][i + 1] = [op |-> "setID", chat |-> outbox'[x][i].chat]
                      /\ outbox'[x][i].op = "deleteEntry" =>
                           /\ i + 1 \in DOMAIN outbox'[x]
                           /\ outbox'[x][i + 1] = [op |-> "deleteRoom", chat |-> outbox'[x][i].chat]
                      /\ outbox'[x][i].op \in Creates => \A j \in DOMAIN outbox'[x] :
                           /\ outbox'[x][j] = outbox'[x][i] => j = i
                           /\ outbox'[x][j] = [op |-> "deleteEntry", chat |-> outbox'[x][i].chat] => i < j
    BY DEF WriteOrder
  <2> DEFINE k == i + s(x)
             c == outbox'[x][i].chat
             o == outbox'[x][i].op
  <2>1. /\ k \in DOMAIN outbox[x] /\ outbox[x][k] = outbox'[x][i] /\ i \in Int /\ i >= 1
        /\ k \in Int /\ k >= 1 /\ s(x) \in {0, 1} /\ (x = d => s(x) = 1)
    BY <1>1
  <2>2. c \in Chat
    BY <1>5, <2>1
  <2>3. \A j \in DOMAIN outbox'[x] : j \in Int /\ j + s(x) \in DOMAIN outbox[x] /\ outbox'[x][j] = outbox[x][j + s(x)]
    BY <1>1
  <2>4. k + 1 \in DOMAIN outbox[x] => i + 1 \in DOMAIN outbox'[x]
    <3>1. k + 1 \in DOMAIN outbox[x] => (x = d /\ k + 1 = 1) \/ k + 1 - s(x) \in DOMAIN outbox'[x]
      BY <1>1
    <3>2. k + 1 - s(x) = i + 1 /\ k + 1 # 1
      BY <2>1
    <3> HIDE DEF k, s
    <3> QED
      BY <3>1, <3>2
  <2>5. i + 1 \in DOMAIN outbox'[x] => outbox'[x][i + 1] = outbox[x][k + 1]
    <3>1. i + 1 + s(x) = k + 1
      BY <2>1
    <3> QED
      BY <2>3, <3>1
  <2>6. /\ \A j \in DOMAIN outbox[x] : outbox[x][j].chat = c => outbox[x][j] = [op |-> outbox[x][j].op, chat |-> c]
        /\ \A j \in DOMAIN outbox[x] : outbox[x][j] = [op |-> "room", chat |-> c] =>
              j + 1 \in DOMAIN outbox[x] /\ outbox[x][j + 1] = [op |-> "entry", chat |-> c]
        /\ \A j \in DOMAIN outbox[x] : outbox[x][j] = [op |-> "entry", chat |-> c] =>
              j + 1 \in DOMAIN outbox[x] /\ outbox[x][j + 1] = [op |-> "setID", chat |-> c]
        /\ \A j \in DOMAIN outbox[x] : outbox[x][j] = [op |-> "deleteEntry", chat |-> c] =>
              j + 1 \in DOMAIN outbox[x] /\ outbox[x][j + 1] = [op |-> "deleteRoom", chat |-> c]
        /\ \A h, j \in DOMAIN outbox[x], op \in Creates :
              outbox[x][h] = [op |-> op, chat |-> c] =>
                 /\ outbox[x][j] = [op |-> op, chat |-> c] => j = h
                 /\ outbox[x][j] = [op |-> "deleteEntry", chat |-> c] => h < j
    <3>1. WriteOrder
      BY DEF Collection
    <3> HIDE DEF c
    <3> QED
      BY <2>2, <3>1, OrderOfWrites
  <2>7. outbox[x][k] = [op |-> o, chat |-> c]
    BY <2>1, <2>6
  <2> HIDE DEF k, c, o
  <2>8. /\ o = "room" => i + 1 \in DOMAIN outbox'[x] /\ outbox'[x][i + 1] = [op |-> "entry", chat |-> c]
        /\ o = "entry" => i + 1 \in DOMAIN outbox'[x] /\ outbox'[x][i + 1] = [op |-> "setID", chat |-> c]
        /\ o = "deleteEntry" =>
              i + 1 \in DOMAIN outbox'[x] /\ outbox'[x][i + 1] = [op |-> "deleteRoom", chat |-> c]
    BY <2>1, <2>4, <2>5, <2>6, <2>7
  <2>9. ASSUME o \in Creates, NEW j \in DOMAIN outbox'[x]
        PROVE  /\ outbox'[x][j] = outbox'[x][i] => j = i
               /\ outbox'[x][j] = [op |-> "deleteEntry", chat |-> c] => i < j
    <3>1. /\ j \in Int /\ j + s(x) \in DOMAIN outbox[x] /\ outbox'[x][j] = outbox[x][j + s(x)]
      BY <2>3
    <3>2. /\ outbox[x][j + s(x)] = outbox[x][k] => j + s(x) = k
          /\ outbox[x][j + s(x)] = [op |-> "deleteEntry", chat |-> c] => k < j + s(x)
      <4> HIDE DEF s
      <4> QED
        BY <2>1, <2>6, <2>7, <2>9, <3>1
    <3> QED
      BY <2>1, <3>1, <3>2 DEF k
  <2> QED
    BY <2>8, <2>9 DEF c, o
<1> HIDE DEF s
<1>12. OneCreator'
  BY <1>2 DEF Collection, OneCreator
<1>13. IdIsLast'
  <2> SUFFICES ASSUME NEW c \in Chat, chats'[c] = "id", NEW x \in Device, Creating(x, c)'
               PROVE  FALSE
    BY DEF IdIsLast
  <2>1. chats[c] = "id" => ~ Creating(x, c)
    BY DEF Collection, IdIsLast
  <2>2. chats[c] # "id" /\ c = w.chat
    BY <1>2, <1>3, <2>1
  <2>3. w.op = "setID"
    BY <1>2, <1>3, <2>2 DEF Creates
  <2> QED
    BY <1>3, <2>2, <2>3
<1>14. RoomGoesToo'
  <2> SUFFICES ASSUME NEW c \in Chat, nameOf[c] # "", chats'[c] = "absent",
                      \A x \in Device : ~ Creating(x, c)'
               PROVE  Pending("deleteRoom", c)' \/ c \notin rooms'
    BY <1>4 DEF RoomGoesToo
  <2>1. CASE c # w.chat
    BY <1>2, <1>3, <2>1 DEF Collection, RoomGoesToo
  <2>2. CASE c = w.chat
    <3>1. w.op \in {"deleteEntry", "deleteRoom"}
      BY <1>2, <1>3, <2>2 DEF Creates
    <3> QED
      BY <1>3, <2>2, <3>1
  <2> QED
    BY <2>1, <2>2
<1>15. RoomIsFirst'
  <2> SUFFICES ASSUME NEW c \in Chat, NEW x \in Device, NEW i \in DOMAIN outbox'[x],
                      outbox'[x][i] = [op |-> "room", chat |-> c]
               PROVE  /\ chats'[c] = "absent"
                      /\ \A e \in Device : \A j \in DOMAIN outbox'[e] :
                            outbox'[e][j] = [op |-> "deleteRoom", chat |-> c] => e = x /\ i < j
    BY DEF RoomIsFirst
  <2>1. /\ i \in Int /\ i + s(x) \in DOMAIN outbox[x]
        /\ outbox[x][i + s(x)] = [op |-> "room", chat |-> c]
    BY <1>1
  <2>2. /\ chats[c] = "absent"
        /\ \A e \in Device : \A j \in DOMAIN outbox[e] :
              outbox[e][j] = [op |-> "deleteRoom", chat |-> c] => e = x /\ i + s(x) < j
    BY <2>1 DEF Collection, RoomIsFirst
  <2>3. ASSUME NEW e \in Device, NEW j \in DOMAIN outbox'[e],
               outbox'[e][j] = [op |-> "deleteRoom", chat |-> c]
        PROVE  e = x /\ i < j
    <3>1. /\ j \in Int /\ j + s(e) \in DOMAIN outbox[e]
          /\ outbox[e][j + s(e)] = [op |-> "deleteRoom", chat |-> c]
      BY <1>1, <2>3
    <3>2. e = x /\ i + s(x) < j + s(e)
      BY <2>2, <3>1
    <3>3. s(x) \in {0, 1}
      BY DEF s
    <3> QED
      BY <2>1, <3>1, <3>2, <3>3
  <2>4. outbox[x][i + s(x)].chat = c /\ outbox[x][i + s(x)].op = "room"
    BY <2>1
  <2>5. Creating(x, c)
    BY <2>1, <2>4 DEF Creating, Creates
  <2>6. chats'[c] = "absent"
    <3>1. CASE c # w.chat
      BY <1>3, <2>2, <3>1
    <3>2. CASE c = w.chat
      <4>1. w.op \in Creates => x = d
        BY <1>9, <2>5, <3>2 DEF Collection, OneCreator
      <4>2. w.op \notin {"entry", "setID"}
        BY <1>7, <2>1, <2>4, <3>2, <4>1 DEF Creates
      <4> QED
        BY <1>2, <1>3, <2>2, <3>2, <4>2 DEF Creates
    <3> QED
      BY <3>1, <3>2
  <2> QED
    BY <2>3, <2>6
<1> QED
  BY <1>10, <1>11, <1>12, <1>13, <1>14, <1>15 DEF Collection

LEMMA CommitIsOnward ==
    ASSUME TypeOK, Collection, NEW d \in Device, Commit(d), NEW x \in Device
    PROVE  Onward(x)
<1> DEFINE w == outbox[d][1]
<1>1. /\ w.chat \in Chat /\ w.op \in Creates \cup {"deleteEntry", "deleteRoom"}
      /\ \A y \in Device, c \in Chat :
            /\ Creating(y, c)' => Creating(y, c)
            /\ Deleting(y, c)' => Deleting(y, c)
            /\ Creating(y, c) => Creating(y, c)' \/ (y = d /\ c = w.chat /\ w.op \in Creates)
            /\ Deleting(y, c) => Deleting(y, c)' \/ (y = d /\ c = w.chat /\ w.op = "deleteEntry")
      /\ \A c \in Chat, op \in {"room", "deleteRoom"} :
            /\ Pending(op, c)' => Pending(op, c)
            /\ Pending(op, c) => Pending(op, c)' \/ (c = w.chat /\ w.op = op)
  BY CommitEffect
<1>2. \A c \in Chat :
         /\ c # w.chat => chats'[c] = chats[c] /\ (c \in rooms' <=> c \in rooms)
         /\ c = w.chat =>
              /\ w.op = "entry" => chats'[c] = "placeholder"
              /\ w.op = "setID" => chats'[c] = "id"
              /\ w.op = "deleteEntry" => chats'[c] = "absent"
              /\ w.op \in {"room", "deleteRoom"} => chats'[c] = chats[c]
              /\ w.op = "room" => c \in rooms'
              /\ w.op = "deleteRoom" => c \notin rooms'
              /\ w.op \notin {"room", "deleteRoom"} => (c \in rooms' <=> c \in rooms)
              /\ w.op \in {"setID", "deleteEntry"} => \A y \in Device : ~ Creating(y, c)'
              /\ w.op = "deleteEntry" => \A y \in Device : ~ Creating(y, c)
              /\ w.op \in {"room", "entry"} => Creating(d, c)'
              /\ w.op = "deleteEntry" => Pending("deleteRoom", c)'
  BY CommitOfChat
<1>3. nameOf' = nameOf
  BY DEF Commit
<1>4. TypeOK' /\ Collection'
  BY CommitTyped, CommitKeepsCollection
<1>5. \A c \in Chat : c \in Visible(x) <=> ~ Deleting(x, c) /\ (Creating(x, c) \/ chats[c] # "absent")
  BY VisibleIff DEF Collection
<1>6. \A c \in Chat : c \in Visible(x)' <=> ~ Deleting(x, c)' /\ (Creating(x, c)' \/ chats'[c] # "absent")
  <2> SUFFICES ASSUME NEW c \in Chat
               PROVE  c \in Visible(x)' <=> ~ Deleting(x, c)' /\ (Creating(x, c)' \/ chats'[c] # "absent")
    OBVIOUS
  <2>1. WriteOrder'
    BY <1>4 DEF Collection
  <2> QED
    BY <1>4, <2>1, VisibleIffNext
<1>7. 1 \in DOMAIN outbox[d]
  BY CommitOutbox
<1>8. w.op = "deleteRoom" => Pending("deleteRoom", w.chat)
  <2>1. w = [op |-> w.op, chat |-> w.chat]
    BY <1>7, OutboxFacts
  <2> QED
    BY <1>7, <2>1 DEF Pending
<1>9. w.op = "room" => Pending("room", w.chat)
  <2>1. w = [op |-> w.op, chat |-> w.chat]
    BY <1>7, OutboxFacts
  <2> QED
    BY <1>7, <2>1 DEF Pending
<1>10. w.op = "deleteRoom" => ~ Pending("room", w.chat)
  <2> SUFFICES ASSUME w.op = "deleteRoom", NEW y \in Device, NEW i \in DOMAIN outbox[y],
                      outbox[y][i] = [op |-> "room", chat |-> w.chat]
               PROVE  FALSE
    BY DEF Pending
  <2>1. outbox[d][1] = [op |-> "deleteRoom", chat |-> w.chat]
    BY <1>7, OutboxFacts
  <2>2. y = d /\ i < 1
    BY <1>1, <1>7, <2>1 DEF Collection, RoomIsFirst
  <2>3. DOMAIN outbox[y] = 1..Len(outbox[y]) /\ Len(outbox[y]) \in Nat
    BY OutboxFacts
  <2> QED
    BY <2>2, <2>3
<1> HIDE DEF w
<1>11. ASSUME NEW c \in Chat, Ended(x, c)
       PROVE  Ended(x, c)'
  <2>1. nameOf'[c] # ""
    BY <1>3, <1>11 DEF Ended
  <2>2. CASE Deleting(x, c)'
    BY <2>1, <2>2 DEF Ended
  <2>3. CASE Deleting(x, c) /\ ~ Deleting(x, c)'
    <3>1. c = w.chat /\ w.op = "deleteEntry"
      BY <1>1, <2>3
    <3>2. chats'[c] = "absent" /\ \A y \in Device : ~ Creating(y, c)'
      BY <1>2, <3>1
    <3> QED
      BY <2>1, <3>2 DEF Ended
  <2>4. CASE ~ Deleting(x, c)
    <3>1. chats[c] = "absent" /\ \A y \in Device : ~ Creating(y, c)
      BY <1>11, <2>4 DEF Ended
    <3>2. \A y \in Device : ~ Creating(y, c)'
      BY <1>1, <3>1
    <3>3. chats'[c] = "absent"
      <4>1. CASE c # w.chat
        BY <1>2, <3>1, <4>1
      <4>2. CASE c = w.chat
        <5>1. w.op \notin Creates
          BY <1>7, <3>1, <4>2 DEF w, Creating
        <5> QED
          BY <1>1, <1>2, <3>1, <4>2, <5>1 DEF Creates
      <4> QED
        BY <4>1, <4>2
    <3> QED
      BY <2>1, <3>2, <3>3 DEF Ended
  <2> QED
    BY <2>2, <2>3, <2>4
<1>12. ASSUME NEW c \in Chat, nameOf[c] # "", c \in Visible(x)
       PROVE  c \in Visible(x)' \/ Ended(x, c)'
  <2>1. ~ Deleting(x, c)' /\ (Creating(x, c) \/ chats[c] # "absent")
    BY <1>1, <1>5, <1>12
  <2>2. CASE c # w.chat
    BY <1>1, <1>2, <1>6, <2>1, <2>2
  <2>3. CASE c = w.chat /\ w.op = "deleteEntry"
    <3>1. chats'[c] = "absent" /\ (\A y \in Device : ~ Creating(y, c)') /\ nameOf'[c] # ""
      BY <1>2, <1>3, <1>12, <2>3
    <3> QED
      BY <3>1 DEF Ended
  <2>4. CASE c = w.chat /\ w.op = "deleteRoom"
    <3>1. Creating(x, c) => Creating(x, c)'
      BY <1>1, <2>4 DEF Creates
    <3> QED
      BY <1>2, <1>6, <2>1, <2>4, <3>1
  <2>5. CASE c = w.chat /\ w.op \in {"entry", "setID"}
    <3>1. chats'[c] # "absent"
      BY <1>2, <2>5
    <3> QED
      BY <1>6, <2>1, <3>1
  <2>6. CASE c = w.chat /\ w.op = "room"
    <3>1. Creating(d, c)' /\ chats'[c] = chats[c]
      BY <1>2, <2>6
    <3>2. Creating(x, c) => x = d \/ Creating(x, c)'
      BY <1>1
    <3> QED
      BY <1>6, <2>1, <3>1, <3>2
  <2> QED
    BY <1>1, <2>2, <2>3, <2>4, <2>5, <2>6 DEF Creates
<1>13. ASSUME NEW c \in Chat, Whole(c)'
       PROVE  Whole(c)
  <2>1. /\ c \in rooms' \/ Pending("room", c)'
        /\ ~ Pending("deleteRoom", c)'
        /\ \A y \in Chat \ {c} : nameOf[y] # nameOf[c]
    BY <1>3, <1>13 DEF Whole
  <2>2. c \in rooms \/ Pending("room", c)
    BY <1>1, <1>2, <1>9, <2>1 DEF Creates
  <2>3. ~ (c = w.chat /\ w.op = "deleteRoom")
    BY <1>1, <1>2, <1>10, <2>1
  <2>4. ~ Pending("deleteRoom", c)
    BY <1>1, <2>1, <2>3
  <2> QED
    BY <2>1, <2>2, <2>4 DEF Whole
<1> QED
  BY <1>1, <1>3, <1>11, <1>12, <1>13 DEF Onward

-----------------------------------------------------------------------------
(* The collection changes under a device *)

\* Observers told, when fewer are left to be told.
LEMMA ToldGrows ==
    ASSUME NEW m \in Nat, NEW n \in Nat, m <= n, NEW A, NEW B, \A o \in 1..m : o \in B => o \in A
    PROVE  /\ Cardinality((1..m) \ A) \in Nat /\ Cardinality((1..n) \ B) \in Nat
           /\ Cardinality((1..m) \ A) <= Cardinality((1..n) \ B)
           /\ (\E o \in 1..m : o \in A /\ o \notin B) =>
                 Cardinality((1..m) \ A) + 1 <= Cardinality((1..n) \ B)
<1>1. IsFiniteSet(1..m) /\ IsFiniteSet(1..n)
  BY FS_Interval
<1>2. (1..m) \ A \in SUBSET (1..m) /\ (1..n) \ B \in SUBSET (1..n)
  OBVIOUS
<1>3. IsFiniteSet((1..m) \ A) /\ IsFiniteSet((1..n) \ B)
  BY <1>1, <1>2, FS_Subset
<1>4. Cardinality((1..m) \ A) \in Nat /\ Cardinality((1..n) \ B) \in Nat
  BY <1>3, FS_CardinalityType
<1>5. (1..m) \ A \in SUBSET ((1..n) \ B)
  OBVIOUS
<1>6. Cardinality((1..m) \ A) <= Cardinality((1..n) \ B)
  BY <1>3, <1>5, FS_Subset
<1>7. ASSUME NEW o \in 1..m, o \in A, o \notin B
      PROVE  Cardinality((1..m) \ A) + 1 <= Cardinality((1..n) \ B)
  <2> DEFINE T == ((1..m) \ A) \cup {o}
  <2>1. T \in SUBSET ((1..n) \ B)
    BY <1>5, <1>7
  <2>2. o \notin (1..m) \ A
    BY <1>7
  <2>3. Cardinality(T) = Cardinality((1..m) \ A) + 1
    BY <1>3, <2>2, FS_AddElement
  <2> HIDE DEF T
  <2>4. Cardinality(T) <= Cardinality((1..n) \ B)
    BY <1>3, <2>1, FS_Subset
  <2> QED
    BY <2>3, <2>4
<1> QED
  BY <1>4, <1>6, <1>7

LEMMA OccurrencesIsCount ==
    ASSUME TypeOK, NEW d \in Device, NEW c \in Chat
    PROVE  Occurrences(d, c) = Count(chatInformationArray[d], c) /\ Occurrences(d, c) \in Nat
<1>1. Occurrences(d, c) = Count(chatInformationArray[d], c)
  BY DEF Occurrences, Count, Places
<1>2. chatInformationArray[d] \in Seq(Entry)
  BY DEF TypeOK
<1> QED
  BY <1>1, <1>2, CountIsNat

LEMMA OccurrencesIsCountNext ==
    ASSUME NEW d \in Device, NEW c \in Chat
    PROVE  TypeOK' =>
              /\ Occurrences(d, c)' = Count(chatInformationArray'[d], c)
              /\ Occurrences(d, c)' \in Nat
<1>1. TypeOK => Occurrences(d, c) = Count(chatInformationArray[d], c) /\ Occurrences(d, c) \in Nat
  BY OccurrencesIsCount
<1>2. (TypeOK => Occurrences(d, c) = Count(chatInformationArray[d], c) /\ Occurrences(d, c) \in Nat)'
  BY <1>1, PTL
<1> QED
  BY <1>2

LEMMA DeviceTypes ==
    ASSUME TypeOK, NEW d \in Device
    PROVE  /\ mainQueue[d] \in Seq(Callback) /\ Len(mainQueue[d]) \in Nat
           /\ DOMAIN mainQueue[d] = 1..Len(mainQueue[d])
           /\ \A i \in DOMAIN mainQueue[d] : mainQueue[d][i] \in Callback
           /\ chatInformationArray[d] \in Seq(Entry) /\ Len(chatInformationArray[d]) \in Nat
           /\ DOMAIN chatInformationArray[d] = 1..Len(chatInformationArray[d])
           /\ \A i \in DOMAIN chatInformationArray[d] : chatInformationArray[d][i] \in Entry
           /\ \A e \in Held(d) : e \in Entry /\ e.chat \in Chat
           /\ \A c \in Present(view[d]) : c \in Chat
           /\ observers[d] \in Nat /\ loads[d] \subseteq 1..MaxMaps /\ failed[d] \in BOOLEAN
<1>1. mainQueue[d] \in Seq(Callback) /\ chatInformationArray[d] \in Seq(Entry)
  BY DEF TypeOK
<1>2. /\ Len(mainQueue[d]) \in Nat /\ DOMAIN mainQueue[d] = 1..Len(mainQueue[d])
      /\ Len(chatInformationArray[d]) \in Nat
      /\ DOMAIN chatInformationArray[d] = 1..Len(chatInformationArray[d])
  BY <1>1, LenProperties
<1>3. \A i \in DOMAIN mainQueue[d] : mainQueue[d][i] \in Callback
  BY <1>1, <1>2, ElementOfSeq
<1>4. \A i \in DOMAIN chatInformationArray[d] : chatInformationArray[d][i] \in Entry
  BY <1>1, <1>2, ElementOfSeq
<1>5. \A e \in InList(d) : e \in Entry
  BY <1>4 DEF InList
<1>6. \A e \in InView(d) : e \in Entry
  <2> SUFFICES ASSUME NEW c \in Present(view[d])
               PROVE  [chat |-> c, firebaseID |-> view[d][c]] \in Entry
    BY DEF InView, Entries
  <2>1. c \in Chat /\ view[d][c] # "absent" /\ view[d] \in [Chat -> Id \cup {"absent"}]
    BY DEF Present, TypeOK
  <2>2. view[d][c] \in Id
    BY <2>1
  <2> QED
    BY <2>1, <2>2 DEF Entry
<1>7. \A e \in Held(d) : e \in Entry
  BY <1>5, <1>6 DEF Held, InQueue
<1>8. /\ MaxMaps \in Nat /\ observers[d] \in 0..MaxMaps
      /\ loads[d] \subseteq 1..MaxMaps /\ failed[d] \in BOOLEAN
  BY ListAssumption DEF TypeOK
<1>9. observers[d] \in Nat
  BY <1>8
<1> QED
  BY <1>1, <1>2, <1>3, <1>4, <1>7, <1>8, <1>9 DEF Entry, Present

\* What a step does to the list of a device that is told nothing by it.
ListGoesOn(x) ==
    /\ \A e \in InList(x)' : nameOf'[e.chat] # ""
    /\ \A e \in InList(x)', y \in Device :
          /\ e.firebaseID = "id" /\ Creating(y, e.chat)' => y = x
          /\ e.firebaseID = "placeholder" => ~ Pending("room", e.chat)'
    /\ \A c \in Chat : Occurrences(x, c)' <= Occurrences(x, c) \/ Occurrences(x, c)' <= 1
    /\ \A c \in Chat : nameOf[c] # "" /\ Whole(c)' /\ c \in OnMap(x) => c \in OnMap(x)'

LEMMA DeviceGoesOn ==
    ASSUME TypeOK, TypeOK', Collection, NEW x \in Device, DeviceOf(x), Onward(x), ListGoesOn(x),
           view'[x] = view[x], mainQueue'[x] = mainQueue[x], loads'[x] = loads[x],
           failed'[x] = failed[x], observers'[x] = observers[x]
    PROVE  DeviceOf(x)'
<1>1. /\ \A i \in DOMAIN mainQueue[x] : mainQueue[x][i] \in Callback
      /\ \A e \in Held(x) : e \in Entry /\ e.chat \in Chat
      /\ observers[x] \in Nat
  BY DeviceTypes
<1>2. \A e \in Held(x) : nameOf[e.chat] # ""
  BY DEF DeviceOf, Heard
<1>3. \A c \in Present(view[x]) : c \in Chat /\ nameOf[c] # ""
  <2>1. \A c \in Present(view[x]) : [chat |-> c, firebaseID |-> view[x][c]] \in Held(x)
    BY DEF Held, InView, Entries
  <2> QED
    BY <1>2, <2>1 DEF Present
<1>4. /\ InQueue(x)' = InQueue(x) /\ InView(x)' = InView(x) /\ Present(view[x])' = Present(view[x])
  <2>1. Present(view[x])' = Present(view[x])
    BY DEF Present
  <2>2. InQueue(x)' = InQueue(x)
    BY DEF InQueue
  <2>3. InView(x)' = InView(x)
    BY <2>1 DEF InView, Entries
  <2> QED
    BY <2>1, <2>2, <2>3
<1>5. \A i \in DOMAIN mainQueue[x] : mainQueue[x][i].via = "changes" =>
         \A c \in mainQueue[x][i].removed : c \in Chat /\ nameOf[c] # ""
  <2>1. \A i \in DOMAIN mainQueue[x] : mainQueue[x][i].via = "changes" =>
           \A c \in mainQueue[x][i].removed : nameOf[c] # ""
    BY DEF DeviceOf, Heard
  <2>2. \A k \in Callback : k.via = "changes" => k.removed \subseteq Chat
    BY DEF Callback
  <2> QED
    BY <1>1, <2>1, <2>2
<1>6. Shapes(x)' /\ Idle(x)'
  BY DEF DeviceOf, Shapes, Idle
<1>7. Heard(x)'
  <2>1. \A e \in Held(x)' : nameOf'[e.chat] # ""
    <3> SUFFICES ASSUME NEW e \in Held(x)' PROVE nameOf'[e.chat] # ""
      OBVIOUS
    <3>1. CASE e \in InList(x)'
      BY <3>1 DEF ListGoesOn
    <3>2. CASE e \in Held(x)
      BY <1>1, <1>2, <3>2 DEF Onward
    <3> QED
      BY <1>4, <3>1, <3>2 DEF Held
  <2>2. \A i \in DOMAIN mainQueue'[x] : mainQueue'[x][i].via = "changes" =>
           \A c \in mainQueue'[x][i].removed : nameOf'[c] # ""
    BY <1>5 DEF Onward
  <2> QED
    BY <2>1, <2>2 DEF Heard
<1>8. IdIsTold(x)'
  <2> SUFFICES ASSUME NEW e \in Held(x)', NEW y \in Device
               PROVE  /\ e.firebaseID = "id" /\ Creating(y, e.chat)' => y = x
                      /\ e.firebaseID = "placeholder" => ~ Pending("room", e.chat)'
    BY DEF IdIsTold
  <2>1. CASE e \in InList(x)'
    BY <2>1 DEF ListGoesOn
  <2>2. CASE e \in Held(x)
    <3>1. e.chat \in Chat /\ nameOf[e.chat] # ""
      BY <1>1, <1>2, <2>2
    <3>2. /\ Creating(y, e.chat)' => Creating(y, e.chat)
          /\ Pending("room", e.chat)' => Pending("room", e.chat)
      BY <3>1 DEF Onward
    <3>3. /\ e.firebaseID = "id" /\ Creating(y, e.chat) => y = x
          /\ e.firebaseID = "placeholder" => ~ Pending("room", e.chat)
      BY <2>2 DEF DeviceOf, IdIsTold
    <3> QED
      BY <3>2, <3>3
  <2> QED
    BY <1>4, <2>1, <2>2 DEF Held
<1>9. SeenIsThere(x)'
  <2> SUFFICES ASSUME NEW c \in Present(view[x])
               PROVE  c \in Visible(x)' \/ Ended(x, c)'
    BY <1>4 DEF SeenIsThere
  <2>1. c \in Visible(x) \/ Ended(x, c)
    BY DEF DeviceOf, SeenIsThere
  <2> QED
    BY <1>3, <2>1 DEF Onward
<1>10. RemovedIsOver(x)'
  <2> SUFFICES ASSUME NEW i \in DOMAIN mainQueue[x], mainQueue[x][i].via = "changes",
                      NEW c \in mainQueue[x][i].removed
               PROVE  ~ Whole(c)'
    BY DEF RemovedIsOver
  <2>1. ~ Whole(c)
    BY DEF DeviceOf, RemovedIsOver
  <2> QED
    BY <1>5, <2>1 DEF Onward
<1>11. ToldOnce(x)'
  <2> SUFFICES ASSUME NEW c \in Chat, NEW i \in DOMAIN mainQueue[x], Adds(mainQueue[x][i], c)
               PROVE  /\ c \in Present(view[x]) \/ Ended(x, c)'
                      /\ \A j \in DOMAIN mainQueue[x] :
                            i < j /\ Adds(mainQueue[x][j], c) => mainQueue[x][i].last < mainQueue[x][j].first
    BY <1>4 DEF ToldOnce
  <2>1. /\ c \in Present(view[x]) \/ Ended(x, c)
        /\ \A j \in DOMAIN mainQueue[x] :
              i < j /\ Adds(mainQueue[x][j], c) => mainQueue[x][i].last < mainQueue[x][j].first
    BY DEF DeviceOf, ToldOnce
  <2> QED
    BY <2>1 DEF Onward
<1>12. ListedAsTold(x)'
  <2> SUFFICES ASSUME NEW c \in Chat
               PROVE  Occurrences(x, c)' <= 1 + Cardinality((1..observers'[x]) \ ToCome(x, c)')
    BY DEF ListedAsTold
  <2>1. Occurrences(x, c)' <= Occurrences(x, c) \/ Occurrences(x, c)' <= 1
    BY DEF ListGoesOn
  <2>2. Occurrences(x, c) <= 1 + Cardinality((1..observers[x]) \ ToCome(x, c))
    BY DEF DeviceOf, ListedAsTold
  <2>3. \A o \in 1..observers[x] : o \in ToCome(x, c)' => o \in ToCome(x, c)
    <3>1. Ended(x, c) => Ended(x, c)'
      BY DEF Onward
    <3> QED
      BY <1>4, <3>1 DEF ToCome
  <2> DEFINE A == ToCome(x, c)
             B == ToCome(x, c)'
  <2> HIDE DEF A, B
  <2>4. /\ Cardinality((1..observers[x]) \ A) \in Nat /\ Cardinality((1..observers[x]) \ B) \in Nat
        /\ Cardinality((1..observers[x]) \ A) <= Cardinality((1..observers[x]) \ B)
    <3>1. observers[x] \in Nat /\ observers[x] <= observers[x]
      BY <1>1
    <3>2. \A o \in 1..observers[x] : o \in B => o \in A
      BY <2>3 DEF A, B
    <3> QED
      BY <3>1, <3>2, ToldGrows
  <2>5. Occurrences(x, c) \in Nat /\ Occurrences(x, c)' \in Nat
    BY OccurrencesIsCount, OccurrencesIsCountNext
  <2>6. Occurrences(x, c)' <= 1 + Cardinality((1..observers[x]) \ B)
    BY <2>1, <2>2, <2>4, <2>5 DEF A
  <2> QED
    BY <2>6 DEF B
<1>13. InTheEnd(x)'
  <2>0. \A k, c : Shows(x, k, c)' <=> Shows(x, k, c)
    BY DEF Shows
  <2> SUFFICES ASSUME NEW c \in Present(view[x]), ~ failed[x], Whole(c)'
               PROVE  /\ \/ c \in OnMap(x)'
                         \/ \E i \in DOMAIN mainQueue[x] : Shows(x, mainQueue[x][i], c)
                      /\ \A i \in DOMAIN mainQueue[x] : Drops(mainQueue[x][i], c) =>
                            \E j \in DOMAIN mainQueue[x] : i < j /\ Shows(x, mainQueue[x][j], c)
    BY <1>4, <2>0 DEF InTheEnd, Shows
  <2>1. c \in Chat /\ nameOf[c] # "" /\ Whole(c)
    BY <1>3 DEF Onward
  <2>2. /\ \/ c \in OnMap(x)
           \/ \E i \in DOMAIN mainQueue[x] : Shows(x, mainQueue[x][i], c)
        /\ \A i \in DOMAIN mainQueue[x] : Drops(mainQueue[x][i], c) =>
              \E j \in DOMAIN mainQueue[x] : i < j /\ Shows(x, mainQueue[x][j], c)
    BY <2>1 DEF DeviceOf, InTheEnd
  <2>3. c \in OnMap(x) => c \in OnMap(x)'
    BY <2>1 DEF ListGoesOn
  <2> QED
    BY <2>2, <2>3
<1> QED
  BY <1>6, <1>7, <1>8, <1>9, <1>10, <1>11, <1>12, <1>13 DEF DeviceOf

\* A list nobody touches goes on whatever happens to the collection.
LEMMA ListStays ==
    ASSUME TypeOK, NEW x \in Device, DeviceOf(x), Onward(x),
           chatInformationArray'[x] = chatInformationArray[x], pins'[x] = pins[x]
    PROVE  ListGoesOn(x)
<1>1. InList(x)' = InList(x) /\ Listed(x)' = Listed(x)
  BY DEF InList, Listed
<1>2. \A e \in InList(x) : e \in Held(x) /\ e.chat \in Chat /\ nameOf[e.chat] # ""
  BY DeviceTypes DEF Held, DeviceOf, Heard
<1>3. \A e \in InList(x) : nameOf'[e.chat] # ""
  BY <1>2 DEF Onward
<1>4. ASSUME NEW e \in InList(x), NEW y \in Device
      PROVE  /\ e.firebaseID = "id" /\ Creating(y, e.chat)' => y = x
             /\ e.firebaseID = "placeholder" => ~ Pending("room", e.chat)'
  <2>1. /\ Creating(y, e.chat)' => Creating(y, e.chat)
        /\ Pending("room", e.chat)' => Pending("room", e.chat)
    BY <1>2 DEF Onward
  <2>2. /\ e.firebaseID = "id" /\ Creating(y, e.chat) => y = x
        /\ e.firebaseID = "placeholder" => ~ Pending("room", e.chat)
    BY <1>2 DEF DeviceOf, IdIsTold
  <2> QED
    BY <2>1, <2>2
<1>5. \A c \in Chat : Occurrences(x, c)' = Occurrences(x, c) /\ Occurrences(x, c) \in Nat
  BY OccurrencesIsCount DEF Occurrences
<1>6. \A c \in OnMap(x) : c \in OnMap(x)'
  <2> SUFFICES ASSUME NEW c \in Listed(x), nameOf[c] \in pins[x]
               PROVE  c \in Listed(x)' /\ nameOf'[c] \in pins'[x]
    BY DEF OnMap
  <2>1. PICK e \in InList(x) : e.chat = c
    BY DEF Listed, InList
  <2>2. nameOf'[c] = nameOf[c]
    BY <1>2, <2>1 DEF Onward
  <2> QED
    BY <1>1, <2>2
<1>7. \A c \in Chat : Occurrences(x, c)' <= Occurrences(x, c)
  BY <1>5
<1> QED
  BY <1>1, <1>3, <1>4, <1>6, <1>7 DEF ListGoesOn

LEMMA CommitKeeps ==
    ASSUME IInv, NEW d \in Device, Commit(d)
    PROVE  IInv'
<1>1. TypeOK' /\ Collection'
  BY CommitTyped, CommitKeepsCollection DEF IInv
<1>2. ASSUME NEW x \in Device
      PROVE  DeviceOf(x)'
  <2>1. TypeOK /\ Collection /\ DeviceOf(x)
    BY DEF IInv
  <2>2. Onward(x)
    BY <2>1, CommitIsOnward
  <2>3. UNCHANGED <<view, loads, failed, mainQueue, observers, chatInformationArray, pins>>
    BY DEF Commit, app
  <2>4. /\ chatInformationArray'[x] = chatInformationArray[x] /\ pins'[x] = pins[x]
        /\ view'[x] = view[x] /\ mainQueue'[x] = mainQueue[x] /\ loads'[x] = loads[x]
        /\ failed'[x] = failed[x] /\ observers'[x] = observers[x]
    BY <2>3
  <2>5. ListGoesOn(x)
    BY <2>1, <2>2, <2>4, ListStays
  <2> QED
    BY <1>1, <2>1, <2>2, <2>4, <2>5, DeviceGoesOn
<1> QED
  BY <1>1, <1>2 DEF IInv

-----------------------------------------------------------------------------
(* A chat is added *)

AddWrites(c) == <<[op |-> "room", chat |-> c], [op |-> "entry", chat |-> c], [op |-> "setID", chat |-> c]>>

LEMMA OneToThree ==
    1 \in 1..3 /\ 2 \in 1..3 /\ 3 \in 1..3 /\ \A k \in 1..3 : k = 1 \/ k = 2 \/ k = 3
  OBVIOUS

LEMMA Triple ==
    ASSUME NEW W, NEW a \in W, NEW b \in W, NEW e \in W
    PROVE  <<a, b, e>> \in Seq(W) /\ DOMAIN <<a, b, e>> = 1..3
  OBVIOUS

LEMMA AddWritesFacts ==
    ASSUME NEW c \in Chat
    PROVE  /\ AddWrites(c)[1] = [op |-> "room", chat |-> c]
           /\ AddWrites(c)[2] = [op |-> "entry", chat |-> c]
           /\ AddWrites(c)[3] = [op |-> "setID", chat |-> c]
           /\ \A k \in 1..3 : /\ AddWrites(c)[k].chat = c
                              /\ AddWrites(c)[k].op \in Creates
                              /\ AddWrites(c)[k].op = "room" => k = 1
                              /\ AddWrites(c)[k].op = "entry" => k = 2
           /\ \A j, k \in 1..3 : AddWrites(c)[j] = AddWrites(c)[k] => j = k
<1> DEFINE ws == AddWrites(c)
<1>1. ws[1] = [op |-> "room", chat |-> c] /\ ws[2] = [op |-> "entry", chat |-> c] /\ ws[3] = [op |-> "setID", chat |-> c]
  BY DEF AddWrites
<1> HIDE DEF ws
<1>2. /\ ws[1].op = "room" /\ ws[1].chat = c /\ ws[2].op = "entry" /\ ws[2].chat = c
      /\ ws[3].op = "setID" /\ ws[3].chat = c
  BY <1>1
<1>3. ASSUME NEW k \in 1..3
      PROVE  /\ ws[k].chat = c /\ ws[k].op \in Creates
             /\ ws[k].op = "room" => k = 1
             /\ ws[k].op = "entry" => k = 2
  <2>1. k = 1 \/ k = 2 \/ k = 3
    BY OneToThree
  <2> QED
    BY <1>2, <2>1 DEF Creates
<1>4. ASSUME NEW j \in 1..3, NEW k \in 1..3, ws[j] = ws[k]
      PROVE  j = k
  <2>1. (j = 1 \/ j = 2 \/ j = 3) /\ (k = 1 \/ k = 2 \/ k = 3)
    BY OneToThree
  <2> QED
    BY <1>2, <1>4, <2>1
<1> QED
  BY <1>1, <1>3, <1>4 DEF ws

LEMMA Shift ==
    \A i, m \in Int : i = m + (i - m)
  OBVIOUS

\* Where the writes of addChat are in the outbox.
LEMMA AddedWrites ==
    ASSUME TypeOK, NEW d \in Device, NEW c \in Chat, Queue(d, AddWrites(c))
    PROVE  /\ outbox' \in [Device -> Seq(Write)]
           /\ \A x \in Device : \A i \in DOMAIN outbox[x] :
                 i \in Nat /\ i \in DOMAIN outbox'[x] /\ outbox'[x][i] = outbox[x][i]
           /\ \A k \in 1..3 : /\ Len(outbox[d]) + k \in DOMAIN outbox'[d]
                              /\ outbox'[d][Len(outbox[d]) + k] = AddWrites(c)[k]
           /\ \A x \in Device : \A i \in DOMAIN outbox'[x] : i \notin DOMAIN outbox[x] =>
                 x = d /\ \E k \in 1..3 : i = Len(outbox[d]) + k /\ outbox'[x][i] = AddWrites(c)[k]
<1> DEFINE ws == AddWrites(c)
<1>1. ws \in Seq(Write) /\ DOMAIN ws = 1..3
  <2>1. /\ [op |-> "room", chat |-> c] \in Write /\ [op |-> "entry", chat |-> c] \in Write
        /\ [op |-> "setID", chat |-> c] \in Write
    BY DEF Write
  <2> QED
    BY <2>1, Triple DEF AddWrites
<1> HIDE DEF ws
<1>2. Queue(d, ws)
  BY DEF ws
<1>3. /\ outbox' \in [Device -> Seq(Write)]
      /\ \A x \in Device : \A i \in DOMAIN outbox[x] :
            i \in Nat /\ i \in DOMAIN outbox'[x] /\ outbox'[x][i] = outbox[x][i]
      /\ \A k \in DOMAIN ws : /\ Len(outbox[d]) + k \in DOMAIN outbox'[d]
                              /\ outbox'[d][Len(outbox[d]) + k] = ws[k]
      /\ \A x \in Device : \A i \in DOMAIN outbox'[x] :
            \/ i \in DOMAIN outbox[x]
            \/ /\ x = d /\ i \in Int /\ i > Len(outbox[d]) /\ i - Len(outbox[d]) \in DOMAIN ws
               /\ outbox'[x][i] = ws[i - Len(outbox[d])]
  BY <1>1, <1>2, QueueOutbox
<1>4. ASSUME NEW x \in Device, NEW i \in DOMAIN outbox'[x], i \notin DOMAIN outbox[x]
      PROVE  x = d /\ \E k \in 1..3 : i = Len(outbox[d]) + k /\ outbox'[x][i] = ws[k]
  <2>1. /\ x = d /\ i \in Int /\ i - Len(outbox[d]) \in 1..3
        /\ outbox'[x][i] = ws[i - Len(outbox[d])]
    BY <1>1, <1>3, <1>4
  <2>2. Len(outbox[d]) \in Int
    BY OutboxFacts
  <2>3. i = Len(outbox[d]) + (i - Len(outbox[d]))
    BY <2>1, <2>2, Shift
  <2> QED
    BY <2>1, <2>3
<1>5. \A k \in 1..3 : /\ Len(outbox[d]) + k \in DOMAIN outbox'[d]
                      /\ outbox'[d][Len(outbox[d]) + k] = ws[k]
  BY <1>1, <1>3
<1> QED
  BY <1>3, <1>4, <1>5 DEF ws

LEMMA NextPlace ==
    \A L \in Nat : (L + 1) + 1 = L + 2 /\ (L + 2) + 1 = L + 3
  OBVIOUS

LEMMA AddWritesOps ==
    ASSUME NEW c \in Chat, NEW k \in 1..3
    PROVE  (AddWrites(c)[k].op = "room" => k = 1) /\ (AddWrites(c)[k].op = "entry" => k = 2)
<1>1. k = 1 \/ k = 2 \/ k = 3
  BY OneToThree
<1>2. AddWrites(c)[1].op = "room" /\ AddWrites(c)[2].op = "entry" /\ AddWrites(c)[3].op = "setID"
  <2>1. /\ AddWrites(c)[1] = [op |-> "room", chat |-> c]
        /\ AddWrites(c)[2] = [op |-> "entry", chat |-> c]
        /\ AddWrites(c)[3] = [op |-> "setID", chat |-> c]
    BY AddWritesFacts
  <2> QED
    BY <2>1
<1> QED
  BY <1>1, <1>2

LEMMA AddedNew ==
    ASSUME TypeOK, NEW d \in Device, NEW c \in Chat, Queue(d, AddWrites(c)),
           NEW x \in Device, NEW i \in DOMAIN outbox'[x], i \notin DOMAIN outbox[x]
    PROVE  \E k \in 1..3 : x = d /\ i = Len(outbox[d]) + k /\ outbox'[x][i] = AddWrites(c)[k]
<1> DEFINE ws == AddWrites(c)
<1>1. ws \in Seq(Write) /\ DOMAIN ws = 1..3
  <2>1. /\ [op |-> "room", chat |-> c] \in Write /\ [op |-> "entry", chat |-> c] \in Write
        /\ [op |-> "setID", chat |-> c] \in Write
    BY DEF Write
  <2> QED
    BY <2>1, Triple DEF AddWrites
<1> HIDE DEF ws
<1>2. Queue(d, ws)
  BY DEF ws
<1>3. /\ outbox' \in [Device -> Seq(Write)]
      /\ \A y \in Device : \A j \in DOMAIN outbox[y] :
            j \in Nat /\ j \in DOMAIN outbox'[y] /\ outbox'[y][j] = outbox[y][j]
      /\ \A k \in DOMAIN ws : /\ Len(outbox[d]) + k \in DOMAIN outbox'[d]
                              /\ outbox'[d][Len(outbox[d]) + k] = ws[k]
      /\ \A y \in Device : \A j \in DOMAIN outbox'[y] :
            \/ j \in DOMAIN outbox[y]
            \/ /\ y = d /\ j \in Int /\ j > Len(outbox[d]) /\ j - Len(outbox[d]) \in DOMAIN ws
               /\ outbox'[y][j] = ws[j - Len(outbox[d])]
  BY <1>1, <1>2, QueueOutbox
<1>4. /\ x = d /\ i \in Int /\ i - Len(outbox[d]) \in 1..3
      /\ outbox'[x][i] = ws[i - Len(outbox[d])]
  BY <1>1, <1>3
<1>5. Len(outbox[d]) \in Int
  BY OutboxFacts
<1>6. i = Len(outbox[d]) + (i - Len(outbox[d]))
  BY <1>4, <1>5, Shift
<1> QED
  BY <1>4, <1>6 DEF ws

LEMMA AddedNewAll ==
    ASSUME TypeOK, NEW d \in Device, NEW c \in Chat, Queue(d, AddWrites(c))
    PROVE  \A x \in Device : \A j \in DOMAIN outbox'[x] : j \notin DOMAIN outbox[x] =>
                \E k \in 1..3 : x = d /\ j = Len(outbox[d]) + k /\ outbox'[x][j] = AddWrites(c)[k]
<1> SUFFICES ASSUME NEW x \in Device, NEW j \in DOMAIN outbox'[x], j \notin DOMAIN outbox[x]
             PROVE  \E k \in 1..3 : x = d /\ j = Len(outbox[d]) + k /\ outbox'[x][j] = AddWrites(c)[k]
  OBVIOUS
<1> QED
  BY AddedNew

LEMMA AddedIs ==
    ASSUME TypeOK, NEW d \in Device, NEW c \in Chat, Queue(d, AddWrites(c))
    PROVE  \A x \in Device : \A i \in DOMAIN outbox'[x] : i \notin DOMAIN outbox[x] =>
                x = d /\ outbox'[x][i].chat = c /\ outbox'[x][i].op \in Creates
<1> SUFFICES ASSUME NEW x \in Device, NEW i \in DOMAIN outbox'[x], i \notin DOMAIN outbox[x]
             PROVE  x = d /\ outbox'[x][i].chat = c /\ outbox'[x][i].op \in Creates
  OBVIOUS
<1>1. \E k \in 1..3 : x = d /\ i = Len(outbox[d]) + k /\ outbox'[x][i] = AddWrites(c)[k]
  BY AddedNewAll
<1>2. \A k \in 1..3 : AddWrites(c)[k].chat = c
  BY AddWritesFacts
<1>3. \A k \in 1..3 : AddWrites(c)[k].op \in Creates
  BY AddWritesFacts
<1> QED
  BY <1>1, <1>2, <1>3

\* A write of addChat among the others.
Sent(x, i, c) ==
    /\ \E o \in Creates : outbox[x][i] = [op |-> o, chat |-> c]
    /\ outbox[x][i].op = "room" =>
          i + 1 \in DOMAIN outbox[x] /\ outbox[x][i + 1] = [op |-> "entry", chat |-> c]
    /\ outbox[x][i].op = "entry" =>
          i + 1 \in DOMAIN outbox[x] /\ outbox[x][i + 1] = [op |-> "setID", chat |-> c]
    /\ \A j \in DOMAIN outbox[x] : outbox[x][j] = outbox[x][i] => j = i

LEMMA AddedOrder ==
    ASSUME TypeOK, Collection, NEW d \in Device, NEW c \in Chat, nameOf[c] = "", Queue(d, AddWrites(c))
    PROVE  \A x \in Device : \A i \in DOMAIN outbox'[x] : i \notin DOMAIN outbox[x] => Sent(x, i, c)'
<1> SUFFICES ASSUME NEW x \in Device, NEW i \in DOMAIN outbox'[x], i \notin DOMAIN outbox[x]
             PROVE  Sent(x, i, c)'
  OBVIOUS
<1> DEFINE ws == AddWrites(c)
           L == Len(outbox[d])
<1>a. ws[1] = [op |-> "room", chat |-> c] /\ ws[2] = [op |-> "entry", chat |-> c] /\ ws[3] = [op |-> "setID", chat |-> c]
  BY AddWritesFacts
<1>b. \A k \in 1..3 : ws[k].chat = c /\ ws[k].op \in Creates
  BY AddWritesFacts
<1>c. ASSUME NEW k \in 1..3
      PROVE  (ws[k].op = "room" => k = 1) /\ (ws[k].op = "entry" => k = 2)
  BY AddWritesOps
<1>1. \A j, k \in 1..3 : ws[j] = ws[k] => j = k
  BY AddWritesFacts
<1>2. L \in Nat
  BY OutboxFacts
<1>d. \A k \in 1..3 : L + k \in DOMAIN outbox'[d] /\ outbox'[d][L + k] = ws[k]
  BY AddedWrites
<1>e. \A j \in DOMAIN outbox'[x] : j \notin DOMAIN outbox[x] =>
         \E k \in 1..3 : x = d /\ j = L + k /\ outbox'[x][j] = ws[k]
  BY AddedNewAll
<1>f. x = d
  BY <1>e
<1>3. \A j \in DOMAIN outbox[x] : outbox'[x][j] = outbox[x][j]
  BY AddedWrites
<1>4. \A j \in DOMAIN outbox[x] : outbox'[x][j].chat # c
  <2>1. \A j \in DOMAIN outbox[x] : outbox[x][j].chat # c
    BY DEF Collection, Named
  <2> QED
    BY <1>3, <2>1
<1> HIDE DEF ws, L
<1>5. PICK k \in 1..3 : i = L + k /\ outbox'[x][i] = ws[k]
  BY <1>e
<1>6. x = d /\ outbox'[x][i].chat = c /\ outbox'[x][i].op \in Creates
  BY <1>b, <1>f, <1>5
<1>7. outbox'[x][i].op = "room" =>
         i + 1 \in DOMAIN outbox'[x] /\ outbox'[x][i + 1] = [op |-> "entry", chat |-> c]
  <2> SUFFICES ASSUME outbox'[x][i].op = "room"
               PROVE  i + 1 \in DOMAIN outbox'[x] /\ outbox'[x][i + 1] = [op |-> "entry", chat |-> c]
    OBVIOUS
  <2>1. k = 1
    BY <1>c, <1>5
  <2>2. i + 1 = L + 2
    <3>1. i = L + 1
      BY <1>5, <2>1
    <3>2. (L + 1) + 1 = L + 2
      BY <1>2, NextPlace
    <3> QED
      BY <3>1, <3>2
  <2> QED
    BY <1>a, <1>d, <1>f, <2>2, OneToThree
<1>8. outbox'[x][i].op = "entry" =>
         i + 1 \in DOMAIN outbox'[x] /\ outbox'[x][i + 1] = [op |-> "setID", chat |-> c]
  <2> SUFFICES ASSUME outbox'[x][i].op = "entry"
               PROVE  i + 1 \in DOMAIN outbox'[x] /\ outbox'[x][i + 1] = [op |-> "setID", chat |-> c]
    OBVIOUS
  <2>1. k = 2
    BY <1>c, <1>5
  <2>2. i + 1 = L + 3
    <3>1. i = L + 2
      BY <1>5, <2>1
    <3>2. (L + 2) + 1 = L + 3
      BY <1>2, NextPlace
    <3> QED
      BY <3>1, <3>2
  <2> QED
    BY <1>a, <1>d, <1>f, <2>2, OneToThree
<1>9. ASSUME NEW j \in DOMAIN outbox'[x], outbox'[x][j] = outbox'[x][i]
      PROVE  j = i
  <2>1. j \notin DOMAIN outbox[x]
    BY <1>4, <1>6, <1>9
  <2>2. PICK m \in 1..3 : j = L + m /\ outbox'[x][j] = ws[m]
    BY <1>e, <2>1
  <2>3. m = k
    BY <1>1, <1>5, <1>9, <2>2
  <2> QED
    BY <1>5, <2>2, <2>3
<1>10. \E o \in Creates : outbox'[x][i] = [op |-> o, chat |-> c]
  <2>1. k = 1 \/ k = 2 \/ k = 3
    BY OneToThree
  <2>2. \E o \in Creates : ws[k] = [op |-> o, chat |-> c]
    BY <1>a, <2>1 DEF Creates
  <2> QED
    BY <1>5, <2>2
<1> QED
  BY <1>7, <1>8, <1>9, <1>10 DEF Sent

LEMMA AddEffect ==
    ASSUME TypeOK, Collection, NEW d \in Device, NEW c \in Chat, nameOf[c] = "", Queue(d, AddWrites(c))
    PROVE  /\ \A x \in Device, k \in Chat :
                 /\ Creating(x, k)' <=> Creating(x, k) \/ (x = d /\ k = c)
                 /\ Deleting(x, k)' <=> Deleting(x, k)
           /\ \A k \in Chat : /\ Pending("deleteRoom", k)' <=> Pending("deleteRoom", k)
                              /\ Pending("room", k)' => Pending("room", k) \/ k = c
                              /\ Pending("room", k) => Pending("room", k)'
<1>1. \A x \in Device : \A i \in DOMAIN outbox[x] : i \in DOMAIN outbox'[x] /\ outbox'[x][i] = outbox[x][i]
  BY AddedWrites
<1>2. \A x \in Device : \A i \in DOMAIN outbox'[x] :
         \/ i \in DOMAIN outbox[x] /\ outbox'[x][i] = outbox[x][i]
         \/ /\ x = d /\ outbox'[x][i].chat = c /\ outbox'[x][i].op \in Creates
            /\ \E o \in Creates : outbox'[x][i] = [op |-> o, chat |-> c]
  <2>1. \A x \in Device : \A i \in DOMAIN outbox'[x] : i \notin DOMAIN outbox[x] =>
           x = d /\ outbox'[x][i].chat = c /\ outbox'[x][i].op \in Creates
    BY AddedIs
  <2>2. \A x \in Device : \A i \in DOMAIN outbox'[x] : i \notin DOMAIN outbox[x] =>
           Sent(x, i, c)'
    BY AddedOrder
  <2> QED
    <3> SUFFICES ASSUME NEW x \in Device, NEW i \in DOMAIN outbox'[x], i \notin DOMAIN outbox[x]
                 PROVE  /\ x = d /\ outbox'[x][i].chat = c /\ outbox'[x][i].op \in Creates
                        /\ \E o \in Creates : outbox'[x][i] = [op |-> o, chat |-> c]
      BY <1>1
    <3>1. Sent(x, i, c)'
      BY <2>2
    <3>2. \E o \in Creates : outbox'[x][i] = [op |-> o, chat |-> c]
      BY <3>1 DEF Sent
    <3> QED
      BY <2>1, <3>2
<1>3. Creating(d, c)'
  <2>1. 1 \in 1..3
    BY OneToThree
  <2>2. /\ Len(outbox[d]) + 1 \in DOMAIN outbox'[d]
        /\ outbox'[d][Len(outbox[d]) + 1] = AddWrites(c)[1]
    BY <2>1, AddedWrites
  <2>3. AddWrites(c)[1].chat = c /\ AddWrites(c)[1].op \in Creates
    BY <2>1, AddWritesFacts
  <2> QED
    BY <2>2, <2>3 DEF Creating
<1>4. ASSUME NEW x \in Device, NEW k \in Chat
      PROVE  Creating(x, k)' <=> Creating(x, k) \/ (x = d /\ k = c)
  <2>1. Creating(x, k) => Creating(x, k)'
    BY <1>1 DEF Creating
  <2>2. Creating(x, k)' => Creating(x, k) \/ (x = d /\ k = c)
    BY <1>2 DEF Creating
  <2> QED
    BY <1>3, <2>1, <2>2
<1>5. ASSUME NEW o, NEW k \in Chat, \E p \in Creates : [op |-> o, chat |-> k] = [op |-> p, chat |-> c]
      PROVE  o \in Creates /\ k = c
  BY <1>5
<1>6. ASSUME NEW x \in Device, NEW k \in Chat
      PROVE  Deleting(x, k)' <=> Deleting(x, k)
  <2>1. Deleting(x, k) => Deleting(x, k)'
    BY <1>1 DEF Deleting
  <2>2. ~ \E o \in Creates : [op |-> "deleteEntry", chat |-> k] = [op |-> o, chat |-> c]
    BY <1>5 DEF Creates
  <2>3. Deleting(x, k)' => Deleting(x, k)
    BY <1>2, <2>2 DEF Deleting
  <2> QED
    BY <2>1, <2>3
<1>7. ASSUME NEW k \in Chat
      PROVE  /\ Pending("deleteRoom", k)' <=> Pending("deleteRoom", k)
             /\ Pending("room", k)' => Pending("room", k) \/ k = c
             /\ Pending("room", k) => Pending("room", k)'
  <2>1. \A op : Pending(op, k) => Pending(op, k)'
    BY <1>1 DEF Pending
  <2>2. ~ \E o \in Creates : [op |-> "deleteRoom", chat |-> k] = [op |-> o, chat |-> c]
    BY <1>5 DEF Creates
  <2>3. Pending("deleteRoom", k)' => Pending("deleteRoom", k)
    BY <1>2, <2>2 DEF Pending
  <2>4. k # c => ~ \E o \in Creates : [op |-> "room", chat |-> k] = [op |-> o, chat |-> c]
    BY <1>5
  <2>5. Pending("room", k)' => Pending("room", k) \/ k = c
    BY <1>2, <2>4 DEF Pending
  <2> QED
    BY <2>1, <2>3, <2>5
<1> QED
  BY <1>4, <1>6, <1>7

LEMMA AddKeeps ==
    ASSUME IInv, NEW d \in Device, NEW n \in Name, AddChat(d, n)
    PROVE  IInv' /\ \A x \in Device : Onward(x)
<1>1. PICK c \in Chat :
         /\ nameOf[c] = ""
         /\ nameOf' = [nameOf EXCEPT ![c] = n]
         /\ Queue(d, AddWrites(c))
         /\ chatInformationArray' =
              [chatInformationArray EXCEPT ![d] = Append(@, [chat |-> c, firebaseID |-> "id"])]
  BY DEF AddChat, AddWrites
<1>2. /\ pins' = [pins EXCEPT ![d] = @ \cup {n}]
      /\ UNCHANGED <<chats, rooms, view, loads, failed, mainQueue, observers>>
  BY DEF AddChat
<1>3. TypeOK /\ Collection
  BY DEF IInv
<1>4. n # "" /\ n \in Name
  BY ListAssumption
<1>10. /\ \A x \in Device : \A i \in DOMAIN outbox[x] :
             /\ i \in Nat /\ outbox[x][i].chat # c
             /\ i \in DOMAIN outbox'[x] /\ outbox'[x][i] = outbox[x][i]
       /\ \A x \in Device : \A i \in DOMAIN outbox'[x] : i \notin DOMAIN outbox[x] =>
             outbox'[x][i].chat = c
  <2>1. \A x \in Device : \A i \in DOMAIN outbox[x] :
           i \in Nat /\ i \in DOMAIN outbox'[x] /\ outbox'[x][i] = outbox[x][i]
    BY <1>1, <1>3, AddedWrites
  <2>2. \A x \in Device : \A i \in DOMAIN outbox[x] : outbox[x][i].chat # c
    BY <1>1, <1>3 DEF Collection, Named
  <2>3. \A x \in Device : \A i \in DOMAIN outbox'[x] : i \notin DOMAIN outbox[x] =>
           outbox'[x][i].chat = c
    <3>1. \A x \in Device : \A i \in DOMAIN outbox'[x] : i \notin DOMAIN outbox[x] =>
             x = d /\ outbox'[x][i].chat = c /\ outbox'[x][i].op \in Creates
      BY <1>1, <1>3, AddedIs
    <3> QED
      BY <3>1
  <2> QED
    BY <2>1, <2>2, <2>3
<1>21. \A x \in Device : \A i \in DOMAIN outbox'[x] : i \notin DOMAIN outbox[x] =>
          x = d /\ outbox'[x][i].chat = c /\ outbox'[x][i].op \in Creates
  BY <1>1, <1>3, AddedIs
<1>22. \A x \in Device : \A i \in DOMAIN outbox'[x] : i \notin DOMAIN outbox[x] => Sent(x, i, c)'
  BY <1>1, <1>3, AddedOrder
<1>5. /\ \A x \in Device, k \in Chat :
            /\ Creating(x, k)' <=> Creating(x, k) \/ (x = d /\ k = c)
            /\ Deleting(x, k)' <=> Deleting(x, k)
      /\ \A k \in Chat : /\ Pending("deleteRoom", k)' <=> Pending("deleteRoom", k)
                         /\ Pending("room", k)' => Pending("room", k) \/ k = c
                         /\ Pending("room", k) => Pending("room", k)'
  BY <1>1, <1>3, AddEffect
<1>6. nameOf'[c] = n /\ \A k \in Chat : k # c => nameOf'[k] = nameOf[k]
  BY <1>1, <1>3 DEF TypeOK
<1>7. /\ chats[c] = "absent" /\ c \notin rooms
      /\ \A x \in Device : ~ Creating(x, c) /\ ~ Deleting(x, c)
      /\ ~ Pending("deleteRoom", c)
  <2>1. /\ chats[c] = "absent" /\ c \notin rooms
        /\ \A x \in Device : \A i \in DOMAIN outbox[x] : outbox[x][i].chat # c
    BY <1>1, <1>3 DEF Collection, Named
  <2>2. \A x \in Device : ~ Creating(x, c)
    BY <2>1 DEF Creating
  <2>3. \A op : [op |-> op, chat |-> c].chat = c
    OBVIOUS
  <2>4. \A x \in Device : ~ Deleting(x, c)
    BY <2>1, <2>3 DEF Deleting
  <2>5. ~ Pending("deleteRoom", c)
    BY <2>1, <2>3 DEF Pending
  <2> QED
    BY <2>1, <2>2, <2>4, <2>5
<1>8. TypeOK'
  <2>1. outbox' \in [Device -> Seq(Write)]
    BY <1>1, <1>3, AddedWrites
  <2>2. nameOf' \in [Chat -> Name \cup {""}]
    BY <1>1, <1>3 DEF TypeOK
  <2>3. chatInformationArray' \in [Device -> Seq(Entry)]
    <3>1. [chat |-> c, firebaseID |-> "id"] \in Entry
      BY DEF Entry, Id
    <3>2. Append(chatInformationArray[d], [chat |-> c, firebaseID |-> "id"]) \in Seq(Entry)
      BY <1>3, <3>1, AppendProperties DEF TypeOK
    <3> QED
      BY <1>1, <1>3, <3>2 DEF TypeOK
  <2>4. pins' \in [Device -> SUBSET Name]
    BY <1>2, <1>3 DEF TypeOK
  <2> QED
    BY <1>2, <1>3, <2>1, <2>2, <2>3, <2>4 DEF TypeOK
<1>9. Collection'
  <2>1. Named'
    <3> SUFFICES ASSUME NEW k \in Chat, nameOf'[k] = ""
                 PROVE  /\ chats[k] = "absent" /\ k \notin rooms
                        /\ \A x \in Device : \A i \in DOMAIN outbox'[x] : outbox'[x][i].chat # k
      BY <1>2 DEF Named
    <3>1. k # c /\ nameOf[k] = ""
      BY <1>4, <1>6
    <3>2. /\ chats[k] = "absent" /\ k \notin rooms
          /\ \A x \in Device : \A i \in DOMAIN outbox[x] : outbox[x][i].chat # k
      BY <1>3, <3>1 DEF Collection, Named
    <3>3. \A x \in Device : \A i \in DOMAIN outbox'[x] : outbox'[x][i].chat # k
      <4> SUFFICES ASSUME NEW x \in Device, NEW i \in DOMAIN outbox'[x]
                   PROVE  outbox'[x][i].chat # k
        OBVIOUS
      <4>1. i \in DOMAIN outbox[x] => outbox'[x][i] = outbox[x][i] /\ outbox[x][i].chat # k
        BY <1>10, <3>2
      <4>2. i \notin DOMAIN outbox[x] => outbox'[x][i].chat = c
        BY <1>10
      <4> QED
        BY <3>1, <4>1, <4>2
    <3> QED
      BY <3>2, <3>3
  <2>2. WriteOrder'
    <3> SUFFICES ASSUME NEW x \in Device, NEW i \in DOMAIN outbox'[x]
                 PROVE  /\ outbox'[x][i].op = "room" =>
                             /\ i + 1 \in DOMAIN outbox'[x]
                             /\ outbox'[x][i + 1] = [op |-> "entry", chat |-> outbox'[x][i].chat]
                        /\ outbox'[x][i].op = "entry" =>
                             /\ i + 1 \in DOMAIN outbox'[x]
                             /\ outbox'[x][i + 1] = [op |-> "setID", chat |-> outbox'[x][i].chat]
                        /\ outbox'[x][i].op = "deleteEntry" =>
                             /\ i + 1 \in DOMAIN outbox'[x]
                             /\ outbox'[x][i + 1] = [op |-> "deleteRoom", chat |-> outbox'[x][i].chat]
                        /\ outbox'[x][i].op \in Creates => \A j \in DOMAIN outbox'[x] :
                             /\ outbox'[x][j] = outbox'[x][i] => j = i
                             /\ outbox'[x][j] = [op |-> "deleteEntry", chat |-> outbox'[x][i].chat] => i < j
      BY DEF WriteOrder
    <3>1. CASE i \in DOMAIN outbox[x]
      <4>1. /\ outbox[x][i].op = "room" =>
                 /\ i + 1 \in DOMAIN outbox[x]
                 /\ outbox[x][i + 1] = [op |-> "entry", chat |-> outbox[x][i].chat]
            /\ outbox[x][i].op = "entry" =>
                 /\ i + 1 \in DOMAIN outbox[x]
                 /\ outbox[x][i + 1] = [op |-> "setID", chat |-> outbox[x][i].chat]
            /\ outbox[x][i].op = "deleteEntry" =>
                 /\ i + 1 \in DOMAIN outbox[x]
                 /\ outbox[x][i + 1] = [op |-> "deleteRoom", chat |-> outbox[x][i].chat]
            /\ outbox[x][i].op \in Creates => \A j \in DOMAIN outbox[x] :
                 /\ outbox[x][j] = outbox[x][i] => j = i
                 /\ outbox[x][j] = [op |-> "deleteEntry", chat |-> outbox[x][i].chat] => i < j
        BY <1>3, <3>1, Zenon DEF Collection, WriteOrder
      <4>2. /\ outbox'[x][i] = outbox[x][i] /\ outbox[x][i].chat # c
            /\ \A j \in DOMAIN outbox[x] : j \in DOMAIN outbox'[x] /\ outbox'[x][j] = outbox[x][j]
        BY <1>10, <3>1
      <4>3. ASSUME NEW j \in DOMAIN outbox'[x], j \notin DOMAIN outbox[x]
            PROVE  outbox'[x][j].chat = c
        BY <1>10, <4>3
      <4>4. ASSUME outbox[x][i].op \in Creates, NEW j \in DOMAIN outbox'[x]
            PROVE  /\ outbox'[x][j] = outbox'[x][i] => j = i
                   /\ outbox'[x][j] = [op |-> "deleteEntry", chat |-> outbox'[x][i].chat] => i < j
        <5>1. CASE j \in DOMAIN outbox[x]
          BY <4>1, <4>2, <4>4, <5>1
        <5>2. CASE j \notin DOMAIN outbox[x]
          <6>1. outbox'[x][j].chat = c /\ outbox'[x][i].chat # c
            BY <4>2, <4>3, <5>2
          <6> QED
            BY <6>1
        <5> QED
          BY <5>1, <5>2
      <4> QED
        BY <4>1, <4>2, <4>4
    <3>2. CASE i \notin DOMAIN outbox[x]
      <4>1. outbox'[x][i].chat = c /\ outbox'[x][i].op \in Creates
        BY <1>21, <3>2
      <4>3. /\ outbox'[x][i].op = "room" =>
                   i + 1 \in DOMAIN outbox'[x] /\ outbox'[x][i + 1] = [op |-> "entry", chat |-> c]
            /\ outbox'[x][i].op = "entry" =>
                   i + 1 \in DOMAIN outbox'[x] /\ outbox'[x][i + 1] = [op |-> "setID", chat |-> c]
        BY <1>22, <3>2 DEF Sent
      <4>4. \A j \in DOMAIN outbox'[x] : outbox'[x][j] = outbox'[x][i] => j = i
        BY <1>22, <3>2 DEF Sent
      <4>2. \A j \in DOMAIN outbox'[x] : outbox'[x][j] # [op |-> "deleteEntry", chat |-> c]
        <5> SUFFICES ASSUME NEW j \in DOMAIN outbox'[x], outbox'[x][j] = [op |-> "deleteEntry", chat |-> c]
                     PROVE  FALSE
          OBVIOUS
        <5>1. outbox'[x][j].chat = c /\ outbox'[x][j].op = "deleteEntry"
          OBVIOUS
        <5>2. j \notin DOMAIN outbox[x]
          BY <1>10, <5>1
        <5>3. outbox'[x][j].op \in Creates
          BY <1>21, <5>2
        <5> QED
          BY <5>1, <5>3 DEF Creates
      <4> QED
        BY <4>1, <4>2, <4>3, <4>4 DEF Creates
    <3> QED
      BY <3>1, <3>2
  <2>3. OneCreator'
    BY <1>3, <1>5, <1>7 DEF Collection, OneCreator
  <2>4. IdIsLast'
    BY <1>2, <1>3, <1>5, <1>7 DEF Collection, IdIsLast
  <2>5. RoomGoesToo'
    <3> SUFFICES ASSUME NEW k \in Chat, nameOf'[k] # "", chats[k] = "absent",
                        \A x \in Device : ~ Creating(x, k)'
                 PROVE  Pending("deleteRoom", k)' \/ k \notin rooms
      BY <1>2 DEF RoomGoesToo
    <3>1. k # c /\ \A x \in Device : ~ Creating(x, k)
      BY <1>5
    <3> QED
      BY <1>3, <1>5, <1>6, <3>1 DEF Collection, RoomGoesToo
  <2>6. RoomIsFirst'
    <3> SUFFICES ASSUME NEW k \in Chat, NEW x \in Device, NEW i \in DOMAIN outbox'[x],
                        outbox'[x][i] = [op |-> "room", chat |-> k]
                 PROVE  /\ chats[k] = "absent"
                        /\ \A e \in Device : \A j \in DOMAIN outbox'[e] :
                              outbox'[e][j] = [op |-> "deleteRoom", chat |-> k] => e = x /\ i < j
      BY <1>2 DEF RoomIsFirst
    <3>1. outbox'[x][i].chat = k
      OBVIOUS
    <3>2. CASE k = c
      <4>1. ~ Pending("deleteRoom", k)'
        BY <1>5, <1>7, <3>2
      <4> QED
        BY <1>7, <3>2, <4>1 DEF Pending
    <3>3. CASE k # c
      <4>1. ASSUME NEW e \in Device, NEW j \in DOMAIN outbox'[e], NEW o,
                   outbox'[e][j] = [op |-> o, chat |-> k]
            PROVE  j \in DOMAIN outbox[e] /\ outbox[e][j] = [op |-> o, chat |-> k]
        <5>1. outbox'[e][j].chat # c
          BY <3>3, <4>1
        <5>2. j \in DOMAIN outbox[e]
          BY <1>10, <5>1
        <5> QED
          BY <1>10, <4>1, <5>2
      <4>2. i \in DOMAIN outbox[x] /\ outbox[x][i] = [op |-> "room", chat |-> k]
        BY <4>1
      <4>3. /\ chats[k] = "absent"
            /\ \A e \in Device : \A j \in DOMAIN outbox[e] :
                  outbox[e][j] = [op |-> "deleteRoom", chat |-> k] => e = x /\ i < j
        BY <1>3, <4>2 DEF Collection, RoomIsFirst
      <4> QED
        BY <4>1, <4>3
    <3> QED
      BY <3>2, <3>3
  <2> QED
    BY <2>1, <2>2, <2>3, <2>4, <2>5, <2>6 DEF Collection
<1>11. ASSUME NEW x \in Device
       PROVE  Onward(x)
  <2>1. \A k \in Chat : nameOf[k] # "" => k # c /\ nameOf'[k] = nameOf[k]
    BY <1>1, <1>6
  <2>2. ASSUME NEW k \in Chat, Ended(x, k)
        PROVE  Ended(x, k)'
    <3>1. k # c /\ nameOf'[k] # ""
      BY <1>6, <2>1, <2>2 DEF Ended
    <3>2. \A y \in Device : (Creating(y, k)' <=> Creating(y, k)) /\ (Deleting(y, k)' <=> Deleting(y, k))
      BY <1>5, <3>1
    <3> QED
      BY <1>2, <2>2, <3>1, <3>2 DEF Ended
  <2>3. ASSUME NEW k \in Chat, k \in Visible(x)
        PROVE  k \in Visible(x)'
    <3>1. ~ Deleting(x, k) /\ (Creating(x, k) \/ chats[k] # "absent")
      BY <1>3, <2>3, VisibleIff DEF Collection
    <3>2. WriteOrder'
      BY <1>9 DEF Collection
    <3> QED
      BY <1>2, <1>5, <1>8, <3>1, <3>2, VisibleIffNext
  <2>4. ASSUME NEW k \in Chat, nameOf[k] # "", Whole(k)'
        PROVE  Whole(k)
    <3>1. k # c /\ nameOf'[k] = nameOf[k]
      BY <2>1, <2>4
    <3>2. /\ k \in rooms \/ Pending("room", k)
          /\ ~ Pending("deleteRoom", k)
      BY <1>2, <1>5, <2>4, <3>1 DEF Whole
    <3>3. ASSUME NEW y \in Chat \ {k}
          PROVE  nameOf[y] # nameOf[k]
      <4>1. nameOf'[y] # nameOf'[k]
        BY <2>4 DEF Whole
      <4> QED
        BY <1>1, <1>6, <2>4, <3>1, <4>1
    <3> QED
      BY <3>2, <3>3 DEF Whole
  <2>5. \A k \in Chat, y \in Device : nameOf[k] # "" /\ Creating(y, k)' => Creating(y, k)
    BY <1>5, <2>1
  <2>6. \A k \in Chat : nameOf[k] # "" /\ Pending("room", k)' => Pending("room", k)
    BY <1>5, <2>1
  <2> QED
    BY <2>1, <2>2, <2>3, <2>4, <2>5, <2>6 DEF Onward
<1>12. ASSUME NEW x \in Device, x # d
       PROVE  ListGoesOn(x)
  <2>1. chatInformationArray'[x] = chatInformationArray[x] /\ pins'[x] = pins[x]
    BY <1>1, <1>2, <1>3, <1>12 DEF TypeOK
  <2> QED
    BY <1>3, <1>11, <2>1, ListStays DEF IInv
<1>13. ListGoesOn(d)
  <2> DEFINE list == chatInformationArray[d]
             new == [chat |-> c, firebaseID |-> "id"]
  <2>1. /\ list \in Seq(Entry) /\ Len(list) \in Nat /\ DOMAIN list = 1..Len(list) /\ new \in Entry
        /\ chatInformationArray'[d] = Append(list, new)
        /\ pins'[d] = pins[d] \cup {n}
    <3>1. new \in Entry
      BY DEF Entry, Id
    <3> QED
      BY <1>1, <1>2, <1>3, <3>1, DeviceTypes DEF TypeOK
  <2>2. /\ DOMAIN chatInformationArray'[d] = 1..(Len(list) + 1)
        /\ \A i \in DOMAIN list : i \in DOMAIN chatInformationArray'[d] /\ chatInformationArray'[d][i] = list[i]
        /\ Len(list) + 1 \in DOMAIN chatInformationArray'[d] /\ chatInformationArray'[d][Len(list) + 1] = new
        /\ \A i \in DOMAIN chatInformationArray'[d] : i \in DOMAIN list \/ i = Len(list) + 1
    BY <2>1, AppendProperties
  <2> HIDE DEF list
  <2>3. InList(d)' = InList(d) \cup {new}
    <3>1. \A e : e \in InList(d)' <=> e \in InList(d) \cup {new}
      BY <2>2 DEF InList, list
    <3> QED
      BY <3>1
  <2>4. \A e \in InList(d) : e \in Held(d) /\ e.chat \in Chat /\ nameOf[e.chat] # ""
    BY <1>3, DeviceTypes DEF Held, IInv, DeviceOf, Heard
  <2>5. ASSUME NEW e \in InList(d)'
        PROVE  nameOf'[e.chat] # ""
    <3>1. CASE e \in InList(d)
      BY <1>1, <1>6, <2>4, <3>1
    <3>2. CASE e = new
      BY <1>4, <1>6, <3>2
    <3> QED
      BY <2>3, <3>1, <3>2
  <2>6. ASSUME NEW e \in InList(d)', NEW y \in Device
        PROVE  /\ e.firebaseID = "id" /\ Creating(y, e.chat)' => y = d
               /\ e.firebaseID = "placeholder" => ~ Pending("room", e.chat)'
    <3>1. CASE e \in InList(d)
      <4>1. /\ e.firebaseID = "id" /\ Creating(y, e.chat) => y = d
            /\ e.firebaseID = "placeholder" => ~ Pending("room", e.chat)
        BY <2>4, <3>1 DEF IInv, DeviceOf, IdIsTold
      <4>2. e.chat \in Chat /\ e.chat # c
        BY <1>1, <2>4, <3>1
      <4> QED
        BY <1>5, <4>1, <4>2
    <3>2. CASE e = new
      BY <1>5, <1>7, <3>2
    <3> QED
      BY <2>3, <3>1, <3>2
  <2>7. ASSUME NEW k \in Chat
        PROVE  Occurrences(d, k)' <= Occurrences(d, k) \/ Occurrences(d, k)' <= 1
    <3>1. Occurrences(d, k)' = Count(Append(list, new), k) /\ Occurrences(d, k) = Count(list, k)
      BY <1>3, <1>8, <2>1, OccurrencesIsCount, OccurrencesIsCountNext DEF list
    <3>2. CASE k # c
      <4>1. \A i : i \in Places(Append(list, new), k) <=> i \in Places(list, k)
        BY <2>1, <2>2, <3>2 DEF Places
      <4>2. Places(Append(list, new), k) = Places(list, k)
        BY <4>1
      <4> QED
        BY <1>3, <3>1, <4>2, OccurrencesIsCount DEF Count
    <3>3. CASE k = c
      <4>1. \A i \in DOMAIN list : list[i].chat # c
        BY <1>1, <2>4 DEF InList, list
      <4>2. \A i \in Places(Append(list, new), k) : i = Len(list) + 1
        BY <2>1, <2>2, <3>3, <4>1 DEF Places
      <4>3. Places(Append(list, new), k) \subseteq {Len(list) + 1}
        BY <4>2
      <4>4. IsFiniteSet({Len(list) + 1}) /\ Cardinality({Len(list) + 1}) = 1
        BY FS_Singleton
      <4> QED
        BY <3>1, <4>3, <4>4, FS_Subset DEF Count
    <3> QED
      BY <3>2, <3>3
  <2>8. ASSUME NEW k \in Chat, k \in OnMap(d)
        PROVE  k \in OnMap(d)'
    <3>1. PICK i \in DOMAIN list : list[i].chat = k
      BY <2>8 DEF OnMap, Listed, list
    <3>2. /\ list[i] \in InList(d) /\ list[i].chat \in Chat /\ nameOf[list[i].chat] # ""
      BY <2>4, <3>1 DEF InList, list
    <3>3. nameOf'[k] = nameOf[k]
      BY <1>1, <1>6, <3>1, <3>2
    <3>4. k \in Listed(d)'
      BY <2>1, <2>2, <3>1 DEF Listed, list
    <3>5. nameOf[k] \in pins[d] /\ pins[d] \subseteq pins'[d]
      BY <2>1, <2>8 DEF OnMap
    <3> QED
      BY <3>3, <3>4, <3>5 DEF OnMap
  <2> QED
    BY <2>5, <2>6, <2>7, <2>8 DEF ListGoesOn
<1>14. ASSUME NEW x \in Device
       PROVE  DeviceOf(x)'
  <2>1. /\ view'[x] = view[x] /\ mainQueue'[x] = mainQueue[x] /\ loads'[x] = loads[x]
        /\ failed'[x] = failed[x] /\ observers'[x] = observers[x]
    BY <1>2
  <2>2. DeviceOf(x)
    BY DEF IInv
  <2>3. ListGoesOn(x)
    BY <1>12, <1>13
  <2> QED
    BY <1>3, <1>8, <1>11, <2>1, <2>2, <2>3, DeviceGoesOn
<1> QED
  BY <1>8, <1>9, <1>11, <1>14 DEF IInv

-----------------------------------------------------------------------------
(* A chat is deleted *)

EntryGoes(g) == [op |-> "deleteEntry", chat |-> g]
RoomGoes(g) == [op |-> "deleteRoom", chat |-> g]

DeleteWrites(g, id) ==
    (IF id = "placeholder" THEN << >> ELSE <<EntryGoes(g)>>) \o <<RoomGoes(g)>>

LEMMA DeleteWritesFacts ==
    ASSUME NEW g \in Chat, NEW id
    PROVE  /\ DeleteWrites(g, id) \in Seq(Write)
           /\ id = "placeholder" => DOMAIN DeleteWrites(g, id) = 1..1 /\ DeleteWrites(g, id)[1] = RoomGoes(g)
           /\ id # "placeholder" => /\ DOMAIN DeleteWrites(g, id) = 1..2
                                    /\ DeleteWrites(g, id)[1] = EntryGoes(g)
                                    /\ DeleteWrites(g, id)[2] = RoomGoes(g)
<1>1. EntryGoes(g) \in Write /\ RoomGoes(g) \in Write
  BY DEF EntryGoes, RoomGoes, Write
<1> DEFINE a == EntryGoes(g)
           b == RoomGoes(g)
<1>2. a \in Write /\ b \in Write
  BY <1>1
<1> HIDE DEF a, b
<1>3. << >> \o <<b>> = <<b>>
  BY <1>2
<1>4. <<a>> \o <<b>> \in Seq(Write) /\ DOMAIN (<<a>> \o <<b>>) = 1..2
      /\ (<<a>> \o <<b>>)[1] = a /\ (<<a>> \o <<b>>)[2] = b
  <2>1. <<a>> \in Seq(Write) /\ <<b>> \in Seq(Write) /\ Len(<<a>>) = 1 /\ Len(<<b>>) = 1
        /\ <<a>>[1] = a /\ <<b>>[1] = b
    BY <1>2
  <2> QED
    BY <2>1
<1>5. <<b>> \in Seq(Write) /\ DOMAIN <<b>> = 1..1 /\ <<b>>[1] = b
  BY <1>2
<1>7. CASE id = "placeholder"
  <2>1. DeleteWrites(g, id) = <<b>>
    BY <1>3, <1>7 DEF DeleteWrites, b
  <2> QED
    BY <1>5, <1>7, <2>1 DEF b
<1>8. CASE id # "placeholder"
  <2>1. DeleteWrites(g, id) = <<a>> \o <<b>>
    BY <1>8 DEF DeleteWrites, a, b
  <2> QED
    BY <1>4, <1>8, <2>1 DEF a, b
<1> QED
  BY <1>7, <1>8

\* A write of deleteChat among the others.
Removing(x, i, g, id) ==
    \/ outbox[x][i] = RoomGoes(g)
    \/ /\ outbox[x][i] = EntryGoes(g) /\ id # "placeholder"
       /\ i + 1 \in DOMAIN outbox[x] /\ outbox[x][i + 1] = RoomGoes(g)

LEMMA PlaceOfTwo ==
    \A L \in Nat, i \in Int :
        /\ i - L \in 1..1 => i - L = 1
        /\ i - L \in 1..2 => (i - L = 1 /\ i + 1 = L + 2) \/ i - L = 2
  OBVIOUS

\* Where the writes of deleteChat are in the outbox.
LEMMA DeletedWrites ==
    ASSUME TypeOK, NEW d \in Device, NEW g \in Chat, NEW id, Queue(d, DeleteWrites(g, id))
    PROVE  /\ outbox' \in [Device -> Seq(Write)]
           /\ \A x \in Device : \A i \in DOMAIN outbox[x] :
                 i \in Nat /\ i \in DOMAIN outbox'[x] /\ outbox'[x][i] = outbox[x][i]
           /\ \A x \in Device : \A i \in DOMAIN outbox'[x] : i \notin DOMAIN outbox[x] =>
                 x = d /\ Removing(x, i, g, id)'
           /\ \A i \in DOMAIN outbox'[d], j \in DOMAIN outbox[d] : i \notin DOMAIN outbox[d] => j < i
           /\ \E i \in DOMAIN outbox'[d] : outbox'[d][i] = RoomGoes(g)
           /\ id # "placeholder" => \E i \in DOMAIN outbox'[d] : outbox'[d][i] = EntryGoes(g)
<1> DEFINE ws == DeleteWrites(g, id)
           L == Len(outbox[d])
<1>1. /\ ws \in Seq(Write)
      /\ id = "placeholder" => DOMAIN ws = 1..1 /\ ws[1] = RoomGoes(g)
      /\ id # "placeholder" => DOMAIN ws = 1..2 /\ ws[1] = EntryGoes(g) /\ ws[2] = RoomGoes(g)
  BY DeleteWritesFacts
<1>2. Queue(d, ws)
  OBVIOUS
<1> HIDE DEF ws
<1>3. /\ outbox' \in [Device -> Seq(Write)]
      /\ \A x \in Device : DOMAIN outbox[x] = 1..Len(outbox[x]) /\ Len(outbox[x]) \in Nat
      /\ DOMAIN ws = 1..Len(ws) /\ Len(ws) \in Nat
      /\ DOMAIN outbox'[d] = 1..(Len(outbox[d]) + Len(ws))
      /\ \A x \in Device : \A i \in DOMAIN outbox[x] :
            i \in Nat /\ i \in DOMAIN outbox'[x] /\ outbox'[x][i] = outbox[x][i]
      /\ \A k \in DOMAIN ws : /\ Len(outbox[d]) + k \in DOMAIN outbox'[d]
                              /\ outbox'[d][Len(outbox[d]) + k] = ws[k]
      /\ \A x \in Device : \A i \in DOMAIN outbox'[x] :
            \/ i \in DOMAIN outbox[x]
            \/ /\ x = d /\ i \in Int /\ i > Len(outbox[d]) /\ i - Len(outbox[d]) \in DOMAIN ws
               /\ outbox'[x][i] = ws[i - Len(outbox[d])]
  BY <1>1, <1>2, QueueOutbox
<1>4. \A k \in DOMAIN ws : L + k \in DOMAIN outbox'[d] /\ outbox'[d][L + k] = ws[k]
  BY <1>3
<1>5. \A x \in Device : \A i \in DOMAIN outbox'[x] : i \notin DOMAIN outbox[x] =>
         x = d /\ i \in Int /\ i > L /\ i - L \in DOMAIN ws /\ outbox'[x][i] = ws[i - L]
  BY <1>3
<1>6. L \in Nat /\ DOMAIN outbox[d] = 1..L
  BY <1>3
<1> HIDE DEF L
<1>7. ASSUME NEW x \in Device, NEW i \in DOMAIN outbox'[x], i \notin DOMAIN outbox[x]
      PROVE  x = d /\ Removing(x, i, g, id)'
  <2>1. x = d /\ i \in Int /\ i - L \in DOMAIN ws /\ outbox'[x][i] = ws[i - L]
    BY <1>5, <1>7
  <2>2. CASE id = "placeholder"
    <3>1. i - L = 1
      BY <1>1, <1>6, <2>1, <2>2, PlaceOfTwo
    <3> QED
      BY <1>1, <2>1, <2>2, <3>1 DEF Removing
  <2>3. CASE id # "placeholder"
    <3>1. (i - L = 1 /\ i + 1 = L + 2) \/ i - L = 2
      BY <1>1, <1>6, <2>1, <2>3, PlaceOfTwo
    <3>2. L + 2 \in DOMAIN outbox'[d] /\ outbox'[d][L + 2] = ws[2]
      <4>1. 2 \in DOMAIN ws
        BY <1>1, <2>3
      <4> QED
        BY <1>4, <4>1
    <3>3. CASE i - L = 1 /\ i + 1 = L + 2
      <4>1. outbox'[x][i] = EntryGoes(g)
        BY <1>1, <2>1, <2>3, <3>3
      <4>2. i + 1 \in DOMAIN outbox'[x] /\ outbox'[x][i + 1] = RoomGoes(g)
        BY <1>1, <2>1, <2>3, <3>2, <3>3
      <4> QED
        BY <2>1, <2>3, <4>1, <4>2 DEF Removing
    <3>4. CASE i - L = 2
      <4>1. outbox'[x][i] = RoomGoes(g)
        BY <1>1, <2>1, <2>3, <3>4
      <4> QED
        BY <2>1, <4>1 DEF Removing
    <3> QED
      BY <3>1, <3>3, <3>4
  <2> QED
    BY <2>2, <2>3
<1>8. ASSUME NEW i \in DOMAIN outbox'[d], NEW j \in DOMAIN outbox[d], i \notin DOMAIN outbox[d]
      PROVE  j < i
  <2>1. i \in Int /\ i > L
    BY <1>5, <1>8
  <2>2. j \in Int /\ j <= L
    BY <1>6
  <2> QED
    BY <1>6, <2>1, <2>2
<1>9. \E i \in DOMAIN outbox'[d] : outbox'[d][i] = RoomGoes(g)
  <2>1. \E k \in DOMAIN ws : ws[k] = RoomGoes(g)
    BY <1>1
  <2> QED
    BY <1>4, <2>1
<1>10. id # "placeholder" => \E i \in DOMAIN outbox'[d] : outbox'[d][i] = EntryGoes(g)
  <2>1. id # "placeholder" => \E k \in DOMAIN ws : ws[k] = EntryGoes(g)
    BY <1>1
  <2> QED
    BY <1>4, <2>1
<1> QED
  BY <1>3, <1>7, <1>8, <1>9, <1>10

LEMMA DeleteEffect ==
    ASSUME TypeOK, NEW d \in Device, NEW g \in Chat, NEW id, Queue(d, DeleteWrites(g, id))
    PROVE  /\ \A x \in Device, k \in Chat :
                 /\ Creating(x, k)' <=> Creating(x, k)
                 /\ Deleting(x, k) => Deleting(x, k)'
                 /\ Deleting(x, k)' => Deleting(x, k) \/ (x = d /\ k = g /\ id # "placeholder")
           /\ id # "placeholder" => Deleting(d, g)'
           /\ Pending("deleteRoom", g)'
           /\ \A k \in Chat : /\ Pending("deleteRoom", k) => Pending("deleteRoom", k)'
                              /\ Pending("deleteRoom", k)' => Pending("deleteRoom", k) \/ k = g
                              /\ Pending("room", k)' <=> Pending("room", k)
<1>1. \A x \in Device : \A i \in DOMAIN outbox[x] : i \in DOMAIN outbox'[x] /\ outbox'[x][i] = outbox[x][i]
  BY DeletedWrites
<1>2. \A x \in Device : \A i \in DOMAIN outbox'[x] : i \notin DOMAIN outbox[x] =>
         x = d /\ Removing(x, i, g, id)'
  BY DeletedWrites
<1>3. \A x \in Device : \A i \in DOMAIN outbox'[x] :
         \/ i \in DOMAIN outbox[x] /\ outbox'[x][i] = outbox[x][i]
         \/ /\ x = d
            /\ outbox'[x][i] = RoomGoes(g) \/ (outbox'[x][i] = EntryGoes(g) /\ id # "placeholder")
  <2>1. ASSUME NEW x \in Device, NEW i \in DOMAIN outbox'[x], i \notin DOMAIN outbox[x]
        PROVE  /\ x = d
               /\ outbox'[x][i] = RoomGoes(g) \/ (outbox'[x][i] = EntryGoes(g) /\ id # "placeholder")
    <3>1. x = d /\ Removing(x, i, g, id)'
      BY <1>2, <2>1
    <3> QED
      BY <3>1 DEF Removing
  <2> QED
    BY <1>1, <2>1
<1>4. /\ \A k, o : [op |-> o, chat |-> k] = RoomGoes(g) => o = "deleteRoom" /\ k = g
      /\ \A k, o : [op |-> o, chat |-> k] = EntryGoes(g) => o = "deleteEntry" /\ k = g
      /\ RoomGoes(g).op = "deleteRoom" /\ EntryGoes(g).op = "deleteEntry"
  BY DEF RoomGoes, EntryGoes
<1>5. \A x \in Device, k \in Chat : Creating(x, k)' <=> Creating(x, k)
  <2> SUFFICES ASSUME NEW x \in Device, NEW k \in Chat
               PROVE  Creating(x, k)' <=> Creating(x, k)
    OBVIOUS
  <2>1. Creating(x, k) => Creating(x, k)'
    BY <1>1 DEF Creating
  <2>2. Creating(x, k)' => Creating(x, k)
    BY <1>3, <1>4 DEF Creating, Creates
  <2> QED
    BY <2>1, <2>2
<1>6. \A x \in Device, k \in Chat : Deleting(x, k) => Deleting(x, k)'
  BY <1>1 DEF Deleting
<1>7. \A x \in Device, k \in Chat :
         Deleting(x, k)' => Deleting(x, k) \/ (x = d /\ k = g /\ id # "placeholder")
  <2> SUFFICES ASSUME NEW x \in Device, NEW k \in Chat, Deleting(x, k)'
               PROVE  Deleting(x, k) \/ (x = d /\ k = g /\ id # "placeholder")
    OBVIOUS
  <2>1. PICK i \in DOMAIN outbox'[x] : outbox'[x][i] = [op |-> "deleteEntry", chat |-> k]
    BY DEF Deleting
  <2>2. \/ i \in DOMAIN outbox[x] /\ outbox'[x][i] = outbox[x][i]
        \/ /\ x = d
           /\ outbox'[x][i] = RoomGoes(g) \/ (outbox'[x][i] = EntryGoes(g) /\ id # "placeholder")
    BY <1>3
  <2> QED
    BY <1>4, <2>1, <2>2 DEF Deleting
<1>8. id # "placeholder" => Deleting(d, g)'
  <2>1. id # "placeholder" => \E i \in DOMAIN outbox'[d] : outbox'[d][i] = EntryGoes(g)
    BY DeletedWrites
  <2> QED
    BY <2>1 DEF Deleting, EntryGoes
<1>9. Pending("deleteRoom", g)'
  <2>1. \E i \in DOMAIN outbox'[d] : outbox'[d][i] = RoomGoes(g)
    BY DeletedWrites
  <2> QED
    BY <2>1 DEF Pending, RoomGoes
<1>10. \A o, k : Pending(o, k) => Pending(o, k)'
  BY <1>1 DEF Pending
<1>11. ASSUME NEW k \in Chat, NEW o \in {"deleteRoom", "room"}, Pending(o, k)'
       PROVE  Pending(o, k) \/ (o = "deleteRoom" /\ k = g)
  <2>1. PICK x \in Device : \E i \in DOMAIN outbox'[x] : outbox'[x][i] = [op |-> o, chat |-> k]
    BY <1>11 DEF Pending
  <2>2. PICK i \in DOMAIN outbox'[x] : outbox'[x][i] = [op |-> o, chat |-> k]
    BY <2>1
  <2>3. \/ i \in DOMAIN outbox[x] /\ outbox'[x][i] = outbox[x][i]
        \/ /\ x = d
           /\ outbox'[x][i] = RoomGoes(g) \/ (outbox'[x][i] = EntryGoes(g) /\ id # "placeholder")
    BY <1>3
  <2> QED
    BY <1>4, <2>2, <2>3 DEF Pending
<1>12. \A k \in Chat : /\ Pending("deleteRoom", k) => Pending("deleteRoom", k)'
                       /\ Pending("deleteRoom", k)' => Pending("deleteRoom", k) \/ k = g
                       /\ Pending("room", k)' <=> Pending("room", k)
  BY <1>10, <1>11
<1> QED
  BY <1>5, <1>6, <1>7, <1>8, <1>9, <1>12

LEMMA DeleteKeeps ==
    ASSUME IInv, NEW d \in Device, NEW n \in Name, DeleteChat(d, n)
    PROVE  IInv' /\ \A x \in Device : Onward(x)
<1>1. TypeOK /\ Collection
  BY DEF IInv
<1>2. PICK g \in Chat, id \in Id :
         /\ FirstNamed(chatInformationArray[d], n) \in InList(d)
         /\ FirstNamed(chatInformationArray[d], n).chat = g
         /\ FirstNamed(chatInformationArray[d], n).firebaseID = id
         /\ nameOf[g] = n
  <2> DEFINE e == FirstNamed(chatInformationArray[d], n)
  <2>1. e \in InList(d) /\ e \in Entry /\ e.chat \in Chat /\ nameOf[e.chat] = n
    BY <1>1, FirstNamedFacts DEF DeleteChat
  <2> HIDE DEF e
  <2>2. e.firebaseID \in Id
    BY <2>1 DEF Entry
  <2> QED
    BY <2>1, <2>2 DEF e
<1>3. Queue(d, DeleteWrites(g, id))
  BY <1>2 DEF DeleteChat, DeleteWrites, EntryGoes, RoomGoes
<1>4. chatInformationArray' =
         [chatInformationArray EXCEPT ![d] = Without(chatInformationArray[d], {g})]
  BY <1>2 DEF DeleteChat
<1>5. UNCHANGED <<chats, rooms, nameOf, view, loads, failed, mainQueue, observers, pins>>
  BY DEF DeleteChat, service
<1>6. /\ nameOf[g] # ""
      /\ id = "id" => \A x \in Device : Creating(x, g) => x = d
      /\ id = "placeholder" => ~ Pending("room", g)
  <2>1. n # ""
    BY ListAssumption
  <2>2. PICK e \in Held(d) : e.chat = g /\ e.firebaseID = id
    BY <1>2 DEF Held
  <2>3. IdIsTold(d)
    BY DEF IInv, DeviceOf
  <2> QED
    BY <1>2, <2>1, <2>2, <2>3 DEF IdIsTold
<1>7. id # "placeholder" => id = "id"
  BY DEF Id
<1>8. \A x \in Device : \A i \in DOMAIN outbox[x] :
         i \in Nat /\ i \in DOMAIN outbox'[x] /\ outbox'[x][i] = outbox[x][i]
  BY <1>1, <1>3, DeletedWrites
<1>9. \A x \in Device : \A i \in DOMAIN outbox'[x] : i \notin DOMAIN outbox[x] =>
         x = d /\ Removing(x, i, g, id)'
  BY <1>1, <1>3, DeletedWrites
<1>10. \A i \in DOMAIN outbox'[d], j \in DOMAIN outbox[d] : i \notin DOMAIN outbox[d] => j < i
  BY <1>1, <1>3, DeletedWrites
<1>11. \A x \in Device, k \in Chat :
          /\ Creating(x, k)' <=> Creating(x, k)
          /\ Deleting(x, k) => Deleting(x, k)'
          /\ Deleting(x, k)' => Deleting(x, k) \/ (x = d /\ k = g /\ id # "placeholder")
  BY <1>1, <1>3, DeleteEffect
<1>14. Pending("deleteRoom", g)'
  BY <1>1, <1>3, DeleteEffect
<1>12. \A k \in Chat : /\ Pending("deleteRoom", k) => Pending("deleteRoom", k)'
                       /\ Pending("deleteRoom", k)' => Pending("deleteRoom", k) \/ k = g
                       /\ Pending("room", k)' <=> Pending("room", k)
  BY <1>1, <1>3, DeleteEffect
<1>13. \A x \in Device : \A i \in DOMAIN outbox'[x] : i \notin DOMAIN outbox[x] =>
          /\ x = d /\ outbox'[x][i].chat = g
          /\ outbox'[x][i] = [op |-> "deleteRoom", chat |-> g] \/ outbox'[x][i] = [op |-> "deleteEntry", chat |-> g]
          /\ outbox'[x][i].op = "deleteEntry" =>
                /\ i + 1 \in DOMAIN outbox'[x]
                /\ outbox'[x][i + 1] = [op |-> "deleteRoom", chat |-> g]
  <2>1. ASSUME NEW x \in Device, NEW i \in DOMAIN outbox'[x], i \notin DOMAIN outbox[x]
        PROVE  /\ x = d /\ outbox'[x][i].chat = g
               /\ outbox'[x][i] = [op |-> "deleteRoom", chat |-> g] \/ outbox'[x][i] = [op |-> "deleteEntry", chat |-> g]
               /\ outbox'[x][i].op = "deleteEntry" =>
                     /\ i + 1 \in DOMAIN outbox'[x]
                     /\ outbox'[x][i + 1] = [op |-> "deleteRoom", chat |-> g]
    <3>1. x = d /\ Removing(x, i, g, id)'
      BY <1>9, <2>1
    <3>2. CASE outbox'[x][i] = RoomGoes(g)
      BY <3>1, <3>2 DEF RoomGoes
    <3>3. CASE /\ outbox'[x][i] = EntryGoes(g) /\ id # "placeholder"
               /\ i + 1 \in DOMAIN outbox'[x] /\ outbox'[x][i + 1] = RoomGoes(g)
      BY <3>1, <3>3 DEF RoomGoes, EntryGoes
    <3> QED
      BY <3>1, <3>2, <3>3 DEF Removing
  <2> QED
    BY <2>1
<1>20. TypeOK'
  <2>1. outbox' \in [Device -> Seq(Write)]
    BY <1>1, <1>3, DeletedWrites
  <2>2. chatInformationArray[d] \in Seq(Entry) /\ {g} \in SUBSET Chat
    BY <1>1, <1>2 DEF TypeOK
  <2>3. Without(chatInformationArray[d], {g}) \in Seq(Entry)
    BY <2>2, WithoutFacts
  <2>4. chatInformationArray' \in [Device -> Seq(Entry)]
    BY <1>1, <1>4, <2>3 DEF TypeOK
  <2> QED
    BY <1>1, <1>5, <2>1, <2>4 DEF TypeOK
<1>21. Named'
  <2> SUFFICES ASSUME NEW k \in Chat, nameOf[k] = "", NEW x \in Device, NEW i \in DOMAIN outbox'[x]
               PROVE  outbox'[x][i].chat # k
    BY <1>1, <1>5 DEF Collection, Named
  <2>1. CASE i \in DOMAIN outbox[x]
    <3>1. outbox[x][i].chat # k
      BY <1>1, <2>1 DEF Collection, Named
    <3> QED
      BY <1>8, <2>1, <3>1
  <2>2. CASE i \notin DOMAIN outbox[x]
    BY <1>6, <1>13, <2>2
  <2> QED
    BY <2>1, <2>2
<1>22. WriteOrder'
  <2> SUFFICES ASSUME NEW x \in Device, NEW i \in DOMAIN outbox'[x]
               PROVE  /\ outbox'[x][i].op = "room" =>
                           /\ i + 1 \in DOMAIN outbox'[x]
                           /\ outbox'[x][i + 1] = [op |-> "entry", chat |-> outbox'[x][i].chat]
                      /\ outbox'[x][i].op = "entry" =>
                           /\ i + 1 \in DOMAIN outbox'[x]
                           /\ outbox'[x][i + 1] = [op |-> "setID", chat |-> outbox'[x][i].chat]
                      /\ outbox'[x][i].op = "deleteEntry" =>
                           /\ i + 1 \in DOMAIN outbox'[x]
                           /\ outbox'[x][i + 1] = [op |-> "deleteRoom", chat |-> outbox'[x][i].chat]
                      /\ outbox'[x][i].op \in Creates => \A j \in DOMAIN outbox'[x] :
                           /\ outbox'[x][j] = outbox'[x][i] => j = i
                           /\ outbox'[x][j] = [op |-> "deleteEntry", chat |-> outbox'[x][i].chat] => i < j
    BY DEF WriteOrder
  <2>1. CASE i \in DOMAIN outbox[x]
    <3>1. /\ outbox[x][i].op = "room" =>
               /\ i + 1 \in DOMAIN outbox[x]
               /\ outbox[x][i + 1] = [op |-> "entry", chat |-> outbox[x][i].chat]
          /\ outbox[x][i].op = "entry" =>
               /\ i + 1 \in DOMAIN outbox[x]
               /\ outbox[x][i + 1] = [op |-> "setID", chat |-> outbox[x][i].chat]
          /\ outbox[x][i].op = "deleteEntry" =>
               /\ i + 1 \in DOMAIN outbox[x]
               /\ outbox[x][i + 1] = [op |-> "deleteRoom", chat |-> outbox[x][i].chat]
          /\ outbox[x][i].op \in Creates => \A j \in DOMAIN outbox[x] :
               /\ outbox[x][j] = outbox[x][i] => j = i
               /\ outbox[x][j] = [op |-> "deleteEntry", chat |-> outbox[x][i].chat] => i < j
      BY <1>1, <2>1, Zenon DEF Collection, WriteOrder
    <3>2. /\ outbox'[x][i] = outbox[x][i]
          /\ \A j \in DOMAIN outbox[x] : j \in DOMAIN outbox'[x] /\ outbox'[x][j] = outbox[x][j]
      BY <1>8, <2>1
    <3>3. ASSUME outbox[x][i].op \in Creates, NEW j \in DOMAIN outbox'[x]
          PROVE  /\ outbox'[x][j] = outbox'[x][i] => j = i
                 /\ outbox'[x][j] = [op |-> "deleteEntry", chat |-> outbox'[x][i].chat] => i < j
      <4>1. CASE j \in DOMAIN outbox[x]
        BY <3>1, <3>2, <3>3, <4>1
      <4>2. CASE j \notin DOMAIN outbox[x]
        <5>1. x = d /\ (outbox'[x][j].op = "deleteRoom" \/ outbox'[x][j].op = "deleteEntry")
          BY <1>13, <4>2
        <5>2. outbox'[x][j] # outbox'[x][i]
          BY <3>2, <3>3, <5>1 DEF Creates
        <5>3. i < j
          BY <1>10, <2>1, <4>2, <5>1
        <5> QED
          BY <5>2, <5>3
      <4> QED
        BY <4>1, <4>2
    <3> QED
      BY <3>1, <3>2, <3>3
  <2>2. CASE i \notin DOMAIN outbox[x]
    <3>1. /\ outbox'[x][i].chat = g
          /\ outbox'[x][i] = [op |-> "deleteRoom", chat |-> g] \/ outbox'[x][i] = [op |-> "deleteEntry", chat |-> g]
          /\ outbox'[x][i].op = "deleteEntry" =>
                /\ i + 1 \in DOMAIN outbox'[x]
                /\ outbox'[x][i + 1] = [op |-> "deleteRoom", chat |-> g]
      BY <1>13, <2>2
    <3>2. outbox'[x][i].op = "deleteRoom" \/ outbox'[x][i].op = "deleteEntry"
      BY <3>1
    <3> QED
      BY <3>1, <3>2 DEF Creates
  <2> QED
    BY <2>1, <2>2
<1>23. OneCreator'
  <2> SUFFICES ASSUME NEW k \in Chat, NEW x \in Device, NEW y \in Device,
                      Creating(x, k)', Creating(y, k)' \/ Deleting(y, k)'
               PROVE  x = y
    BY DEF OneCreator
  <2>1. Creating(x, k)
    BY <1>11
  <2>2. CASE Creating(y, k) \/ Deleting(y, k)
    BY <1>1, <2>1, <2>2 DEF Collection, OneCreator
  <2>3. CASE y = d /\ k = g /\ id # "placeholder"
    BY <1>6, <1>7, <2>1, <2>3
  <2> QED
    BY <1>11, <2>2, <2>3
<1>24. RoomIsFirst'
  <2> SUFFICES ASSUME NEW k \in Chat, NEW x \in Device, NEW i \in DOMAIN outbox'[x],
                      outbox'[x][i] = [op |-> "room", chat |-> k]
               PROVE  /\ chats[k] = "absent"
                      /\ \A y \in Device : \A j \in DOMAIN outbox'[y] :
                            outbox'[y][j] = [op |-> "deleteRoom", chat |-> k] => y = x /\ i < j
    BY <1>5 DEF RoomIsFirst
  <2>1. outbox'[x][i].op = "room" /\ outbox'[x][i].chat = k
    OBVIOUS
  <2>2. i \in DOMAIN outbox[x]
    BY <1>13, <2>1
  <2>3. outbox[x][i] = [op |-> "room", chat |-> k] /\ outbox[x][i].op = "room" /\ outbox[x][i].chat = k
    BY <1>8, <2>2
  <2>4. /\ chats[k] = "absent"
        /\ \A y \in Device : \A j \in DOMAIN outbox[y] :
              outbox[y][j] = [op |-> "deleteRoom", chat |-> k] => y = x /\ i < j
    BY <1>1, <2>2, <2>3 DEF Collection, RoomIsFirst
  <2>5. Pending("room", k) /\ Creating(x, k)
    BY <2>2, <2>3 DEF Pending, Creating, Creates
  <2>6. ASSUME NEW y \in Device, NEW j \in DOMAIN outbox'[y],
               outbox'[y][j] = [op |-> "deleteRoom", chat |-> k]
        PROVE  y = x /\ i < j
    <3>1. CASE j \in DOMAIN outbox[y]
      <4>1. outbox[y][j] = [op |-> "deleteRoom", chat |-> k]
        BY <1>8, <2>6, <3>1
      <4> QED
        BY <2>4, <3>1, <4>1
    <3>2. CASE j \notin DOMAIN outbox[y]
      <4>1. outbox'[y][j].chat = k
        BY <2>6
      <4>2. y = d /\ k = g
        BY <1>13, <3>2, <4>1
      <4>3. x = d
        BY <1>6, <1>7, <2>5, <4>2
      <4> QED
        BY <1>10, <2>2, <3>2, <4>2, <4>3
    <3> QED
      BY <3>1, <3>2
  <2> QED
    BY <2>4, <2>6
<1>25. IdIsLast'
  BY <1>1, <1>5, <1>11 DEF Collection, IdIsLast
<1>26. RoomGoesToo'
  BY <1>1, <1>5, <1>11, <1>12 DEF Collection, RoomGoesToo
<1>27. Collection'
  BY <1>21, <1>22, <1>23, <1>24, <1>25, <1>26 DEF Collection
<1>30. ASSUME NEW x \in Device
       PROVE  Onward(x)
  <2>1. ASSUME NEW k \in Chat, Ended(x, k)
        PROVE  Ended(x, k)'
    BY <1>5, <1>11, <2>1 DEF Ended
  <2>2. ASSUME NEW k \in Chat, nameOf[k] # "", k \in Visible(x)
        PROVE  k \in Visible(x)' \/ Ended(x, k)'
    <3>1. Creating(x, k) \/ chats[k] # "absent"
      BY <1>1, <2>2, VisibleIff DEF Collection
    <3>2. Deleting(x, k)' => Ended(x, k)'
      BY <1>5, <2>2 DEF Ended
    <3>3. Creating(x, k)' \/ chats'[k] # "absent"
      BY <1>5, <1>11, <3>1
    <3> QED
      BY <1>20, <1>22, <3>2, <3>3, VisibleIffNext
  <2>3. ASSUME NEW k \in Chat, Whole(k)'
        PROVE  Whole(k)
    BY <1>5, <1>12, <2>3 DEF Whole
  <2> QED
    BY <1>5, <1>11, <1>12, <2>1, <2>2, <2>3 DEF Onward
<1>31. ASSUME NEW x \in Device, x # d
       PROVE  ListGoesOn(x)
  <2>1. chatInformationArray'[x] = chatInformationArray[x] /\ pins'[x] = pins[x]
    BY <1>1, <1>4, <1>5, <1>31 DEF TypeOK
  <2> QED
    BY <1>1, <1>30, <2>1, ListStays DEF IInv
<1>32. ListGoesOn(d)
  <2> DEFINE list == chatInformationArray[d]
             after == Without(list, {g})
  <2>1. /\ list \in Seq(Entry) /\ {g} \in SUBSET Chat
        /\ chatInformationArray'[d] = after
    BY <1>1, <1>2, <1>4 DEF TypeOK
  <2>2. /\ \A k \in DOMAIN after : \E i \in DOMAIN list : after[k] = list[i]
        /\ \A i \in DOMAIN list :
              (\A h \in {g} : nameOf[h] # nameOf[list[i].chat]) =>
                  \E k \in DOMAIN after : after[k] = list[i]
        /\ \A c : Count(after, c) <= Count(list, c)
    BY <2>1, WithoutFacts
  <2>3. \A i \in DOMAIN list : nameOf[g] # nameOf[list[i].chat] => \E k \in DOMAIN after : after[k] = list[i]
    BY <2>2
  <2> HIDE DEF list, after
  <2>4. \A x \in InList(d)' : x \in InList(d)
    BY <2>1, <2>2 DEF InList, list
  <2>5. \A x \in InList(d) : x \in Held(d) /\ x.chat \in Chat /\ nameOf[x.chat] # ""
    BY <1>1, DeviceTypes DEF Held, IInv, DeviceOf, Heard
  <2>6. \A x \in InList(d)' : nameOf'[x.chat] # ""
    BY <1>5, <2>4, <2>5
  <2>7. ASSUME NEW x \in InList(d)', NEW y \in Device
        PROVE  /\ x.firebaseID = "id" /\ Creating(y, x.chat)' => y = d
               /\ x.firebaseID = "placeholder" => ~ Pending("room", x.chat)'
    <3>1. x \in Held(d) /\ x.chat \in Chat
      BY <2>4, <2>5
    <3>2. /\ x.firebaseID = "id" /\ Creating(y, x.chat) => y = d
          /\ x.firebaseID = "placeholder" => ~ Pending("room", x.chat)
      BY <3>1 DEF IInv, DeviceOf, IdIsTold
    <3> QED
      BY <1>11, <1>12, <3>1, <3>2
  <2>8. ASSUME NEW k \in Chat
        PROVE  Occurrences(d, k)' <= Occurrences(d, k)
    <3>1. Occurrences(d, k)' = Count(after, k) /\ Occurrences(d, k) = Count(list, k)
      BY <1>1, <1>20, <2>1, OccurrencesIsCount, OccurrencesIsCountNext DEF list
    <3> QED
      BY <2>2, <3>1
  <2>9. ASSUME NEW k \in Chat, Whole(k)', k \in OnMap(d)
        PROVE  k \in OnMap(d)'
    <3>1. k # g
      BY <1>14, <2>9 DEF Whole
    <3>2. nameOf[g] # nameOf[k]
      BY <1>2, <1>5, <2>9, <3>1 DEF Whole
    <3>3. PICK i \in DOMAIN list : list[i].chat = k
      BY <2>9 DEF OnMap, Listed, list
    <3>4. PICK j \in DOMAIN after : after[j] = list[i]
      BY <2>3, <3>2, <3>3
    <3>5. j \in DOMAIN chatInformationArray'[d] /\ chatInformationArray'[d][j].chat = k
      BY <2>1, <3>3, <3>4
    <3>6. k \in Listed(d)'
      BY <3>5 DEF Listed
    <3> QED
      BY <1>5, <2>9, <3>6 DEF OnMap
  <2> QED
    BY <2>6, <2>7, <2>8, <2>9 DEF ListGoesOn
<1>33. ASSUME NEW x \in Device
       PROVE  DeviceOf(x)'
  <2>1. /\ view'[x] = view[x] /\ mainQueue'[x] = mainQueue[x] /\ loads'[x] = loads[x]
        /\ failed'[x] = failed[x] /\ observers'[x] = observers[x]
    BY <1>5
  <2>2. DeviceOf(x)
    BY DEF IInv
  <2>3. ListGoesOn(x)
    BY <1>31, <1>32
  <2> QED
    BY <1>1, <1>20, <1>30, <2>1, <2>2, <2>3, DeviceGoesOn
<1> QED
  BY <1>20, <1>27, <1>30, <1>33 DEF IInv

-----------------------------------------------------------------------------
(* What happens on one device *)

\* The collection and the writes to it are as they were.
Apart == UNCHANGED <<chats, rooms, nameOf, outbox>>

LEMMA ApartFacts ==
    ASSUME Apart
    PROVE  /\ \A x \in Device : Read(x)' = Read(x) /\ Visible(x)' = Visible(x)
           /\ \A x \in Device, c \in Chat : /\ Creating(x, c)' <=> Creating(x, c)
                                            /\ Ended(x, c)' <=> Ended(x, c)
           /\ \A c \in Chat : /\ Whole(c)' <=> Whole(c)
                              /\ Pending("room", c)' <=> Pending("room", c)
           /\ Collection => Collection'
           /\ \A x \in Device : Onward(x)
<1>1. chats' = chats /\ rooms' = rooms /\ nameOf' = nameOf /\ outbox' = outbox
  BY DEF Apart
<1>2. \A x, c : Creating(x, c)' <=> Creating(x, c)
  BY <1>1 DEF Creating
<1>3. \A x, c : Deleting(x, c)' <=> Deleting(x, c)
  BY <1>1 DEF Deleting
<1>4. \A o, c : Pending(o, c)' <=> Pending(o, c)
  BY <1>1 DEF Pending
<1>5. \A x, c : Ended(x, c)' <=> Ended(x, c)
  BY <1>1, <1>2, <1>3 DEF Ended
<1>6. \A c : Whole(c)' <=> Whole(c)
  BY <1>1, <1>4 DEF Whole
<1>7. \A x : Read(x)' = Read(x)
  <2>1. \A x, c : EntryWrites(x, c)' = EntryWrites(x, c)
    BY <1>1 DEF EntryWrites
  <2> QED
    BY <1>1, <2>1 DEF Read, AfterWrite
<1>8. \A x : Visible(x)' = Visible(x)
  BY <1>7 DEF Visible, Present
<1>9. Collection => Collection'
  <2>1. Named => Named'
    BY <1>1 DEF Named
  <2>2. WriteOrder => WriteOrder'
    BY <1>1 DEF WriteOrder
  <2>3. OneCreator => OneCreator'
    BY <1>2, <1>3 DEF OneCreator
  <2>4. RoomIsFirst => RoomIsFirst'
    BY <1>1 DEF RoomIsFirst
  <2>5. IdIsLast => IdIsLast'
    BY <1>1, <1>2 DEF IdIsLast
  <2>6. RoomGoesToo => RoomGoesToo'
    BY <1>1, <1>2, <1>4 DEF RoomGoesToo
  <2> QED
    BY <2>1, <2>2, <2>3, <2>4, <2>5, <2>6 DEF Collection
<1>10. \A x \in Device : Onward(x)
  BY <1>1, <1>2, <1>4, <1>5, <1>6, <1>8 DEF Onward
<1> QED
  BY <1>2, <1>4, <1>5, <1>6, <1>7, <1>8, <1>9, <1>10

\* Nothing changes on a device.
Alike(x) ==
    /\ view'[x] = view[x] /\ mainQueue'[x] = mainQueue[x] /\ loads'[x] = loads[x]
    /\ failed'[x] = failed[x] /\ observers'[x] = observers[x]
    /\ chatInformationArray'[x] = chatInformationArray[x] /\ pins'[x] = pins[x]

LEMMA OthersGoOn ==
    ASSUME IInv, TypeOK', Apart, NEW d \in Device, DeviceOf(d)', \A x \in Device : x # d => Alike(x)
    PROVE  IInv'
<1>1. TypeOK /\ Collection
  BY DEF IInv
<1>2. Collection' /\ \A x \in Device : Onward(x)
  BY <1>1, ApartFacts
<1>3. ASSUME NEW x \in Device, x # d
      PROVE  DeviceOf(x)'
  <2>1. DeviceOf(x) /\ Onward(x)
    BY <1>2 DEF IInv
  <2>2. /\ view'[x] = view[x] /\ mainQueue'[x] = mainQueue[x] /\ loads'[x] = loads[x]
        /\ failed'[x] = failed[x] /\ observers'[x] = observers[x]
        /\ chatInformationArray'[x] = chatInformationArray[x] /\ pins'[x] = pins[x]
    BY <1>3 DEF Alike
  <2>3. ListGoesOn(x)
    BY <1>1, <2>1, <2>2, ListStays
  <2> QED
    BY <1>1, <2>1, <2>2, <2>3, DeviceGoesOn
<1> QED
  BY <1>2, <1>3 DEF IInv

\* What a device reads of the service, it may know.
Known(d, e) ==
    /\ nameOf[e.chat] # ""
    /\ \A x \in Device :
          /\ e.firebaseID = "id" /\ Creating(x, e.chat) => x = d
          /\ e.firebaseID = "placeholder" => ~ Pending("room", e.chat)

LEMMA EntriesFacts ==
    ASSUME NEW v \in [Chat -> Id \cup {"absent"}], NEW ids \in SUBSET Present(v)
    PROVE  /\ Entries(v, ids) \in SUBSET Entry
           /\ OneEach(Entries(v, ids))
           /\ \A c \in Chat : (\E e \in Entries(v, ids) : e.chat = c) <=> c \in ids
           /\ \A e \in Entries(v, ids) : e.chat \in ids /\ e.firebaseID = v[e.chat]
<1>1. \A c \in ids : c \in Chat /\ v[c] \in Id
  BY DEF Present
<1>2. \A e : e \in Entries(v, ids) <=> \E c \in ids : e = [chat |-> c, firebaseID |-> v[c]]
  BY DEF Entries
<1>3. \A e \in Entries(v, ids) : e \in Entry /\ e.chat \in ids /\ e.firebaseID = v[e.chat]
  BY <1>1, <1>2 DEF Entry
<1>4. ASSUME NEW c \in ids
      PROVE  \E e \in Entries(v, ids) : e.chat = c
  <2>1. [chat |-> c, firebaseID |-> v[c]] \in Entries(v, ids)
    BY <1>2
  <2>2. [chat |-> c, firebaseID |-> v[c]].chat = c
    OBVIOUS
  <2> QED
    BY <2>1, <2>2
<1>5. OneEach(Entries(v, ids))
  BY <1>2 DEF OneEach
<1> QED
  BY <1>3, <1>4, <1>5

LEMMA ReadIsKnown ==
    ASSUME TypeOK, Collection, NEW d \in Device
    PROVE  /\ Read(d) \in [Chat -> Id \cup {"absent"}]
           /\ \A ids \in SUBSET Visible(d) : \A e \in Entries(Read(d), ids) : Known(d, e)
<1>1. /\ Read(d) \in [Chat -> Id \cup {"absent"}]
      /\ \A c \in Chat : Read(d)[c] = "id" => Creating(d, c) \/ chats[c] = "id"
      /\ \A c \in Chat : Read(d)[c] = "placeholder" => chats[c] = "placeholder"
  BY ReadFacts DEF Collection
<1>2. ASSUME NEW ids \in SUBSET Visible(d), NEW e \in Entries(Read(d), ids)
      PROVE  Known(d, e)
  <2>1. e.chat \in Visible(d) /\ e.firebaseID = Read(d)[e.chat]
    BY <1>1, <1>2, EntriesFacts DEF Visible
  <2>2. PICK c \in Chat : c = e.chat /\ c \in Visible(d)
    BY <2>1 DEF Visible, Present
  <2>3. nameOf[c] # ""
    <3>1. Creating(d, c) \/ chats[c] # "absent"
      BY <2>2, VisibleIff DEF Collection
    <3> QED
      BY <3>1 DEF Collection, Named, Creating
  <2>4. ASSUME NEW x \in Device, e.firebaseID = "id", Creating(x, c)
        PROVE  x = d
    <3>1. Creating(d, c) \/ chats[c] = "id"
      BY <1>1, <2>1, <2>2, <2>4
    <3> QED
      BY <2>4, <3>1 DEF Collection, IdIsLast, OneCreator
  <2>5. ASSUME e.firebaseID = "placeholder", Pending("room", c)
        PROVE  FALSE
    <3>1. chats[c] = "placeholder"
      BY <1>1, <2>1, <2>2, <2>5
    <3>2. chats[c] = "absent"
      BY <2>5 DEF Collection, RoomIsFirst, Pending
    <3> QED
      BY <3>1, <3>2
  <2> QED
    BY <2>2, <2>3, <2>4, <2>5 DEF Known
<1> QED
  BY <1>1, <1>2

\* What posting a callback does to the queue.
LEMMA PostFacts ==
    ASSUME TypeOK, NEW d \in Device, NEW cb \in Callback, Post(d, cb)
    PROVE  /\ mainQueue' \in [Device -> Seq(Callback)]
           /\ \A x \in Device : x # d => mainQueue'[x] = mainQueue[x]
           /\ \A i \in DOMAIN mainQueue[d] :
                 /\ i \in Nat /\ i < Len(mainQueue[d]) + 1
                 /\ i \in DOMAIN mainQueue'[d] /\ mainQueue'[d][i] = mainQueue[d][i]
           /\ Len(mainQueue[d]) + 1 \in DOMAIN mainQueue'[d]
           /\ mainQueue'[d][Len(mainQueue[d]) + 1] = cb
           /\ \A i \in DOMAIN mainQueue'[d] :
                 i \in DOMAIN mainQueue[d] \/ (i = Len(mainQueue[d]) + 1 /\ mainQueue'[d][i] = cb)
           /\ mainQueue'[d] # << >> /\ Len(mainQueue'[d]) = Len(mainQueue[d]) + 1
<1> DEFINE q == mainQueue[d]
<1>1. /\ q \in Seq(Callback) /\ Len(q) \in Nat /\ DOMAIN q = 1..Len(q)
  BY DeviceTypes
<1>2. mainQueue' = [mainQueue EXCEPT ![d] = Append(q, cb)]
  BY DEF Post
<1>3. mainQueue'[d] = Append(q, cb) /\ \A x \in Device : x # d => mainQueue'[x] = mainQueue[x]
  BY <1>2 DEF TypeOK
<1> HIDE DEF q
<1>4. /\ Append(q, cb) \in Seq(Callback) /\ Len(Append(q, cb)) = Len(q) + 1
      /\ \A i \in 1..Len(q) : Append(q, cb)[i] = q[i]
      /\ Append(q, cb)[Len(q) + 1] = cb
  BY <1>1, AppendProperties
<1>5. DOMAIN Append(q, cb) = 1..(Len(q) + 1)
  BY <1>1, <1>4
<1>6. mainQueue' \in [Device -> Seq(Callback)]
  BY <1>2, <1>4 DEF TypeOK
<1>7. \A i \in 1..(Len(q) + 1) : i \in 1..Len(q) \/ i = Len(q) + 1
  BY <1>1
<1>8. \A i \in 1..Len(q) : i \in Nat /\ i < Len(q) + 1 /\ i \in 1..(Len(q) + 1)
  BY <1>1
<1>9. Len(q) + 1 \in 1..(Len(q) + 1) /\ Append(q, cb) # << >>
  BY <1>1, <1>4
<1> QED
  BY <1>1, <1>3, <1>4, <1>5, <1>6, <1>7, <1>8, <1>9 DEF q

LEMMA PostedEntries ==
    ASSUME TypeOK, NEW d \in Device, NEW cb \in Callback, Post(d, cb), NEW e \in InQueue(d)'
    PROVE  \/ e \in InQueue(d)
           \/ cb.via = "load" /\ e \in cb.docs
           \/ cb.via = "changes" /\ e \in cb.added
<1>1. PICK i \in DOMAIN mainQueue'[d] :
         \/ mainQueue'[d][i].via = "load" /\ e \in mainQueue'[d][i].docs
         \/ mainQueue'[d][i].via = "changes" /\ e \in mainQueue'[d][i].added
  BY DEF InQueue
<1>2. i \in DOMAIN mainQueue[d] => mainQueue'[d][i] = mainQueue[d][i]
  BY PostFacts
<1>3. i \in DOMAIN mainQueue[d] \/ mainQueue'[d][i] = cb
  BY PostFacts
<1>4. e \in Entry
  BY DEF InQueue
<1> QED
  BY <1>1, <1>2, <1>3, <1>4 DEF InQueue

LEMMA HeldGoesOn ==
    ASSUME TypeOK, NEW d \in Device, DeviceOf(d), Apart,
           \A e \in Held(d)' : e \in Held(d) \/ Known(d, e),
           \A i \in DOMAIN mainQueue'[d] :
              mainQueue'[d][i].via = "changes" => \A c \in mainQueue'[d][i].removed : nameOf[c] # ""
    PROVE  Heard(d)' /\ IdIsTold(d)'
<1>1. nameOf' = nameOf
  BY DEF Apart
<1>2. \A e \in Held(d) : nameOf[e.chat] # ""
  BY DEF DeviceOf, Heard
<1>3. \A e \in Held(d)' : nameOf'[e.chat] # ""
  BY <1>1, <1>2 DEF Known
<1>4. Heard(d)'
  BY <1>1, <1>3 DEF Heard
<1>5. ASSUME NEW e \in Held(d)', NEW x \in Device
      PROVE  /\ e.firebaseID = "id" /\ Creating(x, e.chat)' => x = d
             /\ e.firebaseID = "placeholder" => ~ Pending("room", e.chat)'
  <2>1. /\ e.firebaseID = "id" /\ Creating(x, e.chat) => x = d
        /\ e.firebaseID = "placeholder" => ~ Pending("room", e.chat)
    BY <1>5 DEF DeviceOf, IdIsTold, Known
  <2>2. Creating(x, e.chat)' <=> Creating(x, e.chat)
    BY DEF Apart, Creating
  <2>3. Pending("room", e.chat)' <=> Pending("room", e.chat)
    BY DEF Apart, Pending
  <2> QED
    BY <2>1, <2>2, <2>3
<1>6. IdIsTold(d)'
  BY <1>5 DEF IdIsTold
<1> QED
  BY <1>4, <1>6

\* The list stays, and nobody has less to be told.
LEMMA ListedGoesOn ==
    ASSUME TypeOK, NEW d \in Device, DeviceOf(d),
           chatInformationArray'[d] = chatInformationArray[d],
           observers'[d] \in Nat, observers[d] <= observers'[d],
           \A c \in Chat : \A o \in 1..observers[d] : o \in ToCome(d, c)' => o \in ToCome(d, c)
    PROVE  ListedAsTold(d)'
<1> SUFFICES ASSUME NEW c \in Chat
             PROVE  Occurrences(d, c)' <= 1 + Cardinality((1..observers'[d]) \ ToCome(d, c)')
  BY DEF ListedAsTold
<1>1. Occurrences(d, c)' = Occurrences(d, c) /\ Occurrences(d, c) \in Nat
  BY OccurrencesIsCount DEF Occurrences
<1>2. Occurrences(d, c) <= 1 + Cardinality((1..observers[d]) \ ToCome(d, c))
  BY DEF DeviceOf, ListedAsTold
<1> DEFINE A == ToCome(d, c)
           B == ToCome(d, c)'
           m == observers[d]
           n == observers'[d]
<1>3. m \in Nat /\ n \in Nat /\ m <= n
  BY DeviceTypes
<1>4. \A o \in 1..m : o \in B => o \in A
  OBVIOUS
<1> HIDE DEF A, B, m, n
<1>5. /\ Cardinality((1..m) \ A) \in Nat /\ Cardinality((1..n) \ B) \in Nat
      /\ Cardinality((1..m) \ A) <= Cardinality((1..n) \ B)
  BY <1>3, <1>4, ToldGrows
<1>6. Occurrences(d, c) <= 1 + Cardinality((1..m) \ A)
  BY <1>2 DEF A, m
<1>7. Occurrences(d, c)' <= 1 + Cardinality((1..n) \ B)
  BY <1>1, <1>5, <1>6
<1> QED
  BY <1>7 DEF B, n

LEMMA TapKeeps ==
    ASSUME IInv, NEW d \in Device, NEW n \in Name, TapDeadPin(d, n)
    PROVE  IInv'
<1>1. TypeOK /\ Collection /\ DeviceOf(d)
  BY DEF IInv
<1>2. /\ UNCHANGED <<chats, rooms, nameOf, outbox, view, loads, failed, mainQueue, observers, chatInformationArray>>
      /\ pins' = [pins EXCEPT ![d] = @ \ {n}]
      /\ n \notin NamesIn(chatInformationArray[d])
  BY DEF TapDeadPin, service, sdk, chatIsExist
<1>3. Apart
  BY <1>2 DEF Apart
<1>4. TypeOK'
  BY <1>1, <1>2 DEF TypeOK
<1>5. InList(d)' = InList(d) /\ Listed(d)' = Listed(d)
  BY <1>2 DEF InList, Listed
<1>7. pins'[d] = pins[d] \ {n}
  BY <1>1, <1>2 DEF TypeOK
<1>6. \A c \in OnMap(d) : c \in OnMap(d)'
  <2> SUFFICES ASSUME NEW c \in Listed(d), nameOf[c] \in pins[d]
               PROVE  nameOf[c] # n
    BY <1>2, <1>5, <1>7 DEF OnMap
  <2>1. nameOf[c] \in NamesIn(chatInformationArray[d])
    BY DEF NamesIn, NamesOf, Listed
  <2> QED
    BY <1>2, <2>1
<1>8. \A e \in InList(d) : e \in Held(d) /\ e.chat \in Chat /\ nameOf[e.chat] # ""
  BY <1>1, DeviceTypes DEF Held, DeviceOf, Heard
<1>9. ASSUME NEW e \in InList(d), NEW y \in Device
      PROVE  /\ e.firebaseID = "id" /\ Creating(y, e.chat)' => y = d
             /\ e.firebaseID = "placeholder" => ~ Pending("room", e.chat)'
  <2>1. /\ e.firebaseID = "id" /\ Creating(y, e.chat) => y = d
        /\ e.firebaseID = "placeholder" => ~ Pending("room", e.chat)
    BY <1>1, <1>8 DEF DeviceOf, IdIsTold
  <2>2. /\ Creating(y, e.chat)' <=> Creating(y, e.chat)
        /\ Pending("room", e.chat)' <=> Pending("room", e.chat)
    BY <1>2 DEF Creating, Pending
  <2> QED
    BY <2>1, <2>2
<1>10. \A c \in Chat : Occurrences(d, c)' = Occurrences(d, c) /\ Occurrences(d, c) \in Nat
  BY <1>1, <1>2, OccurrencesIsCount DEF Occurrences
<1>11. \A c \in Chat : Occurrences(d, c)' <= Occurrences(d, c)
  BY <1>10
<1>12. ListGoesOn(d)
  BY <1>2, <1>5, <1>6, <1>7, <1>8, <1>9, <1>11 DEF ListGoesOn
<1>13. Onward(d)
  BY <1>3, ApartFacts
<1>14. DeviceOf(d)'
  BY <1>1, <1>2, <1>4, <1>12, <1>13, DeviceGoesOn
<1>15. \A x \in Device : x # d => Alike(x)
  BY <1>1, <1>2 DEF Alike, TypeOK
<1> QED
  BY <1>3, <1>4, <1>14, <1>15, OthersGoOn

LEMMA RelaunchKeeps ==
    ASSUME IInv, NEW d \in Device, Relaunch(d)
    PROVE  IInv'
<1>1. TypeOK /\ Collection /\ DeviceOf(d)
  BY DEF IInv
<1>2. Apart
  BY DEF Relaunch, service, Apart
<1>3. /\ view'[d] = Nothing /\ loads'[d] = {} /\ failed'[d] = FALSE /\ mainQueue'[d] = << >>
      /\ observers'[d] = 0 /\ chatInformationArray'[d] = << >> /\ pins'[d] = {}
  BY <1>1 DEF Relaunch, TypeOK
<1>4. TypeOK'
  <2>1. Nothing \in [Chat -> Id \cup {"absent"}]
    BY DEF Nothing
  <2>2. << >> \in Seq(Callback) /\ << >> \in Seq(Entry)
    OBVIOUS
  <2>4. MaxMaps \in Nat
    BY ListAssumption
  <2>3. 0 \in 0..MaxMaps /\ {} \in SUBSET (1..MaxMaps)
    BY <2>4
  <2> QED
    BY <1>1, <2>1, <2>2, <2>3 DEF Relaunch, service, TypeOK
<1>5. Present(Nothing) = {}
  BY DEF Present, Nothing
<1>6. DOMAIN mainQueue'[d] = {} /\ DOMAIN chatInformationArray'[d] = {}
  BY <1>3
<1>7. Present(view[d])' = {}
  BY <1>3, <1>5 DEF Present
<1>8. \A e : e \notin Held(d)'
  <2>1. \A e : e \notin InList(d)'
    BY <1>6 DEF InList
  <2>2. \A e : e \notin InQueue(d)'
    BY <1>6 DEF InQueue
  <2>3. \A e : e \notin InView(d)'
    BY <1>7 DEF InView, Entries
  <2> QED
    BY <2>1, <2>2, <2>3 DEF Held
<1>9. /\ Shapes(d)' /\ Idle(d)' /\ Heard(d)' /\ IdIsTold(d)'
  BY <1>3, <1>6, <1>8 DEF Shapes, Idle, Heard, IdIsTold, Nothing
<1>10. SeenIsThere(d)' /\ RemovedIsOver(d)' /\ ToldOnce(d)' /\ InTheEnd(d)'
  BY <1>6, <1>7 DEF SeenIsThere, RemovedIsOver, ToldOnce, InTheEnd
<1>12. ListedAsTold(d)'
  <2> SUFFICES ASSUME NEW c \in Chat
               PROVE  Occurrences(d, c)' <= 1 + Cardinality((1..observers'[d]) \ ToCome(d, c)')
    BY DEF ListedAsTold
  <2>1. {i \in DOMAIN chatInformationArray'[d] : chatInformationArray'[d][i].chat = c} = {}
    BY <1>6
  <2>2. Occurrences(d, c)' = 0
    BY <2>1, FS_EmptySet DEF Occurrences
  <2>3. (1..observers'[d]) \ ToCome(d, c)' = {}
    BY <1>3
  <2>4. Cardinality((1..observers'[d]) \ ToCome(d, c)') = 0
    BY <2>3, FS_EmptySet
  <2> QED
    BY <2>2, <2>4
<1>13. DeviceOf(d)'
  BY <1>9, <1>10, <1>12 DEF DeviceOf
<1>14. \A x \in Device : x # d => Alike(x)
  BY <1>1 DEF Relaunch, Alike, TypeOK
<1> QED
  BY <1>2, <1>4, <1>13, <1>14, OthersGoOn

LEMMA FailLoadKeeps ==
    ASSUME IInv, NEW d \in Device, NEW map \in 1..MaxMaps, FailLoad(d, map)
    PROVE  IInv'
<1> DEFINE cb == [via |-> "error"]
           q == mainQueue[d]
<1>1. TypeOK /\ Collection /\ DeviceOf(d)
  BY DEF IInv
<1>2. Apart
  BY DEF FailLoad, service, Apart
<1>3. /\ view' = view /\ observers' = observers /\ chatInformationArray' = chatInformationArray /\ pins' = pins
      /\ map \in loads[d] /\ loads'[d] = loads[d] \ {map} /\ failed'[d] = TRUE
  BY <1>1 DEF FailLoad, app, TypeOK
<1>4. cb \in Callback /\ Post(d, cb) /\ cb.via = "error"
  BY DEF FailLoad, Callback
<1> HIDE DEF cb
<1>5. /\ mainQueue' \in [Device -> Seq(Callback)]
      /\ \A x \in Device : x # d => mainQueue'[x] = mainQueue[x]
  BY <1>1, <1>4, PostFacts
<1>6. /\ \A i \in DOMAIN q : i \in DOMAIN mainQueue'[d] /\ mainQueue'[d][i] = q[i]
      /\ \A i \in DOMAIN mainQueue'[d] : i \in DOMAIN q \/ (i = Len(q) + 1 /\ mainQueue'[d][i] = cb)
  BY <1>1, <1>4, PostFacts
<1>7. mainQueue'[d] # << >> /\ Len(mainQueue'[d]) = Len(q) + 1 /\ mainQueue'[d][Len(q) + 1] = cb
  BY <1>1, <1>4, PostFacts
<1> HIDE DEF q
<1>8. TypeOK'
  <2>1. loads' = [loads EXCEPT ![d] = @ \ {map}] /\ failed' = [failed EXCEPT ![d] = TRUE]
    BY DEF FailLoad
  <2>2. loads' \in [Device -> SUBSET (1..MaxMaps)] /\ failed' \in [Device -> BOOLEAN]
    BY <1>1, <2>1 DEF TypeOK
  <2> QED
    BY <1>1, <1>2, <1>3, <1>5, <2>2 DEF TypeOK, Apart
<1>9. Present(view[d])' = Present(view[d])
  BY <1>3 DEF Present
<1>10. \A i \in DOMAIN mainQueue'[d] : mainQueue'[d][i].via # "error" =>
          i \in DOMAIN q /\ mainQueue'[d][i] = q[i]
  BY <1>4, <1>6
<1>11. \A c \in Chat : /\ Ended(d, c)' <=> Ended(d, c)
                       /\ Whole(c)' <=> Whole(c)
                       /\ c \in Visible(d)' <=> c \in Visible(d)
  BY <1>2, ApartFacts
<1>12. Shapes(d)' /\ Idle(d)'
  <2>1. Shapes(d)'
    BY <1>1, <1>3, <1>10 DEF DeviceOf, Shapes, q
  <2>2. observers[d] # 0
    BY <1>1, <1>3 DEF DeviceOf, Idle
  <2> QED
    BY <1>3, <2>1, <2>2 DEF Idle
<1>13. Heard(d)' /\ IdIsTold(d)'
  <2>1. \A e \in Held(d)' : e \in Held(d)
    <3>1. \A e \in InQueue(d)' : e \in InQueue(d)
      BY <1>1, <1>4, PostedEntries
    <3>2. InList(d)' = InList(d) /\ InView(d)' = InView(d)
      BY <1>3, <1>9 DEF InList, InView, Entries
    <3> QED
      BY <3>1, <3>2 DEF Held
  <2>2. \A i \in DOMAIN mainQueue'[d] :
           mainQueue'[d][i].via = "changes" => \A c \in mainQueue'[d][i].removed : nameOf[c] # ""
    BY <1>1, <1>10 DEF DeviceOf, Heard, q
  <2> QED
    BY <1>1, <1>2, <2>1, <2>2, HeldGoesOn
<1>14. SeenIsThere(d)'
  <2>1. \A c \in Present(view[d]) : c \in Chat
    BY DEF Present
  <2> QED
    BY <1>1, <1>9, <1>11, <2>1 DEF DeviceOf, SeenIsThere
<1>15. RemovedIsOver(d)'
  <2> SUFFICES ASSUME NEW i \in DOMAIN mainQueue'[d], mainQueue'[d][i].via = "changes",
                      NEW c \in mainQueue'[d][i].removed
               PROVE  ~ Whole(c)'
    BY DEF RemovedIsOver
  <2>1. ~ Whole(c)
    BY <1>1, <1>10 DEF DeviceOf, RemovedIsOver, q
  <2>2. Whole(c)' <=> Whole(c)
    BY <1>2 DEF Apart, Whole, Pending
  <2> QED
    BY <2>1, <2>2
<1>16. \A i \in DOMAIN mainQueue'[d] : \A c : Adds(mainQueue'[d][i], c) =>
          i \in DOMAIN q /\ mainQueue'[d][i] = q[i] /\ Adds(q[i], c)
  BY <1>10 DEF Adds
<1>17. ToldOnce(d)'
  <2> SUFFICES ASSUME NEW c \in Chat, NEW i \in DOMAIN mainQueue'[d], Adds(mainQueue'[d][i], c)
               PROVE  /\ c \in Present(view[d]) \/ Ended(d, c)
                      /\ \A j \in DOMAIN mainQueue'[d] :
                            i < j /\ Adds(mainQueue'[d][j], c) => mainQueue'[d][i].last < mainQueue'[d][j].first
    BY <1>9, <1>11 DEF ToldOnce
  <2> QED
    BY <1>1, <1>16 DEF DeviceOf, ToldOnce, q
<1>18. ListedAsTold(d)'
  <2>1. \A c \in Chat : \A o \in 1..observers[d] : o \in ToCome(d, c)' => o \in ToCome(d, c)
    BY <1>3, <1>9, <1>11, <1>16 DEF ToCome, q
  <2>2. observers'[d] \in Nat /\ observers[d] <= observers'[d]
    BY <1>1, <1>3, DeviceTypes
  <2> QED
    BY <1>1, <1>3, <2>1, <2>2, ListedGoesOn
<1>19. InTheEnd(d)'
  BY <1>3 DEF InTheEnd
<1>21. DeviceOf(d)'
  BY <1>12, <1>13, <1>14, <1>15, <1>17, <1>18, <1>19 DEF DeviceOf
<1>22. \A x \in Device : x # d => Alike(x)
  BY <1>1, <1>5 DEF FailLoad, app, Alike, TypeOK
<1> QED
  BY <1>2, <1>8, <1>21, <1>22, OthersGoOn

LEMMA AnswerLoadKeeps ==
    ASSUME IInv, NEW d \in Device, NEW map \in 1..MaxMaps, AnswerLoad(d, map)
    PROVE  IInv'
<1> DEFINE docs == Entries(Read(d), Visible(d))
           cb == [via |-> "load", map |-> map, docs |-> docs]
           q == mainQueue[d]
<1>1. TypeOK /\ Collection /\ DeviceOf(d)
  BY DEF IInv
<1>2. Apart
  BY DEF AnswerLoad, service, Apart
<1>3. /\ view' = view /\ observers' = observers /\ chatInformationArray' = chatInformationArray /\ pins' = pins
      /\ failed' = failed /\ map \in loads[d] /\ loads'[d] = loads[d] \ {map}
  BY <1>1 DEF AnswerLoad, app, TypeOK
<1>4. /\ docs \in SUBSET Entry /\ OneEach(docs)
      /\ \A c \in Chat : (\E e \in docs : e.chat = c) <=> c \in Visible(d)
      /\ \A e \in docs : Known(d, e)
  <2>1. Read(d) \in [Chat -> Id \cup {"absent"}] /\ Visible(d) \in SUBSET Present(Read(d))
    BY <1>1, ReadIsKnown DEF Visible
  <2>2. \A e \in docs : Known(d, e)
    BY <1>1, ReadIsKnown
  <2> QED
    BY <2>1, <2>2, EntriesFacts
<1> HIDE DEF docs
<1>5. cb \in Callback /\ Post(d, cb) /\ cb.via = "load" /\ cb.docs = docs
  BY <1>4 DEF AnswerLoad, Callback, docs
<1> HIDE DEF cb
<1>6. /\ mainQueue' \in [Device -> Seq(Callback)]
      /\ \A x \in Device : x # d => mainQueue'[x] = mainQueue[x]
  BY <1>1, <1>5, PostFacts
<1>7. /\ \A i \in DOMAIN q : i \in DOMAIN mainQueue'[d] /\ mainQueue'[d][i] = q[i]
      /\ \A i \in DOMAIN mainQueue'[d] : i \in DOMAIN q \/ (i = Len(q) + 1 /\ mainQueue'[d][i] = cb)
  BY <1>1, <1>5, PostFacts
<1>8. mainQueue'[d] # << >> /\ Len(mainQueue'[d]) = Len(q) + 1 /\ mainQueue'[d][Len(q) + 1] = cb
  BY <1>1, <1>5, PostFacts
<1> HIDE DEF q
<1>9. TypeOK'
  <2>1. loads' = [loads EXCEPT ![d] = @ \ {map}]
    BY DEF AnswerLoad
  <2>2. loads' \in [Device -> SUBSET (1..MaxMaps)]
    BY <1>1, <2>1 DEF TypeOK
  <2> QED
    BY <1>1, <1>2, <1>3, <1>6, <2>2 DEF TypeOK, Apart
<1>10. Present(view[d])' = Present(view[d])
  BY <1>3 DEF Present
<1>11. \A i \in DOMAIN mainQueue'[d] : mainQueue'[d][i].via # "load" =>
          i \in DOMAIN q /\ mainQueue'[d][i] = q[i]
  BY <1>5, <1>7
<1>12. \A c \in Chat : /\ Ended(d, c)' <=> Ended(d, c)
                       /\ Whole(c)' <=> Whole(c)
                       /\ c \in Visible(d)' <=> c \in Visible(d)
  BY <1>2, ApartFacts
<1>13. Shapes(d)' /\ Idle(d)'
  <2>1. \A i \in DOMAIN mainQueue'[d] : mainQueue'[d][i].via = "load" => OneEach(mainQueue'[d][i].docs)
    <3> SUFFICES ASSUME NEW i \in DOMAIN mainQueue'[d], mainQueue'[d][i].via = "load"
                 PROVE  OneEach(mainQueue'[d][i].docs)
      OBVIOUS
    <3>1. CASE i \in DOMAIN q
      BY <1>1, <1>7, <3>1 DEF DeviceOf, Shapes, q
    <3>2. CASE mainQueue'[d][i] = cb
      BY <1>4, <1>5, <3>2
    <3> QED
      BY <1>7, <3>1, <3>2
  <2>2. \A i \in DOMAIN mainQueue'[d] :
           /\ mainQueue'[d][i].via = "changes" =>
                 /\ OneEach(mainQueue'[d][i].added)
                 /\ mainQueue'[d][i].first <= mainQueue'[d][i].last
                 /\ mainQueue'[d][i].last <= observers[d]
           /\ mainQueue'[d][i].via = "error" => failed[d]
    BY <1>1, <1>11 DEF DeviceOf, Shapes, q
  <2>3. observers[d] # 0
    BY <1>1, <1>3 DEF DeviceOf, Idle
  <2> QED
    BY <1>3, <2>1, <2>2, <2>3 DEF Shapes, Idle
<1>14. Heard(d)' /\ IdIsTold(d)'
  <2>1. \A e \in Held(d)' : e \in Held(d) \/ Known(d, e)
    <3>1. \A e \in InQueue(d)' : e \in InQueue(d) \/ e \in docs
      <4> SUFFICES ASSUME NEW e \in InQueue(d)'
                   PROVE  e \in InQueue(d) \/ e \in docs
        OBVIOUS
      <4>1. \/ e \in InQueue(d)
            \/ cb.via = "load" /\ e \in cb.docs
            \/ cb.via = "changes" /\ e \in cb.added
        BY <1>1, <1>5, PostedEntries
      <4> QED
        BY <1>5, <4>1
    <3>2. InList(d)' = InList(d) /\ InView(d)' = InView(d)
      BY <1>3, <1>10 DEF InList, InView, Entries
    <3> QED
      BY <1>4, <3>1, <3>2 DEF Held
  <2>2. \A i \in DOMAIN mainQueue'[d] :
           mainQueue'[d][i].via = "changes" => \A c \in mainQueue'[d][i].removed : nameOf[c] # ""
    BY <1>1, <1>11 DEF DeviceOf, Heard, q
  <2> QED
    BY <1>1, <1>2, <2>1, <2>2, HeldGoesOn
<1>15. SeenIsThere(d)'
  <2>1. \A c \in Present(view[d]) : c \in Chat
    BY DEF Present
  <2> QED
    BY <1>1, <1>10, <1>12, <2>1 DEF DeviceOf, SeenIsThere
<1>16. RemovedIsOver(d)'
  <2> SUFFICES ASSUME NEW i \in DOMAIN mainQueue'[d], mainQueue'[d][i].via = "changes",
                      NEW c \in mainQueue'[d][i].removed
               PROVE  ~ Whole(c)'
    BY DEF RemovedIsOver
  <2>1. ~ Whole(c)
    BY <1>1, <1>11 DEF DeviceOf, RemovedIsOver, q
  <2>2. Whole(c)' <=> Whole(c)
    BY <1>2 DEF Apart, Whole, Pending
  <2> QED
    BY <2>1, <2>2
<1>17. \A i \in DOMAIN mainQueue'[d] : \A c : Adds(mainQueue'[d][i], c) =>
          i \in DOMAIN q /\ mainQueue'[d][i] = q[i] /\ Adds(q[i], c)
  BY <1>11 DEF Adds
<1>18. ToldOnce(d)'
  <2> SUFFICES ASSUME NEW c \in Chat, NEW i \in DOMAIN mainQueue'[d], Adds(mainQueue'[d][i], c)
               PROVE  /\ c \in Present(view[d]) \/ Ended(d, c)
                      /\ \A j \in DOMAIN mainQueue'[d] :
                            i < j /\ Adds(mainQueue'[d][j], c) => mainQueue'[d][i].last < mainQueue'[d][j].first
    BY <1>10, <1>12 DEF ToldOnce
  <2> QED
    BY <1>1, <1>17 DEF DeviceOf, ToldOnce, q
<1>19. ListedAsTold(d)'
  <2>1. \A c \in Chat : \A o \in 1..observers[d] : o \in ToCome(d, c)' => o \in ToCome(d, c)
    BY <1>3, <1>10, <1>12, <1>17 DEF ToCome, q
  <2>2. observers'[d] \in Nat /\ observers[d] <= observers'[d]
    BY <1>1, <1>3, DeviceTypes
  <2> QED
    BY <1>1, <1>3, <2>1, <2>2, ListedGoesOn
<1>20. InTheEnd(d)'
  <2>0. /\ \A k, c : Shows(d, k, c)' <=> Shows(d, k, c)
        /\ \A c : c \in OnMap(d)' <=> c \in OnMap(d)
    BY <1>2, <1>3 DEF Shows, OnMap, Listed, Apart
  <2> SUFFICES ASSUME NEW c \in Present(view[d]), ~ failed[d], Whole(c)'
               PROVE  /\ \/ c \in OnMap(d)
                         \/ \E i \in DOMAIN mainQueue'[d] : Shows(d, mainQueue'[d][i], c)
                      /\ \A i \in DOMAIN mainQueue'[d] : Drops(mainQueue'[d][i], c) =>
                            \E j \in DOMAIN mainQueue'[d] : i < j /\ Shows(d, mainQueue'[d][j], c)
    BY <1>3, <1>10, <2>0 DEF InTheEnd, Shows
  <2>1. c \in Chat
    BY DEF Present
  <2>2. Whole(c)
    BY <1>12, <2>1
  <2>3. /\ \/ c \in OnMap(d)
           \/ \E i \in DOMAIN q : Shows(d, q[i], c)
        /\ \A i \in DOMAIN q : Drops(q[i], c) => \E j \in DOMAIN q : i < j /\ Shows(d, q[j], c)
    BY <1>1, <2>2 DEF DeviceOf, InTheEnd, q
  <2>5. ~ Drops(cb, c)
    <3>1. ~ Ended(d, c)
      BY <1>1, <2>1, <2>2, EndedIsNotWhole
    <3>2. c \in Visible(d)
      BY <1>1, <3>1 DEF DeviceOf, SeenIsThere
    <3>3. \E e \in docs : e.chat = c
      BY <1>4, <2>1, <3>2
    <3> QED
      BY <1>5, <3>3 DEF Drops
  <2>6. \A i \in DOMAIN mainQueue'[d] : Drops(mainQueue'[d][i], c) => i \in DOMAIN q /\ Drops(q[i], c)
    BY <1>7, <2>5
  <2> QED
    BY <1>7, <2>3, <2>6
<1>22. DeviceOf(d)'
  BY <1>13, <1>14, <1>15, <1>16, <1>18, <1>19, <1>20 DEF DeviceOf
<1>23. \A x \in Device : x # d => Alike(x)
  BY <1>1, <1>6 DEF AnswerLoad, app, Alike, TypeOK
<1> QED
  BY <1>2, <1>9, <1>22, <1>23, OthersGoOn

\* What a callback that may be posted does to the queue.
LEMMA MaybePosted ==
    ASSUME TypeOK, NEW d \in Device, NEW cb \in Callback, Post(d, cb) \/ UNCHANGED mainQueue
    PROVE  /\ mainQueue' \in [Device -> Seq(Callback)]
           /\ \A x \in Device : x # d => mainQueue'[x] = mainQueue[x]
           /\ \A i \in DOMAIN mainQueue[d] :
                 /\ i \in Nat /\ i < Len(mainQueue[d]) + 1
                 /\ i \in DOMAIN mainQueue'[d] /\ mainQueue'[d][i] = mainQueue[d][i]
           /\ \A i \in DOMAIN mainQueue'[d] :
                 i \in DOMAIN mainQueue[d] \/ (i = Len(mainQueue[d]) + 1 /\ mainQueue'[d][i] = cb)
           /\ \A e \in InQueue(d)' : \/ e \in InQueue(d)
                                     \/ cb.via = "load" /\ e \in cb.docs
                                     \/ cb.via = "changes" /\ e \in cb.added
<1>1. CASE Post(d, cb)
  <2>1. /\ mainQueue' \in [Device -> Seq(Callback)]
        /\ \A x \in Device : x # d => mainQueue'[x] = mainQueue[x]
    BY <1>1, PostFacts
  <2>2. /\ \A i \in DOMAIN mainQueue[d] :
              /\ i \in Nat /\ i < Len(mainQueue[d]) + 1
              /\ i \in DOMAIN mainQueue'[d] /\ mainQueue'[d][i] = mainQueue[d][i]
        /\ \A i \in DOMAIN mainQueue'[d] :
              i \in DOMAIN mainQueue[d] \/ (i = Len(mainQueue[d]) + 1 /\ mainQueue'[d][i] = cb)
    BY <1>1, PostFacts
  <2>3. \A e \in InQueue(d)' : \/ e \in InQueue(d)
                               \/ cb.via = "load" /\ e \in cb.docs
                               \/ cb.via = "changes" /\ e \in cb.added
    BY <1>1, PostedEntries
  <2> QED
    BY <2>1, <2>2, <2>3
<1>2. CASE UNCHANGED mainQueue
  <2>1. DOMAIN mainQueue[d] = 1..Len(mainQueue[d]) /\ Len(mainQueue[d]) \in Nat
    BY DeviceTypes
  <2>2. \A i \in DOMAIN mainQueue[d] : i \in Nat /\ i < Len(mainQueue[d]) + 1
    BY <2>1
  <2>3. InQueue(d)' = InQueue(d)
    BY <1>2 DEF InQueue
  <2> QED
    BY <1>2, <2>2, <2>3 DEF TypeOK
<1> QED
  BY <1>1, <1>2

LEMMA ShowMapKeeps ==
    ASSUME IInv, NEW d \in Device, ShowMap(d)
    PROVE  IInv'
<1> DEFINE docs == Entries(view[d], Present(view[d]))
           o == observers[d] + 1
           cb == [via |-> "changes", first |-> o, last |-> o, removed |-> {}, added |-> docs]
           q == mainQueue[d]
<1>1. TypeOK /\ Collection /\ DeviceOf(d)
  BY DEF IInv
<1>2. Apart
  BY DEF ShowMap, service, Apart
<1>3. /\ view' = view /\ failed' = failed /\ chatInformationArray' = chatInformationArray
      /\ observers[d] < MaxMaps /\ observers'[d] = o /\ loads'[d] = loads[d] \cup {o}
  BY <1>1 DEF ShowMap, TypeOK
<1>4. observers[d] \in Nat /\ MaxMaps \in Nat
  <2>1. MaxMaps \in Nat
    BY ListAssumption
  <2> QED
    BY <1>1, <2>1, DeviceTypes
<1>5. /\ o \in Nat /\ o \in 1..MaxMaps /\ o \in 0..MaxMaps /\ observers[d] < o /\ observers[d] <= o
  BY <1>3, <1>4
<1>6. /\ docs \in SUBSET Entry /\ OneEach(docs)
      /\ \A c \in Chat : (\E e \in docs : e.chat = c) <=> c \in Present(view[d])
      /\ docs = InView(d)
  <2>1. view[d] \in [Chat -> Id \cup {"absent"}]
    BY <1>1 DEF TypeOK
  <2>2. docs = InView(d)
    BY DEF InView
  <2> QED
    BY <2>1, <2>2, EntriesFacts
<1> HIDE DEF docs
<1>7. Post(d, cb) \/ UNCHANGED mainQueue
  BY DEF ShowMap, docs
<1> HIDE DEF o
<1>8. /\ cb \in Callback /\ cb.via = "changes" /\ cb.added = docs /\ cb.removed = {}
      /\ cb.first = o /\ cb.last = o
  <2>1. {} \in SUBSET Chat
    OBVIOUS
  <2> QED
    BY <1>5, <1>6, <2>1 DEF Callback
<1> HIDE DEF cb
<1>9. /\ mainQueue' \in [Device -> Seq(Callback)]
      /\ \A x \in Device : x # d => mainQueue'[x] = mainQueue[x]
  BY <1>1, <1>7, <1>8, MaybePosted
<1>10. /\ \A i \in DOMAIN q :
             /\ i \in Nat /\ i < Len(q) + 1
             /\ i \in DOMAIN mainQueue'[d] /\ mainQueue'[d][i] = q[i]
       /\ \A i \in DOMAIN mainQueue'[d] : i \in DOMAIN q \/ (i = Len(q) + 1 /\ mainQueue'[d][i] = cb)
  BY <1>1, <1>7, <1>8, MaybePosted
<1>11. \A e \in InQueue(d)' : e \in InQueue(d) \/ e \in docs
  <2> SUFFICES ASSUME NEW e \in InQueue(d)'
               PROVE  e \in InQueue(d) \/ e \in docs
    OBVIOUS
  <2>1. \/ e \in InQueue(d)
        \/ cb.via = "load" /\ e \in cb.docs
        \/ cb.via = "changes" /\ e \in cb.added
    BY <1>1, <1>7, <1>8, MaybePosted
  <2> QED
    BY <1>8, <2>1
<1>12. Len(q) \in Nat
  BY <1>1, DeviceTypes
<1> HIDE DEF q
<1>13. TypeOK'
  <2>1. /\ observers' = [observers EXCEPT ![d] = @ + 1] /\ loads' = [loads EXCEPT ![d] = @ \cup {o}]
        /\ pins' = [pins EXCEPT ![d] = {}]
    BY DEF ShowMap, o
  <2>2. observers' \in [Device -> 0..MaxMaps] /\ pins' \in [Device -> SUBSET Name]
    BY <1>1, <1>5, <2>1 DEF TypeOK, o
  <2>3. loads' \in [Device -> SUBSET (1..MaxMaps)]
    BY <1>1, <1>5, <2>1 DEF TypeOK
  <2> QED
    BY <1>1, <1>2, <1>3, <1>9, <2>2, <2>3 DEF TypeOK, Apart
<1>14. Present(view[d])' = Present(view[d]) /\ \A c \in Present(view[d]) : c \in Chat
  BY <1>3 DEF Present
<1>15. \A c \in Chat : /\ Ended(d, c)' <=> Ended(d, c)
                       /\ Whole(c)' <=> Whole(c)
                       /\ c \in Visible(d)' <=> c \in Visible(d)
  BY <1>2, ApartFacts
<1>16. Shapes(d)' /\ Idle(d)'
  <2>1. ASSUME NEW i \in DOMAIN mainQueue'[d]
        PROVE  /\ mainQueue'[d][i].via = "load" => OneEach(mainQueue'[d][i].docs)
               /\ mainQueue'[d][i].via = "changes" =>
                     /\ OneEach(mainQueue'[d][i].added)
                     /\ mainQueue'[d][i].first <= mainQueue'[d][i].last
                     /\ mainQueue'[d][i].last <= o
               /\ mainQueue'[d][i].via = "error" => failed[d]
    <3>1. CASE i \in DOMAIN q
      <4>1. /\ q[i].via = "load" => OneEach(q[i].docs)
            /\ q[i].via = "changes" =>
                  /\ OneEach(q[i].added)
                  /\ q[i].first <= q[i].last
                  /\ q[i].last <= observers[d]
            /\ q[i].via = "error" => failed[d]
        BY <1>1, <3>1 DEF DeviceOf, Shapes, q
      <4>2. q[i].via = "changes" => q[i].last \in Nat
        <5>1. q[i] \in Callback
          BY <1>1, <3>1, DeviceTypes DEF q
        <5>2. \A k \in Callback : k.via = "changes" => k.last \in 1..MaxMaps
          BY DEF Callback
        <5> QED
          BY <5>1, <5>2
      <4>3. q[i].via = "changes" => q[i].last <= o
        BY <1>4, <1>5, <4>1, <4>2
      <4> QED
        BY <1>10, <3>1, <4>1, <4>3
    <3>2. CASE mainQueue'[d][i] = cb
      BY <1>5, <1>6, <1>8, <3>2
    <3> QED
      BY <1>10, <3>1, <3>2
  <2> QED
    BY <1>3, <1>5, <2>1 DEF Shapes, Idle, o
<1>17. Heard(d)' /\ IdIsTold(d)'
  <2>1. \A e \in Held(d)' : e \in Held(d)
    <3>1. InList(d)' = InList(d) /\ InView(d)' = InView(d)
      BY <1>3, <1>14 DEF InList, InView, Entries
    <3> QED
      BY <1>6, <1>11, <3>1 DEF Held
  <2>2. \A i \in DOMAIN mainQueue'[d] :
           mainQueue'[d][i].via = "changes" => \A c \in mainQueue'[d][i].removed : nameOf[c] # ""
    BY <1>1, <1>8, <1>10 DEF DeviceOf, Heard, q
  <2> QED
    BY <1>1, <1>2, <2>1, <2>2, HeldGoesOn
<1>18. SeenIsThere(d)'
  BY <1>1, <1>14, <1>15 DEF DeviceOf, SeenIsThere
<1>19. RemovedIsOver(d)'
  <2> SUFFICES ASSUME NEW i \in DOMAIN mainQueue'[d], mainQueue'[d][i].via = "changes",
                      NEW c \in mainQueue'[d][i].removed
               PROVE  ~ Whole(c)'
    BY DEF RemovedIsOver
  <2>1. ~ Whole(c)
    BY <1>1, <1>8, <1>10 DEF DeviceOf, RemovedIsOver, q
  <2>2. Whole(c)' <=> Whole(c)
    BY <1>2 DEF Apart, Whole, Pending
  <2> QED
    BY <2>1, <2>2
<1>20. \A i \in DOMAIN q : \A c : Adds(q[i], c) => q[i].last \in Nat /\ q[i].last <= observers[d]
  <2>1. \A i \in DOMAIN q : q[i].via = "changes" => q[i].last <= observers[d]
    BY <1>1 DEF DeviceOf, Shapes, q
  <2>2. \A i \in DOMAIN q : q[i] \in Callback
    BY <1>1, DeviceTypes DEF q
  <2>3. \A k \in Callback : k.via = "changes" => k.last \in 1..MaxMaps
    BY DEF Callback
  <2>4. \A n \in 1..MaxMaps : n \in Nat
    OBVIOUS
  <2> QED
    BY <2>1, <2>2, <2>3, <2>4 DEF Adds
<1>21. ToldOnce(d)'
  <2> SUFFICES ASSUME NEW c \in Chat, NEW i \in DOMAIN mainQueue'[d], Adds(mainQueue'[d][i], c)
               PROVE  /\ c \in Present(view[d]) \/ Ended(d, c)
                      /\ \A j \in DOMAIN mainQueue'[d] :
                            i < j /\ Adds(mainQueue'[d][j], c) => mainQueue'[d][i].last < mainQueue'[d][j].first
    BY <1>14, <1>15 DEF ToldOnce
  <2>1. CASE i \in DOMAIN q
    <3>1. /\ mainQueue'[d][i] = q[i] /\ Adds(q[i], c)
      BY <1>10, <2>1
    <3>2. /\ c \in Present(view[d]) \/ Ended(d, c)
          /\ \A j \in DOMAIN q : i < j /\ Adds(q[j], c) => q[i].last < q[j].first
      BY <1>1, <2>1, <3>1 DEF DeviceOf, ToldOnce, q
    <3>3. q[i].last < o
      <4>1. q[i].last \in Nat /\ q[i].last <= observers[d]
        BY <1>20, <2>1, <3>1
      <4> QED
        BY <1>4, <1>5, <4>1
    <3>4. ASSUME NEW j \in DOMAIN mainQueue'[d], i < j, Adds(mainQueue'[d][j], c)
          PROVE  mainQueue'[d][i].last < mainQueue'[d][j].first
      <4>1. CASE j \in DOMAIN q
        BY <1>10, <3>1, <3>2, <3>4, <4>1
      <4>2. CASE mainQueue'[d][j] = cb
        BY <1>8, <3>1, <3>3, <4>2
      <4> QED
        BY <1>10, <4>1, <4>2
    <3> QED
      BY <3>2, <3>4
  <2>2. CASE i = Len(q) + 1 /\ mainQueue'[d][i] = cb
    <3>1. c \in Present(view[d])
      BY <1>6, <1>8, <2>2 DEF Adds
    <3>2. ASSUME NEW j \in DOMAIN mainQueue'[d], i < j
          PROVE  FALSE
      <4>1. CASE j \in DOMAIN q
        <5>1. j \in Nat /\ j < Len(q) + 1
          BY <1>10, <4>1
        <5> QED
          BY <1>12, <2>2, <3>2, <5>1
      <4>2. CASE j = Len(q) + 1
        BY <1>12, <2>2, <3>2, <4>2
      <4> QED
        BY <1>10, <4>1, <4>2
    <3> QED
      BY <3>1, <3>2
  <2> QED
    BY <1>10, <2>1, <2>2
<1>22. ListedAsTold(d)'
  <2>1. ASSUME NEW c \in Chat, NEW p \in 1..observers[d], p \in ToCome(d, c)'
        PROVE  p \in ToCome(d, c)
    <3>1. CASE c \notin Present(view[d]) /\ ~ Ended(d, c)
      BY <3>1 DEF ToCome
    <3>2. CASE ~ (c \notin Present(view[d]) /\ ~ Ended(d, c))
      <4>1. PICK i \in DOMAIN mainQueue'[d] :
               /\ Adds(mainQueue'[d][i], c)
               /\ mainQueue'[d][i].first <= p /\ p <= mainQueue'[d][i].last
        BY <1>14, <1>15, <2>1, <3>2 DEF ToCome
      <4>2. mainQueue'[d][i] # cb
        BY <1>4, <1>5, <1>8, <4>1
      <4>3. i \in DOMAIN q /\ mainQueue'[d][i] = q[i]
        BY <1>10, <4>2
      <4> QED
        BY <4>1, <4>3 DEF ToCome, q
    <3> QED
      BY <3>1, <3>2
  <2>2. observers'[d] \in Nat /\ observers[d] <= observers'[d]
    BY <1>3, <1>5
  <2> QED
    BY <1>1, <1>3, <2>1, <2>2, ListedGoesOn
<1>23. InTheEnd(d)'
  <2>1. \A k, c : Shows(d, k, c)' <=> Adds(k, c) /\ k.last = o
    BY <1>3 DEF Shows, Adds
  <2> SUFFICES ASSUME NEW c \in Present(view[d])
               PROVE  \E i \in DOMAIN mainQueue'[d] :
                         /\ Adds(mainQueue'[d][i], c) /\ mainQueue'[d][i].last = o
                         /\ \A j \in DOMAIN mainQueue'[d] : Drops(mainQueue'[d][j], c) => j < i
    <3>1. \A c : \A i \in DOMAIN mainQueue'[d] : Shows(d, mainQueue[d][i], c)' <=>
              Adds(mainQueue'[d][i], c) /\ mainQueue'[d][i].last = o
      BY <1>3 DEF Shows, Adds
    <3> QED
      BY <1>14, <3>1 DEF InTheEnd
  <2>2. Post(d, cb)
    BY DEF ShowMap, docs, cb, o
  <2>3. /\ Len(q) + 1 \in DOMAIN mainQueue'[d] /\ mainQueue'[d][Len(q) + 1] = cb
    BY <1>1, <1>8, <2>2, PostFacts DEF q
  <2>4. Adds(cb, c) /\ ~ Drops(cb, c)
    BY <1>6, <1>8, <1>14 DEF Adds, Drops
  <2>5. \A j \in DOMAIN mainQueue'[d] : Drops(mainQueue'[d][j], c) => j < Len(q) + 1
    BY <1>10, <2>4
  <2> QED
    BY <1>8, <2>3, <2>4, <2>5
<1>25. DeviceOf(d)'
  BY <1>16, <1>17, <1>18, <1>19, <1>21, <1>22, <1>23 DEF DeviceOf
<1>26. \A x \in Device : x # d => Alike(x)
  BY <1>1, <1>9 DEF ShowMap, Alike, TypeOK
<1> QED
  BY <1>2, <1>13, <1>25, <1>26, OthersGoOn

LEMMA SnapshotKeeps ==
    ASSUME IInv, NEW d \in Device, Snapshot(d)
    PROVE  IInv'
<1> DEFINE gone == Present(view[d]) \ Visible(d)
           new == Visible(d) \ Present(view[d])
           docs == Entries(Read(d), new)
           n == observers[d]
           cb == [via |-> "changes", first |-> 1, last |-> n, removed |-> gone, added |-> docs]
           q == mainQueue[d]
<1>1. TypeOK /\ Collection /\ DeviceOf(d)
  BY DEF IInv
<1>2. Apart
  BY DEF Snapshot, service, Apart
<1>3. /\ loads' = loads /\ failed' = failed /\ observers' = observers
      /\ chatInformationArray' = chatInformationArray /\ pins' = pins
      /\ n > 0 /\ view' = [view EXCEPT ![d] = Read(d)] /\ view'[d] = Read(d)
  BY <1>1 DEF Snapshot, app, TypeOK
<1>4. n \in Nat /\ n \in 1..MaxMaps /\ 1 \in 1..MaxMaps /\ 1 <= n
  <2>1. MaxMaps \in Nat
    BY ListAssumption
  <2>2. n \in 0..MaxMaps
    BY <1>1 DEF TypeOK
  <2> QED
    BY <1>3, <2>1, <2>2
<1>5. Read(d) \in [Chat -> Id \cup {"absent"}]
  BY <1>1, ReadIsKnown
<1>6. /\ docs \in SUBSET Entry /\ OneEach(docs)
      /\ \A c \in Chat : (\E e \in docs : e.chat = c) <=> c \in new
      /\ \A e \in docs : Known(d, e)
  <2>1. new \in SUBSET Present(Read(d)) /\ new \in SUBSET Visible(d)
    BY DEF Visible
  <2>2. \A e \in docs : Known(d, e)
    BY <1>1, <2>1, ReadIsKnown
  <2> HIDE DEF new
  <2>3. docs \in SUBSET Entry /\ OneEach(docs)
    BY <1>5, <2>1, EntriesFacts
  <2>4. \A c \in Chat : (\E e \in docs : e.chat = c) <=> c \in new
    BY <1>5, <2>1, EntriesFacts
  <2> QED
    BY <2>2, <2>3, <2>4
<1>7. /\ Post(d, cb) \/ UNCHANGED mainQueue
      /\ new # {} => Post(d, cb)
  <2>1. IF gone \cup new = {} THEN UNCHANGED mainQueue ELSE Post(d, cb)
    BY Zenon DEF Snapshot
  <2> QED
    BY <2>1
<1>8. gone \in SUBSET Chat /\ \A c \in Visible(d) : c \in Chat
  BY DEF Visible, Present
<1>9. \A c \in Visible(d) : (c \in new <=> c \notin Present(view[d])) /\ ~ Ended(d, c)
  <2>1. ASSUME NEW c \in Visible(d)
        PROVE  ~ Ended(d, c)
    BY <1>1, <1>8, EndedIsUnseen DEF Collection
  <2> QED
    BY <2>1
<1>10. \A c \in gone : Ended(d, c) /\ ~ Whole(c) /\ nameOf[c] # ""
  <2> SUFFICES ASSUME NEW c \in gone
               PROVE  Ended(d, c) /\ ~ Whole(c) /\ nameOf[c] # ""
    OBVIOUS
  <2>1. Ended(d, c)
    BY <1>1 DEF DeviceOf, SeenIsThere
  <2>2. ~ Whole(c)
    BY <1>1, <1>8, <2>1, EndedIsNotWhole
  <2> QED
    BY <2>1, <2>2 DEF Ended
<1>11. \A c \in Chat : c \in Present(view[d]) => c \in Visible(d) \/ Ended(d, c)
  BY <1>1 DEF DeviceOf, SeenIsThere
<1>12. \A c \in new : c \in Visible(d) /\ c \notin Present(view[d])
  OBVIOUS
<1> HIDE DEF docs, gone, new, n
<1>13. /\ cb \in Callback /\ cb.via = "changes" /\ cb.added = docs /\ cb.removed = gone
       /\ cb.first = 1 /\ cb.last = n
  BY <1>4, <1>6, <1>8 DEF Callback
<1> HIDE DEF cb
<1>14. /\ mainQueue' \in [Device -> Seq(Callback)]
       /\ \A x \in Device : x # d => mainQueue'[x] = mainQueue[x]
  BY <1>1, <1>7, <1>13, MaybePosted
<1>15. /\ \A i \in DOMAIN q :
             /\ i \in Nat /\ i < Len(q) + 1
             /\ i \in DOMAIN mainQueue'[d] /\ mainQueue'[d][i] = q[i]
       /\ \A i \in DOMAIN mainQueue'[d] : i \in DOMAIN q \/ (i = Len(q) + 1 /\ mainQueue'[d][i] = cb)
  BY <1>1, <1>7, <1>13, MaybePosted
<1>16. \A e \in InQueue(d)' : e \in InQueue(d) \/ e \in docs
  <2> SUFFICES ASSUME NEW e \in InQueue(d)'
               PROVE  e \in InQueue(d) \/ e \in docs
    OBVIOUS
  <2>1. \/ e \in InQueue(d)
        \/ cb.via = "load" /\ e \in cb.docs
        \/ cb.via = "changes" /\ e \in cb.added
    BY <1>1, <1>7, <1>13, MaybePosted
  <2> QED
    BY <1>13, <2>1
<1>17. Post(d, cb) => /\ Len(q) + 1 \in DOMAIN mainQueue'[d] /\ mainQueue'[d][Len(q) + 1] = cb
                      /\ mainQueue'[d] # << >> /\ Len(mainQueue'[d]) = Len(q) + 1
  <2> SUFFICES ASSUME Post(d, cb)
               PROVE  /\ Len(q) + 1 \in DOMAIN mainQueue'[d] /\ mainQueue'[d][Len(q) + 1] = cb
                      /\ mainQueue'[d] # << >> /\ Len(mainQueue'[d]) = Len(q) + 1
    OBVIOUS
  <2>1. Len(q) + 1 \in DOMAIN mainQueue'[d] /\ mainQueue'[d][Len(q) + 1] = cb
    BY <1>1, <1>13, PostFacts
  <2>2. mainQueue'[d] # << >> /\ Len(mainQueue'[d]) = Len(q) + 1
    BY <1>1, <1>13, PostFacts
  <2> QED
    BY <2>1, <2>2
<1>18. Len(q) \in Nat
  BY <1>1, DeviceTypes
<1> HIDE DEF q
<1>19. TypeOK'
  <2>1. view' \in [Device -> [Chat -> Id \cup {"absent"}]]
    BY <1>1, <1>3, <1>5 DEF TypeOK
  <2> QED
    BY <1>1, <1>2, <1>3, <1>14, <2>1 DEF TypeOK, Apart
<1>20. Present(view[d])' = Visible(d)
  BY <1>3 DEF Present, Visible
<1>21. \A c \in Chat : /\ Ended(d, c)' <=> Ended(d, c)
                       /\ Whole(c)' <=> Whole(c)
                       /\ c \in Visible(d)' <=> c \in Visible(d)
  BY <1>2, ApartFacts
<1>22. Shapes(d)' /\ Idle(d)'
  <2>1. ASSUME NEW i \in DOMAIN mainQueue'[d]
        PROVE  /\ mainQueue'[d][i].via = "load" => OneEach(mainQueue'[d][i].docs)
               /\ mainQueue'[d][i].via = "changes" =>
                     /\ OneEach(mainQueue'[d][i].added)
                     /\ mainQueue'[d][i].first <= mainQueue'[d][i].last
                     /\ mainQueue'[d][i].last <= observers[d]
               /\ mainQueue'[d][i].via = "error" => failed[d]
    <3>1. CASE i \in DOMAIN q
      BY <1>1, <1>15, <3>1 DEF DeviceOf, Shapes, q
    <3>2. CASE mainQueue'[d][i] = cb
      BY <1>4, <1>6, <1>13, <3>2 DEF n
    <3> QED
      BY <1>15, <3>1, <3>2
  <2> QED
    BY <1>3, <1>4, <2>1 DEF Shapes, Idle, n
<1>23. Heard(d)' /\ IdIsTold(d)'
  <2>1. \A e \in Held(d)' : e \in Held(d) \/ Known(d, e)
    <3>1. InList(d)' = InList(d)
      BY <1>3 DEF InList
    <3>2. \A e \in InView(d)' : Known(d, e)
      <4>1. InView(d)' = Entries(Read(d), Visible(d))
        BY <1>3, <1>20 DEF InView, Entries
      <4>2. Visible(d) \in SUBSET Visible(d)
        OBVIOUS
      <4> QED
        BY <1>1, <4>1, <4>2, ReadIsKnown
    <3> QED
      BY <1>6, <1>16, <3>1, <3>2 DEF Held
  <2>2. \A i \in DOMAIN mainQueue'[d] :
           mainQueue'[d][i].via = "changes" => \A c \in mainQueue'[d][i].removed : nameOf[c] # ""
    BY <1>1, <1>10, <1>13, <1>15 DEF DeviceOf, Heard, q
  <2> QED
    BY <1>1, <1>2, <2>1, <2>2, HeldGoesOn
<1>24. SeenIsThere(d)'
  BY <1>8, <1>20, <1>21 DEF SeenIsThere
<1>25. RemovedIsOver(d)'
  <2> SUFFICES ASSUME NEW i \in DOMAIN mainQueue'[d], mainQueue'[d][i].via = "changes",
                      NEW c \in mainQueue'[d][i].removed
               PROVE  ~ Whole(c)'
    BY DEF RemovedIsOver
  <2>1. ~ Whole(c)
    BY <1>1, <1>10, <1>13, <1>15 DEF DeviceOf, RemovedIsOver, q
  <2>2. Whole(c)' <=> Whole(c)
    BY <1>2 DEF Apart, Whole, Pending
  <2> QED
    BY <2>1, <2>2
<1>26. ToldOnce(d)'
  <2> SUFFICES ASSUME NEW c \in Chat, NEW i \in DOMAIN mainQueue'[d], Adds(mainQueue'[d][i], c)
               PROVE  /\ c \in Visible(d) \/ Ended(d, c)
                      /\ \A j \in DOMAIN mainQueue'[d] :
                            i < j /\ Adds(mainQueue'[d][j], c) => mainQueue'[d][i].last < mainQueue'[d][j].first
    BY <1>20, <1>21 DEF ToldOnce
  <2>1. CASE i \in DOMAIN q
    <3>1. mainQueue'[d][i] = q[i] /\ Adds(q[i], c)
      BY <1>15, <2>1
    <3>2. /\ c \in Present(view[d]) \/ Ended(d, c)
          /\ \A j \in DOMAIN q : i < j /\ Adds(q[j], c) => q[i].last < q[j].first
      BY <1>1, <2>1, <3>1 DEF DeviceOf, ToldOnce, q
    <3>3. c \in Visible(d) \/ Ended(d, c)
      BY <1>11, <3>2
    <3>4. ASSUME NEW j \in DOMAIN mainQueue'[d], i < j, Adds(mainQueue'[d][j], c)
          PROVE  mainQueue'[d][i].last < mainQueue'[d][j].first
      <4>1. CASE j \in DOMAIN q
        BY <1>15, <3>1, <3>2, <3>4, <4>1
      <4>2. mainQueue'[d][j] # cb
        <5>1. Adds(cb, c) => c \in new
          BY <1>6, <1>13 DEF Adds
        <5> QED
          BY <1>9, <1>12, <3>2, <3>4, <5>1
      <4> QED
        BY <1>15, <4>1, <4>2
    <3> QED
      BY <3>3, <3>4
  <2>2. CASE i = Len(q) + 1 /\ mainQueue'[d][i] = cb
    <3>1. c \in Visible(d)
      BY <1>6, <1>12, <1>13, <2>2 DEF Adds
    <3>2. ASSUME NEW j \in DOMAIN mainQueue'[d], i < j
          PROVE  FALSE
      <4>1. CASE j \in DOMAIN q
        <5>1. j \in Nat /\ j < Len(q) + 1
          BY <1>15, <4>1
        <5> QED
          BY <1>18, <2>2, <3>2, <5>1
      <4>2. CASE j = Len(q) + 1
        BY <1>18, <2>2, <3>2, <4>2
      <4> QED
        BY <1>15, <4>1, <4>2
    <3> QED
      BY <3>1, <3>2
  <2> QED
    BY <1>15, <2>1, <2>2
<1>27. ListedAsTold(d)'
  <2>1. ASSUME NEW c \in Chat, NEW p \in 1..observers[d], p \in ToCome(d, c)'
        PROVE  p \in ToCome(d, c)
    <3>1. CASE c \notin Present(view[d]) /\ ~ Ended(d, c)
      BY <3>1 DEF ToCome
    <3>2. CASE c \in Present(view[d]) \/ Ended(d, c)
      <4>1. c \in Visible(d) \/ Ended(d, c)
        BY <1>11, <3>2
      <4>2. PICK i \in DOMAIN mainQueue'[d] :
               /\ Adds(mainQueue'[d][i], c)
               /\ mainQueue'[d][i].first <= p /\ p <= mainQueue'[d][i].last
        BY <1>20, <1>21, <2>1, <4>1 DEF ToCome
      <4>3. mainQueue'[d][i] # cb
        <5>1. Adds(cb, c) => c \in new
          BY <1>6, <1>13 DEF Adds
        <5> QED
          BY <1>9, <1>12, <3>2, <4>2, <5>1
      <4>4. i \in DOMAIN q /\ mainQueue'[d][i] = q[i]
        BY <1>15, <4>3
      <4> QED
        BY <4>2, <4>4 DEF ToCome, q
    <3> QED
      BY <3>1, <3>2
  <2>2. observers'[d] \in Nat /\ observers[d] <= observers'[d]
    BY <1>3, <1>4 DEF n
  <2> QED
    BY <1>1, <1>3, <2>1, <2>2, ListedGoesOn
<1>28. InTheEnd(d)'
  <2>0. /\ \A k, c : Shows(d, k, c)' <=> Shows(d, k, c)
        /\ \A c : c \in OnMap(d)' <=> c \in OnMap(d)
    BY <1>2, <1>3 DEF Shows, OnMap, Listed, Apart
  <2> SUFFICES ASSUME NEW c \in Visible(d), ~ failed[d], Whole(c)'
               PROVE  /\ \/ c \in OnMap(d)
                         \/ \E i \in DOMAIN mainQueue'[d] : Shows(d, mainQueue'[d][i], c)
                      /\ \A i \in DOMAIN mainQueue'[d] : Drops(mainQueue'[d][i], c) =>
                            \E j \in DOMAIN mainQueue'[d] : i < j /\ Shows(d, mainQueue'[d][j], c)
    BY <1>3, <1>20, <2>0 DEF InTheEnd, Shows
  <2>1. c \in Chat /\ Whole(c)
    BY <1>8, <1>21
  <2>2. \A i \in DOMAIN mainQueue'[d] : Drops(mainQueue'[d][i], c) => i \in DOMAIN q /\ Drops(q[i], c)
    BY <1>13, <1>15 DEF Drops
  <2>3. CASE c \in Present(view[d])
    <3>1. /\ \/ c \in OnMap(d)
             \/ \E i \in DOMAIN q : Shows(d, q[i], c)
          /\ \A i \in DOMAIN q : Drops(q[i], c) => \E j \in DOMAIN q : i < j /\ Shows(d, q[j], c)
      BY <1>1, <2>1, <2>3 DEF DeviceOf, InTheEnd, q
    <3> QED
      BY <1>15, <2>2, <3>1
  <2>4. CASE c \notin Present(view[d])
    <3>1. c \in new
      BY <1>9, <2>4
    <3>2. Len(q) + 1 \in DOMAIN mainQueue'[d] /\ mainQueue'[d][Len(q) + 1] = cb
      BY <1>7, <1>17, <3>1
    <3>3. Shows(d, cb, c)
      BY <1>6, <1>13, <2>1, <3>1 DEF Shows, Adds, n
    <3>4. \A i \in DOMAIN q : i < Len(q) + 1
      BY <1>15
    <3> QED
      BY <2>2, <3>2, <3>3, <3>4
  <2> QED
    BY <2>3, <2>4
<1>30. DeviceOf(d)'
  BY <1>22, <1>23, <1>24, <1>25, <1>26, <1>27, <1>28 DEF DeviceOf
<1>31. \A x \in Device : x # d => Alike(x)
  BY <1>1, <1>3, <1>14 DEF Alike, TypeOK
<1> QED
  BY <1>2, <1>19, <1>30, <1>31, OthersGoOn

\* How many callbacks a turn takes out of a queue: none while observers are
\* still to have theirs.
Taken(queue) ==
    IF Head(queue).via = "changes" /\ Head(queue).first < Head(queue).last THEN 0 ELSE 1

\* A callback and what is left of it.
Left(callback, rest) ==
    /\ rest.via = callback.via
    /\ callback.via = "load" => rest.docs = callback.docs
    /\ callback.via = "changes" =>
          /\ rest.added = callback.added /\ rest.removed = callback.removed
          /\ rest.last = callback.last /\ callback.first <= rest.first /\ rest.first <= rest.last

LEMMA CallbackFacts ==
    ASSUME NEW k \in Callback
    PROVE  /\ k.via \in {"load", "error", "changes"}
           /\ k.via = "load" => k.docs \in SUBSET Entry
           /\ k.via = "changes" =>
                 /\ k.first \in 1..MaxMaps /\ k.last \in 1..MaxMaps
                 /\ k.added \in SUBSET Entry /\ k.removed \in SUBSET Chat
                 /\ \A f \in 1..MaxMaps :
                       /\ [k EXCEPT !.first = f] \in Callback
                       /\ [k EXCEPT !.first = f].via = "changes"
                       /\ [k EXCEPT !.first = f].first = f
                       /\ [k EXCEPT !.first = f].last = k.last
                       /\ [k EXCEPT !.first = f].added = k.added
                       /\ [k EXCEPT !.first = f].removed = k.removed
  BY DEF Callback

LEMMA AfterTurnFacts ==
    ASSUME NEW q \in Seq(Callback), q # << >>,
           \A i \in DOMAIN q : q[i].via = "changes" => q[i].first <= q[i].last
    PROVE  /\ Taken(q) \in {0, 1} /\ 1 \in DOMAIN q /\ Head(q) = q[1]
           /\ AfterTurn(q) \in Seq(Callback)
           /\ Len(AfterTurn(q)) + Taken(q) = Len(q)
           /\ \A i \in DOMAIN AfterTurn(q) :
                 /\ i + Taken(q) \in DOMAIN q
                 /\ Left(q[i + Taken(q)], AfterTurn(q)[i])
           /\ \A i \in DOMAIN q : i = 1 \/ i - Taken(q) \in DOMAIN AfterTurn(q)
           /\ Taken(q) = 0 => /\ q[1].via = "changes"
                              /\ 1 \in DOMAIN AfterTurn(q) /\ AfterTurn(q)[1].first = q[1].first + 1
           /\ Taken(q) = 1 /\ q[1].via = "changes" => q[1].first = q[1].last
<1>1. /\ Len(q) \in Nat /\ Len(q) >= 1 /\ DOMAIN q = 1..Len(q) /\ Head(q) = q[1] /\ q[1] \in Callback
      /\ \A i \in DOMAIN q : q[i] \in Callback
  OBVIOUS
<1>2. /\ Tail(q) \in Seq(Callback) /\ Len(Tail(q)) = Len(q) - 1
      /\ DOMAIN Tail(q) = 1..(Len(q) - 1)
      /\ \A i \in 1..(Len(q) - 1) : Tail(q)[i] = q[i + 1]
  OBVIOUS
<1>3. /\ \A i \in DOMAIN q : q[i].via = "changes" =>
            /\ q[i].first \in 1..MaxMaps /\ q[i].last \in 1..MaxMaps
            /\ q[i].first <= q[i].last
      /\ MaxMaps \in Nat
  BY <1>1, CallbackFacts, ListAssumption
<1>4. CASE Taken(q) = 1
  <2>1. AfterTurn(q) = Tail(q)
    BY <1>4 DEF AfterTurn, Taken
  <2>2. \A i \in 1..(Len(q) - 1) : i + 1 \in DOMAIN q /\ Left(q[i + 1], Tail(q)[i])
    BY <1>1, <1>2, <1>3 DEF Left
  <2>3. q[1].via = "changes" => q[1].first = q[1].last
    BY <1>1, <1>3, <1>4 DEF Taken
  <2>4. \A i \in DOMAIN q : i = 1 \/ i - 1 \in 1..(Len(q) - 1)
    BY <1>1
  <2> QED
    BY <1>1, <1>2, <1>4, <2>1, <2>2, <2>3, <2>4
<1>5. CASE Taken(q) = 0
  <2> DEFINE h == [q[1] EXCEPT !.first = q[1].first + 1]
  <2>1. q[1].via = "changes" /\ q[1].first < q[1].last
    BY <1>1, <1>5 DEF Taken
  <2>2. AfterTurn(q) = <<h>> \o Tail(q)
    BY <1>1, <2>1 DEF AfterTurn
  <2>3. q[1].first \in 1..MaxMaps /\ q[1].last \in 1..MaxMaps
    BY <1>1, <1>3, <2>1
  <2>4. q[1].first + 1 \in 1..MaxMaps
    BY <1>3, <2>1, <2>3
  <2>5. /\ h \in Callback /\ h.via = "changes" /\ h.first = q[1].first + 1
        /\ h.last = q[1].last /\ h.added = q[1].added /\ h.removed = q[1].removed
    BY <1>1, <2>1, <2>4, CallbackFacts
  <2> HIDE DEF h
  <2>6. Left(q[1], h)
    BY <2>1, <2>3, <2>5 DEF Left
  <2>7. /\ <<h>> \o Tail(q) \in Seq(Callback) /\ Len(<<h>> \o Tail(q)) = Len(q)
        /\ DOMAIN (<<h>> \o Tail(q)) = 1..Len(q)
        /\ (<<h>> \o Tail(q))[1] = h
        /\ \A i \in 2..Len(q) : (<<h>> \o Tail(q))[i] = q[i]
    BY <1>1, <1>2, <2>5
  <2>8. \A i \in 2..Len(q) : Left(q[i], q[i])
    <3> SUFFICES ASSUME NEW i \in 2..Len(q)
                 PROVE  Left(q[i], q[i])
      OBVIOUS
    <3>1. i \in DOMAIN q
      BY <1>1
    <3> QED
      BY <1>3, <3>1 DEF Left
  <2>9. \A i \in 1..Len(q) : i + 0 = i /\ i - 0 = i /\ (i = 1 \/ i \in 2..Len(q))
    BY <1>1
  <2>10. \A i \in 1..Len(q) : Left(q[i], AfterTurn(q)[i])
    BY <2>2, <2>6, <2>7, <2>8, <2>9
  <2>11. 1 \in 1..Len(q) /\ Len(q) + 0 = Len(q)
    BY <1>1
  <2> QED
    BY <1>1, <1>5, <2>1, <2>2, <2>5, <2>7, <2>9, <2>10, <2>11
<1> QED
  BY <1>4, <1>5 DEF Taken

Lists(list, c) == \E i \in DOMAIN list : list[i].chat = c

\* A list after a callback: where its entries are from, how often a chat is
\* there, which chats are still there and which are new.
LEMMA ListAfterFacts ==
    ASSUME NEW k \in Callback, NEW list \in Seq(Entry),
           k.via = "load" => OneEach(k.docs), k.via = "changes" => OneEach(k.added)
    PROVE  /\ ListAfter(k, list) \in Seq(Entry)
           /\ \A i \in DOMAIN ListAfter(k, list) :
                 \/ \E j \in DOMAIN list : ListAfter(k, list)[i] = list[j]
                 \/ k.via = "load" /\ ListAfter(k, list)[i] \in k.docs
                 \/ k.via = "changes" /\ ListAfter(k, list)[i] \in k.added
           /\ \A c : \/ Count(ListAfter(k, list), c) <= 1
                     \/ Count(ListAfter(k, list), c) <= Count(list, c)
                     \/ Adds(k, c) /\ Count(ListAfter(k, list), c) <= Count(list, c) + 1
           /\ \A c : Brings(k, c) => Lists(ListAfter(k, list), c)
           /\ \A c : (/\ ~ Drops(k, c) /\ Lists(list, c)
                      /\ k.via = "changes" => \A g \in k.removed : nameOf[g] # nameOf[c]) =>
                     Lists(ListAfter(k, list), c)
<1> DEFINE to == ListAfter(k, list)
<1>1. k.via \in {"load", "error", "changes"}
  BY CallbackFacts
<1>2. CASE k.via = "load" /\ k.docs # {}
  <2>1. to = InOrder(k.docs)
    BY <1>2 DEF ListAfter
  <2>2. k.docs \in SUBSET Entry /\ OneEach(k.docs)
    BY <1>2, CallbackFacts
  <2> HIDE DEF to
  <2>3. /\ to \in Seq(Entry)
        /\ \A i \in DOMAIN to : to[i] \in k.docs
        /\ \A e \in k.docs : \E i \in DOMAIN to : to[i] = e
        /\ \A c : Count(to, c) <= 1
    BY <2>1, <2>2, InOrderFacts
  <2>4. \A c : Brings(k, c) => Lists(to, c)
    BY <1>2, <2>3 DEF Brings, Adds, Lists
  <2>5. \A c : ~ Drops(k, c) => Lists(to, c)
    BY <1>2, <2>3 DEF Drops, Lists
  <2> QED
    BY <1>2, <2>3, <2>4, <2>5 DEF to
<1>3. CASE k.via = "load" /\ k.docs = {}
  <2>1. to = list
    BY <1>3 DEF ListAfter
  <2> HIDE DEF to
  <2>2. \A c : Count(to, c) \in Nat /\ Count(list, c) = Count(to, c)
    BY <2>1, CountIsNat
  <2>3. \A c : Count(to, c) <= Count(list, c)
    BY <2>2
  <2>4. \A c : ~ Brings(k, c)
    BY <1>3 DEF Brings, Adds
  <2> QED
    BY <2>1, <2>3, <2>4 DEF to
<1>4. CASE k.via = "error"
  <2>1. to = << >>
    BY <1>4 DEF ListAfter
  <2> HIDE DEF to
  <2>2. to \in Seq(Entry) /\ DOMAIN to = {}
    BY <2>1
  <2>3. \A c : Count(to, c) = 0
    BY <2>2, CountIsNat
  <2>4. \A c : Count(to, c) <= 1
    BY <2>3
  <2>5. \A c : ~ Brings(k, c) /\ Drops(k, c)
    BY <1>4 DEF Brings, Adds, Drops
  <2> QED
    BY <2>2, <2>4, <2>5 DEF to
<1>5. CASE k.via = "changes"
  <2> DEFINE rest == Without(list, k.removed)
             more == InOrder(k.added)
  <2>1. to = rest \o more
    BY <1>5 DEF ListAfter, Told
  <2>2. k.added \in SUBSET Entry /\ OneEach(k.added) /\ k.removed \in SUBSET Chat
    BY <1>5, CallbackFacts
  <2>3. /\ rest \in Seq(Entry)
        /\ \A i \in DOMAIN rest : \E j \in DOMAIN list : rest[i] = list[j]
        /\ \A i \in DOMAIN list :
              (\A g \in k.removed : nameOf[g] # nameOf[list[i].chat]) =>
                  \E j \in DOMAIN rest : rest[j] = list[i]
        /\ \A c : Count(rest, c) <= Count(list, c)
    BY <2>2, WithoutFacts
  <2>4. /\ more \in Seq(Entry)
        /\ \A i \in DOMAIN more : more[i] \in k.added
        /\ \A e \in k.added : \E i \in DOMAIN more : more[i] = e
        /\ \A c : Count(more, c) <= 1
    BY <2>2, InOrderFacts
  <2> HIDE DEF rest, more, to
  <2>5. /\ Len(rest) \in Nat /\ Len(more) \in Nat
        /\ DOMAIN rest = 1..Len(rest) /\ DOMAIN more = 1..Len(more)
        /\ to \in Seq(Entry) /\ DOMAIN to = 1..(Len(rest) + Len(more))
        /\ \A i \in 1..(Len(rest) + Len(more)) :
              to[i] = IF i <= Len(rest) THEN rest[i] ELSE more[i - Len(rest)]
    BY <2>1, <2>3, <2>4, LenProperties, ConcatProperties
  <2>6. \A i \in DOMAIN to : \/ \E j \in DOMAIN rest : to[i] = rest[j]
                             \/ \E j \in DOMAIN more : to[i] = more[j]
    <3> SUFFICES ASSUME NEW i \in DOMAIN to
                 PROVE  \/ \E j \in DOMAIN rest : to[i] = rest[j]
                        \/ \E j \in DOMAIN more : to[i] = more[j]
      OBVIOUS
    <3>1. CASE i <= Len(rest)
      <4>1. i \in DOMAIN rest /\ to[i] = rest[i]
        BY <2>5, <3>1
      <4> QED
        BY <4>1
    <3>2. CASE ~ (i <= Len(rest))
      <4>1. i - Len(rest) \in DOMAIN more /\ to[i] = more[i - Len(rest)]
        BY <2>5, <3>2
      <4> QED
        BY <4>1
    <3> QED
      BY <3>1, <3>2
  <2>7. \A j \in DOMAIN rest : j \in DOMAIN to /\ to[j] = rest[j]
    BY <2>5
  <2>8. \A j \in DOMAIN more : Len(rest) + j \in DOMAIN to /\ to[Len(rest) + j] = more[j]
    BY <2>5
  <2>9. \A i \in DOMAIN to : \/ \E j \in DOMAIN list : to[i] = list[j]
                             \/ k.via = "changes" /\ to[i] \in k.added
    BY <1>5, <2>3, <2>4, <2>6
  <2>10. ASSUME NEW c
         PROVE  \/ Count(to, c) <= Count(list, c)
                \/ Adds(k, c) /\ Count(to, c) <= Count(list, c) + 1
    <3>1. Count(to, c) <= Count(rest, c) + Count(more, c)
      BY <2>1, <2>3, <2>4, CountOfConcat
    <3>2. /\ Count(to, c) \in Nat /\ Count(rest, c) \in Nat
          /\ Count(more, c) \in Nat /\ Count(list, c) \in Nat
      BY <2>3, <2>4, <2>5, CountIsNat
    <3>3. Count(rest, c) <= Count(list, c) /\ Count(more, c) <= 1
      BY <2>3, <2>4
    <3>4. CASE Adds(k, c)
      BY <3>1, <3>2, <3>3, <3>4
    <3>5. CASE ~ Adds(k, c)
      <4>1. \A i \in DOMAIN more : more[i].chat # c
        BY <1>5, <2>4, <3>5 DEF Adds
      <4>2. Count(more, c) = 0
        BY <2>4, <4>1, CountIsNat
      <4> QED
        BY <3>1, <3>2, <3>3, <4>2
    <3> QED
      BY <3>4, <3>5
  <2>11. \A c : Brings(k, c) => Lists(to, c)
    <3> SUFFICES ASSUME NEW c, Brings(k, c)
                 PROVE  Lists(to, c)
      OBVIOUS
    <3>1. PICK e \in k.added : e.chat = c
      BY <1>5 DEF Brings, Adds
    <3>2. PICK j \in DOMAIN more : more[j] = e
      BY <2>4
    <3> QED
      BY <2>8, <3>1, <3>2 DEF Lists
  <2>12. ASSUME NEW c, Lists(list, c), \A g \in k.removed : nameOf[g] # nameOf[c]
         PROVE  Lists(to, c)
    <3>1. PICK i \in DOMAIN list : list[i].chat = c
      BY <2>12 DEF Lists
    <3>2. PICK j \in DOMAIN rest : rest[j] = list[i]
      BY <2>3, <2>12, <3>1
    <3> QED
      BY <2>7, <3>1, <3>2 DEF Lists
  <2> QED
    BY <1>5, <2>5, <2>9, <2>10, <2>11, <2>12 DEF to
<1> QED
  BY <1>1, <1>2, <1>3, <1>4, <1>5

LEMMA RunCallbackKeeps ==
    ASSUME IInv, NEW d \in Device, RunCallback(d)
    PROVE  IInv'
<1> DEFINE q == mainQueue[d]
           t == AfterTurn(q)
           s == Taken(q)
           list == chatInformationArray[d]
           to == ListAfter(q[1], list)
           n == observers[d]
<1>1. TypeOK /\ Collection /\ DeviceOf(d)
  BY DEF IInv
<1>2. Apart
  BY DEF RunCallback, service, Apart
<1>3. /\ q \in Seq(Callback) /\ q # << >> /\ Len(q) \in Nat /\ DOMAIN q = 1..Len(q)
      /\ \A i \in DOMAIN q : q[i] \in Callback
      /\ list \in Seq(Entry) /\ n \in Nat
  BY <1>1, DeviceTypes DEF RunCallback
<1>4. \A i \in DOMAIN q :
          /\ q[i].via = "load" => OneEach(q[i].docs)
          /\ q[i].via = "changes" => OneEach(q[i].added) /\ q[i].first <= q[i].last /\ q[i].last <= n
          /\ q[i].via = "error" => failed[d]
  BY <1>1 DEF DeviceOf, Shapes
<1>5. /\ s \in {0, 1} /\ 1 \in DOMAIN q /\ Head(q) = q[1]
      /\ t \in Seq(Callback) /\ Len(t) + s = Len(q)
      /\ \A i \in DOMAIN t : i + s \in DOMAIN q /\ Left(q[i + s], t[i])
      /\ \A i \in DOMAIN q : i = 1 \/ i - s \in DOMAIN t
      /\ s = 0 => q[1].via = "changes" /\ 1 \in DOMAIN t /\ t[1].first = q[1].first + 1
      /\ s = 1 /\ q[1].via = "changes" => q[1].first = q[1].last
  <2>0. \A i \in DOMAIN q : q[i].via = "changes" => q[i].first <= q[i].last
    BY <1>4
  <2> HIDE DEF q
  <2>1. s \in {0, 1} /\ 1 \in DOMAIN q /\ Head(q) = q[1]
    BY <1>3, <2>0, AfterTurnFacts
  <2>2. t \in Seq(Callback) /\ Len(t) + s = Len(q)
    BY <1>3, <2>0, AfterTurnFacts
  <2>3. \A i \in DOMAIN t : i + s \in DOMAIN q /\ Left(q[i + s], t[i])
    BY <1>3, <2>0, AfterTurnFacts
  <2>4. \A i \in DOMAIN q : i = 1 \/ i - s \in DOMAIN t
    BY <1>3, <2>0, AfterTurnFacts
  <2>5. /\ s = 0 => q[1].via = "changes" /\ 1 \in DOMAIN t /\ t[1].first = q[1].first + 1
        /\ s = 1 /\ q[1].via = "changes" => q[1].first = q[1].last
    BY <1>3, <2>0, AfterTurnFacts
  <2> QED
    BY <2>1, <2>2, <2>3, <2>4, <2>5
<1>6. /\ to \in Seq(Entry)
      /\ \A i \in DOMAIN to :
            \/ \E j \in DOMAIN list : to[i] = list[j]
            \/ q[1].via = "load" /\ to[i] \in q[1].docs
            \/ q[1].via = "changes" /\ to[i] \in q[1].added
      /\ \A c : \/ Count(to, c) <= 1
                \/ Count(to, c) <= Count(list, c)
                \/ Adds(q[1], c) /\ Count(to, c) <= Count(list, c) + 1
      /\ \A c : Brings(q[1], c) => Lists(to, c)
      /\ \A c : (/\ ~ Drops(q[1], c) /\ Lists(list, c)
                 /\ q[1].via = "changes" => \A g \in q[1].removed : nameOf[g] # nameOf[c]) =>
                Lists(to, c)
  <2> DEFINE k == q[1]
  <2>0. k \in Callback /\ (k.via = "load" => OneEach(k.docs)) /\ (k.via = "changes" => OneEach(k.added))
    BY <1>3, <1>4, <1>5
  <2> HIDE DEF k, list
  <2>1. /\ to \in Seq(Entry)
        /\ \A i \in DOMAIN to :
              \/ \E j \in DOMAIN list : to[i] = list[j]
              \/ k.via = "load" /\ to[i] \in k.docs
              \/ k.via = "changes" /\ to[i] \in k.added
    BY <1>3, <2>0, ListAfterFacts DEF k
  <2>2. \A c : \/ Count(to, c) <= 1
               \/ Count(to, c) <= Count(list, c)
               \/ Adds(k, c) /\ Count(to, c) <= Count(list, c) + 1
    BY <1>3, <2>0, ListAfterFacts DEF k
  <2>3. \A c : Brings(k, c) => Lists(to, c)
    BY <1>3, <2>0, ListAfterFacts DEF k
  <2>4. \A c : (/\ ~ Drops(k, c) /\ Lists(list, c)
                /\ k.via = "changes" => \A g \in k.removed : nameOf[g] # nameOf[c]) =>
               Lists(to, c)
    BY <1>3, <2>0, ListAfterFacts DEF k
  <2> QED
    BY <2>1, <2>2, <2>3, <2>4 DEF k
<1>7. /\ view' = view /\ loads' = loads /\ failed' = failed /\ observers' = observers
      /\ mainQueue' = [mainQueue EXCEPT ![d] = t]
      /\ chatInformationArray' = [chatInformationArray EXCEPT ![d] = to]
      /\ pins' = [pins EXCEPT ![d] = PinsAfter(d, q[1], to)]
  BY <1>5 DEF RunCallback
<1>8. /\ mainQueue'[d] = t /\ chatInformationArray'[d] = to /\ pins'[d] = PinsAfter(d, q[1], to)
      /\ \A x \in Device : x # d => /\ mainQueue'[x] = mainQueue[x] /\ pins'[x] = pins[x]
                                    /\ chatInformationArray'[x] = chatInformationArray[x]
  BY <1>1, <1>7 DEF TypeOK
<1> HIDE DEF t, s, to, list, n
<1>9. DOMAIN t = 1..Len(t) /\ Len(t) \in Nat
  BY <1>5, LenProperties
<1>10. \A i \in DOMAIN t : i \in Nat /\ i >= 1 /\ t[i] \in Callback
  BY <1>5, <1>9, ElementOfSeq
\* What is said of a callback still holds of what is left of it.
<1>11. \A i \in DOMAIN t, c \in Chat :
          /\ Adds(t[i], c) <=> Adds(q[i + s], c)
          /\ Shows(d, t[i], c) <=> Shows(d, q[i + s], c)
          /\ Drops(t[i], c) <=> Drops(q[i + s], c)
  <2> SUFFICES ASSUME NEW i \in DOMAIN t, NEW c \in Chat
               PROVE  /\ Adds(t[i], c) <=> Adds(q[i + s], c)
                      /\ Shows(d, t[i], c) <=> Shows(d, q[i + s], c)
                      /\ Drops(t[i], c) <=> Drops(q[i + s], c)
    OBVIOUS
  <2>1. Left(q[i + s], t[i])
    BY <1>5
  <2> QED
    BY <2>1 DEF Left, Adds, Shows, Drops
<1>12. \A e \in InQueue(d)' : e \in InQueue(d)
  <2> SUFFICES ASSUME NEW e \in Entry, NEW i \in DOMAIN t,
                      \/ t[i].via = "load" /\ e \in t[i].docs
                      \/ t[i].via = "changes" /\ e \in t[i].added
               PROVE  e \in InQueue(d)
    BY <1>8 DEF InQueue
  <2>1. i + s \in DOMAIN q /\ Left(q[i + s], t[i])
    BY <1>5
  <2>2. \/ q[i + s].via = "load" /\ e \in q[i + s].docs
        \/ q[i + s].via = "changes" /\ e \in q[i + s].added
    BY <2>1 DEF Left
  <2> QED
    BY <2>1, <2>2 DEF InQueue
<1>13. \A e \in InList(d)' : e \in Held(d)
  <2> SUFFICES ASSUME NEW i \in DOMAIN to
               PROVE  to[i] \in Held(d)
    BY <1>8 DEF InList
  <2>1. CASE \E j \in DOMAIN list : to[i] = list[j]
    BY <2>1 DEF Held, InList, list
  <2>2. CASE \/ q[1].via = "load" /\ to[i] \in q[1].docs
             \/ q[1].via = "changes" /\ to[i] \in q[1].added
    <3>1. to[i] \in Entry
      BY <1>6, ElementOfSeq, LenProperties
    <3> QED
      BY <1>5, <2>2, <3>1 DEF Held, InQueue
  <2> QED
    BY <1>6, <2>1, <2>2
<1>14. \A e \in Held(d)' : e \in Held(d)
  <2>1. InView(d)' = InView(d)
    BY <1>7 DEF InView, Entries, Present
  <2> QED
    BY <1>12, <1>13, <2>1 DEF Held
<1>15. NamesIn(chatInformationArray[d])' = NamesIn(to) /\ NamesIn(to) \in SUBSET Name
  <2>1. \A i \in DOMAIN to : nameOf[to[i].chat] \in Name
    <3> SUFFICES ASSUME NEW i \in DOMAIN to
                 PROVE  nameOf[to[i].chat] \in Name
      OBVIOUS
    <3>1. to[i] \in Held(d)
      BY <1>8, <1>13 DEF InList
    <3>2. nameOf[to[i].chat] # ""
      BY <1>1, <3>1 DEF DeviceOf, Heard
    <3>3. to[i].chat \in Chat
      BY <1>1, <3>1, DeviceTypes
    <3> QED
      BY <1>1, <3>2, <3>3 DEF TypeOK
  <2>2. nameOf' = nameOf
    BY <1>2 DEF Apart
  <2>3. NamesIn(chatInformationArray[d])' = NamesIn(to)
    BY <1>8, <2>2 DEF NamesIn, NamesOf
  <2>4. \A c \in {to[i].chat : i \in DOMAIN to} : nameOf[c] \in Name
    BY <2>1
  <2> QED
    BY <2>3, <2>4 DEF NamesIn, NamesOf
<1>16. TypeOK'
  <2>1. PinsAfter(d, q[1], to) \in SUBSET Name
    BY <1>1, <1>15 DEF PinsAfter, TypeOK
  <2>2. /\ mainQueue' \in [Device -> Seq(Callback)]
        /\ chatInformationArray' \in [Device -> Seq(Entry)]
        /\ pins' \in [Device -> SUBSET Name]
    BY <1>1, <1>5, <1>6, <1>7, <2>1 DEF TypeOK
  <2> QED
    BY <1>1, <1>2, <1>7, <2>2 DEF TypeOK, Apart
<1>17. /\ \A c \in Chat : /\ Ended(d, c)' <=> Ended(d, c)
                          /\ Whole(c)' <=> Whole(c)
       /\ Visible(d)' = Visible(d) /\ Present(view[d])' = Present(view[d])
  BY <1>2, <1>7, ApartFacts DEF Present
<1>18. \A i \in DOMAIN t :
          /\ i + s \in DOMAIN q /\ t[i].via = q[i + s].via
          /\ t[i].via = "load" => t[i].docs = q[i + s].docs
          /\ t[i].via = "changes" =>
                /\ t[i].added = q[i + s].added /\ t[i].removed = q[i + s].removed
                /\ t[i].last = q[i + s].last /\ t[i].first <= t[i].last
                /\ q[i + s].first <= t[i].first
  BY <1>5 DEF Left
<1>19. Shapes(d)' /\ Idle(d)'
  <2>1. Shapes(d)'
    <3> SUFFICES ASSUME NEW i \in DOMAIN t
                 PROVE  /\ t[i].via = "load" => OneEach(t[i].docs)
                        /\ t[i].via = "changes" =>
                              OneEach(t[i].added) /\ t[i].first <= t[i].last /\ t[i].last <= n
                        /\ t[i].via = "error" => failed[d]
      BY <1>7, <1>8 DEF Shapes, n
    <3> QED
      BY <1>4, <1>18
  <2>2. n # 0
    BY <1>1, <1>3 DEF DeviceOf, Idle, n
  <2> QED
    BY <1>7, <2>1, <2>2 DEF Idle, n
<1>20. Heard(d)' /\ IdIsTold(d)'
  <2>1. \A i \in DOMAIN mainQueue'[d] :
           mainQueue'[d][i].via = "changes" => \A c \in mainQueue'[d][i].removed : nameOf[c] # ""
    <3> SUFFICES ASSUME NEW i \in DOMAIN t, t[i].via = "changes"
                 PROVE  \A c \in t[i].removed : nameOf[c] # ""
      BY <1>8
    <3>1. i + s \in DOMAIN q /\ q[i + s].via = "changes" /\ t[i].removed = q[i + s].removed
      BY <1>18
    <3>2. \A j \in DOMAIN q : q[j].via = "changes" => \A c \in q[j].removed : nameOf[c] # ""
      BY <1>1 DEF DeviceOf, Heard
    <3> QED
      BY <3>1, <3>2
  <2> QED
    BY <1>1, <1>2, <1>14, <2>1, HeldGoesOn
<1>21. SeenIsThere(d)'
  BY <1>1, <1>17, DeviceTypes DEF DeviceOf, SeenIsThere
<1>22. RemovedIsOver(d)'
  <2> SUFFICES ASSUME NEW i \in DOMAIN t, t[i].via = "changes", NEW c \in t[i].removed
               PROVE  ~ Whole(c)'
    BY <1>8 DEF RemovedIsOver
  <2>1. ~ Whole(c)
    BY <1>1, <1>18 DEF DeviceOf, RemovedIsOver
  <2>2. Whole(c)' <=> Whole(c)
    BY <1>2 DEF Apart, Whole, Pending
  <2> QED
    BY <2>1, <2>2
<1>23. \A c \in Chat : \A i, j \in DOMAIN q :
          i < j /\ Adds(q[i], c) /\ Adds(q[j], c) => q[i].last < q[j].first
  BY <1>1 DEF DeviceOf, ToldOnce
<1>24. \A c \in Chat : \A i \in DOMAIN q :
          Adds(q[i], c) => c \in Present(view[d]) \/ Ended(d, c)
  BY <1>1 DEF DeviceOf, ToldOnce
<1>25. ToldOnce(d)'
  <2> SUFFICES ASSUME NEW c \in Chat, NEW i \in DOMAIN t, Adds(t[i], c)
               PROVE  /\ c \in Present(view[d]) \/ Ended(d, c)
                      /\ \A j \in DOMAIN t : i < j /\ Adds(t[j], c) => t[i].last < t[j].first
    BY <1>8, <1>17 DEF ToldOnce
  <2>1. i + s \in DOMAIN q /\ Adds(q[i + s], c) /\ t[i].via = "changes" /\ t[i].last = q[i + s].last
    BY <1>11, <1>18 DEF Adds
  <2>2. ASSUME NEW j \in DOMAIN t, i < j, Adds(t[j], c)
        PROVE  t[i].last < t[j].first
    <3>1. /\ j + s \in DOMAIN q /\ Adds(q[j + s], c) /\ t[j].via = "changes"
          /\ q[j + s].first <= t[j].first
      BY <1>11, <1>18, <2>2 DEF Adds
    <3>2. i + s < j + s
      BY <1>5, <1>10, <2>2
    <3>3. q[i + s].last < q[j + s].first
      BY <1>23, <2>1, <3>1, <3>2
    <3>4. q[i + s].last \in Int /\ q[j + s].first \in Int /\ t[j].first \in Int
      BY <1>3, <1>10, <2>1, <3>1, CallbackFacts DEF Adds
    <3> QED
      BY <2>1, <3>1, <3>3, <3>4
  <2> QED
    BY <1>24, <2>1, <2>2
\* Nobody is put back among the observers to be told, and the one whose turn
\* it was is no longer among them.
<1>26. \A c \in Chat : \A p \in 1..n : p \in ToCome(d, c)' => p \in ToCome(d, c)
  <2> SUFFICES ASSUME NEW c \in Chat, NEW p \in 1..n, p \in ToCome(d, c)'
               PROVE  p \in ToCome(d, c)
    OBVIOUS
  <2>1. CASE c \notin Present(view[d]) /\ ~ Ended(d, c)
    BY <2>1 DEF ToCome, n
  <2>2. CASE ~ (c \notin Present(view[d]) /\ ~ Ended(d, c))
    <3>1. PICK i \in DOMAIN t : Adds(t[i], c) /\ t[i].first <= p /\ p <= t[i].last
      BY <1>8, <1>17, <2>2 DEF ToCome
    <3>2. /\ i + s \in DOMAIN q /\ Adds(q[i + s], c) /\ t[i].via = "changes"
          /\ q[i + s].first <= t[i].first /\ q[i + s].last = t[i].last
      BY <1>11, <1>18, <3>1 DEF Adds
    <3>3. q[i + s].first \in Int /\ t[i].first \in Int
      BY <1>3, <1>10, <3>2, CallbackFacts DEF Adds
    <3>4. q[i + s].first <= p /\ p <= q[i + s].last
      BY <3>1, <3>2, <3>3
    <3> QED
      BY <3>2, <3>4 DEF ToCome, n
  <2> QED
    BY <2>1, <2>2
<1>27. \A c \in Chat : Adds(q[1], c) =>
          /\ q[1].first \in 1..n /\ q[1].first \in ToCome(d, c)
          /\ q[1].first \notin ToCome(d, c)'
  <2> SUFFICES ASSUME NEW c \in Chat, Adds(q[1], c)
               PROVE  /\ q[1].first \in 1..n /\ q[1].first \in ToCome(d, c)
                      /\ q[1].first \notin ToCome(d, c)'
    OBVIOUS
  <2>1. q[1].via = "changes"
    BY DEF Adds
  <2>2. q[1].first \in Int /\ q[1].first >= 1 /\ q[1].last \in Int
    BY <1>3, <1>5, <2>1, CallbackFacts
  <2>3. q[1].first <= q[1].last /\ q[1].last <= n
    BY <1>4, <1>5, <2>1
  <2>4. q[1].first \in 1..n
    BY <1>3, <2>2, <2>3 DEF n
  <2>5. q[1].first <= q[1].first
    BY <2>2
  <2>6. q[1].first \in ToCome(d, c)
    BY <1>5, <2>3, <2>4, <2>5 DEF ToCome, n
  <2>7. c \in Present(view[d]) \/ Ended(d, c)
    BY <1>5, <1>24
  <2>8. ASSUME NEW i \in DOMAIN t, Adds(t[i], c), t[i].first <= q[1].first
        PROVE  FALSE
    <3>1. /\ i + s \in DOMAIN q /\ Adds(q[i + s], c) /\ t[i].via = "changes"
          /\ q[i + s].first <= t[i].first
      BY <1>11, <1>18, <2>8 DEF Adds
    <3>2. q[i + s].first \in Int /\ t[i].first \in Int
      BY <1>3, <1>10, <3>1, CallbackFacts DEF Adds
    <3>3. CASE i = 1 /\ s = 0
      BY <1>5, <2>2, <2>8, <3>2, <3>3
    <3>4. CASE ~ (i = 1 /\ s = 0)
      <4>1. 1 < i + s
        BY <1>5, <1>10, <3>4
      <4>2. q[1].last < q[i + s].first
        BY <1>5, <1>23, <3>1, <4>1
      <4> QED
        BY <2>2, <2>3, <2>8, <3>1, <3>2, <4>2
    <3> QED
      BY <3>3, <3>4
  <2>9. q[1].first \notin ToCome(d, c)'
    BY <1>8, <1>17, <2>7, <2>8 DEF ToCome
  <2> QED
    BY <2>4, <2>6, <2>9
<1>28. ListedAsTold(d)'
  <2> SUFFICES ASSUME NEW c \in Chat
               PROVE  Occurrences(d, c)' <= 1 + Cardinality((1..n) \ ToCome(d, c)')
    BY <1>7 DEF ListedAsTold, n
  <2>1. Occurrences(d, c)' = Count(to, c) /\ Occurrences(d, c)' \in Nat
    BY <1>8, <1>16, OccurrencesIsCountNext
  <2>2. Occurrences(d, c) = Count(list, c) /\ Occurrences(d, c) \in Nat
    BY <1>1, OccurrencesIsCount DEF list
  <2>3. Occurrences(d, c) <= 1 + Cardinality((1..n) \ ToCome(d, c))
    BY <1>1 DEF DeviceOf, ListedAsTold, n
  <2> DEFINE A == ToCome(d, c)
             B == ToCome(d, c)'
  <2>4. n \in Nat /\ n <= n /\ \A o \in 1..n : o \in B => o \in A
    BY <1>3, <1>26 DEF n
  <2>5. Adds(q[1], c) => \E o \in 1..n : o \in A /\ o \notin B
    BY <1>27
  <2> HIDE DEF A, B
  <2>6. /\ Cardinality((1..n) \ A) \in Nat /\ Cardinality((1..n) \ B) \in Nat
        /\ Cardinality((1..n) \ A) <= Cardinality((1..n) \ B)
        /\ (\E o \in 1..n : o \in A /\ o \notin B) =>
              Cardinality((1..n) \ A) + 1 <= Cardinality((1..n) \ B)
    BY <2>4, ToldGrows
  <2>7. \/ Count(to, c) <= 1
        \/ Count(to, c) <= Count(list, c)
        \/ Adds(q[1], c) /\ Count(to, c) <= Count(list, c) + 1
    BY <1>6
  <2>8. Count(to, c) \in Nat /\ Count(list, c) \in Nat
    BY <2>1, <2>2
  <2>9. Count(list, c) <= 1 + Cardinality((1..n) \ A)
    BY <2>2, <2>3 DEF A
  <2>10. Count(to, c) <= 1 + Cardinality((1..n) \ B)
    BY <2>5, <2>6, <2>7, <2>8, <2>9
  <2> QED
    BY <2>1, <2>10 DEF B
<1>29. InTheEnd(d)'
  <2> SUFFICES ASSUME NEW c \in Present(view[d]), ~ failed[d], Whole(c)
               PROVE  /\ \/ Lists(to, c) /\ nameOf[c] \in PinsAfter(d, q[1], to)
                         \/ \E i \in DOMAIN t : Shows(d, t[i], c)
                      /\ \A i \in DOMAIN t : Drops(t[i], c) =>
                            \E j \in DOMAIN t : i < j /\ Shows(d, t[j], c)
    <3>1. \A c \in Present(view[d]) : c \in Chat /\ (Whole(c)' <=> Whole(c))
      BY <1>17 DEF Present
    <3>2. \A c : c \in OnMap(d)' <=> Lists(to, c) /\ nameOf[c] \in PinsAfter(d, q[1], to)
      <4>1. \A c : c \in Listed(d)' <=> Lists(to, c)
        BY <1>8 DEF Listed, Lists
      <4> QED
        BY <1>2, <1>8, <4>1 DEF OnMap, Apart
    <3>3. \A c : \A i \in DOMAIN t : Shows(d, mainQueue[d][i], c)' <=> Shows(d, t[i], c)
      BY <1>7, <1>8 DEF Shows, Adds
    <3>4. Present(view[d])' = Present(view[d])
      BY <1>7 DEF Present
    <3> QED
      BY <1>7, <1>8, <3>1, <3>2, <3>3, <3>4 DEF InTheEnd
  <2>1. c \in Chat
    BY DEF Present
  <2>2. \/ Lists(list, c) /\ nameOf[c] \in pins[d]
        \/ \E i \in DOMAIN q : Shows(d, q[i], c)
    BY <1>1, <2>1 DEF DeviceOf, InTheEnd, OnMap, Listed, Lists, list
  <2>3. \A i \in DOMAIN q : Drops(q[i], c) => \E j \in DOMAIN q : i < j /\ Shows(d, q[j], c)
    BY <1>1 DEF DeviceOf, InTheEnd
  <2>4. \A j \in DOMAIN q : 1 < j => j - s \in DOMAIN t /\ j - s + s = j
    <3> SUFFICES ASSUME NEW j \in DOMAIN q, 1 < j
                 PROVE  j - s \in DOMAIN t /\ j - s + s = j
      OBVIOUS
    <3>1. j \in Int /\ j # 1 /\ s \in Int
      BY <1>3, <1>5
    <3> QED
      BY <1>5, <3>1
  <2>5. \A j \in DOMAIN q : 1 < j /\ Shows(d, q[j], c) => Shows(d, t[j - s], c)
    BY <1>11, <2>1, <2>4
  <2>6. ASSUME ~ Drops(q[1], c), Lists(list, c)
        PROVE  Lists(to, c)
    <3>1. ASSUME q[1].via = "changes", NEW g \in q[1].removed
          PROVE  nameOf[g] # nameOf[c]
      <4>1. g \in Chat /\ ~ Whole(g)
        BY <1>1, <1>3, <1>5, <3>1, CallbackFacts DEF DeviceOf, RemovedIsOver
      <4>2. g # c
        BY <4>1
      <4> QED
        BY <4>1, <4>2 DEF Whole
    <3> QED
      BY <1>6, <2>6, <3>1
  <2>7. Lists(to, c) => nameOf[c] \in NamesIn(to)
    BY DEF Lists, NamesIn, NamesOf
  <2>8. ASSUME Shows(d, q[1], c)
        PROVE  \/ Lists(to, c) /\ nameOf[c] \in PinsAfter(d, q[1], to)
               \/ \E i \in DOMAIN t : Shows(d, t[i], c)
    <3>1. q[1].via = "changes" /\ q[1].last = n /\ Lists(to, c)
      BY <1>6, <2>8 DEF Shows, Brings, Adds, n
    <3>2. CASE s = 0
      <4>1. 1 \in DOMAIN t /\ 1 + s = 1
        BY <1>5, <3>2
      <4> QED
        BY <1>11, <2>1, <2>8, <4>1
    <3>3. CASE s = 1
      <4>1. PinsAfter(d, q[1], to) = NamesIn(to)
        BY <1>5, <3>1, <3>3 DEF PinsAfter, OfMapOnScreen, n
      <4> QED
        BY <2>7, <3>1, <4>1
    <3> QED
      BY <1>5, <3>2, <3>3
  <2>9. \/ Lists(to, c) /\ nameOf[c] \in PinsAfter(d, q[1], to)
        \/ \E i \in DOMAIN t : Shows(d, t[i], c)
    <3>1. CASE \E j \in DOMAIN q : 1 < j /\ Shows(d, q[j], c)
      BY <2>4, <2>5, <3>1
    <3>2. CASE ~ \E j \in DOMAIN q : 1 < j /\ Shows(d, q[j], c)
      <4>1. ~ Drops(q[1], c)
        BY <1>5, <2>3, <3>2
      <4>2. \A j \in DOMAIN q : j = 1 \/ 1 < j
        BY <1>3
      <4>3. CASE Shows(d, q[1], c)
        BY <2>8, <4>3
      <4>4. CASE Lists(list, c) /\ nameOf[c] \in pins[d]
        BY <2>6, <2>7, <4>1, <4>4 DEF PinsAfter
      <4> QED
        BY <2>2, <3>2, <4>2, <4>3, <4>4
    <3> QED
      BY <3>1, <3>2
  <2>10. ASSUME NEW i \in DOMAIN t, Drops(t[i], c)
         PROVE  \E j \in DOMAIN t : i < j /\ Shows(d, t[j], c)
    <3>1. i + s \in DOMAIN q /\ Drops(q[i + s], c)
      BY <1>11, <1>18, <2>1, <2>10
    <3>2. PICK j \in DOMAIN q : i + s < j /\ Shows(d, q[j], c)
      BY <2>3, <3>1
    <3>3. i \in Int /\ i >= 1 /\ s \in Int /\ s >= 0 /\ j \in Int
      BY <1>3, <1>5, <1>10
    <3>4. 1 < j /\ i < j - s
      BY <3>2, <3>3
    <3> QED
      BY <2>4, <2>5, <3>2, <3>4
  <2> QED
    BY <2>9, <2>10
<1>31. DeviceOf(d)'
  BY <1>19, <1>20, <1>21, <1>22, <1>25, <1>28, <1>29 DEF DeviceOf
<1>32. \A x \in Device : x # d => Alike(x)
  BY <1>7, <1>8 DEF Alike
<1> QED
  BY <1>2, <1>16, <1>31, <1>32, OthersGoOn

-----------------------------------------------------------------------------
(* Every step, and the theorems *)

LEMMA InitIInv ==
    ASSUME Init
    PROVE  IInv
<1>1. TypeOK
  <2>1. << >> \in Seq(Write) /\ << >> \in Seq(Callback) /\ << >> \in Seq(Entry)
    OBVIOUS
  <2>2. MaxMaps \in Nat
    BY ListAssumption
  <2>3. 0 \in 0..MaxMaps /\ {} \in SUBSET (1..MaxMaps)
    BY <2>2
  <2>4. Nothing \in [Chat -> Id \cup {"absent"}]
    BY DEF Nothing
  <2> QED
    BY <2>1, <2>3, <2>4 DEF Init, TypeOK
<1>2. /\ \A d \in Device : outbox[d] = << >> /\ mainQueue[d] = << >> /\ chatInformationArray[d] = << >>
      /\ \A d \in Device : /\ view[d] = Nothing /\ loads[d] = {} /\ observers[d] = 0
                           /\ pins[d] = {} /\ Present(view[d]) = {}
      /\ \A c \in Chat : chats[c] = "absent" /\ nameOf[c] = "" /\ c \notin rooms
  BY DEF Init, Nothing, Present
<1>3. \A d \in Device : /\ DOMAIN outbox[d] = {} /\ DOMAIN mainQueue[d] = {}
                        /\ DOMAIN chatInformationArray[d] = {}
  <2>1. DOMAIN << >> = {}
    OBVIOUS
  <2> QED
    BY <1>2, <2>1
<1>4. \A d \in Device, c \in Chat : ~ Creating(d, c) /\ ~ Deleting(d, c) /\ ~ Ended(d, c)
  BY <1>2, <1>3 DEF Creating, Deleting, Ended
<1>5. \A op, c : ~ Pending(op, c)
  BY <1>3 DEF Pending
<1>6. Collection
  BY <1>2, <1>3, <1>4 DEF Collection, Named, WriteOrder, OneCreator, RoomIsFirst, IdIsLast, RoomGoesToo
<1>7. ASSUME NEW d \in Device
      PROVE  DeviceOf(d)
  <2>1. Held(d) = {}
    BY <1>2, <1>3 DEF Held, InList, InQueue, InView, Entries
  <2>2. Shapes(d) /\ Idle(d) /\ Heard(d) /\ IdIsTold(d)
    BY <1>2, <1>3, <2>1 DEF Shapes, Idle, Heard, IdIsTold
  <2>3. SeenIsThere(d) /\ RemovedIsOver(d) /\ ToldOnce(d) /\ InTheEnd(d)
    BY <1>2, <1>3 DEF SeenIsThere, RemovedIsOver, ToldOnce, InTheEnd
  <2>4. ListedAsTold(d)
    <3> SUFFICES ASSUME NEW c \in Chat
                 PROVE  Occurrences(d, c) <= 1 + Cardinality((1..observers[d]) \ ToCome(d, c))
      BY DEF ListedAsTold
    <3>1. Occurrences(d, c) = 0
      BY <1>3, FS_EmptySet DEF Occurrences
    <3>2. (1..observers[d]) \ ToCome(d, c) = {}
      <4>1. observers[d] = 0
        BY <1>2
      <4>2. 1..0 = {}
        OBVIOUS
      <4> QED
        BY <4>1, <4>2
    <3>3. Cardinality((1..observers[d]) \ ToCome(d, c)) = 0
      BY <3>2, FS_EmptySet
    <3> QED
      BY <3>1, <3>3
  <2> QED
    BY <2>2, <2>3, <2>4 DEF DeviceOf
<1> QED
  BY <1>1, <1>6, <1>7 DEF IInv

LEMMA NextKeeps ==
    ASSUME IInv, [Next]_vars
    PROVE  IInv'
<1>1. CASE UNCHANGED vars
  <2>1. /\ UNCHANGED <<chats, rooms, nameOf, outbox, view, loads, failed, mainQueue>>
        /\ UNCHANGED <<observers, chatInformationArray, pins>>
    BY <1>1 DEF vars, service, sdk, app
  <2>2. TypeOK'
    BY <2>1 DEF IInv, TypeOK
  <2>3. Apart
    BY <2>1 DEF Apart
  <2>4. \A x \in Device : Alike(x)
    BY <2>1 DEF Alike
  <2>5. ASSUME NEW d \in Device
        PROVE  DeviceOf(d)'
    <3>1. TypeOK /\ Collection /\ DeviceOf(d)
      BY DEF IInv
    <3>2. Onward(d)
      BY <2>3, ApartFacts
    <3>3. ListGoesOn(d)
      BY <2>1, <3>1, <3>2, ListStays
    <3> QED
      BY <2>1, <2>2, <3>1, <3>2, <3>3, DeviceGoesOn
  <2>6. Collection'
    BY <2>3, ApartFacts DEF IInv
  <2> QED
    BY <2>2, <2>5, <2>6 DEF IInv
<1>2. ASSUME NEW d \in Device,
             \/ Commit(d) \/ Snapshot(d) \/ RunCallback(d) \/ ShowMap(d) \/ Relaunch(d)
      PROVE  IInv'
  BY <1>2, CommitKeeps, SnapshotKeeps, RunCallbackKeeps, ShowMapKeeps, RelaunchKeeps
<1>4. ASSUME NEW d \in Device, NEW map \in 1..MaxMaps, AnswerLoad(d, map) \/ FailLoad(d, map)
      PROVE  IInv'
  BY <1>4, AnswerLoadKeeps, FailLoadKeeps
<1>3. ASSUME NEW d \in Device, NEW n \in Name, AddChat(d, n) \/ DeleteChat(d, n) \/ TapDeadPin(d, n)
      PROVE  IInv'
  BY <1>3, AddKeeps, DeleteKeeps, TapKeeps
<1> QED
  BY <1>1, <1>2, <1>3, <1>4 DEF Next

LEMMA NextIsOnward ==
    ASSUME IInv, [Next]_vars, NEW x \in Device
    PROVE  Onward(x)
<1>1. ASSUME NEW d \in Device, Commit(d)
      PROVE  Onward(x)
  BY <1>1, CommitIsOnward DEF IInv
<1>2. ASSUME NEW d \in Device, NEW n \in Name, AddChat(d, n) \/ DeleteChat(d, n)
      PROVE  Onward(x)
  BY <1>2, AddKeeps, DeleteKeeps
<1>3. Apart => Onward(x)
  BY ApartFacts
<1>4. ASSUME NEW d \in Device, Snapshot(d) \/ RunCallback(d) \/ ShowMap(d) \/ Relaunch(d)
      PROVE  Apart
  BY <1>4 DEF Snapshot, RunCallback, ShowMap, Relaunch, service, Apart
<1>5. ASSUME NEW d \in Device, NEW map \in 1..MaxMaps, AnswerLoad(d, map) \/ FailLoad(d, map)
      PROVE  Apart
  BY <1>5 DEF AnswerLoad, FailLoad, service, Apart
<1>6. ASSUME NEW d \in Device, NEW n \in Name, TapDeadPin(d, n)
      PROVE  Apart
  BY <1>6 DEF TapDeadPin, service, sdk, Apart
<1>7. UNCHANGED vars => Apart
  BY DEF vars, service, sdk, Apart
<1> QED
  BY <1>1, <1>2, <1>3, <1>4, <1>5, <1>6, <1>7 DEF Next

\* What a device sees was named by addChat.
LEMMA VisibleIsNamed ==
    ASSUME IInv, NEW x \in Device, NEW c \in Visible(x)
    PROVE  c \in Chat /\ nameOf[c] # ""
<1>1. c \in Chat
  BY DEF Visible, Present
<1>2. Creating(x, c) \/ chats[c] # "absent"
  BY <1>1, VisibleIff DEF IInv, Collection
<1> QED
  BY <1>1, <1>2 DEF IInv, Collection, Named, Creating

\* What the writes in the outboxes, the observers' view, the callbacks waiting
\* and the list have to do with each other, in every state the code reaches.
THEOREM ListInvariant == Spec => []IInv
<1>1. Init => IInv
  BY InitIInv
<1>2. IInv /\ [Next]_vars => IInv'
  BY NextKeeps
<1> QED
  BY <1>1, <1>2, PTL DEF Spec

\* The lists hold entries, the queues callbacks and the pins names that were
\* given: a search by name never meets an entry without one.
THEOREM ListTypeCorrect == Spec => []TypeOK
<1>1. IInv => TypeOK
  BY DEF IInv
<1> QED
  BY <1>1, ListInvariant, PTL

\* Although loads overwrite the list while observers and users change it, once
\* nothing is on its way a device lists every chat of the collection that
\* nobody has begun to delete, unless a load failed or chats share a name.
THEOREM NothingIsMissing == Spec => []ListCovers
<1>1. ASSUME IInv
      PROVE  ListCovers
  <2> SUFFICES ASSUME NEW d \in Device, Settled(d), ~ failed[d], NEW c \in Visible(d), Whole(c)
               PROVE  c \in Listed(d)
    BY DEF ListCovers
  <2>1. view[d] = Read(d) /\ mainQueue[d] = << >>
    BY DEF Settled
  <2>2. c \in Present(view[d])
    BY <2>1 DEF Visible
  <2>3. InTheEnd(d)
    BY <1>1 DEF IInv, DeviceOf
  <2>4. \A i \in DOMAIN mainQueue[d] : FALSE
    BY <2>1
  <2> QED
    BY <2>2, <2>3, <2>4 DEF InTheEnd, OnMap
<1> QED
  BY <1>1, ListInvariant, PTL

\* However loads, observers and addChat overlap, a device lists a chat at most
\* once for each observer it has registered, and once more.
THEOREM ListedOncePerObserver == Spec => []ListBounded
<1>1. ASSUME IInv
      PROVE  ListBounded
  <2> SUFFICES ASSUME NEW d \in Device, NEW c \in Chat
               PROVE  Occurrences(d, c) <= observers[d] + 1
    BY DEF ListBounded
  <2>1. Occurrences(d, c) <= 1 + Cardinality((1..observers[d]) \ ToCome(d, c))
    BY <1>1 DEF IInv, DeviceOf, ListedAsTold
  <2>2. Occurrences(d, c) \in Nat /\ observers[d] \in Nat
    BY <1>1, OccurrencesIsCount, DeviceTypes DEF IInv
  <2>3. IsFiniteSet(1..observers[d]) /\ Cardinality(1..observers[d]) = observers[d]
    <3>1. 1 \in Int /\ observers[d] \in Int /\ observers[d] - 1 + 1 = observers[d]
      BY <2>2
    <3>2. /\ IsFiniteSet(1..observers[d])
          /\ Cardinality(1..observers[d]) = IF 1 > observers[d] THEN 0 ELSE observers[d] - 1 + 1
      BY <3>1, FS_Interval
    <3>3. 1 > observers[d] => observers[d] = 0
      BY <2>2
    <3> QED
      BY <3>1, <3>2, <3>3
  <2>4. (1..observers[d]) \ ToCome(d, c) \in SUBSET (1..observers[d])
    OBVIOUS
  <2>5. /\ Cardinality((1..observers[d]) \ ToCome(d, c)) <= observers[d]
        /\ Cardinality((1..observers[d]) \ ToCome(d, c)) \in Nat
    BY <2>3, <2>4, FS_Subset, FS_CardinalityType
  <2> QED
    BY <2>1, <2>2, <2>5
<1> QED
  BY <1>1, ListInvariant, PTL

\* Although the map on screen is drawn by its own load and its own observer
\* only, and every load changes the list, once nothing is on its way every chat
\* that nobody has begun to delete has a pin there, unless a load failed or
\* chats share a name.
THEOREM NothingLacksItsPin == Spec => []PinsCover
<1>1. ASSUME IInv
      PROVE  PinsCover
  <2> SUFFICES ASSUME NEW d \in Device, Settled(d), ~ failed[d], NEW c \in Visible(d), Whole(c)
               PROVE  nameOf[c] \in pins[d]
    BY DEF PinsCover, NamesOf
  <2>1. view[d] = Read(d) /\ mainQueue[d] = << >>
    BY DEF Settled
  <2>2. c \in Present(view[d])
    BY <2>1 DEF Visible
  <2>3. InTheEnd(d)
    BY <1>1 DEF IInv, DeviceOf
  <2>4. \A i \in DOMAIN mainQueue[d] : FALSE
    BY <2>1
  <2> QED
    BY <2>2, <2>3, <2>4 DEF InTheEnd, OnMap
<1> QED
  BY <1>1, ListInvariant, PTL

\* What a device has seen in the collection and sees no more is over for it: it
\* stays so through every step, of any device, restarts included.
THEOREM GoneEntryIsOver == Spec => EntryGoesOnce
<1>1. IInv /\ [Next]_vars =>
         [\A d \in Device, c \in Chat :
             /\ c \in Visible(d) => c \in Visible(d)' \/ Ended(d, c)'
             /\ Ended(d, c) => Ended(d, c)' /\ c \notin Visible(d)]_vars
  <2> SUFFICES ASSUME IInv, [Next]_vars, NEW d \in Device, NEW c \in Chat
               PROVE  /\ c \in Visible(d) => c \in Visible(d)' \/ Ended(d, c)'
                      /\ Ended(d, c) => Ended(d, c)' /\ c \notin Visible(d)
    OBVIOUS
  <2>1. Onward(d)
    BY NextIsOnward
  <2>2. c \in Visible(d) => nameOf[c] # ""
    BY VisibleIsNamed
  <2>3. Ended(d, c) => c \notin Visible(d)
    BY EndedIsUnseen DEF IInv, Collection
  <2> QED
    BY <2>1, <2>2, <2>3 DEF Onward
<1> QED
  BY <1>1, ListInvariant, PTL DEF Spec, EntryGoesOnce

Sees(d, c) == c \in Visible(d)

\* So an entry comes into a device's sight once, and leaves it once.
THEOREM EntryNeverReturns ==
    Spec => \A d \in Device, c \in Chat :
                [](Sees(d, c) => [](~ Sees(d, c) => [](~ Sees(d, c))))
<1> SUFFICES ASSUME NEW d \in Device, NEW c \in Chat
             PROVE  Spec => [](Sees(d, c) => [](~ Sees(d, c) => [](~ Sees(d, c))))
  OBVIOUS
<1>1. IInv /\ [Next]_vars =>
          (Sees(d, c) => (Sees(d, c)' \/ Ended(d, c)')) /\ (Ended(d, c) => Ended(d, c)')
  <2> SUFFICES ASSUME IInv, [Next]_vars
               PROVE  /\ Sees(d, c) => (Sees(d, c)' \/ Ended(d, c)')
                      /\ Ended(d, c) => Ended(d, c)'
    OBVIOUS
  <2>1. Onward(d)
    BY NextIsOnward
  <2>2. c \in Visible(d) => nameOf[c] # ""
    BY VisibleIsNamed
  <2> QED
    BY <2>1, <2>2 DEF Onward, Sees
<1>2. IInv => ~ (Sees(d, c) /\ Ended(d, c))
  BY EndedIsUnseen DEF IInv, Collection, Sees
<1> HIDE DEF Sees, Ended
<1> QED
  BY <1>1, <1>2, ListInvariant, PTL DEF Spec

=============================================================================
