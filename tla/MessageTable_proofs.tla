------------------------ MODULE MessageTable_proofs ------------------------
(***************************************************************************)
(* Proofs about MessageTable, for any users, any number of cells and any   *)
(* documents that arrive.                                                  *)
(***************************************************************************)
EXTENDS MessageTable, SequenceTheorems, WellFoundedInduction, TLAPS

-----------------------------------------------------------------------------
(* The main queue *)

\* A set of places that is not empty has a first one.
LEMMA LeastIsLeast ==
    ASSUME NEW S, S \subseteq Nat, S # {}
    PROVE  Least(S) \in S
<1> DEFINE R == OpToRel(<, Nat)
<1>1. \E x \in S : \A y \in S : ~ (<<y, x>> \in R)
  BY NatLessThanWellFounded, WFMin
<1>2. \A x, y \in S : y < x => <<y, x>> \in R
  BY DEF OpToRel
<1> HIDE DEF R
<1>3. PICK x \in S : \A y \in S : ~ (<<y, x>> \in R)
  BY <1>1
<1>4. \A y \in S : ~ (y < x)
  BY <1>2, <1>3
<1>5. \A y \in S : x <= y
  BY <1>4, SMT
<1> QED
  BY <1>5 DEF Least

\* The blocks that set entries are the same in both queues.
SameSets(q, p) ==
    /\ \A k \in DOMAIN q : q[k].do = "set" => \E j \in DOMAIN p : p[j] = q[k]
    /\ \A j \in DOMAIN p : p[j].do = "set" => \E k \in DOMAIN q : q[k] = p[j]

LEMMA AppendKeepsSets ==
    ASSUME NEW q \in Seq(Block), NEW b \in Block, b.do # "set"
    PROVE  /\ Append(q, b) \in Seq(Block)
           /\ SameSets(q, Append(q, b))
           /\ \E j \in DOMAIN Append(q, b) : Append(q, b)[j] = b
           /\ \A k \in DOMAIN q : \E j \in DOMAIN Append(q, b) : Append(q, b)[j] = q[k]
<1>1. /\ Append(q, b) \in Seq(Block)
      /\ Len(Append(q, b)) = Len(q) + 1
      /\ DOMAIN Append(q, b) = 1..(Len(q) + 1)
      /\ \A k \in 1..Len(q) : Append(q, b)[k] = q[k]
      /\ Append(q, b)[Len(q) + 1] = b
  BY AppendProperties, LenProperties
<1>2. DOMAIN q = 1..Len(q) /\ Len(q) \in Nat
  BY LenProperties
<1>3. \A k \in DOMAIN q : k \in DOMAIN Append(q, b)
  BY <1>1, <1>2
<1>4. \A j \in DOMAIN Append(q, b) : j \in DOMAIN q \/ j = Len(q) + 1
  BY <1>1, <1>2
<1> QED
  BY <1>1, <1>2, <1>3, <1>4 DEF SameSets

LEMMA TailKeepsSets ==
    ASSUME NEW q \in Seq(Block), q # << >>, Head(q).do # "set"
    PROVE  Tail(q) \in Seq(Block) /\ SameSets(q, Tail(q))
<1>1. /\ Tail(q) \in Seq(Block)
      /\ Len(Tail(q)) = Len(q) - 1
      /\ DOMAIN Tail(q) = 1..(Len(q) - 1)
      /\ \A k \in 1..(Len(q) - 1) : Tail(q)[k] = q[k + 1]
      /\ Head(q) = q[1]
  BY HeadTailProperties, LenProperties
<1>2. DOMAIN q = 1..Len(q) /\ Len(q) \in Nat
  BY LenProperties
<1>3. \A k \in DOMAIN q : k = 1 \/ (k - 1 \in DOMAIN Tail(q) /\ Tail(q)[k - 1] = q[k])
  BY <1>1, <1>2
<1>4. \A j \in DOMAIN Tail(q) : j + 1 \in DOMAIN q /\ q[j + 1] = Tail(q)[j]
  BY <1>1, <1>2
<1> QED
  BY <1>1, <1>3, <1>4 DEF SameSets

LEMMA SameSetsTransitive ==
    ASSUME NEW q, NEW p, NEW o, SameSets(q, p), SameSets(p, o)
    PROVE  SameSets(q, o)
  BY DEF SameSets

-----------------------------------------------------------------------------
(* The inductive invariant *)

\* A profile in the buffer is the one it is filed under.
Filed == \A u \in Other : buffer[u] \in {"absent", "download", u}

\* Whoever asked first waits, and so does every cell in view whose owner's
\* profile is being downloaded; nobody is in view without having asked.
Queued ==
    /\ \A l \in lookups : \E i \in DOMAIN que : que[i] = l
    /\ \A c \in Cell : asked[c] # None =>
          /\ buffer[asked[c]] # "absent"
          /\ buffer[asked[c]] = "download" =>
                \E i \in DOMAIN que : que[i] = [id |-> asked[c], cell |-> c]

\* What holds of the cells and who waits for what.
Pictures == BlockFindsItsCell /\ AskedOnce /\ Filed /\ Queued /\ PictureComes

IInv == TypeOK /\ StaleTableIsReloaded /\ Pictures

LEMMA ReloadIsABlock ==
    /\ [do |-> "reloadTableView"] \in Block /\ [do |-> "reloadData"] \in Block
    /\ [do |-> "reloadTableView"].do # "set" /\ [do |-> "reloadData"].do # "set"
  BY DEF Block

\* Init and NewTable alike.
LEMMA NewPictures ==
    ASSUME cells = [c \in Cell |-> NewCell], mainQueue = << >>,
           buffer = [u \in Other |-> "absent"], que = << >>, lookups = {},
           asked = [c \in Cell |-> None]
    PROVE  /\ cells \in [Cell -> CellState] /\ mainQueue \in Seq(Block)
           /\ buffer \in [Other -> Other \cup {"absent", "download"}]
           /\ que \in Seq(Waiting) /\ lookups \in SUBSET Waiting
           /\ asked \in [Cell -> Other \cup {None}]
           /\ Pictures
<1>1. /\ cells \in [Cell -> CellState] /\ mainQueue \in Seq(Block)
      /\ buffer \in [Other -> Other \cup {"absent", "download"}]
      /\ que \in Seq(Waiting) /\ lookups \in SUBSET Waiting
      /\ asked \in [Cell -> Other \cup {None}]
  BY DEF CellState, NewCell
<1>2. BlockFindsItsCell
  BY DEF BlockFindsItsCell
<1>3. AskedOnce /\ Filed /\ Queued /\ PictureComes
  BY DEF AskedOnce, Filed, Queued, PictureComes
<1> QED
  BY <1>1, <1>2, <1>3 DEF Pictures

LEMMA InitIInv == Init => IInv
<1> SUFFICES ASSUME Init PROVE IInv
  OBVIOUS
<1>1. TypeOK /\ Pictures
  BY NewPictures DEF Init, TypeOK
<1>2. StaleTableIsReloaded
  BY DEF Init, StaleTableIsReloaded
<1> QED
  BY <1>1, <1>2 DEF IInv

-----------------------------------------------------------------------------
(* Steps *)

LEMMA NewTableKeeps ==
    ASSUME NewTable, room' \in Seq(Owner) \cup {None}, heard' \in BOOLEAN,
           listening' \in BOOLEAN, open' \in BOOLEAN,
           open' => room' = None
    PROVE  IInv'
<1>1. /\ (cells \in [Cell -> CellState] /\ mainQueue \in Seq(Block))'
      /\ (buffer \in [Other -> Other \cup {"absent", "download"}])'
      /\ (que \in Seq(Waiting) /\ lookups \in SUBSET Waiting)'
      /\ (asked \in [Cell -> Other \cup {None}])'
      /\ Pictures'
  <2>1. ASSUME cells' = [c \in Cell |-> NewCell], mainQueue' = << >>,
               buffer' = [u \in Other |-> "absent"], que' = << >>, lookups' = {},
               asked' = [c \in Cell |-> None]
        PROVE  /\ cells' \in [Cell -> CellState] /\ mainQueue' \in Seq(Block)
               /\ buffer' \in [Other -> Other \cup {"absent", "download"}]
               /\ que' \in Seq(Waiting) /\ lookups' \in SUBSET Waiting
               /\ asked' \in [Cell -> Other \cup {None}]
               /\ Pictures'
    <3>1. /\ cells' \in [Cell -> CellState] /\ mainQueue' \in Seq(Block)
          /\ buffer' \in [Other -> Other \cup {"absent", "download"}]
          /\ que' \in Seq(Waiting) /\ lookups' \in SUBSET Waiting
          /\ asked' \in [Cell -> Other \cup {None}]
      BY <2>1 DEF CellState, NewCell
    <3>2. BlockFindsItsCell'
      BY <2>1 DEF BlockFindsItsCell
    <3>3. AskedOnce' /\ Filed' /\ Queued' /\ PictureComes'
      BY <2>1 DEF AskedOnce, Filed, Queued, PictureComes
    <3> QED
      BY <3>1, <3>2, <3>3 DEF Pictures
  <2> QED
    BY <2>1 DEF NewTable
<1>2. TypeOK'
  BY <1>1 DEF NewTable, TypeOK
<1>3. StaleTableIsReloaded'
  BY DEF NewTable, StaleTableIsReloaded, CountMessages
<1> QED
  BY <1>1, <1>2, <1>3 DEF IInv

\* A step that changes no cell and nothing the model knows, and leaves the
\* waiting blocks on the queue, disturbs no picture.
LEMMA PicturesKept ==
    ASSUME IInv, UNCHANGED <<model, asked>>, SameSets(mainQueue, mainQueue'),
           \A c \in Cell : cells'[c].imageAvatar = cells[c].imageAvatar
    PROVE  Pictures'
<1>1. AskedOnce' /\ Filed' /\ Queued'
  BY DEF IInv, Pictures, AskedOnce, Filed, Queued, model
<1>2. BlockFindsItsCell'
  BY DEF IInv, Pictures, BlockFindsItsCell, SameSets, model
<1>3. \A c \in Cell : \A u \in Other : BlockPosted(c, u) => BlockPosted(c, u)'
  BY DEF BlockPosted, SameSets, model
<1>4. PictureComes'
  BY <1>3 DEF IInv, TypeOK, Pictures, PictureComes, model
<1> QED
  BY <1>1, <1>2, <1>4 DEF Pictures

\* Answers and snapshots: the room changes, with a reload or unheard.
LEMMA ArrivalKeeps ==
    ASSUME IInv, UNCHANGED <<open, told, cells, model, asked>>,
           room' \in Seq(Owner) \cup {None},
           heard' \in BOOLEAN, listening' \in BOOLEAN,
           \/ mainQueue' = mainQueue /\ unseen' = TRUE
           \/ mainQueue' = mainQueue /\ unseen' = unseen /\ room' = room
           \/ mainQueue' = Append(mainQueue, [do |-> "reloadTableView"]) /\ unseen' = unseen
           \/ mainQueue' = Append(mainQueue, [do |-> "reloadData"]) /\ unseen' = unseen
    PROVE  IInv'
<1>1. mainQueue \in Seq(Block)
  BY DEF IInv, TypeOK
<1>2. CASE mainQueue' = mainQueue
  <2>1. SameSets(mainQueue, mainQueue')
    BY <1>2 DEF SameSets
  <2>2. Pictures'
    BY <2>1, PicturesKept
  <2>3. TypeOK'
    BY <1>2 DEF IInv, TypeOK, model
  <2>4. unseen' = TRUE \/ (unseen' = unseen /\ room' = room)
    BY <1>1, <1>2, LenProperties, AppendProperties, ReloadIsABlock
  <2>5. Reloads' = Reloads
    BY <1>2 DEF Reloads
  <2>6. StaleTableIsReloaded'
    BY <2>4, <2>5 DEF IInv, StaleTableIsReloaded, CountMessages
  <2> QED
    BY <2>2, <2>3, <2>6 DEF IInv
<1>3. CASE mainQueue' # mainQueue
  <2>1. PICK b \in Block : b.do # "set" /\ mainQueue' = Append(mainQueue, b) /\ unseen' = unseen
    BY <1>3, ReloadIsABlock
  <2>2. /\ mainQueue' \in Seq(Block) /\ SameSets(mainQueue, mainQueue')
        /\ \E j \in DOMAIN mainQueue' : mainQueue'[j] = b
    BY <1>1, <2>1, AppendKeepsSets
  <2>3. Pictures'
    BY <2>2, PicturesKept
  <2>4. TypeOK'
    BY <2>1, <2>2 DEF IInv, TypeOK, model
  <2>5. Reloads' # {}
    BY <2>1, <2>2 DEF Reloads
  <2>6. StaleTableIsReloaded'
    BY <2>5 DEF StaleTableIsReloaded
  <2> QED
    BY <2>3, <2>4, <2>6 DEF IInv
<1> QED
  BY <1>2, <1>3

LEMMA DocumentIsSeq == \A d \in Document : d \in Seq(Owner)
  BY TableAssumption DEF Owner

LEMMA ChangedUnheardKeeps == ASSUME IInv, ChangedUnheard PROVE IInv'
  BY ArrivalKeeps, DocumentIsSeq DEF ChangedUnheard, IInv, TypeOK

LEMMA LoadAnsweredKeeps == ASSUME IInv, LoadAnswered PROVE IInv'
  BY ArrivalKeeps, DocumentIsSeq DEF LoadAnswered, Post, IInv, TypeOK

LEMMA LoadFailedKeeps == ASSUME IInv, LoadFailed PROVE IInv'
  BY ArrivalKeeps DEF LoadFailed, IInv, TypeOK

LEMMA SnapshotKeeps == ASSUME IInv, Snapshot PROVE IInv'
  BY ArrivalKeeps, DocumentIsSeq DEF Snapshot, Post, IInv, TypeOK

LEMMA DeinitKeeps == ASSUME IInv, Deinit PROVE IInv'
  BY ArrivalKeeps DEF Deinit, CloseDiscussRoom, IInv, TypeOK

LEMMA SendMessageKeeps == ASSUME IInv, SendMessage PROVE IInv'
<1>1. room' \in Seq(Owner)
  <2>1. Me \in Owner
    BY DEF Owner
  <2>2. CASE room = None
    BY <2>1, <2>2 DEF SendMessage
  <2>3. CASE room # None
    BY <2>1, <2>3, AppendProperties DEF SendMessage, IInv, TypeOK
  <2> QED
    BY <2>2, <2>3
<1> QED
  BY <1>1, ArrivalKeeps DEF SendMessage, Post, IInv, TypeOK

LEMMA OpenKeeps == ASSUME IInv, Open PROVE IInv'
  BY NewTableKeeps DEF Open

LEMMA BackKeeps == ASSUME IInv, Back PROVE IInv'
  BY NewTableKeeps DEF Back, IInv, TypeOK

LEMMA DeleteChatKeeps == ASSUME IInv, DeleteChat PROVE IInv'
  BY NewTableKeeps DEF DeleteChat, CloseDiscussRoom

LEMMA TrapRowKeeps == ASSUME IInv, TrapRow PROVE IInv'
  BY NewTableKeeps DEF TrapRow

LEMMA ScrollOutKeeps == ASSUME IInv, NEW c \in Cell, ScrollOut(c) PROVE IInv'
<1>1. cells' \in [Cell -> CellState]
  BY DEF ScrollOut, IInv, TypeOK, CellState
<1>2. TypeOK'
  BY <1>1 DEF ScrollOut, IInv, TypeOK, messenger, model
<1>3. StaleTableIsReloaded'
  BY DEF ScrollOut, IInv, StaleTableIsReloaded, Reloads, CountMessages, messenger
<1>4. BlockFindsItsCell' /\ AskedOnce' /\ Filed'
  BY DEF ScrollOut, IInv, Pictures, BlockFindsItsCell, AskedOnce, Filed, model
<1>5. \A d \in Cell : \/ asked'[d] = None
                      \/ asked'[d] = asked[d] /\ cells'[d] = cells[d]
  BY DEF ScrollOut, IInv, TypeOK
<1>6. Queued'
  BY <1>5 DEF ScrollOut, IInv, Pictures, Queued, model
<1>7. \A d \in Cell : \A u \in Other : BlockPosted(d, u)' <=> BlockPosted(d, u)
  BY DEF ScrollOut, BlockPosted, model
<1>8. PictureComes'
  BY <1>5, <1>7 DEF ScrollOut, IInv, TypeOK, Pictures, PictureComes, model
<1> QED
  BY <1>2, <1>3, <1>4, <1>6, <1>8 DEF IInv, Pictures

\* What showing a message in a cell must do to keep the pictures: the queue of
\* waiting cells only grows, and this cell gets its picture or joins it.
LEMMA ShowKeeps ==
    ASSUME IInv, NEW c \in Cell, NEW u \in Other \cup {None},
           UNCHANGED <<messenger, open, told, mainQueue, unseen>>,
           que' = que \/ (/\ que' \in Seq(Waiting)
                          /\ Len(que') = Len(que) + 1
                          /\ \A i \in 1..Len(que) : que'[i] = que[i]),
           cells' \in [Cell -> CellState],
           \A d \in Cell \ {c} : cells'[d] = cells[d],
           asked' = [asked EXCEPT ![c] = u],
           buffer' \in [Other -> Other \cup {"absent", "download"}],
           lookups' \in SUBSET Waiting, lookups \subseteq lookups',
           AskedOnce', Filed',
           \A v \in Other : buffer[v] # "absent" => buffer'[v] = buffer[v],
           \A l \in lookups' : l \in lookups \/ \E i \in DOMAIN que' : que'[i] = l,
           u # None => /\ buffer'[u] # "absent"
                       /\ buffer'[u] = "download" =>
                             \E i \in DOMAIN que' : que'[i] = [id |-> u, cell |-> c],
           u # None => buffer'[u] = "download" \/ cells'[c].imageAvatar = u
    PROVE  IInv'
<1>1. que' \in Seq(Waiting) /\ \A i \in DOMAIN que : i \in DOMAIN que' /\ que'[i] = que[i]
  <2>1. que \in Seq(Waiting)
    BY DEF IInv, TypeOK
  <2>2. CASE que' = que
    BY <2>1, <2>2
  <2>3. CASE que' # que
    BY <2>1, <2>3, LenProperties
  <2> QED
    BY <2>2, <2>3
<1>2. TypeOK'
  BY <1>1 DEF IInv, TypeOK, messenger
<1>3. StaleTableIsReloaded'
  BY DEF IInv, StaleTableIsReloaded, Reloads, CountMessages, messenger
<1>4. BlockFindsItsCell'
  BY <1>1 DEF IInv, Pictures, BlockFindsItsCell
<1>5. /\ asked'[c] = u
      /\ \A d \in Cell \ {c} : asked'[d] = asked[d] /\ cells'[d] = cells[d]
      /\ \A d \in Cell : asked[d] \in Other \cup {None}
  BY DEF IInv, TypeOK
<1>6. Queued'
  <2>1. \A l \in lookups' : \E i \in DOMAIN que' : que'[i] = l
    BY <1>1 DEF IInv, Pictures, Queued
  <2>2. ASSUME NEW d \in Cell, asked'[d] # None
        PROVE  /\ buffer'[asked'[d]] # "absent"
               /\ buffer'[asked'[d]] = "download" =>
                     \E i \in DOMAIN que' : que'[i] = [id |-> asked'[d], cell |-> d]
    <3>1. CASE d = c
      BY <2>2, <3>1, <1>5
    <3>2. CASE d # c
      <4>1. asked[d] \in Other /\ asked'[d] = asked[d]
        BY <2>2, <3>2, <1>5
      <4>2. buffer[asked[d]] # "absent"
        BY <2>2, <4>1 DEF IInv, Pictures, Queued
      <4>3. buffer'[asked[d]] = buffer[asked[d]]
        BY <4>1, <4>2
      <4> QED
        BY <2>2, <4>1, <4>2, <4>3, <1>1 DEF IInv, Pictures, Queued
    <3> QED
      BY <3>1, <3>2
  <2> QED
    BY <2>1, <2>2 DEF Queued
<1>7. PictureComes'
  <2>1. SUFFICES ASSUME NEW d \in Cell, asked'[d] \notin {None, cells'[d].imageAvatar}
                 PROVE  \/ \E l \in lookups' : l.id = asked'[d]
                        \/ BlockPosted(d, asked[d])' /\ asked'[d] = asked[d]
                        \/ \E i \in DOMAIN que' :
                              que'[i] = [id |-> cells'[d].imageAvatar, cell |-> d]
    BY DEF PictureComes, BlockPosted
  <2>2. CASE d = c
    <3>1. u \in Other /\ buffer'[u] = "download"
      BY <2>1, <2>2, <1>5
    <3> QED
      BY <3>1, <2>2, <1>5 DEF AskedOnce
  <2>3. CASE d # c
    <3>1. asked'[d] = asked[d] /\ cells'[d] = cells[d]
      BY <2>3, <1>5
    <3>2. \/ \E l \in lookups : l.id = asked[d]
          \/ BlockPosted(d, asked[d])
          \/ \E i \in DOMAIN que : que[i] = [id |-> cells[d].imageAvatar, cell |-> d]
      BY <2>1, <3>1 DEF IInv, Pictures, PictureComes
    <3>3. BlockPosted(d, asked[d]) => BlockPosted(d, asked[d])'
      BY <1>1, <3>1 DEF IInv, Pictures, BlockPosted, BlockFindsItsCell
    <3> QED
      BY <3>1, <3>2, <3>3, <1>1
  <2> QED
    BY <2>2, <2>3
<1> QED
  BY <1>2, <1>3, <1>4, <1>6, <1>7 DEF IInv, Pictures

\* A cell that joins the queue finds itself at its end.
LEMMA JoinFacts ==
    ASSUME IInv, NEW c \in Cell, NEW u \in Other,
           que' = Append(que, [id |-> u, cell |-> c])
    PROVE  /\ que' \in Seq(Waiting)
           /\ Len(que') = Len(que) + 1
           /\ \A i \in 1..Len(que) : que'[i] = que[i]
           /\ \E i \in DOMAIN que' : que'[i] = [id |-> u, cell |-> c]
<1>1. que \in Seq(Waiting) /\ [id |-> u, cell |-> c] \in Waiting
  BY DEF IInv, TypeOK, Waiting
<1>2. /\ que' \in Seq(Waiting)
      /\ Len(que') = Len(que) + 1
      /\ \A i \in 1..Len(que) : que'[i] = que[i]
      /\ que'[Len(que) + 1] = [id |-> u, cell |-> c]
  BY <1>1, AppendProperties
<1>3. Len(que) + 1 \in DOMAIN que'
  BY <1>1, <1>2, LenProperties
<1> QED
  BY <1>2, <1>3

LEMMA CellForRowKeeps ==
    ASSUME IInv, NEW c \in Cell, NEW r \in 0..(told - 1), CellForRow(c, r)
    PROVE  IInv'
<1> DEFINE u == RowOwner(r)
<1>1. r \in Nat
  BY DEF IInv, TypeOK
<1>2. UNCHANGED <<messenger, open, told, mainQueue, unseen>>
  BY DEF CellForRow
<1>3. AskedOnce /\ Filed
  BY DEF IInv, Pictures
<1>4. CASE room = None
  <2>1. GiveNothing(c, r)
    BY <1>4 DEF CellForRow
  <2>2. cells' \in [Cell -> CellState] /\ \A d \in Cell \ {c} : cells'[d] = cells[d]
    BY <2>1, <1>1 DEF GiveNothing, Display, IInv, TypeOK, CellState
  <2>3. AskedOnce' /\ Filed'
    BY <1>3, <2>1 DEF GiveNothing, AskedOnce, Filed, model
  <2> QED
    BY <1>2, <2>1, <2>2, <2>3, ShowKeeps DEF GiveNothing, Display, model, IInv, TypeOK
<1>5. CASE room # None
  <2>1. u \in Other
    <3>1. room \in Seq(Owner) /\ r < Len(room) /\ u # Me
      BY <1>5 DEF CellForRow, IInv, TypeOK
    <3>2. Len(room) - r \in 1..Len(room)
      BY <3>1, <1>1, LenProperties
    <3>3. u \in Owner
      BY <3>1, <3>2, ElementOfSeq DEF RowOwner
    <3> QED
      BY <3>1, <3>3 DEF Owner
  <2>2. GiveInfo(c, r, u) \/ WaitForInfo(c, r, u) \/ AskForInfo(c, r, u)
    BY <1>5 DEF CellForRow
  <2> HIDE DEF u
  <2>3. CASE GiveInfo(c, r, u)
    <3>1. buffer[u] = u
      BY <2>1, <2>3, <1>3 DEF GiveInfo, Filed
    <3>2. /\ cells' \in [Cell -> CellState] /\ cells'[c].imageAvatar = u
          /\ \A d \in Cell \ {c} : cells'[d] = cells[d]
      BY <2>1, <2>3, <3>1, <1>1 DEF GiveInfo, SetOwner, IInv, TypeOK, CellState
    <3>3. AskedOnce' /\ Filed'
      BY <1>3, <2>3 DEF GiveInfo, AskedOnce, Filed, model
    <3> QED
      BY <1>2, <2>1, <2>3, <3>1, <3>2, <3>3, ShowKeeps, TableAssumption
         DEF GiveInfo, model, IInv, TypeOK
  <2>4. CASE WaitForInfo(c, r, u)
    <3>1. cells' \in [Cell -> CellState] /\ \A d \in Cell \ {c} : cells'[d] = cells[d]
      BY <2>4, <1>1 DEF WaitForInfo, Display, IInv, TypeOK, CellState
    <3>2. AskedOnce' /\ Filed'
      BY <1>3, <2>4 DEF WaitForInfo, AskedOnce, Filed
    <3>3. /\ que' \in Seq(Waiting)
          /\ Len(que') = Len(que) + 1
          /\ \A i \in 1..Len(que) : que'[i] = que[i]
          /\ \E i \in DOMAIN que' : que'[i] = [id |-> u, cell |-> c]
      BY <2>1, <2>4, JoinFacts DEF WaitForInfo
    <3> QED
      BY <1>2, <2>1, <2>4, <3>1, <3>2, <3>3, ShowKeeps
         DEF WaitForInfo, Display, IInv, TypeOK
  <2>5. CASE AskForInfo(c, r, u)
    <3> DEFINE l == [id |-> u, cell |-> c]
    <3>1. cells' \in [Cell -> CellState] /\ \A d \in Cell \ {c} : cells'[d] = cells[d]
      BY <2>5, <1>1 DEF AskForInfo, Display, IInv, TypeOK, CellState
    <3>2. /\ buffer' \in [Other -> Other \cup {"absent", "download"}]
          /\ buffer'[u] = "download"
          /\ \A v \in Other \ {u} : buffer'[v] = buffer[v]
      BY <2>1, <2>5 DEF AskForInfo, IInv, TypeOK
    <3>3. buffer[u] = "absent" /\ lookups' = lookups \cup {l}
      BY <2>5 DEF AskForInfo
    <3>4. \A m \in lookups : m.id # u
      BY <2>1, <3>3, <1>3 DEF AskedOnce
    <3>5. AskedOnce'
      <4>1. \A m, n \in lookups' : m.id = n.id => m = n
        BY <3>3, <3>4, <1>3 DEF AskedOnce
      <4>2. l.id = u /\ l \in lookups' /\ \A m \in lookups' : m \in lookups \/ m = l
        BY <3>3
      <4> HIDE DEF l
      <4>3. ASSUME NEW v \in Other
            PROVE  buffer'[v] = "download" <=> \E m \in lookups' : m.id = v
        <5>1. CASE v = u
          BY <5>1, <4>2, <3>2
        <5>2. CASE v # u
          <6>1. buffer'[v] = buffer[v]
            BY <5>2, <3>2
          <6>2. (\E m \in lookups' : m.id = v) <=> (\E m \in lookups : m.id = v)
            BY <5>2, <4>2, <3>3
          <6> QED
            BY <6>1, <6>2, <1>3 DEF AskedOnce
        <5> QED
          BY <5>1, <5>2
      <4> QED
        BY <4>1, <4>3 DEF AskedOnce
    <3>6. Filed'
      BY <3>2, <1>3 DEF Filed
    <3>7. /\ que' \in Seq(Waiting)
          /\ Len(que') = Len(que) + 1
          /\ \A i \in 1..Len(que) : que'[i] = que[i]
          /\ \E i \in DOMAIN que' : que'[i] = l
      BY <2>1, <2>5, JoinFacts DEF AskForInfo
    <3>8. lookups' \in SUBSET Waiting /\ lookups \subseteq lookups'
      BY <2>1, <3>3 DEF IInv, TypeOK, Waiting
    <3>9. asked' = [asked EXCEPT ![c] = u]
      BY <2>5 DEF AskForInfo, Display
    <3>10. \A v \in Other : buffer[v] # "absent" => buffer'[v] = buffer[v]
      BY <3>2, <3>3
    <3>11. \A m \in lookups' : m \in lookups \/ \E i \in DOMAIN que' : que'[i] = m
      BY <3>3, <3>7
    <3> QED
      BY <1>2, <2>1, <3>1, <3>2, <3>5, <3>6, <3>7, <3>8, <3>9, <3>10, <3>11, ShowKeeps
  <2> QED
    BY <2>2, <2>3, <2>4, <2>5
<1> QED
  BY <1>4, <1>5

LEMMA ReloadTableViewKeeps == ASSUME IInv, ReloadTableView PROVE IInv'
<1> DEFINE b == [do |-> "reloadData"]
<1>1. mainQueue \in Seq(Block) /\ mainQueue # << >> /\ Head(mainQueue).do # "set"
  BY DEF IInv, TypeOK, ReloadTableView
<1>2. Tail(mainQueue) \in Seq(Block) /\ SameSets(mainQueue, Tail(mainQueue))
  BY <1>1, TailKeepsSets
<1>3. mainQueue' = Append(Tail(mainQueue), b)
  BY DEF ReloadTableView
<1>4. /\ mainQueue' \in Seq(Block) /\ SameSets(Tail(mainQueue), mainQueue')
      /\ \E j \in DOMAIN mainQueue' : mainQueue'[j] = b
  BY <1>2, <1>3, AppendKeepsSets, ReloadIsABlock
<1>5. SameSets(mainQueue, mainQueue')
  BY <1>2, <1>4, SameSetsTransitive
<1>6. Pictures'
  BY <1>5, PicturesKept DEF ReloadTableView
<1>7. TypeOK'
  BY <1>4 DEF ReloadTableView, IInv, TypeOK, messenger, model
<1>8. Reloads' # {}
  BY <1>4, ReloadIsABlock DEF Reloads
<1> QED
  BY <1>6, <1>7, <1>8 DEF IInv, StaleTableIsReloaded

LEMMA ReloadDataKeeps == ASSUME IInv, ReloadData PROVE IInv'
<1>1. mainQueue \in Seq(Block) /\ mainQueue # << >> /\ Head(mainQueue).do # "set"
  BY DEF IInv, TypeOK, ReloadData
<1>2. mainQueue' \in Seq(Block) /\ SameSets(mainQueue, mainQueue')
  BY <1>1, TailKeepsSets DEF ReloadData, Finish
<1>3. told' \in Nat /\ told' = CountMessages(room')
  BY LenProperties DEF ReloadData, CountMessages, IInv, TypeOK, messenger
<1>4. cells' \in [Cell -> CellState]
  BY DEF ReloadData, IInv, TypeOK, CellState
<1>5. asked' = [c \in Cell |-> None] /\ unseen' = FALSE
  BY DEF ReloadData
<1>6. TypeOK'
  BY <1>2, <1>3, <1>4, <1>5 DEF ReloadData, IInv, TypeOK, messenger, model
<1>7. StaleTableIsReloaded'
  BY <1>3 DEF StaleTableIsReloaded
<1>8. BlockFindsItsCell'
  BY <1>2 DEF ReloadData, IInv, Pictures, BlockFindsItsCell, SameSets, model
<1>9. AskedOnce' /\ Filed'
  BY DEF ReloadData, IInv, Pictures, AskedOnce, Filed, model
<1>10. Queued' /\ PictureComes'
  BY <1>5 DEF ReloadData, IInv, Pictures, Queued, PictureComes, model
<1> QED
  BY <1>6, <1>7, <1>8, <1>9, <1>10 DEF IInv, Pictures

LEMMA InfoAnsweredKeeps == ASSUME IInv, NEW l \in lookups, InfoAnswered(l) PROVE IInv'
<1> DEFINE u == l.id
<1> DEFINE b == [do |-> "set", info |-> u, at |-> {i \in DOMAIN que : que[i].id = u}]
<1>1. l \in Waiting /\ u \in Other /\ l.cell \in Cell /\ l = [id |-> u, cell |-> l.cell]
  BY DEF IInv, TypeOK, Waiting
<1>2. que \in Seq(Waiting) /\ DOMAIN que \subseteq Nat \ {0}
  BY LenProperties DEF IInv, TypeOK
<1>3. PICK i0 \in DOMAIN que : que[i0] = l
  BY DEF IInv, Pictures, Queued
<1>4. b \in Block /\ b.do = "set" /\ b.info = u /\ b.at = {i \in DOMAIN que : que[i].id = u}
  BY <1>1, <1>2 DEF Block
<1>5. i0 \in b.at
  BY <1>3, <1>4
<1>6. mainQueue' = Append(mainQueue, b) /\ que' = que
  BY DEF InfoAnswered, Post
<1> HIDE DEF b
<1>7. /\ mainQueue' \in Seq(Block)
      /\ \A k \in DOMAIN mainQueue : k \in DOMAIN mainQueue' /\ mainQueue'[k] = mainQueue[k]
      /\ \A k \in DOMAIN mainQueue' : k \in DOMAIN mainQueue \/ mainQueue'[k] = b
      /\ \E k \in DOMAIN mainQueue' : mainQueue'[k] = b
  <2>1. mainQueue \in Seq(Block)
    BY DEF IInv, TypeOK
  <2>2. /\ mainQueue' \in Seq(Block)
        /\ Len(mainQueue') = Len(mainQueue) + 1
        /\ \A k \in 1..Len(mainQueue) : mainQueue'[k] = mainQueue[k]
        /\ mainQueue'[Len(mainQueue) + 1] = b
    BY <1>4, <1>6, <2>1, AppendProperties
  <2> QED
    BY <2>1, <2>2, LenProperties
<1>8. /\ buffer' = [buffer EXCEPT ![u] = u]
      /\ lookups' = lookups \ {l}
      /\ asked' = asked
  BY DEF InfoAnswered
<1>9. /\ cells' \in [Cell -> CellState]
      /\ cells'[l.cell].imageAvatar = u
      /\ \A d \in Cell \ {l.cell} : cells'[d] = cells[d]
  BY <1>1 DEF InfoAnswered, SetOwner, IInv, TypeOK, CellState
<1>10. TypeOK'
  BY <1>1, <1>6, <1>7, <1>8, <1>9 DEF InfoAnswered, IInv, TypeOK, messenger
<1>11. StaleTableIsReloaded'
  <2>1. \A k \in Reloads : k \in Reloads'
    BY <1>7 DEF Reloads
  <2> QED
    BY <2>1 DEF InfoAnswered, IInv, StaleTableIsReloaded, CountMessages, messenger
<1>12. BlockFindsItsCell'
  BY <1>4, <1>5, <1>6, <1>7 DEF IInv, Pictures, BlockFindsItsCell
<1>13. buffer'[u] = u /\ \A v \in Other \ {u} : buffer'[v] = buffer[v]
  BY <1>1, <1>8 DEF IInv, TypeOK
<1>14. AskedOnce'
  <2>1. \A m, n \in lookups' : m.id = n.id => m = n
    BY <1>8 DEF IInv, Pictures, AskedOnce
  <2>2. ASSUME NEW v \in Other
        PROVE  buffer'[v] = "download" <=> \E m \in lookups' : m.id = v
    <3>1. CASE v = u
      BY <3>1, <1>8, <1>13, <1>1, TableAssumption DEF IInv, Pictures, AskedOnce
    <3>2. CASE v # u
      BY <3>2, <1>8, <1>13 DEF IInv, Pictures, AskedOnce
    <3> QED
      BY <3>1, <3>2
  <2> QED
    BY <2>1, <2>2 DEF AskedOnce
<1>15. Filed'
  BY <1>13 DEF IInv, Pictures, Filed
<1>16. Queued'
  BY <1>1, <1>6, <1>8, <1>13, TableAssumption DEF IInv, Pictures, Queued
<1>17. PictureComes'
  <2>1. SUFFICES ASSUME NEW d \in Cell, asked[d] \notin {None, cells'[d].imageAvatar}
                 PROVE  \/ \E m \in lookups' : m.id = asked[d]
                        \/ BlockPosted(d, asked[d])'
                        \/ \E i \in DOMAIN que :
                              que[i] = [id |-> cells'[d].imageAvatar, cell |-> d]
    BY <1>6, <1>8 DEF PictureComes, BlockPosted
  <2>2. CASE d = l.cell
    BY <2>2, <1>1, <1>3, <1>9
  <2>3. CASE d # l.cell
    <3>1. cells'[d] = cells[d]
      BY <2>3, <1>9
    <3>2. \/ \E m \in lookups : m.id = asked[d]
          \/ BlockPosted(d, asked[d])
          \/ \E i \in DOMAIN que : que[i] = [id |-> cells[d].imageAvatar, cell |-> d]
      BY <2>1, <3>1 DEF IInv, Pictures, PictureComes
    <3>3. BlockPosted(d, asked[d]) => BlockPosted(d, asked[d])'
      BY <1>6, <1>7, <1>8 DEF BlockPosted
    <3>4. asked[d] = u => BlockPosted(d, u)'
      <4>1. SUFFICES ASSUME asked[d] = u PROVE BlockPosted(d, u)'
        OBVIOUS
      <4>2. buffer[u] = "download"
        BY <1>1 DEF IInv, Pictures, AskedOnce
      <4>3. PICK i \in DOMAIN que : que[i] = [id |-> u, cell |-> d]
        BY <4>1, <4>2, <2>1 DEF IInv, Pictures, Queued
      <4>4. i \in b.at /\ que[i].cell = d
        BY <4>3, <1>4
      <4> QED
        BY <4>4, <1>4, <1>6, <1>7 DEF BlockPosted
    <3>5. asked[d] # u => \A m \in lookups : m.id = asked[d] => m \in lookups'
      BY <1>8
    <3>6. CASE asked[d] = u
      BY <3>4, <3>6, <1>8
    <3>7. CASE asked[d] # u
      BY <3>1, <3>2, <3>3, <3>5, <3>7
    <3> QED
      BY <3>6, <3>7
  <2> QED
    BY <2>2, <2>3
<1> QED
  BY <1>10, <1>11, <1>12, <1>14, <1>15, <1>16, <1>17 DEF IInv, Pictures

\* The head of the queue, when it sets an entry.
LEMMA HeadFacts ==
    ASSUME IInv, mainQueue # << >>, Head(mainQueue).do = "set"
    PROVE  /\ mainQueue \in Seq(Block) /\ 1 \in DOMAIN mainQueue
           /\ Head(mainQueue) = mainQueue[1]
           /\ mainQueue[1].info \in Other /\ mainQueue[1].at \subseteq Nat \ {0}
           /\ NextEntry \in mainQueue[1].at
           /\ NextEntry \in DOMAIN que
           /\ que[NextEntry] \in Waiting /\ que[NextEntry].id = mainQueue[1].info
<1>1. mainQueue \in Seq(Block) /\ que \in Seq(Waiting)
  BY DEF IInv, TypeOK
<1>2. /\ 1 \in DOMAIN mainQueue /\ Head(mainQueue) = mainQueue[1]
      /\ mainQueue[1] \in Block
  BY <1>1, HeadTailProperties, LenProperties, EmptySeq
<1>3. mainQueue[1].info \in Other /\ mainQueue[1].at \subseteq Nat \ {0}
  BY <1>2 DEF Block
<1>4. /\ mainQueue[1].at # {}
      /\ \A i \in mainQueue[1].at : i \in DOMAIN que /\ que[i].id = mainQueue[1].info
  BY <1>2 DEF IInv, Pictures, BlockFindsItsCell
<1>5. NextEntry \in mainQueue[1].at
  BY <1>2, <1>3, <1>4, LeastIsLeast DEF NextEntry
<1> QED
  BY <1>1, <1>2, <1>3, <1>4, <1>5, ElementOfSeq, LenProperties

\* Serving an entry takes it off the queue and nothing else.
LEMMA AfterEntryFacts ==
    ASSUME IInv, mainQueue # << >>, Head(mainQueue).do = "set",
           mainQueue' = AfterEntry
    PROVE  /\ mainQueue' \in Seq(Block)
           /\ \A k \in DOMAIN mainQueue : mainQueue[k].do # "set" =>
                 \E j \in DOMAIN mainQueue' : mainQueue'[j] = mainQueue[k]
           /\ \A j \in DOMAIN mainQueue' : mainQueue'[j].do = "set" =>
                 /\ mainQueue'[j].at # {}
                 /\ \E k \in DOMAIN mainQueue :
                       /\ mainQueue[k].do = "set"
                       /\ mainQueue'[j].info = mainQueue[k].info
                       /\ mainQueue'[j].at \subseteq mainQueue[k].at
           /\ \A k \in DOMAIN mainQueue : mainQueue[k].do = "set" =>
                 \A i \in mainQueue[k].at : 
                    \/ k = 1 /\ i = NextEntry
                    \/ \E j \in DOMAIN mainQueue' :
                          /\ mainQueue'[j].do = "set"
                          /\ mainQueue'[j].info = mainQueue[k].info
                          /\ i \in mainQueue'[j].at
<1> DEFINE q == mainQueue
<1>1. /\ q \in Seq(Block) /\ q # << >>
      /\ 1 \in DOMAIN q
      /\ Head(q) = q[1]
      /\ q[1].info \in Other /\ q[1].at \subseteq Nat \ {0}
      /\ NextEntry \in q[1].at
  BY HeadFacts
<1>2. DOMAIN q = 1..Len(q) /\ Len(q) \in Nat /\ \A k \in DOMAIN q : q[k] \in Block
  BY <1>1, LenProperties, ElementOfSeq
<1>3. CASE q[1].at = {NextEntry}
  <2>1. mainQueue' = Tail(q)
    BY <1>1, <1>3 DEF AfterEntry
  <2>2. /\ Tail(q) \in Seq(Block)
        /\ Len(Tail(q)) = Len(q) - 1
        /\ DOMAIN Tail(q) = 1..(Len(q) - 1)
        /\ \A k \in 1..(Len(q) - 1) : Tail(q)[k] = q[k + 1]
    BY <1>1, HeadTailProperties, LenProperties
  <2>3. \A k \in DOMAIN q : k = 1 \/ (k - 1 \in DOMAIN mainQueue' /\ mainQueue'[k - 1] = q[k])
    BY <1>2, <2>1, <2>2
  <2>4. \A j \in DOMAIN mainQueue' : j + 1 \in DOMAIN q /\ q[j + 1] = mainQueue'[j]
    BY <1>2, <2>1, <2>2
  <2>5. \A k \in DOMAIN q : q[k].do = "set" => q[k].at # {}
    BY DEF IInv, Pictures, BlockFindsItsCell
  <2>6. q[1].do = "set"
    BY <1>1
  <2>7. \A k \in DOMAIN q : k # 1 => \E j \in DOMAIN mainQueue' : mainQueue'[j] = q[k]
    BY <2>3
  <2>8. \A j \in DOMAIN mainQueue' : \E k \in DOMAIN q : mainQueue'[j] = q[k]
    BY <2>4
  <2>9. mainQueue' \in Seq(Block)
    BY <2>1, <2>2
  <2>10. \A k \in DOMAIN q : q[k].do # "set" =>
            \E j \in DOMAIN mainQueue' : mainQueue'[j] = q[k]
    BY <2>6, <2>7
  <2>11. \A j \in DOMAIN mainQueue' : mainQueue'[j].do = "set" =>
            /\ mainQueue'[j].at # {}
            /\ \E k \in DOMAIN q :
                  /\ q[k].do = "set"
                  /\ mainQueue'[j].info = q[k].info
                  /\ mainQueue'[j].at \subseteq q[k].at
    BY <2>5, <2>8
  <2>12. \A k \in DOMAIN q : q[k].do = "set" =>
            \A i \in q[k].at :
               \/ k = 1 /\ i = NextEntry
               \/ \E j \in DOMAIN mainQueue' :
                     /\ mainQueue'[j].do = "set"
                     /\ mainQueue'[j].info = q[k].info
                     /\ i \in mainQueue'[j].at
    BY <1>3, <2>7
  <2> QED
    BY <2>9, <2>10, <2>11, <2>12
<1>4. CASE q[1].at # {NextEntry}
  <2> DEFINE h == [q[1] EXCEPT !.at = @ \ {NextEntry}]
  <2>1. mainQueue' = [q EXCEPT ![1] = h]
    BY <1>1, <1>4 DEF AfterEntry
  <2>2. q[1] \in Block /\ q[1].do = "set"
    BY <1>1, <1>2
  <2>3. q[1] \in [do : {"set"}, at : SUBSET (Nat \ {0}), info : Other]
    BY <2>2 DEF Block
  <2>4. /\ h.do = "set" /\ h.info = q[1].info /\ h.at = q[1].at \ {NextEntry}
        /\ h \in [do : {"set"}, at : SUBSET (Nat \ {0}), info : Other]
    BY <2>3
  <2>5. h \in Block /\ h.at # {}
    BY <2>4, <1>1, <1>4 DEF Block
  <2> HIDE DEF h
  <2>6. /\ mainQueue' \in Seq(Block) /\ DOMAIN mainQueue' = DOMAIN q
        /\ mainQueue'[1] = h
        /\ \A k \in DOMAIN q : k # 1 => mainQueue'[k] = q[k]
    BY <1>1, <1>2, <2>1, <2>5, ExceptSeq
  <2>7. \A k \in DOMAIN q : q[k].do = "set" => q[k].at # {}
    BY DEF IInv, Pictures, BlockFindsItsCell
  <2> QED
    BY <1>1, <2>2, <2>4, <2>5, <2>6, <2>7
<1> QED
  BY <1>3, <1>4

LEMMA SetEntryKeeps == ASSUME IInv, SetEntry PROVE IInv'
<1> DEFINE i0 == NextEntry
<1> DEFINE c == que[i0].cell
<1> DEFINE v == mainQueue[1].info
<1>1. mainQueue # << >> /\ Head(mainQueue).do = "set"
  BY DEF SetEntry
<1>2. /\ Head(mainQueue) = mainQueue[1] /\ v \in Other
      /\ i0 \in DOMAIN que /\ que[i0] \in Waiting /\ que[i0].id = v
  BY <1>1, HeadFacts
<1>3. c \in Cell /\ que[i0] = [id |-> v, cell |-> c]
  BY <1>2 DEF Waiting
<1>4. mainQueue' = AfterEntry /\ que' = que /\ lookups' = lookups /\ buffer' = buffer /\ asked' = asked
  BY DEF SetEntry, model
<1>5. /\ cells' \in [Cell -> CellState]
      /\ cells'[c].imageAvatar = v
      /\ \A d \in Cell \ {c} : cells'[d] = cells[d]
  BY <1>2, <1>3 DEF SetEntry, SetOwner, IInv, TypeOK, CellState
<1> HIDE DEF i0
<1>6. /\ mainQueue' \in Seq(Block)
      /\ \A k \in DOMAIN mainQueue : mainQueue[k].do # "set" =>
            \E j \in DOMAIN mainQueue' : mainQueue'[j] = mainQueue[k]
      /\ \A j \in DOMAIN mainQueue' : mainQueue'[j].do = "set" =>
            /\ mainQueue'[j].at # {}
            /\ \E k \in DOMAIN mainQueue :
                  /\ mainQueue[k].do = "set"
                  /\ mainQueue'[j].info = mainQueue[k].info
                  /\ mainQueue'[j].at \subseteq mainQueue[k].at
      /\ \A k \in DOMAIN mainQueue : mainQueue[k].do = "set" =>
            \A i \in mainQueue[k].at :
               \/ k = 1 /\ i = i0
               \/ \E j \in DOMAIN mainQueue' :
                     /\ mainQueue'[j].do = "set"
                     /\ mainQueue'[j].info = mainQueue[k].info
                     /\ i \in mainQueue'[j].at
  BY <1>1, <1>4, AfterEntryFacts DEF i0
<1>7. TypeOK'
  BY <1>4, <1>5, <1>6 DEF SetEntry, IInv, TypeOK, messenger
<1>8. StaleTableIsReloaded'
  <2>1. Reloads # {} => Reloads' # {}
    BY <1>6 DEF Reloads
  <2> QED
    BY <2>1 DEF SetEntry, IInv, StaleTableIsReloaded, CountMessages, messenger
<1>9. BlockFindsItsCell'
  BY <1>4, <1>6 DEF IInv, Pictures, BlockFindsItsCell
<1>10. AskedOnce' /\ Filed' /\ Queued'
  BY <1>4 DEF IInv, Pictures, AskedOnce, Filed, Queued
<1>11. PictureComes'
  <2>1. SUFFICES ASSUME NEW d \in Cell, asked[d] \notin {None, cells'[d].imageAvatar}
                 PROVE  \/ \E m \in lookups : m.id = asked[d]
                        \/ BlockPosted(d, asked[d])'
                        \/ \E i \in DOMAIN que :
                              que[i] = [id |-> cells'[d].imageAvatar, cell |-> d]
    BY <1>4 DEF PictureComes, BlockPosted
  <2>2. CASE d = c
    BY <2>2, <1>2, <1>3, <1>5
  <2>3. CASE d # c
    <3>1. cells'[d] = cells[d]
      BY <2>3, <1>5
    <3>2. \/ \E m \in lookups : m.id = asked[d]
          \/ BlockPosted(d, asked[d])
          \/ \E i \in DOMAIN que : que[i] = [id |-> cells[d].imageAvatar, cell |-> d]
      BY <2>1, <3>1 DEF IInv, Pictures, PictureComes
    <3>3. BlockPosted(d, asked[d]) => BlockPosted(d, asked[d])'
      BY <2>3, <1>4, <1>6 DEF BlockPosted
    <3> QED
      BY <3>1, <3>2, <3>3
  <2> QED
    BY <2>2, <2>3
<1> QED
  BY <1>7, <1>8, <1>9, <1>10, <1>11 DEF IInv, Pictures

LEMMA StutterKeeps == ASSUME IInv, UNCHANGED vars PROVE IInv'
<1>1. UNCHANGED <<messenger, open, told, cells, mainQueue, model, asked, unseen>>
  BY DEF vars
<1>2. SameSets(mainQueue, mainQueue')
  BY <1>1 DEF SameSets
<1>3. Pictures'
  BY <1>1, <1>2, PicturesKept
<1>4. TypeOK' /\ StaleTableIsReloaded'
  BY <1>1 DEF IInv, TypeOK, StaleTableIsReloaded, Reloads, CountMessages, messenger, model
<1> QED
  BY <1>3, <1>4 DEF IInv

-----------------------------------------------------------------------------
(* Theorems *)

LEMMA NextKeeps == IInv /\ [Next]_vars => IInv'
<1> SUFFICES ASSUME IInv, [Next]_vars PROVE IInv'
  OBVIOUS
<1>1. CASE Next
  <2>1. ASSUME NEW l \in lookups, InfoAnswered(l) PROVE IInv'
    BY <2>1, InfoAnsweredKeeps
  <2>2. ASSUME NEW c \in Cell, ScrollOut(c) PROVE IInv'
    BY <2>2, ScrollOutKeeps
  <2>3. ASSUME NEW c \in Cell, NEW r \in 0..(told - 1), CellForRow(c, r) PROVE IInv'
    BY <2>3, CellForRowKeeps
  <2> QED
    BY <1>1, <2>1, <2>2, <2>3, ChangedUnheardKeeps, LoadAnsweredKeeps,
       LoadFailedKeeps, SnapshotKeeps, OpenKeeps, SendMessageKeeps, BackKeeps,
       DeleteChatKeeps, DeinitKeeps, TrapRowKeeps, ReloadTableViewKeeps,
       ReloadDataKeeps, SetEntryKeeps DEF Next
<1>2. CASE UNCHANGED vars
  BY <1>2, StutterKeeps
<1> QED
  BY <1>1, <1>2

\* The inductive invariant holds throughout.
THEOREM TableInvariant == Spec => []IInv
  BY InitIInv, NextKeeps, PTL DEF Spec

\* Every variable keeps its type: in particular nothing on a cell is ever the
\* placeholder of a profile that is still being downloaded.
THEOREM TableTypeCorrect == Spec => []TypeOK
<1>1. IInv => TypeOK
  BY DEF IInv
<1> QED
  BY <1>1, TableInvariant, PTL

\* The open screen's table is out of date only while a reload is posted or
\* after a change of the room that no completion reports.
THEOREM TableIsReloaded == Spec => []StaleTableIsReloaded
<1>1. IInv => StaleTableIsReloaded
  BY DEF IInv
<1> QED
  BY <1>1, TableInvariant, PTL

\* A block posted for an entry of que1 and que2 finds that entry when it runs.
THEOREM EntryIsFound == Spec => []BlockFindsItsCell
<1>1. IInv => BlockFindsItsCell
  BY DEF IInv, Pictures
<1> QED
  BY <1>1, TableInvariant, PTL

\* A profile is asked for once per screen, as long as its answer is out.
THEOREM ProfileIsAskedOnce == Spec => []AskedOnce
<1>1. IInv => AskedOnce
  BY DEF IInv, Pictures
<1> QED
  BY <1>1, TableInvariant, PTL

\* No cell that asked for a picture is forgotten, and none has a picture but
\* that of its owner or of a user it waited for before.
THEOREM NoCellIsForgotten == Spec => []PictureComes
<1>1. IInv => PictureComes
  BY DEF IInv, Pictures
<1> QED
  BY <1>1, TableInvariant, PTL

=============================================================================
