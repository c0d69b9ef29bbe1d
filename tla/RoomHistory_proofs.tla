------------------------- MODULE RoomHistory_proofs -------------------------
(***************************************************************************)
(* Proofs about RoomHistory: the versions of a discussion form one tree,   *)
(* for any authors, any number of messages and any loss of versions.       *)
(***************************************************************************)
EXTENDS RoomHistory, SequenceTheorems, TLAPS

\* The inductive invariant.  OneHistory alone is not inductive: a new message
\* must differ from every message that stands in some version, and it does
\* because no version holds a message its author has not counted (Said).
IInv == TypeOK /\ OneHistory /\ SenderOrder /\ Said

\* Saying something adds a message no version has.
LEMMA NewMessage ==
    ASSUME TypeOK, Said, NEW a \in Author, NEW r \in Discussion
    PROVE  LET m == [from |-> a, n |-> sent[a] + 1, room |-> r]
           IN  /\ m \in Message
               /\ \A v \in versions : \A i \in 1..Len(v) : v[i] # m
<1> DEFINE m == [from |-> a, n |-> sent[a] + 1, room |-> r]
<1>1. sent[a] \in Nat
  BY DEF TypeOK
<1>2. m \in Message
  BY <1>1 DEF Message
<1>3. ASSUME NEW v \in versions, NEW i \in 1..Len(v), v[i] = m
      PROVE  FALSE
  <2>1. v[i].n <= sent[v[i].from]
    BY DEF Said
  <2>2. sent[a] + 1 <= sent[a]
    BY <2>1, <1>3
  <2> QED
    BY <2>2, <1>1
<1> QED
  BY <1>2, <1>3

\* The positions of an extended version.
LEMMA Extended ==
    ASSUME NEW v \in Seq(Message), NEW m \in Message
    PROVE  /\ Append(v, m) \in Seq(Message)
           /\ Len(v) \in Nat
           /\ Len(Append(v, m)) = Len(v) + 1
           /\ \A i \in 1..Len(v) : Append(v, m)[i] = v[i]
           /\ Append(v, m)[Len(v) + 1] = m
  BY AppendProperties, LenProperties

\* One more version, extending one that exists by a message no version has,
\* keeps one history.
LEMMA ExtendKeepsOneHistory ==
    ASSUME TypeOK, OneHistory,
           NEW v \in versions, NEW m \in Message,
           \A u \in versions : \A i \in 1..Len(u) : u[i] # m,
           NEW x \in versions \cup {Append(v, m)},
           NEW y \in versions \cup {Append(v, m)},
           NEW i \in 1..Len(x), NEW j \in 1..Len(y), x[i] = y[j]
    PROVE  i = j /\ \A k \in 1..i : x[k] = y[k]
<1> DEFINE w == Append(v, m)
<1>1. /\ v \in Seq(Message)
      /\ x \in Seq(Message)
      /\ y \in Seq(Message)
  BY Extended DEF TypeOK
<1>2. /\ Len(v) \in Nat
      /\ Len(w) = Len(v) + 1
      /\ \A k \in 1..Len(v) : w[k] = v[k]
      /\ w[Len(v) + 1] = m
  BY <1>1, Extended
<1> HIDE DEF w
<1>3. CASE x \in versions /\ y \in versions
  BY <1>3 DEF OneHistory
<1>4. CASE x = w /\ y \in versions
  <2>1. i # Len(v) + 1
    BY <1>2, <1>4
  <2>2. i \in 1..Len(v)
    BY <2>1, <1>2, <1>4
  <2>3. v[i] = y[j]
    BY <2>2, <1>2, <1>4
  <2>4. i = j /\ \A k \in 1..i : v[k] = y[k]
    BY <2>2, <2>3, <1>4 DEF OneHistory
  <2>5. \A k \in 1..i : x[k] = v[k]
    BY <2>2, <1>2, <1>4
  <2> QED
    BY <2>4, <2>5
<1>5. CASE x \in versions /\ y = w
  <2>1. j # Len(v) + 1
    BY <1>2, <1>5
  <2>2. j \in 1..Len(v)
    BY <2>1, <1>2, <1>5
  <2>3. x[i] = v[j]
    BY <2>2, <1>2, <1>5
  <2>4. i = j /\ \A k \in 1..i : x[k] = v[k]
    BY <2>2, <2>3, <1>5 DEF OneHistory
  <2>5. \A k \in 1..j : y[k] = v[k]
    BY <2>2, <1>2, <1>5
  <2> QED
    BY <2>4, <2>5
<1>6. CASE x = w /\ y = w
  <2>1. CASE i = Len(v) + 1 \/ j = Len(v) + 1
    <3>1. x[i] = m
      BY <2>1, <1>2, <1>6
    <3>2. \A k \in 1..Len(v) : w[k] # m
      BY <1>2
    <3>3. i \notin 1..Len(v) /\ j \notin 1..Len(v)
      BY <3>1, <3>2, <1>6
    <3>4. i = Len(v) + 1 /\ j = Len(v) + 1
      BY <3>3, <1>2, <1>6
    <3> QED
      BY <3>4, <1>6
  <2>2. CASE i # Len(v) + 1 /\ j # Len(v) + 1
    <3>1. i \in 1..Len(v) /\ j \in 1..Len(v)
      BY <2>2, <1>2, <1>6
    <3>2. v[i] = v[j]
      BY <3>1, <1>2, <1>6
    <3>3. i = j
      BY <3>1, <3>2 DEF OneHistory
    <3> QED
      BY <3>3, <1>6
  <2> QED
    BY <2>1, <2>2
<1> QED
  BY <1>3, <1>4, <1>5, <1>6 DEF w

LEMMA InitIInv == Init => IInv
<1> SUFFICES ASSUME Init PROVE IInv
  OBVIOUS
<1>1. \A v \in versions : v = << >> /\ Len(v) = 0
  BY DEF Init
<1>2. TypeOK
  BY DEF Init, TypeOK
<1>3. OneHistory /\ SenderOrder /\ Said
  BY <1>1 DEF OneHistory, SenderOrder, Said
<1> QED
  BY <1>2, <1>3 DEF IInv

LEMMA SayKeepsIInv ==
    ASSUME IInv, NEW a \in Author, Say(a)
    PROVE  IInv'
<1>1. PICK v \in versions, r \in Discussion :
         versions' \in SUBSET (versions \cup
            {Append(v, [from |-> a, n |-> sent[a] + 1, room |-> r])})
  BY DEF Say
<1> DEFINE m == [from |-> a, n |-> sent[a] + 1, room |-> r]
<1> DEFINE w == Append(v, m)
<1>2. TypeOK /\ OneHistory /\ SenderOrder /\ Said
  BY DEF IInv
<1>3. /\ m \in Message
      /\ \A u \in versions : \A i \in 1..Len(u) : u[i] # m
  BY <1>2, NewMessage
<1>4. sent[a] \in Nat /\ sent' = [sent EXCEPT ![a] = sent[a] + 1]
  BY <1>2 DEF TypeOK, Say
<1>5. /\ m.from = a
      /\ m.n = sent[a] + 1
  OBVIOUS
<1>6. v \in Seq(Message)
  BY <1>2 DEF TypeOK
<1>7. versions' \subseteq versions \cup {w}
  BY <1>1
<1>8. /\ w \in Seq(Message)
      /\ Len(v) \in Nat
      /\ Len(w) = Len(v) + 1
      /\ \A i \in 1..Len(v) : w[i] = v[i]
      /\ w[Len(v) + 1] = m
  BY <1>3, <1>6, Extended
<1>9. OneHistory'
  <2> SUFFICES ASSUME NEW x \in versions', NEW y \in versions',
                      NEW i \in 1..Len(x), NEW j \in 1..Len(y), x[i] = y[j]
               PROVE  i = j /\ \A k \in 1..i : x[k] = y[k]
    BY DEF OneHistory
  <2> QED
    BY <1>2, <1>3, <1>7, ExtendKeepsOneHistory
<1> HIDE DEF m, w
<1>10. TypeOK'
  <2>1. versions' \subseteq Seq(Message)
    BY <1>2, <1>7, <1>8 DEF TypeOK
  <2>2. sent' \in [Author -> Nat]
    BY <1>2, <1>4 DEF TypeOK
  <2> QED
    BY <2>1, <2>2 DEF TypeOK
<1>11. Said'
  <2> SUFFICES ASSUME NEW x \in versions', NEW i \in 1..Len(x)
               PROVE  x[i].n <= sent'[x[i].from]
    BY DEF Said
  <2>1. ASSUME NEW u \in versions, NEW k \in 1..Len(u)
        PROVE  u[k].n <= sent'[u[k].from]
    <3>1. u \in Seq(Message) /\ u[k].n <= sent[u[k].from]
      BY <1>2 DEF TypeOK, Said
    <3>2. u[k] \in Message
      BY <3>1, ElementOfSeq
    <3>3. u[k].from \in Author /\ u[k].n \in Nat
      BY <3>2 DEF Message
    <3>4. sent[u[k].from] \in Nat
      BY <3>3, <1>2 DEF TypeOK
    <3>5. sent[u[k].from] <= sent'[u[k].from]
      BY <3>3, <3>4, <1>2, <1>4 DEF TypeOK
    <3>6. sent'[u[k].from] \in Nat
      BY <3>3, <1>10 DEF TypeOK
    <3> QED
      BY <3>1, <3>3, <3>4, <3>5, <3>6
  <2>2. CASE x \in versions
    BY <2>1, <2>2
  <2>3. CASE x = w /\ i \in 1..Len(v)
    <3>1. x[i] = v[i]
      BY <2>3, <1>8
    <3> QED
      BY <3>1, <2>1, <2>3
  <2>4. CASE x = w /\ i = Len(v) + 1
    <3>1. sent'[a] = sent[a] + 1
      BY <1>2, <1>4 DEF TypeOK
    <3> QED
      BY <3>1, <2>4, <1>4, <1>5, <1>8
  <2>5. x = w => i \in 1..Len(v) \/ i = Len(v) + 1
    BY <1>8
  <2> QED
    BY <2>2, <2>3, <2>4, <2>5, <1>7
<1>12. SenderOrder'
  <2> SUFFICES ASSUME NEW x \in versions', NEW i \in 1..Len(x), NEW j \in 1..Len(x),
                      i < j, x[i].from = x[j].from
               PROVE  x[i].n < x[j].n
    BY DEF SenderOrder
  <2>1. CASE x \in versions
    BY <2>1, <1>2 DEF SenderOrder
  <2>2. CASE x = w /\ j \in 1..Len(v)
    <3>1. i \in 1..Len(v) /\ x[i] = v[i] /\ x[j] = v[j]
      BY <2>2, <1>8
    <3>2. v[i].from = v[j].from
      BY <3>1
    <3>3. v[i].n < v[j].n
      BY <3>1, <3>2, <2>2, <1>2 DEF SenderOrder
    <3> QED
      BY <3>1, <3>3
  <2>3. CASE x = w /\ j = Len(v) + 1
    <3>1. i \in 1..Len(v) /\ x[i] = v[i] /\ x[j] = m
      BY <2>3, <1>8
    <3>2. v[i].n <= sent[v[i].from]
      BY <3>1, <1>2 DEF Said
    <3>3. v[i] \in Message
      BY <3>1, <1>6, ElementOfSeq
    <3>4. v[i].n \in Nat
      BY <3>3 DEF Message
    <3>5. v[i].n <= sent[a]
      BY <3>1, <3>2, <1>5
    <3> QED
      BY <3>1, <3>4, <3>5, <1>4, <1>5
  <2>4. x = w => j \in 1..Len(v) \/ j = Len(v) + 1
    BY <1>8
  <2> QED
    BY <2>1, <2>2, <2>3, <2>4, <1>7
<1> QED
  BY <1>9, <1>10, <1>11, <1>12 DEF IInv

LEMMA ForgetKeepsIInv == IInv /\ (Forget \/ UNCHANGED vars) => IInv'
<1> SUFFICES ASSUME IInv, Forget \/ UNCHANGED vars PROVE IInv'
  OBVIOUS
<1>1. versions' \subseteq versions /\ sent' = sent
  BY DEF Forget, vars
<1> QED
  BY <1>1 DEF IInv, TypeOK, OneHistory, SenderOrder, Said

THEOREM Inductive == IInv /\ [Next]_vars => IInv'
  BY SayKeepsIInv, ForgetKeepsIInv DEF Next

\* Every reachable set of versions is one tree, its messages are in their
\* senders' order and none is made up.
THEOREM VersionsAreOneTree == Spec => [](TypeOK /\ OneHistory /\ SenderOrder /\ Said)
<1>1. Spec => []IInv
  BY InitIInv, Inductive, PTL DEF Spec
<1>2. IInv => TypeOK /\ OneHistory /\ SenderOrder /\ Said
  BY DEF IInv
<1> QED
  BY <1>1, <1>2, PTL

=============================================================================
