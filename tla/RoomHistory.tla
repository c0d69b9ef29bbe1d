---------------------------- MODULE RoomHistory ----------------------------
(***************************************************************************)
(* What the messages of a discussion promise, whatever devices, caches,    *)
(* late answers and lost writes do to the documents that hold them.        *)
(*                                                                         *)
(* onMap keeps a discussion as ONE Firestore document with the whole array *)
(* of its messages (ChatRoom.swift), and a device that sends appends to    *)
(* the copy it happens to hold and writes that copy back as a whole        *)
(* (FirestoreMessenger.sendMessage).  A write may therefore overwrite      *)
(* another, and a history may be forgotten.  What remains true is that     *)
(* every copy in existence is a branch of one tree: saying something       *)
(* extends one existing version, nothing else makes a new version.         *)
(***************************************************************************)
EXTENDS Naturals, Sequences

CONSTANTS
    Author,
    Discussion

VARIABLES
    versions,   \* the histories that some copy still holds
    sent        \* how many messages each author has said

vars == <<versions, sent>>

\* The n-th message of its author.  The text and the time are left out: a
\* message is who said it, as which of his messages, and where he meant to.
Message == [from : Author, n : Nat \ {0}, room : Discussion]

TypeOK ==
    /\ versions \subseteq Seq(Message)
    /\ sent \in [Author -> Nat]

Init ==
    /\ versions = {<< >>}
    /\ sent = [a \in Author |-> 0]

\* An author extends one version that exists.  Others may be forgotten in the
\* same step (the copy the author held was the last one of its version).
Say(a) ==
    /\ \E v \in versions, r \in Discussion :
          versions' \in SUBSET (versions \cup
             {Append(v, [from |-> a, n |-> sent[a] + 1, room |-> r])})
    /\ << >> \in versions'
    /\ sent' = [sent EXCEPT ![a] = @ + 1]

\* Copies are overwritten or dropped; the empty history is always at hand.
Forget ==
    /\ versions' \in SUBSET versions
    /\ << >> \in versions'
    /\ UNCHANGED sent

Next == Forget \/ \E a \in Author : Say(a)

Spec == Init /\ [][Next]_vars

-----------------------------------------------------------------------------
\* Two copies that hold the same message hold it at the same place and agree
\* on everything said before it: no copy reorders, drops or repeats anything
\* in front of a message that another copy also has.
OneHistory ==
    \A v, w \in versions : \A i \in 1..Len(v), j \in 1..Len(w) :
        v[i] = w[j] => /\ i = j
                       /\ \A k \in 1..i : v[k] = w[k]

\* In every copy the messages of one author stand in the order they were said.
SenderOrder ==
    \A v \in versions : \A i, j \in 1..Len(v) :
        (i < j /\ v[i].from = v[j].from) => v[i].n < v[j].n

\* No copy holds a message that nobody has said.
Said ==
    \A v \in versions : \A i \in 1..Len(v) : v[i].n <= sent[v[i].from]

=============================================================================
