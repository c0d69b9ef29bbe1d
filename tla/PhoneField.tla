----------------------------- MODULE PhoneField -----------------------------
(***************************************************************************)
(* A field for a telephone number: editingChangedPhone puts its text into  *)
(* shape after every edit, and the number that Firebase is sent is read    *)
(* back from it.  The number +71234567899 is shown as +7 (123) 456-78-99.  *)
(*                                                                         *)
(* Session takes what is typed for a number of a user; that is right as    *)
(* far as the number that is read is the one that was typed.               *)
(***************************************************************************)
EXTENDS Naturals, Sequences, SequencesExt

CONSTANTS
    Digit,      \* what a number is made of
    MaxKept,    \* bound: characters of a number, the plus included
    MaxPluses   \* bound: pluses in a number

ASSUME FieldAssumption ==
    /\ Digit \intersect {"+", " ", "-", "(", ")"} = {}
    /\ MaxKept \in Nat \ {0} /\ MaxPluses \in Nat \ {0}

VARIABLES
    text,   \* what the field shows
    number  \* for the properties: what the hand has made of the number

vars == <<text, number>>

-----------------------------------------------------------------------------
(* Conversions *)

Space == " "
Dash == "-"
Opening == "("
Closing == ")"

Separator == {Space, Dash, Closing, Opening}
Kept(c) == c \notin Separator

\* The characters of s that are no separators.
KeptIn(s) == FlattenSeq([i \in DOMAIN s |-> IF Kept(s[i]) THEN <<s[i]>> ELSE << >>])

\* Mutant of Strip: the dashes of the field stay in the number.
StripKeepingDashes(phone) ==
    (IF Head(phone) # "+" THEN <<"+">> ELSE << >>)
        \o SelectSeq(phone, LAMBDA c : c = Dash \/ Kept(c))

\* The array st, which all conversions begin with; phone is not empty.
Strip(phone) ==
    (IF Head(phone) # "+" THEN <<"+">> ELSE << >>) \o KeptIn(phone)

\* What is put before the i-th character of a number.
Before(i) ==
    CASE i = 3         -> <<Space, Opening>>
      [] i = 6         -> <<Closing, Space>>
      [] i \in {9, 11} -> <<Dash>>
      [] OTHER         -> << >>

\* Mutant of WorkWithPhone: what separates comes as soon as a group is full.
WorkWithPhoneEager(phone) ==
    LET st == Strip(phone)
    IN  FlattenSeq([i \in DOMAIN st |-> <<st[i]>> \o Before(i + 1)])

\* Mutant of WorkWithPhone: the last two pairs are not parted.
WorkWithPhoneUnparted(phone) ==
    LET st == Strip(phone)
    IN  FlattenSeq([i \in DOMAIN st |-> (IF i = 11 THEN << >> ELSE Before(i)) \o <<st[i]>>])

\* newPhone, from the array st.
Grouped(st) == FlattenSeq([i \in DOMAIN st |-> Before(i) \o <<st[i]>>])

\* workWithPhone of the field, which the callers spare the empty text.
WorkWithPhone(phone) == Grouped(Strip(phone))

\* workWithPhone of a label: the account screen shows the stored number.
LabelText(phone) == IF phone = << >> THEN << >> ELSE WorkWithPhone(phone)

GetRealPhone(phone) == IF phone = << >> THEN << >> ELSE Strip(phone)

\* Mutant of EditingChanged: an empty text stays empty.
EditingChangedEmpty(edited) == IF edited = << >> THEN << >> ELSE WorkWithPhone(edited)

EditingChanged(edited) == IF edited = << >> THEN <<"+">> ELSE WorkWithPhone(edited)

\* editingChangedPhone of login and registration: the field gets its border.
Marked == Len(text) = 18

-----------------------------------------------------------------------------
(* Edits.  What the hand means by one is told from its place alone.        *)

\* Characters of the number among the first p of the text.
KeptUpTo(p) == Len(KeptIn(SubSeq(text, 1, p)))

\* A number begins with a plus; a second one is not looked for.
WithPlus(c) == IF c = "+" THEN <<"+">> ELSE <<"+">> \o KeptIn(<<c>>)

Pluses(n) == Len(SelectSeq(n, LAMBDA k : k = "+"))

Init == text = << >> /\ number = << >>

\* A character is typed, as the first or behind some other one.
TypeChar(p, c) ==
    /\ text' = EditingChanged(InsertAt(text, p, c))
    /\ number' = IF p = 1 THEN WithPlus(c) \o number
                 ELSE IF Kept(c) THEN InsertAt(number, KeptUpTo(p - 1) + 1, c)
                 ELSE number
    /\ Len(number') <= MaxKept
    /\ Pluses(number') <= MaxPluses

\* A character is removed.  The leading plus comes back unless another follows.
RemoveChar(p) ==
    /\ text' = EditingChanged(RemoveAt(text, p))
    /\ number' = IF ~ Kept(text[p]) THEN number
                 ELSE IF p = 1 /\ (Len(number) = 1 \/ number[2] # "+") THEN number
                 ELSE RemoveAt(number, KeptUpTo(p))

Next ==
    \/ \E p \in 1..(Len(text) + 1), c \in Digit \cup {"+", Dash, Space} : TypeChar(p, c)
    \/ \E p \in DOMAIN text : RemoveChar(p)

Spec == Init /\ [][Next]_vars

-----------------------------------------------------------------------------
(* Properties *)

\* The field is empty until the first edit and begins with a plus from then on:
\* the loop over 1...st.count always has something to run over.
TypeOK ==
    /\ number \in Seq(Digit \cup {"+"}) /\ Len(number) <= MaxKept
    /\ text \in Seq(Digit \cup {"+"} \cup Separator)
    /\ number # << >> => number[1] = "+" /\ text # << >> /\ text[1] = "+"

\* The number that is read from the field is the one the hand has made, edit by
\* edit, whatever stands between its digits; and the account screen, given that
\* number, shows what the field showed.
FieldFollowsHand == GetRealPhone(text) = number /\ LabelText(number) = text

\* Who removes from the end gets ahead each time, until the plus is left: no
\* text ends with something that editingChangedPhone would put there again.
RemovingGetsAhead ==
    Len(number) > 1 => GetRealPhone(EditingChanged(Front(text))) = Front(number)

\* The border says that the number is complete: it is there for eleven digits,
\* as in the field's own example, and for no other length.
MarkedIsComplete == Marked <=> Len(number) = 12

=============================================================================
