----------------------------- MODULE MCChatRoom -----------------------------
(* ChatRoom with model values for TLC. *)
EXTENDS ChatRoom, TLC

\* Devices and rooms are interchangeable in every safety property.
DevicesAndRooms == Permutations(Device) \cup Permutations(Room)

\* Bounds on what each device sends.
EachSendsOne == [d \in Device |-> 1]
EachSendsTwo == [d \in Device |-> 2]
OneSendsOne == [d \in Device |-> IF d = CHOOSE x \in Device : TRUE THEN 1 ELSE 0]
=============================================================================
