----------------------------- MODULE MCChatList -----------------------------
(* ChatList for TLC: the configurations give every constant its value. *)
EXTENDS ChatList
=============================================================================
