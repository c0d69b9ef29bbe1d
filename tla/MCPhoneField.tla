---------------------------- MODULE MCPhoneField ----------------------------
(***************************************************************************)
(* Instances of PhoneField for TLC.                                        *)
(***************************************************************************)
EXTENDS PhoneField

\* Digits are not compared but with each other.
Digits == Permutations(Digit)

=============================================================================
