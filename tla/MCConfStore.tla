---------------------------- MODULE MCConfStore -----------------------------
(***************************************************************************)
(* Instance of ConfStore for TLC: a password of two bytes, a protected     *)
(* byte the menu never edits, and in the unprotected block a setting of    *)
(* two bytes that is loaded and one of one byte that is not.               *)
(***************************************************************************)
EXTENDS ConfStore

PasswordRange == [from |-> 3, to |-> 4]
LoadedRange   == [from |-> 5, to |-> 6]
UnloadedRange == [from |-> 7, to |-> 7]

AllSettings    == {PasswordRange, LoadedRange, UnloadedRange}
LoadedSettings == {PasswordRange, LoadedRange}
=============================================================================
