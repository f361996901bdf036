----------------------------- MODULE MCKeyboard -----------------------------
(***************************************************************************)
(* Keyboard instantiated for TLC with the table excerpt, names and keys of *)
(* MCKeyNames.                                                             *)
(***************************************************************************)
EXTENDS Keyboard, MCKeyNames

=============================================================================
