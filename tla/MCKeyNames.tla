----------------------------- MODULE MCKeyNames -----------------------------
(***************************************************************************)
(* The key names and keys the Keyboard checks use: a few entries of the    *)
(* static table, names a script may pass and keys the event layer may      *)
(* convert.                                                                *)
(***************************************************************************)
EXTENDS KeyNames

\* Some entries of Keyboard::stringToKey: "a" and "b" are the keys that
\* type those letters; "cl" stands for "capslock", an SDL keycode with the
\* scancode mask (1 << 30) set.
MCTable == (<<97>> :> 97) @@ (<<98>> :> 98) @@ (<<99, 108>> :> 1073741881)

(* Names: the table's own; "ab" and "ba", not in the table, whose first    *)
(* code points are table keys; "é" (two bytes) and U+1F600 (four bytes);  *)
(* a truncated "é", an overlong "/", an encoded surrogate, a byte that     *)
(* never starts a code point, and the empty string.                        *)
MCNames ==
    DOMAIN MCTable \cup
    {<<97, 98>>, <<98, 97>>, <<195, 169>>, <<240, 159, 152, 128>>,
     <<195>>, <<192, 175>>, <<237, 160, 128>>, <<255>>, <<>>}

\* Keys: the table's, and code points without a table entry: "é", U+1F600
\* and "c" (which has one in the full table, not in this excerpt).
MCKeys == Range(MCTable) \cup {233, 128512, 99}


=============================================================================
