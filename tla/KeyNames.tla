------------------------------ MODULE KeyNames ------------------------------
(***************************************************************************)
(* The two key-constant lookups of love::keyboard::Keyboard                *)
(* (modules/keyboard/Keyboard.cpp) as functions of the two static maps     *)
(* they read and extend: stringToKey (name -> key) and keyToString (key -> *)
(* name).  A name is a byte string; a key is an SDL keycode.  Keyboard     *)
(* applies them as steps of a state machine; a sequence of lookups is a    *)
(* fold of them.                                                           *)
(***************************************************************************)
EXTENDS Integers, Sequences, SequencesExt, Utf8

RECURSIVE LexLess(_, _)
(* std::less<std::string>: byte-wise comparison, a proper prefix first.    *)
LexLess(s, t) ==
    /\ t # <<>>
    /\ \/ s = <<>>
       \/ s[1] < t[1]
       \/ s[1] = t[1] /\ LexLess(Tail(s), Tail(t))

\* An empty map.
Empty == [n \in {} |-> 0]

(* getConstant(const char *in, Key &out), on the map s2k: a name in the    *)
(* map is found; any other name whose first code point decodes to a        *)
(* non-zero value is added to the map under that code point; a name that   *)
(* does not decode fails.  The result is the map after the call.          *)
CacheName(s2k, n) ==
    IF n \notin DOMAIN s2k /\ PeekNext(n) # Throw /\ PeekNext(n) > 0
    THEN (n :> PeekNext(n)) @@ s2k
    ELSE s2k

(* The loop that fills an empty keyToString: every entry of stringToKey in *)
(* ascending order of names, each overwriting the key's earlier name.      *)
Reversed(m) ==
    FoldLeft(LAMBDA acc, n : (m[n] :> n) @@ acc, Empty, SetToSortSeq(DOMAIN m, LexLess))

(* getConstant(Key in, const char *&out), on the maps k2s and s2k: fill    *)
(* k2s from s2k if it is empty, then look the key up; a key it lacks gets  *)
(* its UTF-8 encoding as name, stored in k2s.  The result is k2s after the *)
(* call.                                                                   *)
NameKey(k2s, s2k, k) ==
    LET filled == IF k2s = Empty THEN Reversed(s2k) ELSE k2s
    IN  IF k \in DOMAIN filled THEN filled ELSE (k :> Append8(k)) @@ filled

\* The key getConstant(const char*) gives for a name on the map s2k, or
\* Throw.
KeyOf(s2k, n) ==
    IF n \in DOMAIN s2k THEN s2k[n]
    ELSE IF PeekNext(n) # Throw /\ PeekNext(n) > 0 THEN PeekNext(n) ELSE Throw

(* Every name getConstant(Key in, ...) has handed out for a key is       *)
(* accepted by getConstant(const char *in, ...) as that same key: a script *)
(* can pass the name love.keypressed gave it back to love.keyboard.isDown. *)
RoundTrips(s2k, k2s) ==
    \A k \in DOMAIN k2s : KeyOf(s2k, k2s[k]) = k

(* One lookup on the maps kb = [s2k, k2s]: <<"name", n>> is getConstant of *)
(* the name n, <<"key", <<k>>>> getConstant of the key k.                  *)
KeyboardCall(kb, c) ==
    IF c[1] = "name"
    THEN [kb EXCEPT !.s2k = CacheName(@, c[2])]
    ELSE [kb EXCEPT !.k2s = NameKey(@, kb.s2k, c[2][1])]

\* The maps after a sequence of lookups, from the static table on.
Lookups(table, calls) == FoldLeft(KeyboardCall, [s2k |-> table, k2s |-> Empty], calls)

=============================================================================
