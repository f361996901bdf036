------------------------------ MODULE Keyboard ------------------------------
(***************************************************************************)
(* The key-constant lookups of love::keyboard::Keyboard                    *)
(* (modules/keyboard/Keyboard.cpp).  Two static std::maps back them:       *)
(*   stringToKey, the table of key names, which getConstant(const char*,   *)
(*     Key&) extends with every name it decodes from its first code point; *)
(*   keyToString, empty until the first getConstant(Key, const char*&),    *)
(*     which fills it from stringToKey in the map's order (later names      *)
(*     overwrite earlier ones for the same key) and which then adds the    *)
(*     UTF-8 encoding of every key it did not find.                        *)
(* A name is a byte string; a key is an SDL keycode (a code point for the  *)
(* keys that type a character).  Each call is one step of the main thread.*)
(***************************************************************************)
EXTENDS Integers, Sequences, SequencesExt, KeyNames

CONSTANTS
    Table,  \* the static initializer of stringToKey: name -> key
    Names,  \* names the script passes (love.keyboard.isDown and others)
    Keys    \* keys the event layer converts to names

VARIABLES
    stringToKey,  \* Keyboard::stringToKey
    keyToString   \* Keyboard::keyToString

vars == <<stringToKey, keyToString>>

Init ==
    /\ stringToKey = Table
    /\ keyToString = Empty

\* A name lookup by the script.
GetKeyFromName(n) ==
    /\ stringToKey' = CacheName(stringToKey, n)
    /\ UNCHANGED keyToString

\* A key converted to its name by the event layer.
GetNameFromKey(k) ==
    /\ keyToString' = NameKey(keyToString, stringToKey, k)
    /\ UNCHANGED stringToKey

Next ==
    \/ \E n \in Names : GetKeyFromName(n)
    \/ \E k \in Keys : GetNameFromKey(k)

Spec == Init /\ [][Next]_vars

-----------------------------------------------------------------------------
(* Properties.                                                             *)

(* A key that has a name in the static table is always reported by that    *)
(* name, whatever names scripts have looked up before (spec 4.5 and 7:   *)
(* marshaling is pure, and a name outside an enum is an argument error).  *)
NamesStayCanonical ==
    \A k \in DOMAIN keyToString, n \in DOMAIN Table :
        Table[n] = k => keyToString[k] = n

=============================================================================
