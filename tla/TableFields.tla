----------------------------- MODULE TableFields -----------------------------
(***************************************************************************)
(* luax_checktablefields<T>(L, idx, enumName, getConstant) (runtime.h):   *)
(* the argument must be a table, and every key of it must be a string     *)
(* that getConstant knows; the first key found that is not raises an      *)
(* error.  Which key is found first is the order lua_next walks the table *)
(* in, which Lua leaves unspecified, so the check is the set of outcomes  *)
(* over every order.  A key is a record: its Lua type and, for a string,  *)
(* its name; Consts are the names getConstant knows.                      *)
(***************************************************************************)
EXTENDS Sequences
LOCAL INSTANCE SequencesExt

\* The outcome of the walk: no error, or the error and the key it names.
Walked == [res |-> "ok"]
FieldError(res, key) == [res |-> res, key |-> key]

(* Mutant of CheckField: the lua_type test left out, so luaL_checkstring  *)
(* converts a number key to a string in place and the key is reported as *)
(* a misspelled constant.                                                  *)
CheckFieldNoType(k, Consts) ==
    CASE k.t = "number"                -> FieldError("enumerror", k)
      [] k.t # "string"                -> FieldError("typerror", k)
      [] k.name \notin Consts          -> FieldError("enumerror", k)
      [] OTHER                         -> Walked

(* One pass of the loop body: luax_typerror on a key that is not a        *)
(* string, luax_enumerror on a name getConstant does not know.            *)
CheckField(k, Consts) ==
    CASE k.t # "string"                -> FieldError("typerror", k)
      [] k.name \notin Consts          -> FieldError("enumerror", k)
      [] OTHER                         -> Walked

(* while (lua_next(L, idx)): the keys in the order lua_next gives them,   *)
(* stopping at the first error (both error calls do not return).          *)
RECURSIVE WalkFields(_, _)
WalkFields(order, Consts) ==
    IF order = <<>> THEN Walked
    ELSE LET r == CheckField(Head(order), Consts)
         IN IF r = Walked THEN WalkFields(Tail(order), Consts) ELSE r

(* The whole call for an argument arg (a record: its Lua type and, for a  *)
(* table, its set of keys): luaL_checktype first, then the walk, over     *)
(* every order lua_next may use.                                          *)
CheckTableFields(arg, Consts) ==
    IF arg.t # "table"
    THEN {[res |-> "argerror"]}
    ELSE {WalkFields(order, Consts) : order \in SetToSeqs(arg.keys)}

=============================================================================
