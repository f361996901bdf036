------------------------------- MODULE GetInfo -------------------------------
(***************************************************************************)
(* love.filesystem.getInfo(path [, filtertype] [, table]) (w_getInfo in   *)
(* wrap_Filesystem.cpp): what the call returns for what Filesystem::getInfo *)
(* reports of the path.  Filesystem::getInfo itself is outside; its answer  *)
(* is an input: whether the path exists, its type, read-only flag, size    *)
(* and modification time (-1 when unknown).                                *)
(*                                                                         *)
(* A Lua value is a record: its type t, its text s, and for a table its    *)
(* fields f, a function from field names to <<value>>, or <<>> if unset.  *)
(* The result is nil, an error, or the table returned: whether it is the   *)
(* one the caller passed ("passed") or a new one, and its fields.          *)
(***************************************************************************)
EXTENDS Integers, Sequences

CONSTANTS
    FileTypes,   \* the names Filesystem::getConstant knows for file types
    SizeCap      \* 0x20000000000000, the largest integer a double holds exactly

\* The fields w_getInfo sets.
InfoFields == {"type", "readonly", "size", "modtime"}

\* The value at index i: LUA_TNONE above the top.
InfoArgAt(stack, i) ==
    IF i <= Len(stack) THEN stack[i] ELSE [t |-> "none", s |-> "", f |-> [n \in InfoFields |-> <<>>]]

\* std::min<int64>(v, 0x20000000000000LL).
ClampToDouble(v) == IF v < SizeCap THEN v ELSE SizeCap

(* Mutant of TableIndex: the table looked for at argument 2 whatever the   *)
(* filter, as if startidx were not advanced past it.                       *)
TableIndexFixed(filtered) == 2

\* startidx: the table argument follows the filter type when one is given.
TableIndex(filtered) == IF filtered THEN 3 ELSE 2

(* Filling the table: type and readonly always, size and modtime only     *)
(* when non-negative after clamping; a passed table keeps every other     *)
(* field it had.                                                           *)
FillInfo(old, info) ==
    [n \in InfoFields |->
        CASE n \in {"type", "readonly"}                   -> <<info[n]>>
          [] n \in {"size", "modtime"} /\ ClampToDouble(info[n]) >= 0 -> <<ClampToDouble(info[n])>>
          [] OTHER                                         -> old[n]]

(* w_getInfo: the path must be a string; a string second argument must be *)
(* a file type name; nil if the path does not exist or has another type   *)
(* than the filter; an error for a type with no name; else the table at   *)
(* startidx if there is one, or a new one, filled.                         *)
GetInfoCall(stack, info) ==
    LET a2 == InfoArgAt(stack, 2)
        filtered == a2.t \in {"string", "number"}
        tbl == InfoArgAt(stack, TableIndex(filtered))
    IN CASE InfoArgAt(stack, 1).t \notin {"string", "number"} -> [res |-> "argerror"]
         [] filtered /\ a2.s \notin FileTypes                -> [res |-> "enumerror"]
         [] ~info.exists                                      -> [res |-> "nil"]
         [] filtered /\ info.type # a2.s                      -> [res |-> "nil"]
         [] info.type \notin FileTypes                        -> [res |-> "error"]
         [] tbl.t = "table" -> [res |-> "passed", f |-> FillInfo(tbl.f, info)]
         [] OTHER -> [res |-> "new", f |-> FillInfo([n \in InfoFields |-> <<>>], info)]

=============================================================================
