------------------------------ MODULE MountArgs ------------------------------
(***************************************************************************)
(* The mount wrappers of wrap_Filesystem.cpp: how w_mount,                 *)
(* w_mountFullPath, w_mountCommonPath, w_unmount, w_unmountFullPath and    *)
(* w_unmountCommonPath read their Lua arguments and which Filesystem call  *)
(* they make.  The Filesystem calls themselves (PhysicsFS) are outside.    *)
(*                                                                         *)
(* A Lua value is a record: its type t and its text s (a string, the text  *)
(* a number converts to, or the filename of a FileData or NativeFile).     *)
(* A stack is a sequence of values.  A call ends in a Lua error at an      *)
(* argument, [call |-> "argerror" or "enumerror", arg |-> i], or in the    *)
(* Filesystem call it makes with the arguments it read.                    *)
(***************************************************************************)
EXTENDS Integers, Sequences

CONSTANTS
    Perms,       \* the names Filesystem::getConstant knows for permissions
    CommonPaths  \* the names it knows for common paths

\* The value at index i: LUA_TNONE above the top.
ArgAt(stack, i) == IF i <= Len(stack) THEN stack[i] ELSE [t |-> "none", s |-> ""]

\* lua_isstring: a string, or a number (which converts).
IsStr(v) == v.t \in {"string", "number"}

\* The Lua error raised at argument i: luaL_argerror, luax_enumerror.
ArgError(i) == [call |-> "argerror", arg |-> i]
EnumError(i) == [call |-> "enumerror", arg |-> i]

\* luax_optboolean: the default when absent, else lua_toboolean.
OptBoolean(v, b) ==
    IF v.t \in {"none", "nil"} THEN b
    ELSE ~(v.t = "boolean" /\ v.s = "false")

\* The first of the given argument indices that is not a string, or 0.
FirstNonString(stack, idxs) ==
    LET bad == {i \in idxs : ~IsStr(ArgAt(stack, i))}
    IN IF bad = {} THEN 0 ELSE CHOOSE i \in bad : \A j \in bad : i <= j

(* Mutant of MountPoint: the FileData overload without an archive name   *)
(* reads the mountpoint from argument 3, as the named overload does.      *)
MountPointSkipsName(named) == 3

\* startidx: where the mountpoint of the Data overloads is read.
MountPoint(named) == IF named THEN 3 ELSE 2

(* w_mount: a Data (or FileData) at 1 mounts the Data, with the archive    *)
(* name at 2 and the mountpoint at 3, except a FileData whose third       *)
(* argument is no string, which is mounted under its own filename with    *)
(* the mountpoint at 2; a NativeFile at 1 mounts its filename; anything   *)
(* else must be the archive's name.  The mountpoint follows, then the     *)
(* optional append flag.                                                   *)
Mount(stack) ==
    LET a1 == ArgAt(stack, 1)
        named == ~(a1.t = "filedata" /\ ~IsStr(ArgAt(stack, 3)))
        mp == MountPoint(named)
    IN CASE a1.t \in {"data", "filedata"} ->
              IF FirstNonString(stack, IF named THEN {2, mp} ELSE {mp}) # 0
              THEN ArgError(FirstNonString(stack, IF named THEN {2, mp} ELSE {mp}))
              ELSE [call |-> "mountData", archive |-> IF named THEN ArgAt(stack, 2).s ELSE a1.s,
                    mountpoint |-> ArgAt(stack, mp).s, append |-> OptBoolean(ArgAt(stack, mp + 1), FALSE)]
         [] a1.t = "nativefile" \/ IsStr(a1) ->
              IF ~IsStr(ArgAt(stack, 2)) THEN ArgError(2)
              ELSE [call |-> "mount", archive |-> a1.s, mountpoint |-> ArgAt(stack, 2).s,
                    append |-> OptBoolean(ArgAt(stack, 3), FALSE)]
         [] OTHER -> ArgError(1)

(* Mutant of Permissions: lua_isnone in place of lua_isnoneornil, so an   *)
(* explicit nil is passed to luaL_checkstring.                             *)
PermissionsNoNil(v, i) ==
    CASE v.t = "none"       -> [call |-> "perm", name |-> "read"]
      [] ~IsStr(v)          -> ArgError(i)
      [] v.s \notin Perms   -> EnumError(i)
      [] OTHER              -> [call |-> "perm", name |-> v.s]

(* The optional permissions argument of the mountFullPath and             *)
(* mountCommonPath wrappers: MOUNT_PERMISSIONS_READ when none or nil, else *)
(* a name getConstant knows, or luax_enumerror.                            *)
Permissions(v, i) ==
    CASE v.t \in {"none", "nil"} -> [call |-> "perm", name |-> "read"]
      [] ~IsStr(v)               -> ArgError(i)
      [] v.s \notin Perms        -> EnumError(i)
      [] OTHER                   -> [call |-> "perm", name |-> v.s]

\* The call made with the path at 1, once the path is known good.
MountPathCall(fn, stack) ==
    LET perm == Permissions(ArgAt(stack, 3), 3)
    IN CASE ~IsStr(ArgAt(stack, 2)) -> ArgError(2)
         [] perm.call # "perm"      -> perm
         [] OTHER -> [call |-> fn, archive |-> ArgAt(stack, 1).s, mountpoint |-> ArgAt(stack, 2).s,
                      perm |-> perm.name, append |-> OptBoolean(ArgAt(stack, 4), FALSE)]

(* w_mountFullPath: the path at 1 must be a string.                       *)
MountFullPath(stack) ==
    IF ~IsStr(ArgAt(stack, 1)) THEN ArgError(1) ELSE MountPathCall("mountFullPath", stack)

(* w_mountCommonPath: the name at 1 must be a known common path, which    *)
(* is checked before the mountpoint.                                       *)
MountCommonPath(stack) ==
    CASE ~IsStr(ArgAt(stack, 1))             -> ArgError(1)
      [] ArgAt(stack, 1).s \notin CommonPaths -> EnumError(1)
      [] OTHER                               -> MountPathCall("mountCommonPath", stack)

(* w_unmount: a Data (or FileData) unmounts by the Data, anything else    *)
(* must be the archive's name; w_unmountFullPath takes a path and         *)
(* w_unmountCommonPath a known common path.                               *)
Unmount(fn, stack) ==
    LET a1 == ArgAt(stack, 1)
    IN CASE fn = "unmount" /\ a1.t \in {"data", "filedata"} -> [call |-> "unmountData", archive |-> a1.s]
         [] ~IsStr(a1)                                      -> ArgError(1)
         [] fn = "unmountCommonPath" /\ a1.s \notin CommonPaths -> EnumError(1)
         [] OTHER                                           -> [call |-> fn, archive |-> a1.s]

=============================================================================
