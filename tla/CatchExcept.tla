----------------------------- MODULE CatchExcept -----------------------------
(***************************************************************************)
(* luax_catchexcept (common/runtime.h), the bridge from C++ exceptions to  *)
(* Lua errors, in both forms: with and without a finally callback.  One    *)
(* call is a function of what the wrapped code does (returns, or throws an *)
(* exception whose what() is a message) and of whether lua_pushstring finds *)
(* memory for the message.  The result is the sequence of events the call *)
(* goes through, in order:                                                  *)
(*   <<"unwind">>      the catch block ends, the exception is destroyed,   *)
(*   <<"finally", b>>  finallyfunc(should_error) with should_error = b,    *)
(*   <<"return">>      luax_catchexcept returns 0 to the wrapper,           *)
(*   <<"error", m>>    luaL_error raises the Lua error with message m,     *)
(*   <<"memerror">>    lua_pushstring raises Lua's memory error, a longjmp *)
(*                     out of the catch block.                              *)
(* A message is a sequence of characters; "%" and the conversion letters    *)
(* matter to luaL_error, any other character stands for itself.            *)
(***************************************************************************)
EXTENDS Naturals, Sequences, SequencesExt

RECURSIVE LuaFormat(_, _)
(* lua_pushvfstring, which luaL_error formats its message with: "%s" takes *)
(* the next argument (a C string, cut at its first NUL), "%%" is one '%',  *)
(* any other character is copied.  A "%s" with no argument left reads      *)
(* whatever the va_list holds: "garbage".                                   *)
LuaFormat(fmt, args) ==
    CASE fmt = <<>> -> <<>>
      [] Len(fmt) >= 2 /\ fmt[1] = "%" /\ fmt[2] = "s" ->
             (IF args = <<>> THEN <<"garbage">> ELSE Head(args))
             \o LuaFormat(SubSeq(fmt, 3, Len(fmt)), IF args = <<>> THEN <<>> ELSE Tail(args))
      [] Len(fmt) >= 2 /\ fmt[1] = "%" /\ fmt[2] = "%" ->
             <<"%">> \o LuaFormat(SubSeq(fmt, 3, Len(fmt)), args)
      [] OTHER -> <<Head(fmt)>> \o LuaFormat(Tail(fmt), args)

(* Mutant of CatchExcept: the message is passed to luaL_error as its       *)
(* format string instead of as the argument of "%s".                       *)
CatchExceptAsFormat(body, msg, mem, hasFinally) ==
    LET fin(b) == IF hasFinally THEN <<<<"finally", b>>>> ELSE <<>> IN
    CASE body = "returns" -> fin(FALSE) \o <<<<"return">>>>
      [] ~mem -> <<<<"memerror">>>>
      [] OTHER -> <<<<"unwind">>>> \o fin(TRUE) \o <<<<"error", LuaFormat(msg, <<>>)>>>>

(* Mutant of CatchExcept: finallyfunc is called inside the try block,     *)
(* after func(), so it is skipped when func() throws.                      *)
CatchExceptFinallyInTry(body, msg, mem, hasFinally) ==
    LET fin(b) == IF hasFinally THEN <<<<"finally", b>>>> ELSE <<>> IN
    CASE body = "returns" -> fin(FALSE) \o <<<<"return">>>>
      [] ~mem -> <<<<"memerror">>>>
      [] OTHER -> <<<<"unwind">>>> \o <<<<"error", LuaFormat(<<"%", "s">>, <<msg>>)>>>>

(* func() inside try; a std::exception sets should_error and pushes        *)
(* e.what(); after the catch block, finallyfunc(should_error) if there is  *)
(* one; then luaL_error(L, "%s", lua_tostring(L, -1)) when should_error,   *)
(* else return 0.  lua_pushstring's memory error escapes from inside the   *)
(* catch block, before the unwind and the finally callback.                *)
CatchExcept(body, msg, mem, hasFinally) ==
    LET fin(b) == IF hasFinally THEN <<<<"finally", b>>>> ELSE <<>> IN
    CASE body = "returns" -> fin(FALSE) \o <<<<"return">>>>
      [] ~mem -> <<<<"memerror">>>>
      [] OTHER -> <<<<"unwind">>>> \o fin(TRUE)
                  \o <<<<"error", LuaFormat(<<"%", "s">>, <<msg>>)>>>>

=============================================================================
