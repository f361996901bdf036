----------------------------- MODULE FileWrite -----------------------------
(***************************************************************************)
(* What w_write and w_append (w_write_or_append in                         *)
(* modules/filesystem/wrap_Filesystem.cpp) hand to Filesystem::write and   *)
(* Filesystem::append: the input pointer and a byte count.  The second     *)
(* argument is a Data (its getSize() bytes), a string (its length), or     *)
(* anything else; the third is absent or a Lua integer.  The result says   *)
(* how many bytes of the input there are and how many the write reads.     *)
(***************************************************************************)
EXTENDS Integers

(* size_t on a 64-bit build: a negative lua_Integer converted to it wraps  *)
(* to 2^64 plus its value.  TLC's integers stop below 2^31, so SizeWrap    *)
(* stands for 2^64: what matters is that it is above every size here.      *)
SizeWrap == 2^30
SizeT(i) == IF i >= 0 THEN i ELSE SizeWrap + i

(* luaL_optinteger(L, 3, len): the default when the argument is absent     *)
(* (<<>>), else the integer given (<<n>>).                                 *)
OptInteger(arg, default) == IF arg = <<>> THEN default ELSE arg[1]

(* A Data argument (luax_istype, so not a released one) gives getData()    *)
(* and getSize(); a string gives lua_tolstring's pointer and length;       *)
(* anything else is the argument error.  The length is then replaced by    *)
(* the third argument when there is one, and converted to size_t.          *)
WriteOrAppendCount(input, count) ==
    IF input.kind \notin {"data", "string"} THEN [out |-> "argerror", size |-> 0, len |-> 0]
    ELSE [out |-> "write", size |-> input.size,
          len |-> SizeT(OptInteger(count, input.size))]

=============================================================================
