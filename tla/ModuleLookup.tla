---------------------------- MODULE ModuleLookup ----------------------------
(***************************************************************************)
(* Looking a module or an object up by its type descriptor (runtime.h):   *)
(* luax_getmodule and luax_optmodule read REGISTRY_MODULES[type.getName()] *)
(* and test the Proxy found there; luax_ffi_checktype tests a Proxy        *)
(* pointer handed over by the FFI.  What the registry holds under a name   *)
(* is an entry: nothing (the module was never opened), a value that is not *)
(* a userdata, or a Proxy with its type pointer and object pointer.  A     *)
(* released Proxy keeps its type and has a null object (the released      *)
(* branches of luax_checktype and luax_totype, and the separate object    *)
(* test of luax_ffi_checktype, are written for it).  A script reaches the *)
(* table through debug.getregistry(), so every entry is possible.         *)
(***************************************************************************)
EXTENDS Types

\* A type or object pointer that is nullptr.
NullPtr == "null"

\* An entry of REGISTRY_MODULES, or the value behind a Proxy pointer.
Entries(Descs) ==
    [kind : {"nil", "value"}, type : {NullPtr}, obj : {NullPtr}]
    \cup [kind : {"proxy"}, type : Descs, obj : {"obj", NullPtr}]

(* Mutant of GetModule: the type compared for equality instead of isa, so *)
(* a module is not found as one of its ancestors.                          *)
GetModuleExact(par, e, want) ==
    CASE e.kind # "proxy" -> "error"
      [] e.type = NullPtr \/ e.type # want -> "error"
      [] OTHER -> e.obj

(* luax_getmodule<T>(L, type): "Tried to get nonexistent module" unless    *)
(* the entry is a userdata; "Incorrect module" if its type is null or not  *)
(* a T; else the object pointer, with no test that it is non-null.        *)
GetModule(par, e, want) ==
    CASE e.kind # "proxy" -> "error"
      [] e.type = NullPtr \/ ~IsAUnder(par, e.type, want) -> "error"
      [] OTHER -> e.obj

(* luax_optmodule<T>(L, type): nullptr unless the entry is a userdata;     *)
(* "Incorrect module" if its type is not a T (the type pointer is used    *)
(* without a null test); else the object pointer.                          *)
OptModule(par, e, want) ==
    CASE e.kind # "proxy" -> NullPtr
      [] ~IsAUnder(par, e.type, want) -> "error"
      [] OTHER -> e.obj

(* luax_ffi_checktype<T>(p, type): nullptr for a null Proxy pointer, a     *)
(* null object or type, or a type that is not a T; else the object.        *)
FfiCheckType(par, e, want) ==
    IF e.kind # "proxy" \/ e.obj = NullPtr \/ e.type = NullPtr \/ ~IsAUnder(par, e.type, want)
    THEN NullPtr
    ELSE e.obj

=============================================================================
