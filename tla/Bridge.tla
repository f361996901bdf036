------------------------------- MODULE Bridge -------------------------------
(***************************************************************************)
(* The Lua/native bridge of common/runtime.h and the wrappers that use it: *)
(* intrusive reference counts of native objects, the Proxy userdata that   *)
(* stands for an object in Lua, the weak REGISTRY_OBJECTS table mapping an *)
(* object address to its Proxy, explicit Object:release(), the garbage     *)
(* collector's __gc, and the wrapper functions of wrap_Filesystem.cpp and  *)
(* wrap_Math.cpp that create an object, push it and drop their own         *)
(* reference.                                                              *)
(*                                                                         *)
(* Object addresses are reused: a dead slot of Objects may be handed out   *)
(* again by the allocator, with a new generation number (a ghost field,    *)
(* the code has none) so that a Proxy left over from an earlier object at  *)
(* the same address can be told apart.                                     *)
(*                                                                         *)
(* Each wrapper runs on the thread that owns the lua_State and is one      *)
(* step; the collector's two phases (clearing a weak entry, running the    *)
(* finalizer) and references taken and dropped by native holders on other *)
(* threads interleave with them.                                           *)
(***************************************************************************)
EXTENDS Naturals, FiniteSets, Types, CatchExcept

CONSTANTS
    Objects,      \* addresses of native objects (love::Object)
    Proxies,      \* Lua userdata slots a Proxy can be allocated in
    Null,         \* nullptr, and the nil of a table lookup
    ModuleOwned,  \* objects a module singleton holds for the whole run
    Parent,       \* love::Type parent of each descriptor
    MaxGen,       \* bound: objects allocated at one address
    MaxNative     \* bound: references native holders take on one object

ASSUME ModuleOwned \subseteq Objects

VARIABLES
    obj,       \* obj[o]: reference count, type and ghost generation
    proxy,     \* proxy[p]: collector state and the Proxy fields
    registry,  \* REGISTRY_OBJECTS: object address -> Proxy, weak values
    nat,       \* references held by native code outside the wrappers
    result     \* what the last Lua-visible call returned

vars == <<obj, proxy, registry, nat, result>>

Kinds == DOMAIN Parent
IsA(t, other) == IsAUnder(Parent, t, other)

(* Collector states of a Proxy userdata: free slot; referenced from Lua;   *)
(* unreferenced but not yet collected (the weak entry still finds it);     *)
(* collected, its finalizer not yet run.                                   *)
PStates == {"free", "reachable", "unreachable", "finalizing"}
Live == {"reachable", "unreachable"}

Outs == {"ok", "none", "typeerror", "released", "ioerror", "argerror",
         "enumerror", "error", "nil", "true", "false"}

FreeProxy == [st |-> "free", obj |-> Null, type |-> Null, gen |-> 0, cached |-> FALSE]
NoResult == [op |-> "none", out |-> "none", proxy |-> Null]

TypeOK ==
    /\ obj \in [Objects -> [rc : 0..(Cardinality(Proxies) + MaxNative + 1),
                            kind : Kinds \cup {Null}, gen : 0..MaxGen]]
    /\ proxy \in [Proxies -> [st : PStates, obj : Objects \cup {Null},
                              type : Kinds \cup {Null}, gen : 0..MaxGen,
                              cached : BOOLEAN]]
    /\ registry \in [Objects -> Proxies \cup {Null}]
    /\ nat \in [Objects -> 0..MaxNative]
    /\ result \in [op : STRING, out : Outs, proxy : Proxies \cup {Null}]

-----------------------------------------------------------------------------
(* Object reference counting (common/Object.cpp, modelled from its        *)
(* contract): new objects start with one reference; release() destroys     *)
(* the object when the count reaches zero.                                 *)

Alive(o) == obj[o].rc > 0

\* Addresses the allocator may return for a new object.
FreeAddresses == {o \in Objects : ~Alive(o) /\ obj[o].gen < MaxGen}

\* Object::Object: a new object of type k at address o with one reference.
Born(os, o, k) == [os EXCEPT ![o] = [rc |-> 1, kind |-> k, gen |-> @.gen + 1]]

Retain(os, o) == [os EXCEPT ![o].rc = @ + 1]
Release(os, o) == [os EXCEPT ![o].rc = @ - 1]

FreeSlots == {p \in Proxies : proxy[p].st = "free"}

(* luax_pushtype (runtime.cpp, modelled from its contract): look the       *)
(* address up in REGISTRY_OBJECTS; if a Proxy is there, push it; if not,   *)
(* allocate a new Proxy in slot fresh, retain the object and store the     *)
(* Proxy under the address.  os is the object state the caller has built   *)
(* so far in the same step; the result carries the new object state, the   *)
(* Proxy and registry tables, and the Proxy pushed.                        *)
PushType(os, o, fresh) ==
    IF registry[o] # Null
    THEN [os |-> os, reg |-> registry, pushed |-> registry[o],
          px |-> [proxy EXCEPT ![registry[o]].st = "reachable"]]
    ELSE [os |-> Retain(os, o), reg |-> [registry EXCEPT ![o] = fresh],
          pushed |-> fresh,
          px |-> [proxy EXCEPT ![fresh] = [st |-> "reachable", obj |-> o,
                     type |-> os[o].kind, gen |-> os[o].gen, cached |-> TRUE]]]

\* A push of o can proceed: it finds o's Proxy, or fresh is a free slot.
CanPush(o, fresh) == registry[o] # Null \/ proxy[fresh].st = "free"

\* luax_istype: the Proxy has a type and it is a k.
IsType(p, k) == proxy[p].type # Null /\ IsA(proxy[p].type, k)

Reachable == {p \in Proxies : proxy[p].st = "reachable"}

\* The outcome of a call, as the script sees it.
Returns(op, out) == result' = [op |-> op, out |-> out, proxy |-> Null]
ReturnsFor(op, out, p) == result' = [op |-> op, out |-> out, proxy |-> p]

-----------------------------------------------------------------------------
(* Wrapper functions.                                                      *)

(* Mutant of OpenFile: the wrapper pushes the new File but never drops    *)
(* the reference openFile gave it.                                         *)
OpenFileLeak ==
    \/ /\ \E out \in {"enumerror", "ioerror"} : Returns("openFile", out)
       /\ UNCHANGED <<obj, proxy, registry, nat>>
    \/ \E o \in FreeAddresses, fresh \in FreeSlots :
         LET push == PushType(Born(obj, o, "File"), o, fresh)
         IN  /\ obj' = push.os
             /\ proxy' = push.px
             /\ registry' = push.reg
             /\ result' = NoResult
             /\ UNCHANGED nat

(* w_openFile: an invalid mode string or an exception from openFile is an  *)
(* error with no object; otherwise the new File is pushed and the          *)
(* wrapper's own reference released.                                       *)
OpenFile ==
    \/ /\ \E out \in {"enumerror", "ioerror"} : Returns("openFile", out)
       /\ UNCHANGED <<obj, proxy, registry, nat>>
    \/ \E o \in FreeAddresses, fresh \in FreeSlots :
         LET push == PushType(Born(obj, o, "File"), o, fresh)
         IN  /\ obj' = Release(push.os, o)
             /\ proxy' = push.px
             /\ registry' = push.reg
             /\ result' = NoResult
             /\ UNCHANGED nat

(* w_read: read() either throws or returns null (both an I/O error) or a   *)
(* new FileData; as a "data" container it is pushed, as a "string" its     *)
(* bytes are copied into a Lua string; then the wrapper releases it.       *)
ReadFile ==
    \/ /\ Returns("read", "ioerror")
       /\ UNCHANGED <<obj, proxy, registry, nat>>
    \/ \E o \in FreeAddresses :
         /\ obj' = Release(Born(obj, o, "FileData"), o)
         /\ result' = NoResult
         /\ UNCHANGED <<proxy, registry, nat>>
    \/ \E o \in FreeAddresses, fresh \in FreeSlots :
         LET push == PushType(Born(obj, o, "FileData"), o, fresh)
         IN  /\ obj' = Release(push.os, o)
             /\ proxy' = push.px
             /\ registry' = push.reg
             /\ result' = NoResult
             /\ UNCHANGED nat

GetFileDataRead(f, d, fresh, os) ==
    \/ /\ obj' = Release(os, f)
       /\ Returns("newFileData", "ioerror")
       /\ UNCHANGED <<proxy, registry>>
    \/ /\ d \in FreeAddresses \ {f}
       /\ fresh \in FreeSlots
       /\ LET push == PushType(Born(Release(os, f), d, "FileData"), d, fresh)
          IN  /\ obj' = Release(push.os, d)
              /\ proxy' = push.px
              /\ registry' = push.reg
              /\ result' = NoResult

NewFileData ==
    \/ \E p \in Reachable, d \in Objects, fresh \in Proxies :
         \/ /\ proxy[p].obj = Null \/ (~IsType(p, "File") /\ ~IsType(p, "FileData"))
            /\ Returns("newFileData", IF IsType(p, "File") \/ IsType(p, "FileData")
                                      THEN "released" ELSE "argerror")
            /\ UNCHANGED <<obj, proxy, registry, nat>>
         \/ /\ IsType(p, "File")
            /\ proxy[p].obj # Null
            /\ GetFileDataRead(proxy[p].obj, d, fresh, Retain(obj, proxy[p].obj))
            /\ UNCHANGED nat
         \/ /\ ~IsType(p, "File")
            /\ IsType(p, "FileData")
            /\ proxy[p].obj # Null
            /\ CanPush(proxy[p].obj, fresh)
            /\ LET o == proxy[p].obj
                   push == PushType(Retain(obj, o), o, fresh)
               IN  /\ obj' = Release(push.os, o)
                   /\ proxy' = push.px
                   /\ registry' = push.reg
                   /\ result' = NoResult
                   /\ UNCHANGED nat
    \* Any other argument, or a filename whose File cannot be opened:
    \* luax_getfile drops the I/O error and the argument error is raised.
    \/ /\ Returns("newFileData", "argerror")
       /\ UNCHANGED <<obj, proxy, registry, nat>>
    \/ \E f \in FreeAddresses, d \in Objects, fresh \in Proxies :
         /\ GetFileDataRead(f, d, fresh, Born(obj, f, "File"))
         /\ UNCHANGED nat

\* A wrapper's common tail: a new object of type k, made by the instance
\* with one reference, is pushed, and the wrapper's reference released.
PushNew(k) ==
    \E o \in FreeAddresses, fresh \in FreeSlots :
        LET push == PushType(Born(obj, o, k), o, fresh)
        IN  /\ obj' = Release(push.os, o)
            /\ proxy' = push.px
            /\ registry' = push.reg
            /\ result' = NoResult
            /\ UNCHANGED nat

\* A wrapper fails before any object exists.
FailsWith(op, outs) ==
    /\ \E out \in outs : Returns(op, out)
    /\ UNCHANGED <<obj, proxy, registry, nat>>

(* w_newFile (deprecated) and w_openNativeFile: an invalid mode string or  *)
(* an exception from openFile/openNativeFile is an error; otherwise the    *)
(* new File (a NativeFile for the latter) is pushed and released.          *)
NewFile == FailsWith("newFile", {"enumerror", "ioerror"}) \/ PushNew("File")

OpenNativeFile == FailsWith("openNativeFile", {"enumerror", "ioerror"}) \/ PushNew("NativeFile")

(* w_lines: a filename is opened for reading inside luax_catchexcept, the  *)
(* File pushed and released, and the iterator closure keeps the Proxy as  *)
(* its upvalue; anything but a string is an argument error.                *)
Lines == FailsWith("lines", {"argerror", "error"}) \/ PushNew("File")

(* w_load: an invalid mode is an enum error and a throwing read an I/O     *)
(* error; otherwise the FileData read is compiled and released, whether    *)
(* the chunk compiles or not.                                              *)
Load ==
    \/ FailsWith("load", {"enumerror", "ioerror"})
    \/ \E o \in FreeAddresses, out \in {"ok", "error"} :
         /\ obj' = Release(Born(obj, o, "FileData"), o)
         /\ Returns("load", out)
         /\ UNCHANGED <<proxy, registry, nat>>

(* w_newFileData with contents and a name: the contents come from a Data  *)
(* (luax_checkdata, which raises the released error for a released one)  *)
(* or a string, anything else is an argument error; newFileData copies    *)
(* them inside luax_catchexcept, and the new FileData is pushed and       *)
(* released.                                                               *)
NewFileDataCopy ==
    \/ FailsWith("newFileData", {"argerror", "error"})
    \/ \E p \in Reachable :
         /\ IsType(p, "Data")
         /\ proxy[p].obj = Null
         /\ ReturnsFor("newFileData", "released", p)
         /\ UNCHANGED <<obj, proxy, registry, nat>>
    \/ /\ \E p \in Reachable : IsType(p, "Data") /\ proxy[p].obj # Null
       /\ PushNew("FileData")
    \/ PushNew("FileData")

(* luax_getdata, for native callers (no caller among the sources): a File *)
(* f, held by the caller in os, is read inside luax_catchexcept whose      *)
(* finally callback releases f; the events of the call decide whether f is *)
(* released and whether it raises the Lua error.  The FileData read is     *)
(* handed to the caller with its one reference, a native holder.  Lua's    *)
(* memory error inside the catch block is left out (see CatchExcept).      *)
ReadInCatch(f, d, os) ==
    \E body \in {"returns", "throws"} :
        LET ev == CatchExcept(body, <<"e">>, TRUE, TRUE)
            read == IF body = "returns" THEN Born(os, d, "FileData") ELSE os
            final == IF \E i \in DOMAIN ev : ev[i][1] = "finally"
                     THEN Release(read, f) ELSE read
        IN  /\ body = "returns" => d \in FreeAddresses \ {f}
            /\ obj' = final
            /\ IF ev[Len(ev)][1] = "error"
               THEN Returns("getData", "error") /\ UNCHANGED nat
               ELSE nat' = [nat EXCEPT ![d] = @ + 1] /\ result' = NoResult

(* luax_getdata: a filename goes through luax_getfile (openFile, whose    *)
(* exception is swallowed and ends in the argument error), a File Proxy   *)
(* is retained, and either is read; a Data Proxy is retained and handed   *)
(* out; anything else is the argument error.  luax_checkfile and          *)
(* luax_checkdata raise the released error for a released Proxy.          *)
GetData ==
    \/ FailsWith("getData", {"argerror"})
    \/ \E p \in Reachable :
         /\ IsType(p, "File") \/ IsType(p, "Data")
         /\ proxy[p].obj = Null
         /\ ReturnsFor("getData", "released", p)
         /\ UNCHANGED <<obj, proxy, registry, nat>>
    \/ \E f \in FreeAddresses, d \in Objects :
         /\ ReadInCatch(f, d, Born(obj, f, "File"))
         /\ UNCHANGED <<proxy, registry>>
    \/ \E p \in Reachable, d \in Objects :
         /\ IsType(p, "File")
         /\ proxy[p].obj # Null
         /\ ReadInCatch(proxy[p].obj, d, Retain(obj, proxy[p].obj))
         /\ UNCHANGED <<proxy, registry>>
    \/ \E p \in Reachable :
         LET o == proxy[p].obj IN
         /\ ~IsType(p, "File")
         /\ IsType(p, "Data")
         /\ o # Null
         /\ nat[o] < MaxNative
         /\ obj' = Retain(obj, o)
         /\ nat' = [nat EXCEPT ![o] = @ + 1]
         /\ result' = NoResult
         /\ UNCHANGED <<proxy, registry>>

(* w_write and w_append (w_write_or_append): a Data argument is read in    *)
(* place through luax_istype and luax_totype, with no reference taken, so  *)
(* no count changes; luax_totype raises the released error for a Proxy    *)
(* whose object is gone.  A filename that is not a string, a second        *)
(* argument that is neither Data nor string, or a write that throws is an  *)
(* error; otherwise the call returns true.                                 *)
WriteOrAppend ==
    \/ FailsWith("write", {"argerror", "ioerror"})
    \/ /\ Returns("write", "ok")
       /\ UNCHANGED <<obj, proxy, registry, nat>>
    \/ \E p \in Reachable :
         /\ IsType(p, "Data")
         /\ \E out \in IF proxy[p].obj = Null THEN {"released"} ELSE {"ok", "ioerror"} :
              ReturnsFor("write", out, p)
         /\ UNCHANGED <<obj, proxy, registry, nat>>

(* w_newRandomGenerator: the new generator is seeded when a seed is given; *)
(* if setSeed throws it is released before the error is raised.            *)
NewRandomGenerator ==
    \E o \in FreeAddresses :
        \/ /\ obj' = Release(Born(obj, o, "RandomGenerator"), o)
           /\ Returns("newRandomGenerator", "error")
           /\ UNCHANGED <<proxy, registry, nat>>
        \/ \E fresh \in FreeSlots :
             LET push == PushType(Born(obj, o, "RandomGenerator"), o, fresh)
             IN  /\ obj' = Release(push.os, o)
                 /\ proxy' = push.px
                 /\ registry' = push.reg
                 /\ result' = NoResult
                 /\ UNCHANGED nat

(* Mutant of GetRandomGenerator: the wrapper releases after pushing, as    *)
(* the wrappers that create an object do.                                 *)
GetRandomGeneratorReleases ==
    \E o \in ModuleOwned, fresh \in Proxies :
        /\ CanPush(o, fresh)
        /\ LET push == PushType(obj, o, fresh)
           IN  /\ obj' = Release(push.os, o)
               /\ proxy' = push.px
               /\ registry' = push.reg
               /\ result' = NoResult
               /\ UNCHANGED nat

(* w__getRandomGenerator: pushes the generator the Math module owns; the   *)
(* wrapper holds no reference of its own, so it releases none.             *)
GetRandomGenerator ==
    \E o \in ModuleOwned, fresh \in Proxies :
        /\ CanPush(o, fresh)
        /\ LET push == PushType(obj, o, fresh)
           IN  /\ obj' = push.os
               /\ proxy' = push.px
               /\ registry' = push.reg
               /\ result' = NoResult
               /\ UNCHANGED nat

CheckOutcome(p, k, mismatch) ==
    IF ~IsType(p, k) THEN mismatch
    ELSE IF proxy[p].obj = Null THEN "released"
    ELSE "ok"

CheckType(p, k) ==
    /\ ReturnsFor("checktype", CheckOutcome(p, k, "typeerror"), p)
    /\ UNCHANGED <<obj, proxy, registry, nat>>

ToType(p, k) ==
    /\ ReturnsFor("totype", CheckOutcome(p, k, "nil"), p)
    /\ UNCHANGED <<obj, proxy, registry, nat>>

-----------------------------------------------------------------------------
(* The Lua side and native holders (runtime.cpp and Object.cpp, modelled   *)
(* from their contract).                                                   *)

(* Object:release() (w__release): if the Proxy still has its object, clear *)
(* its object pointer (the type is kept, which is what the released       *)
(* branches of luax_checktype and luax_totype test for), release the      *)
(* object once and evict the Proxy from REGISTRY_OBJECTS.  On a released   *)
(* Proxy it does nothing.                                                  *)
(* Mutant of ExplicitRelease: the Proxy is released but left in           *)
(* REGISTRY_OBJECTS.                                                       *)
ExplicitReleaseKeepEntry(p) ==
    /\ proxy[p].st = "reachable"
    /\ \/ /\ proxy[p].obj # Null
          /\ obj' = Release(obj, proxy[p].obj)
          /\ proxy' = [proxy EXCEPT ![p].obj = Null]
          /\ Returns("release", "true")
          /\ UNCHANGED registry
       \/ /\ proxy[p].obj = Null
          /\ Returns("release", "false")
          /\ UNCHANGED <<obj, proxy, registry>>
    /\ UNCHANGED nat

ExplicitRelease(p) ==
    /\ proxy[p].st = "reachable"
    /\ \/ /\ proxy[p].obj # Null
          /\ LET o == proxy[p].obj
             IN  /\ obj' = Release(obj, o)
                 /\ proxy' = [proxy EXCEPT ![p].obj = Null]
                 /\ registry' = IF registry[o] = p
                                THEN [registry EXCEPT ![o] = Null]
                                ELSE registry
          /\ Returns("release", "true")
       \/ /\ proxy[p].obj = Null
          /\ Returns("release", "false")
          /\ UNCHANGED <<obj, proxy, registry>>
    /\ UNCHANGED nat

\* The script drops its last reference to the Proxy.
DropRef(p) ==
    /\ proxy[p].st = "reachable"
    /\ proxy' = [proxy EXCEPT ![p].st = "unreachable"]
    /\ result' = NoResult
    /\ UNCHANGED <<obj, registry, nat>>

(* The collector finds the Proxy unreachable: the weak value is cleared    *)
(* from REGISTRY_OBJECTS and the userdata is queued for finalization.      *)
Collect(p) ==
    /\ proxy[p].st = "unreachable"
    /\ proxy' = [proxy EXCEPT ![p].st = "finalizing"]
    /\ registry' = [o \in Objects |-> IF registry[o] = p THEN Null ELSE registry[o]]
    /\ result' = NoResult
    /\ UNCHANGED <<obj, nat>>

(* __gc (w__gc): release the object if the Proxy still has it; the        *)
(* userdata's memory is then reclaimed.                                    *)
Finalize(p) ==
    /\ proxy[p].st = "finalizing"
    /\ obj' = IF proxy[p].obj # Null THEN Release(obj, proxy[p].obj) ELSE obj
    /\ proxy' = [proxy EXCEPT ![p] = FreeProxy]
    /\ result' = NoResult
    /\ UNCHANGED <<registry, nat>>

(* Native code (a decoder, a worker thread, another object's StrongRef)    *)
(* retains an object it was handed through a Proxy the script passed in.   *)
NativeRetain(o) ==
    /\ \E p \in Reachable : proxy[p].obj = o
    /\ nat[o] < MaxNative
    /\ obj' = Retain(obj, o)
    /\ nat' = [nat EXCEPT ![o] = @ + 1]
    /\ result' = NoResult
    /\ UNCHANGED <<proxy, registry>>

\* A native holder, on any thread, drops its reference.
NativeRelease(o) ==
    /\ nat[o] > 0
    /\ obj' = Release(obj, o)
    /\ nat' = [nat EXCEPT ![o] = @ - 1]
    /\ result' = NoResult
    /\ UNCHANGED <<proxy, registry>>

-----------------------------------------------------------------------------
Init ==
    /\ obj = [o \in Objects |->
                IF o \in ModuleOwned
                THEN [rc |-> 1, kind |-> "RandomGenerator", gen |-> 1]
                ELSE [rc |-> 0, kind |-> Null, gen |-> 0]]
    /\ proxy = [p \in Proxies |-> FreeProxy]
    /\ registry = [o \in Objects |-> Null]
    /\ nat = [o \in Objects |-> 0]
    /\ result = NoResult

Next ==
    \/ OpenFile
    \/ ReadFile
    \/ NewFileData
    \/ NewFile \/ OpenNativeFile \/ Lines \/ Load \/ NewFileDataCopy
    \/ GetData
    \/ WriteOrAppend
    \/ NewRandomGenerator
    \/ GetRandomGenerator
    \/ \E p \in Reachable, k \in Kinds : CheckType(p, k) \/ ToType(p, k)
    \/ \E p \in Proxies : ExplicitRelease(p) \/ DropRef(p) \/ Collect(p) \/ Finalize(p)
    \/ \E o \in Objects : NativeRetain(o) \/ NativeRelease(o)

(* Lua's collector runs incrementally as the script allocates, and         *)
(* lua_close finalizes everything left, so every unreachable Proxy is      *)
(* eventually collected and finalized.  Nothing else is assumed to happen. *)
Fairness == \A p \in Proxies : WF_vars(Collect(p)) /\ WF_vars(Finalize(p))

Spec == Init /\ [][Next]_vars /\ Fairness

-----------------------------------------------------------------------------
(* Properties.                                                             *)

\* References to o: native holders, the owning module, and every Proxy
\* that still points at o, collected or not.
Holders(o) ==
    nat[o] + (IF o \in ModuleOwned THEN 1 ELSE 0)
           + Cardinality({p \in Proxies : proxy[p].obj = o})

RegistryIsInverse ==
    \A o \in Objects, p \in Proxies :
        registry[o] = p <=>
            /\ proxy[p].st \in Live
            /\ proxy[p].cached
            /\ proxy[p].obj = o
            /\ proxy[p].gen = obj[o].gen

LetGo(o) ==
    /\ Alive(o)
    /\ Holders(o) > 0
    /\ nat[o] = 0
    /\ o \notin ModuleOwned
    /\ \A p \in Proxies : proxy[p].obj = o => proxy[p].st # "reachable"

DroppedObjectsFreed ==
    \A o \in Objects : LetGo(o) ~> (~Alive(o) \/ \E p \in Reachable : proxy[p].obj = o)

=============================================================================
