--------------------------- MODULE ModuleRegistry ---------------------------
(***************************************************************************)
(* Acquiring and releasing the process-wide module singletons.            *)
(* luaopen_love_filesystem and luaopen_love_math (wrap_Filesystem.cpp,     *)
(* wrap_Math.cpp) read Module::getInstance, then either construct the      *)
(* module inside luax_catchexcept or retain the instance they read, and    *)
(* register it in the REGISTRY_MODULES table of their own lua_State.       *)
(* Closing a lua_State collects its module Proxies, releasing each module  *)
(* once; the last release destroys the module, whose destructor clears the *)
(* instance slot.  Module.cpp is not among the sources: construction,      *)
(* registration of the instance and the destructor follow the spec (4.4,   *)
(* 8: one reference per registration).                                     *)
(*                                                                         *)
(* Every lua_State runs on its own thread (the main state and one per     *)
(* love.thread Thread), so the steps of different states interleave, and  *)
(* the read of the instance and the retain are two steps.                 *)
(***************************************************************************)
EXTENDS Naturals, FiniteSets

CONSTANTS
    Mods,     \* module types: the module each luaopen_love_* opens
    States,   \* lua_States, one per thread
    MaxGen    \* bound on the module objects created per module type

Gens == 1..MaxGen

VARIABLES
    inst,     \* Module::getInstance: per module, 0 (nullptr) or its object
    gen,      \* per module, the number of objects created so far
    count,    \* per module and object, the reference count
    alive,    \* per module and object, whether it has not been destroyed
    st,       \* per state and module: "none", "read" (luaopen between its
              \* read of the instance and what follows), "reg", or "closed"
    seen,     \* per state and module, the instance luaopen read
    loaded    \* per state and module, the object its REGISTRY_MODULES holds

vars == <<inst, gen, count, alive, st, seen, loaded>>

TypeOK ==
    /\ inst \in [Mods -> 0..MaxGen]
    /\ gen \in [Mods -> 0..MaxGen]
    /\ count \in [Mods -> [Gens -> Nat]]
    /\ alive \in [Mods -> [Gens -> BOOLEAN]]
    /\ st \in [States -> [Mods -> {"none", "read", "reg", "closed"}]]
    /\ seen \in [States -> [Mods -> 0..MaxGen]]
    /\ loaded \in [States -> [Mods -> 0..MaxGen]]

Init ==
    /\ inst = [m \in Mods |-> 0]
    /\ gen = [m \in Mods |-> 0]
    /\ count = [m \in Mods |-> [g \in Gens |-> 0]]
    /\ alive = [m \in Mods |-> [g \in Gens |-> FALSE]]
    /\ st = [s \in States |-> [m \in Mods |-> "none"]]
    /\ seen = [s \in States |-> [m \in Mods |-> 0]]
    /\ loaded = [s \in States |-> [m \in Mods |-> 0]]

\* A state is closed once lua_close has run; it takes no further step.
Open(s) == \A m \in Mods : st[s][m] # "closed"

(* require "love.<m>" in state s runs luaopen_love_<m>; its first step     *)
(* reads the instance slot (Module::getInstance).                          *)
OpenRead(s, m) ==
    /\ Open(s)
    /\ st[s][m] = "none"
    /\ \A n \in Mods : st[s][n] # "read"
    /\ seen' = [seen EXCEPT ![s][m] = inst[m]]
    /\ st' = [st EXCEPT ![s][m] = "read"]
    /\ UNCHANGED <<inst, gen, count, alive, loaded>>

(* new Module() inside luax_catchexcept: a new object becomes the         *)
(* instance.  Module.cpp is not among the sources, so what the constructor *)
(* does when another state registered an object since the read is left    *)
(* open: it either replaces the instance slot, or throws and the error     *)
(* ends the require with nothing created.                                  *)
CreateModule(s, m) ==
    /\ st[s][m] = "read" /\ seen[s][m] = 0
    /\ \/ /\ gen[m] < MaxGen
          /\ LET g == gen[m] + 1 IN
             /\ gen' = [gen EXCEPT ![m] = g]
             /\ inst' = [inst EXCEPT ![m] = g]
             /\ count' = [count EXCEPT ![m][g] = 1]
             /\ alive' = [alive EXCEPT ![m][g] = TRUE]
             /\ loaded' = [loaded EXCEPT ![s][m] = g]
             /\ st' = [st EXCEPT ![s][m] = "reg"]
       \/ /\ inst[m] # 0
          /\ st' = [st EXCEPT ![s][m] = "none"]
          /\ UNCHANGED <<inst, gen, count, alive, loaded>>
    /\ UNCHANGED seen

(* Mutant of RetainModule: the instance found is registered without the   *)
(* retain that the registration's reference needs.                        *)
RetainModuleNoRetain(s, m) ==
    /\ st[s][m] = "read" /\ seen[s][m] # 0
    /\ loaded' = [loaded EXCEPT ![s][m] = seen[s][m]]
    /\ st' = [st EXCEPT ![s][m] = "reg"]
    /\ UNCHANGED <<inst, gen, count, alive, seen>>

(* instance->retain() on the instance read, then luax_register_module.    *)
(* The retain acts on the object read, whether or not it still lives.     *)
RetainModule(s, m) ==
    /\ st[s][m] = "read" /\ seen[s][m] # 0
    /\ count' = [count EXCEPT ![m][seen[s][m]] = @ + 1]
    /\ loaded' = [loaded EXCEPT ![s][m] = seen[s][m]]
    /\ st' = [st EXCEPT ![s][m] = "reg"]
    /\ UNCHANGED <<inst, gen, alive, seen>>

(* lua_close(s): the collector finalizes every module Proxy of the state,  *)
(* one release per registered module.                                      *)
CloseState(s) ==
    /\ Open(s)
    /\ \A m \in Mods : st[s][m] # "read"
    /\ LET regd == {m \in Mods : loaded[s][m] # 0}
           c2 == [m \in Mods |-> [g \in Gens |->
                    IF g = loaded[s][m] /\ m \in regd THEN count[m][g] - 1 ELSE count[m][g]]]
           dies(m) == m \in regd /\ c2[m][loaded[s][m]] = 0
       IN  /\ count' = c2
           /\ alive' = [m \in Mods |-> IF dies(m) THEN [alive[m] EXCEPT ![loaded[s][m]] = FALSE] ELSE alive[m]]
           /\ inst' = [m \in Mods |-> IF dies(m) /\ inst[m] = loaded[s][m] THEN 0 ELSE inst[m]]
    /\ st' = [st EXCEPT ![s] = [m \in Mods |-> "closed"]]
    /\ loaded' = [loaded EXCEPT ![s] = [m \in Mods |-> 0]]
    /\ UNCHANGED <<gen, seen>>

Next ==
    \E s \in States :
        \/ CloseState(s)
        \/ \E m \in Mods : OpenRead(s, m) \/ CreateModule(s, m) \/ RetainModule(s, m)

Spec == Init /\ [][Next]_vars

-----------------------------------------------------------------------------
(* Properties.                                                             *)

\* The registrations of object g of module m in states not yet closed.
Holders(m, g) == {s \in States : loaded[s][m] = g}

(* Spec 8, module re-registration: however the states' luaopen calls and   *)
(* closes interleave, the count of every module object equals the number  *)
(* of lua_States that registered it.                                       *)
ModuleRefCountIsRegistrations ==
    \A m \in Mods, g \in Gens : g <= gen[m] => count[m][g] = Cardinality(Holders(m, g))

(* A state's REGISTRY_MODULES never holds a destroyed module: what         *)
(* luax_getmodule and luax_optmodule return is a live object.              *)
RegisteredModuleAlive ==
    \A s \in States, m \in Mods : loaded[s][m] # 0 => alive[m][loaded[s][m]]

=============================================================================
