------------------------------- MODULE Types -------------------------------
(***************************************************************************)
(* love::Type, the type descriptor of every native object exposed to Lua.  *)
(* A descriptor has a name and at most one parent; Type::isa(other) holds  *)
(* when other is the descriptor itself or one of its ancestors.  The       *)
(* descriptors are created at static initialisation and never change, so  *)
(* this module has no state of its own: the parent forest is a parameter. *)
(* Type.cpp is not part of the sources at hand; isa is modelled from the   *)
(* contract the bridge relies on (runtime.h calls it in luax_checktype,    *)
(* luax_totype, luax_getmodule and luax_optmodule).                        *)
(***************************************************************************)
EXTENDS Naturals, FiniteSets

RECURSIVE IsAUnder(_, _, _)
(* isa, walking the parent chain of t up to its root.  par maps each       *)
(* descriptor to its parent, or to a value outside DOMAIN par at a root.   *)
IsAUnder(par, t, other) ==
    \/ t = other
    \/ /\ par[t] \in DOMAIN par
       /\ IsAUnder(par, par[t], other)

=============================================================================
