------------------------------ MODULE Marshal ------------------------------
(***************************************************************************)
(* Argument marshaling of the bridge: the numeric helpers of runtime.h      *)
(* (luaL_checknumber, luaL_optnumber and the clamped variants built on     *)
(* std::min and std::max) and the argument readers of wrap_Math.cpp:       *)
(* coordinate lists (newBezierCurve, triangulate, isConvex), colour        *)
(* components (gammaToLinear, linearToGamma) and the noise dispatch.       *)
(*                                                                         *)
(* A Lua value is a record: its type t, its number n (for a number, or a   *)
(* string that converts to one; numbers are hundredths, so 1.0 is 100)     *)
(* and the elements e of a table.  A stack is a sequence of values; an     *)
(* index above its top is "none".  A call either raises a Lua error or     *)
(* returns v: [err |-> TRUE, v |-> <<>>] or [err |-> FALSE, v |-> ...].    *)
(***************************************************************************)
EXTENDS Integers, Sequences, SequencesExt

CONSTANT NaN   \* the NaN double: unordered, not equal to any number

None == [t |-> "none", n |-> 0, e |-> <<>>]
Err == [err |-> TRUE, v |-> <<>>]
Ok(v) == [err |-> FALSE, v |-> v]

\* The value at index i: lua_type is LUA_TNONE above the top.
Arg(stack, i) == IF i >= 1 /\ i <= Len(stack) THEN stack[i] ELSE None

\* lua_isnumber: a number, or a string that converts to one.
IsNum(a) == a.t = "number" \/ (a.t = "numstring")

\* luaL_checknumber: the number, or an argument error for anything else.
CheckNumber(a) == IF IsNum(a) THEN Ok(a.n) ELSE Err

\* luaL_optnumber: the default for none or nil.
OptNumber(a, def) == IF a.t \in {"none", "nil"} THEN Ok(def) ELSE CheckNumber(a)

\* The double '<', false whenever NaN is involved.
Less(a, b) == a # NaN /\ b # NaN /\ a < b

(* std::max(a, b) is (a < b) ? b : a, and std::min(a, b) is               *)
(* (b < a) ? b : a: each returns its first argument when the comparison     *)
(* fails, so NaN as the first argument passes through both.                *)
StdMax(a, b) == IF Less(a, b) THEN b ELSE a
StdMin(a, b) == IF Less(b, a) THEN b ELSE a

\* Mutant of Clamped: the bounds of std::max and std::min are swapped.
ClampedSwapped(r, lo, hi) == IF r.err THEN r ELSE Ok(StdMin(StdMax(r.v, hi), lo))

\* luax_checknumberclamped and the three variants: std::min(std::max(x, lo), hi).
Clamped(r, lo, hi) == IF r.err THEN r ELSE Ok(StdMin(StdMax(r.v, lo), hi))

CheckNumberClamped(a, lo, hi) == Clamped(CheckNumber(a), lo, hi)
OptNumberClamped(a, lo, hi, def) == Clamped(OptNumber(a, def), lo, hi)
CheckNumberClamped01(a) == Clamped(CheckNumber(a), 0, 100)
OptNumberClamped01(a, def) == Clamped(OptNumber(a, def), 0, 100)

-----------------------------------------------------------------------------
(* wrap_Math.cpp.                                                          *)

\* Where the coordinates come from: the table at index 1, or the stack.
Coords(stack) == IF Arg(stack, 1).t = "table" THEN stack[1].e ELSE stack

RECURSIVE PairsFrom(_, _, _)
(* Mutant of PairsFrom: the loop stops before an odd last coordinate       *)
(* (i < top), so it is dropped without an error.                            *)
PairsFromShort(src, i, acc) ==
    IF i >= Len(src) THEN Ok(acc)
    ELSE LET x == CheckNumber(Arg(src, i)) y == CheckNumber(Arg(src, i + 1)) IN
         IF x.err \/ y.err THEN Err ELSE PairsFrom(src, i + 2, Append(acc, <<x.v, y.v>>))

(* The loop for i = 1, 3, ... while i <= top: luaL_checknumber on i and    *)
(* i + 1 (a table's element past its length is nil, a stack index past the *)
(* top is none, and both are argument errors).                              *)
PairsFrom(src, i, acc) ==
    IF i > Len(src) THEN Ok(acc)
    ELSE LET x == CheckNumber(Arg(src, i)) y == CheckNumber(Arg(src, i + 1)) IN
         IF x.err \/ y.err THEN Err ELSE PairsFrom(src, i + 2, Append(acc, <<x.v, y.v>>))

\* The vertices of newBezierCurve, triangulate and isConvex.
ReadPoints(stack) == PairsFrom(Coords(stack), 1, <<>>)

(* w_triangulate: fewer than three vertices is an error; three are the     *)
(* one triangle; more go to triangulate() inside luax_catchexcept, which   *)
(* may throw.  The set of outcomes; a triangulation is left abstract.      *)
Triangulate(stack) ==
    LET p == ReadPoints(stack) IN
    CASE p.err -> {p}
      [] Len(p.v) < 3 -> {Err}
      [] Len(p.v) = 3 -> {Ok(<<p.v>>)}
      [] OTHER -> {Err, Ok(<<"triangulated", p.v>>)}

(* getGammaArgs: up to four components, from the table at index 1 or from  *)
(* the stack, each through luax_checknumberclamped01; with none at all,    *)
(* luaL_checknumber(L, 1) raises the error.                                 *)
GammaArgs(stack) ==
    LET src == Coords(stack)
        k == IF Len(src) < 4 THEN Len(src) ELSE 4
        cs == [i \in 1..k |-> CheckNumberClamped01(Arg(src, i))]
    IN  IF k = 0 \/ \E i \in 1..k : cs[i].err THEN Err ELSE Ok([i \in 1..k |-> cs[i].v])

\* Mutant of GammaConvert: the alpha component is converted too.
GammaConvertAll(dir, stack) ==
    LET g == GammaArgs(stack) IN
    IF g.err THEN g ELSE Ok([i \in DOMAIN g.v |-> <<dir, g.v[i]>>])

(* w_gammaToLinear (dir "linear") and w_linearToGamma (dir "gamma"): the   *)
(* first three components converted by math::gammaToLinear or              *)
(* linearToGamma (<<dir, c>>: the conversion itself is not among the       *)
(* sources), the fourth, alpha, returned as read (<<"none", c>>).          *)
GammaConvert(dir, stack) ==
    LET g == GammaArgs(stack) IN
    IF g.err THEN g ELSE Ok([i \in DOMAIN g.v |-> IF i < 4 THEN <<dir, g.v[i]>> ELSE <<"none", g.v[i]>>])

\* Mutant of NoiseFamily: the deprecated noise uses simplex up to three dimensions.
NoiseFamilyOffByOne(fn, k) ==
    CASE fn = "perlinNoise" -> "perlin"
      [] fn = "simplexNoise" -> "simplex"
      [] OTHER -> IF k <= 3 THEN "simplex" ELSE "perlin"

(* The switch of w_noise (deprecated), w_perlinNoise and w_simplexNoise:   *)
(* which noise function each arity calls.                                  *)
NoiseFamily(fn, k) ==
    CASE fn = "perlinNoise" -> "perlin"
      [] fn = "simplexNoise" -> "simplex"
      [] OTHER -> IF k <= 2 THEN "simplex" ELSE "perlin"

(* The three noise wrappers: nargs = min(max(top, 1), 4), luaL_checknumber *)
(* on the first nargs arguments (so no argument at all is an error, and    *)
(* arguments past the fourth are never looked at), then the function of   *)
(* that family and arity.                                                  *)
Noise(fn, stack) ==
    LET k == IF Len(stack) < 1 THEN 1 ELSE IF Len(stack) > 4 THEN 4 ELSE Len(stack)
        xs == [i \in 1..k |-> CheckNumber(Arg(stack, i))]
    IN  IF \E i \in 1..k : xs[i].err THEN Err
        ELSE Ok(<<NoiseFamily(fn, k), [i \in 1..k |-> xs[i].v]>>)

=============================================================================
