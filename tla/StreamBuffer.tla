---------------------------- MODULE StreamBuffer ----------------------------
(***************************************************************************)
(* The Vulkan stream buffer (modules/graphics/vulkan/StreamBuffer.cpp):    *)
(* one host-visible buffer of getSize() bytes that the batching code fills *)
(* draw after draw.  map() hands out the write pointer and the room left,  *)
(* unmap() the offset the data went to, markUsed() advances the offset,    *)
(* nextFrame() starts the buffer over; loadVolatile and unloadVolatile     *)
(* create and drop the VkBuffer when the graphics context comes and goes.  *)
(*                                                                         *)
(* The batching code of love::graphics is not among the sources: a caller  *)
(* step follows the MapInfo contract of the base class, writing at most    *)
(* the room map() reported, then unmap and markUsed with what it wrote.    *)
(***************************************************************************)
EXTENDS Naturals, FiniteSets

CONSTANTS
    Size,      \* getSize(): the bytes of the buffer
    Modes,     \* BufferUsage values the buffer may be created with
    MaxDraws   \* bound: draws batched into the buffer in one frame

\* The BufferUsage modes getUsageFlags maps to a VkBufferUsageFlags.
Supported == {"vertex", "index", "uniform"}

VARIABLES
    st,        \* "none" (not constructed), "live" (a VkBuffer), "unloaded"
    used,      \* usedGPUMemory
    written    \* the byte ranges [off, len] written since the last nextFrame

vars == <<st, used, written>>

TypeOK ==
    /\ st \in {"none", "live", "unloaded"}
    /\ used \in Nat
    /\ written \subseteq [off : Nat, len : 1..Size]

Init ==
    /\ st = "none"
    /\ used = 0
    /\ written = {}

(* The constructor: loadVolatile, where getUsageFlags throws for a mode    *)
(* other than vertex, index or uniform before the buffer is created;       *)
(* otherwise vmaCreateBuffer and usedGPUMemory = 0.                         *)
Construct(mode) ==
    /\ st = "none"
    /\ mode \in Supported
    /\ st' = "live"
    /\ used' = 0
    /\ UNCHANGED written

\* loadVolatile again after unloadVolatile: a new buffer, offset 0.
LoadVolatile ==
    /\ st = "unloaded"
    /\ st' = "live"
    /\ used' = 0
    /\ UNCHANGED written

(* unloadVolatile (also the destructor): queue the buffer's destruction    *)
(* and null the handle; nothing to do without a buffer.                    *)
UnloadVolatile ==
    /\ st = "live"
    /\ st' = "unloaded"
    /\ UNCHANGED <<used, written>>

\* map(minsize): the pointer usedGPUMemory bytes in, and getSize() as room.
MapOffset == used
MapRoom == Size

(* One batched draw: map, write n bytes (no more than the room map()       *)
(* reported), unmap, whose result is the offset the draw reads from, and   *)
(* markUsed(n).  None of the four tests the buffer handle; the graphics    *)
(* module draws only while its context, and so the buffer, is loaded.      *)
Draw(n) ==
    /\ st = "live"
    /\ Cardinality(written) < MaxDraws
    /\ n <= MapRoom
    /\ written' = written \cup {[off |-> MapOffset, len |-> n]}
    /\ used' = used + n
    /\ UNCHANGED st

\* nextFrame: usedGPUMemory = 0.
NextFrame ==
    /\ st # "none"
    /\ used' = 0
    /\ written' = {}
    /\ UNCHANGED st

Next ==
    \/ \E mode \in Modes : Construct(mode)
    \/ LoadVolatile
    \/ UnloadVolatile
    \/ \E n \in 1..Size : Draw(n)
    \/ NextFrame

Spec == Init /\ [][Next]_vars

-----------------------------------------------------------------------------
(* Properties.                                                             *)

=============================================================================
