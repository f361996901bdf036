--------------------------- MODULE ModPlugDecoder ---------------------------
(***************************************************************************)
(* The tracker-module decoder love::sound::lullaby::ModPlugDecoder         *)
(* (modules/sound/lullaby/ModPlugDecoder.cpp) as a function of the calls   *)
(* made on one object: the constructor, then decode, seek, rewind and      *)
(* getDuration in any order, then the destructor.  The decoder is used by  *)
(* one thread at a time, so its behaviours are exactly these sequences.   *)
(*                                                                         *)
(* What libmodplug does is an input: whether ModPlug_Load accepts the      *)
(* data, what ModPlug_Read returns, what ModPlug_GetLength reports.  The   *)
(* state keeps the handle ("plug", or "null" for a failed load), eof, the  *)
(* cached duration (-2 until computed) and two history flags: whether a    *)
(* ModPlug_* function was ever passed the null handle, and whether a       *)
(* reload in rewind() failed.                                              *)
(***************************************************************************)
EXTENDS Integers, Sequences, SequencesExt

\* ModPlug_Load: a handle, or null when the library rejects the data.
Loaded(ok) == IF ok THEN "plug" ELSE "null"

\* The constructor threw: there is no object.
Thrown == [thrown |-> TRUE]

\* A ModPlug_* call on the decoder's current handle.
Use(d) == [d EXCEPT !.nullUse = @ \/ d.plug = "null"]

(* The constructor: a stream over 4 MB is first probed with its first 4 MB *)
(* (a load that fails throws; one that succeeds is unloaded again); then   *)
(* the whole stream is loaded, and a null handle throws.                   *)
Construct(c) ==
    IF (c.big /\ ~c.probe) \/ ~c.full THEN Thrown
    ELSE [thrown |-> FALSE, plug |-> "plug", eof |-> FALSE, duration |-> -2,
          nullUse |-> FALSE, failedReload |-> FALSE]

\* decode(): ModPlug_Read, and eof when it returned 0.
Decode(d, r) == [Use(d) EXCEPT !.eof = IF r = 0 THEN TRUE ELSE @]

\* seek(s): ModPlug_Seek; it always reports success.
Seek(d) == Use(d)

(* rewind(): ModPlug_Unload on the handle, ModPlug_Load of the kept data,  *)
(* ModPlug_SetMasterVolume on the new handle, eof cleared; it returns      *)
(* whether the new handle is non-null.                                      *)
Rewind(d, ok) ==
    Use([Use(d) EXCEPT !.plug = Loaded(ok), !.eof = FALSE, !.failedReload = @ \/ ~ok])

(* getDuration(): on the first call, ModPlug_GetLength (in ms; the model   *)
(* keeps ms, the code divides by 1000), cached as -1 for a negative        *)
(* length; afterwards the cached value.                                    *)
GetDuration(d, len) ==
    IF d.duration = -2 THEN [Use(d) EXCEPT !.duration = IF len < 0 THEN -1 ELSE len]
    ELSE d

\* The destructor: ModPlug_Unload unless the handle is null.
Destroy(d) == IF d.plug # "null" THEN Use(d) ELSE d

(* One call: <<op, arg>>, arg being the library's answer where one is     *)
(* needed (ModPlug_Read's count, 1 for a reload that succeeds, the length  *)
(* ModPlug_GetLength reports).                                              *)
Call(d, call) ==
    CASE call[1] = "decode" -> Decode(d, call[2])
      [] call[1] = "seek" -> Seek(d)
      [] call[1] = "rewind" -> Rewind(d, call[2] = 1)
      [] call[1] = "duration" -> GetDuration(d, call[2])

(* A decoder's life: construction, the calls, destruction; Thrown when    *)
(* the constructor threw.                                                  *)
Life(c, calls) ==
    LET d0 == Construct(c) IN
    IF d0.thrown THEN d0 ELSE Destroy(FoldLeft(Call, d0, calls))

=============================================================================
