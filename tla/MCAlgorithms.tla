---------------------------- MODULE MCAlgorithms ----------------------------
(***************************************************************************)
(* Checks the pure algorithms of the project against reference            *)
(* definitions, over every input of a bounded domain.  The single variable *)
(* x holds the input under test, tagged with the algorithm it is for:      *)
(*   "path", "list" and "replace": a path string, a path list or the       *)
(*     arguments of replaceAll (StringOps);                                *)
(*   "rpath": a string passed to setRequirePath (RequirePath);             *)
(*   "bmline" and "font": a BMFont line written from its pairs, a whole    *)
(*     font definition (BMFont);                                           *)
(*   "stack": the arguments of a wrap_Math call (Marshal);                 *)
(*   "https": a request and what the Java side does (AndroidHttps);        *)
(*   "joint": a RevoluteJoint method, its Proxy and arguments               *)
(*     (JointWrappers);                                                     *)
(*   "fields": the argument of luax_checktablefields (TableFields);         *)
(*   "mount": a mount or unmount wrapper and its arguments (MountArgs);     *)
(*   "info": getInfo's arguments and what Filesystem::getInfo reports      *)
(*     (GetInfo).                                                           *)
(* Every input is an initial state and no step changes it.                 *)
(***************************************************************************)
EXTENDS Types, Relation, Utf8, StringOps, BMFont, Marshal, AndroidHttps, JointWrappers, ModPlugDecoder, CatchExcept, MCKeyNames, FileWrite, ModuleLookup, TableFields

CONSTANTS
    Chars, MaxLen, Subs, Reps    \* path characters, string length, patterns

VARIABLE x

Strings(A, n) == UNION {[1..k -> A] : k \in 0..n}


-----------------------------------------------------------------------------
(* StringOps.                                                              *)

RECURSIVE RefReplace(_, _, _)
\* Reference: scan from the left, replacing each match and going on after it.
RefReplace(s, sub, rep) ==
    IF Len(s) < Len(sub) THEN s
    ELSE IF SubSeq(s, 1, Len(sub)) = sub
         THEN rep \o RefReplace(SubSeq(s, Len(sub) + 1, Len(s)), sub, rep)
         ELSE <<Head(s)>> \o RefReplace(Tail(s), sub, rep)

(* w_getRequirePath after w_setRequirePath(s) returns s, except that one   *)
(* trailing ';' is lost (std::getline yields no empty last field).         *)
SplitJoinRoundTrip ==
    x[1] = "path" =>
        Join(Split(x[2])) = IF x[2] # <<>> /\ Last(x[2]) = Sep THEN Front(x[2]) ELSE x[2]

(* Setting the path that w_getRequirePath returned restores the list,      *)
(* except an empty last element, which is lost.                            *)
JoinSplitRoundTrip ==
    x[1] = "list" =>
        Split(Join(x[2])) = IF x[2] # <<>> /\ Last(x[2]) = <<>> THEN Front(x[2]) ELSE x[2]

(* replaceAll replaces the same occurrences as a left-to-right scan,       *)
(* whatever the lengths of the pattern and the replacement.                *)
ReplaceAllMatchesReference ==
    x[1] = "replace" =>
        LET a == x[2] IN ReplaceAllStr(a[1], a[2], a[3]) = RefReplace(a[1], a[2], a[3])

-----------------------------------------------------------------------------
(* RequirePath, over a file system in which "?" and "a/?" resolve the     *)
(* names "a" and "a.a" and a name with a '?' in it finds a file too.       *)

RPModules == {<<"a">>, <<"a", ".", "a">>, <<"a", "?">>}
RPExtensions == {<<"?">>, <<"a", "/", "?">>, <<>>, <<"?", ";">>}
RPFiles == {<<"a">>, <<"a", "/", "a">>, <<"a", "/", "a", "/", "a">>, <<"a", "?">>, <<"a", "?", "/", "a">>}

RP == INSTANCE RequirePath WITH
        PathStrings <- RPExtensions, Modules <- RPModules, Exts <- <<>>, Files <- RPFiles,
        Loadable <- {}, Exporting <- {}, InitPath <- <<>>, InitCPath <- <<>>,
        requirePath <- <<>>, cRequirePath <- <<>>, result <- <<>>, req <- <<>>

(* After any w_setRequirePath, appending an element to the path that       *)
(* w_getRequirePath returns leaves every module that loader found          *)
(* resolving to the same file.                                             *)
RequirePathExtension ==
    x[1] = "rpath" => RP!KeepsResolution(Split(x[2]))

-----------------------------------------------------------------------------
(* BMFont, with the writer and the fonts of MCBMFont.                      *)

BF == INSTANCE MCBMFont

\* Values as the BMFont tools write them: numbers, and quoted strings,
\* empty or holding a space and an '='.
BMValues ==
    {BF!Num(0), BF!Num(-1), BF!Num(12), <<Quote, "f0", Quote>>, <<Quote, Quote>>,
     <<Quote, "f0", " ", "x", "=", "1", Quote>>}

\* Lists of up to three pairs with distinct keys.
PairLists ==
    {ps \in Strings({"id", "file", "x"} \X BMValues, 3) :
        \A i, j \in DOMAIN ps : i # j => ps[i][1] # ps[j][1]}

Unquoted(v) == IF v # <<>> /\ Head(v) = Quote THEN SubSeq(v, 2, Len(v) - 1) ELSE v

(* BMFontLine gives back every key and value the line was written with,    *)
(* a quoted value without its quotes, whatever spaces, '=' or emptiness   *)
(* the quoted values hold.                                                  *)
AttributesRoundTrip ==
    x[1] = "bmline" =>
        LET ps == x[2][2] IN
        Attributes(BF!LineOf(x[2][1], ps)) = [k \in {<<ps[i][1]>> : i \in DOMAIN ps} |->
                                               Unquoted(ps[CHOOSE i \in DOMAIN ps : <<ps[i][1]>> = k][2])]

(* A character the verification loop accepted, with a positive width and   *)
(* height and an id other than 0, is copied by getGlyphDataForIndex from    *)
(* inside its page image.                                                  *)
AcceptedGlyphsInBounds ==
    x[1] = "font" =>
        LET f == ParseConfig(x[2].lines, x[2].given, BF!Disk) IN
        f.ok => \A i \in 1..Len(f.chars) :
                  LET c == f.chars[i] IN
                  c.glyph # 0 /\ c.width > 0 /\ c.height > 0 => CopyInBounds(f, i - 1)

-----------------------------------------------------------------------------
(* Marshal.                                                                *)

LNum(n) == [t |-> "number", n |-> n, e |-> <<>>]
\* Numbers below, inside and above [0, 1], NaN, a numeric string, a string
\* that is not a number, nil and a boolean.
Scalars ==
    {LNum(-500), LNum(50), LNum(500), LNum(NaN), [t |-> "numstring", n |-> 50, e |-> <<>>],
     [t |-> "string", n |-> 0, e |-> <<>>], [t |-> "nil", n |-> 0, e |-> <<>>],
     [t |-> "boolean", n |-> 0, e |-> <<>>]}
\* Stacks of up to four scalars, four and a string, and a table of up to
\* five elements alone or with a scalar after it.
Stacks ==
    LET short == Strings(Scalars, 4)
        tables == {[t |-> "table", n |-> 0, e |-> es] :
                      es \in Strings({LNum(0), LNum(50), [t |-> "string", n |-> 0, e |-> <<>>]}, 5)}
    IN  short \cup {s \o <<[t |-> "string", n |-> 0, e |-> <<>>]>> : s \in short \cap [1..4 -> Scalars]}
              \cup {<<tb>> : tb \in tables} \cup {<<tb, a>> : tb \in tables, a \in Scalars}

\* Reference: saturation of a number into [lo, hi].
Saturate(v, lo, hi) == IF v < lo THEN lo ELSE IF v > hi THEN hi ELSE v

(* Spec 4.5 and 8: the clamped variants saturate a number into [min, max]  *)
(* (-5, 0.5 and 5 give 0, 0.5 and 1) and raise an error for a non-number;  *)
(* NaN, which no comparison orders, comes back as NaN.                      *)
ClampedSaturates ==
    x[1] = "stack" =>
        \A i \in 1..Len(x[2]), b \in {<<0, 100>>, <<-100, 50>>} :
            LET a == x[2][i] IN
            CheckNumberClamped(a, b[1], b[2]) =
                IF ~IsNum(a) THEN Err ELSE IF a.n = NaN THEN Ok(NaN) ELSE Ok(Saturate(a.n, b[1], b[2]))

(* The coordinate readers of newBezierCurve, triangulate and isConvex      *)
(* return the coordinates, from the table or the stack, as consecutive     *)
(* (x, y) pairs, and raise an error for an odd count or a non-number; the *)
(* three vertices of a triangle are triangulate's one triangle.            *)
PointsArePairs ==
    x[1] = "stack" =>
        LET src == Coords(x[2])
            ok == Len(src) % 2 = 0 /\ \A i \in 1..Len(src) : IsNum(src[i])
            pts == [j \in 1..(Len(src) \div 2) |-> <<src[2 * j - 1].n, src[2 * j].n>>]
        IN  /\ ReadPoints(x[2]) = IF ok THEN Ok(pts) ELSE Err
            /\ ok /\ Len(pts) = 3 => Triangulate(x[2]) = {Ok(<<pts>>)}

(* gammaToLinear and linearToGamma convert the first three of at most four *)
(* components and return alpha only clamped; arguments past the fourth are *)
(* ignored, and a call with no component raises an error.                  *)
GammaKeepsAlpha ==
    x[1] = "stack" =>
        LET src == Coords(x[2])
            k == IF Len(src) < 4 THEN Len(src) ELSE 4
            ok == k > 0 /\ \A i \in 1..k : IsNum(src[i])
            c(i) == CheckNumberClamped01(src[i]).v
        IN  \A dir \in {"linear", "gamma"} :
                GammaConvert(dir, x[2]) =
                    IF ok THEN Ok([i \in 1..k |-> IF i = 4 THEN <<"none", c(i)>> ELSE <<dir, c(i)>>]) ELSE Err

(* love.math.noise keeps its documented mix (simplex in one and two        *)
(* dimensions, Perlin in three and four), perlinNoise and simplexNoise use *)
(* their own family in every dimension, the dimension is the number of    *)
(* arguments up to four, and arguments past the fourth are ignored.         *)
NoiseDispatch ==
    x[1] = "stack" =>
        LET k == IF Len(x[2]) > 4 THEN 4 ELSE Len(x[2])
            ok == k > 0 /\ \A i \in 1..k : IsNum(x[2][i])
            fam == [noise |-> IF k <= 2 THEN "simplex" ELSE "perlin", perlinNoise |-> "perlin", simplexNoise |-> "simplex"]
        IN  \A fn \in {"noise", "perlinNoise", "simplexNoise"} :
                Noise(fn, x[2]) = IF ok THEN Ok(<<fam[fn], [i \in 1..k |-> x[2][i].n]>>) ELSE Err

-----------------------------------------------------------------------------
(* AndroidHttps.                                                           *)

\* Byte strings of up to three bytes, with NUL and one other byte.
HttpsBytes == Strings({"a", Nul}, 3)

\* Java strings for the reply's header array: two keys and two values.
JKeys == {<<"a">>, <<"b">>}
JVals == {<<U0, "a", U0>>, <<"b">>}

Requests ==
    [url : {<<"a">>, <<"a", Nul, "b">>}, method : {"GET", "POST"}, postdata : {<<Nul, "a">>},
     headers : {[k \in {} |-> <<>>]} \cup {(k :> v) : k \in {<<"a">>, <<Nul>>}, v \in HttpsBytes}]

\* Header arrays: null, empty, one pair, a key sent twice, and odd lengths.
JArrays ==
    {JNull, <<>>} \cup {<<k, v>> : k \in JKeys, v \in JVals}
                 \cup {<<k, v, k2, v2>> : k, k2 \in JKeys, v, v2 \in JVals}
                 \cup {<<k>> : k \in JKeys} \cup {<<k, v, k>> : k \in JKeys, v \in JVals}

JavaSides ==
    [sdl : BOOLEAN, activity : BOOLEAN, loads : BOOLEAN, status : BOOLEAN, code : {200},
     headers : JArrays, body : {JNull, <<Nul, "a">>}]

(* The NUL bytes of a header survive request(): what LuaHTTPS.addHeader    *)
(* receives is, character for character, the request's header map once     *)
(* getStringUTF turns it back into bytes, however many NUL bytes a key or  *)
(* value holds (newStringUTF's replace has to catch every one before       *)
(* c_str() cuts the string at the first).                                  *)
HeadersSurviveJni ==
    x[1] = "https" =>
        LET r == Request(x[2], x[3]) IN
        r.kind = "reply" =>
            {<<GetStringUTF(p[1]), GetStringUTF(p[2])>> : p \in r.sent.headers}
                = {<<k, x[2].headers[k]>> : k \in DOMAIN x[2].headers}

(* The reply of a successful request holds, for every header key the Java *)
(* side returned, the value of the last pair with that key, and aborts    *)
(* only when the Java side broke the interleaved layout (a null or odd    *)
(* array); a failed request returns no headers and no body.               *)
ReplyHeadersLastWins ==
    x[1] = "https" =>
        LET r == Request(x[2], x[3])
            arr == x[3].headers
            pairs == IF arr = JNull THEN {} ELSE 1..(Len(arr) \div 2)
            last(k) == CHOOSE i \in pairs : GetStringUTF(arr[2 * i - 1]) = k /\
                         \A i2 \in pairs : GetStringUTF(arr[2 * i2 - 1]) = k => i2 <= i
        IN  /\ r.kind = "abort" <=>
                   ~x[3].sdl \/ (x[3].activity /\ x[3].loads /\ x[3].status /\ (arr = JNull \/ Len(arr) % 2 = 1))
            /\ r.kind = "reply" /\ x[3].status =>
                   /\ DOMAIN r.headers = {GetStringUTF(arr[2 * i - 1]) : i \in pairs}
                   /\ \A k \in DOMAIN r.headers : r.headers[k] = GetStringUTF(arr[2 * last(k)])
            /\ r.kind = "reply" /\ ~x[3].status => r.headers = [k \in {} |-> <<>>] /\ r.body = <<>>

-----------------------------------------------------------------------------
(* JointWrappers.                                                          *)

\* Proxies: each descriptor, live or released, with the joint valid or not.
JointProxies == [type : (DOMAIN JParent) \cup {NoType}, obj : {"obj", "null"}, valid : BOOLEAN]
\* Up to two arguments after the joint: a number, a boolean, a string.
JointArgs == Strings({LNum(50), [t |-> "boolean", n |-> 1, e |-> <<>>], [t |-> "string", n |-> 0, e |-> <<>>]}, 2)

(* A RevoluteJoint method reaches the Box2D joint exactly when its first   *)
(* argument is a RevoluteJoint Proxy whose object was not released and    *)
(* whose joint was not destroyed, and every argument it reads has its     *)
(* kind; a limit setter's exception comes back as a Lua error, never as a *)
(* call on a destroyed joint.  Reference: the descriptor is RevoluteJoint *)
(* itself (nothing derives from it) and the kinds are matched directly.   *)
JointCallsGuarded ==
    x[1] = "joint" =>
        LET m == x[2]  p == x[3]  args == x[4]
            kinds == RevoluteMethods[m]
            argsOk == \A i \in 1..Len(kinds) :
                        IF kinds[i] = "boolean" THEN Arg(args, i).t = "boolean" ELSE IsNum(Arg(args, i))
        IN  ("call" \in RevoluteCall(m, p, args)) <=>
                (p.type = "RevoluteJoint" /\ p.obj # "null" /\ p.valid /\ argsOk)

-----------------------------------------------------------------------------
(* ModPlugDecoder.                                                         *)

\* The constructor's loads: a big stream or not, probe and full load.
PlugStreams == [big : BOOLEAN, probe : BOOLEAN, full : BOOLEAN]
\* Calls with every answer of the library: a read of 0 or more samples, a
\* reload that fails or succeeds, an unknown or a known length.
PlugCalls ==
    {<<"decode", 0>>, <<"decode", 4>>, <<"seek", 0>>, <<"rewind", 0>>, <<"rewind", 1>>,
     <<"duration", -1>>, <<"duration", 3>>}

(* Whatever order a Source calls decode, seek, rewind and getDuration in,  *)
(* and whatever libmodplug answers, no ModPlug_* function is handed a null *)
(* handle: the constructor's two load checks and the destructor's null    *)
(* check are meant to keep every call of a constructed decoder on a      *)
(* loaded module.                                                          *)
NoNullHandleUse ==
    x[1] = "plug" => LET d == Life(x[2], x[3]) IN ~d.thrown => ~d.nullUse

-----------------------------------------------------------------------------
(* CatchExcept.                                                            *)

\* Messages of up to three characters, with '%' and a conversion letter.
CatchMessages == Strings({"a", "%", "s"}, 3)

(* The exception bridge luax_catchexcept (common/runtime.h): when         *)
(* lua_pushstring finds memory, a call runs the finally callback, if there *)
(* is one, exactly once, told whether the wrapped code threw, after the    *)
(* exception was destroyed and before the Lua error; the call returns      *)
(* normally exactly when nothing was thrown, and the Lua error carries     *)
(* what() as it was, '%' and all.                                          *)
CatchExceptContract ==
    x[1] = "catch" =>
        LET body == x[2]  msg == x[3]  hasFinally == x[5]
            ev == CatchExcept(body, msg, x[4], hasFinally)
            at(k) == {i \in 1..Len(ev) : ev[i][1] = k}
            last == ev[Len(ev)]
        IN  x[4] =>
            /\ Cardinality(at("finally")) = IF hasFinally THEN 1 ELSE 0
            /\ \A i \in at("finally") : ev[i][2] = (body = "throws")
            /\ \A i \in at("finally"), j \in at("unwind") \cup at("error") :
                   (ev[j][1] = "unwind" => j < i) /\ (ev[j][1] = "error" => i < j)
            /\ (last[1] = "return") = (body = "returns")
            /\ body = "throws" => last[1] = "error" /\ last[2] = msg

-----------------------------------------------------------------------------
(* Keyboard.                                                               *)

\* Every name and key lookup of MCKeyNames, as a call.
KeyboardCalls ==
    {<<"name", n>> : n \in MCNames} \cup {<<"key", <<k>>>> : k \in MCKeys}

(* After any sequence of the two getConstant lookups, every name handed    *)
(* out for a key is accepted back as that key: a script can pass the name  *)
(* love.keypressed gave it to love.keyboard.isDown, whichever names it    *)
(* looked up before and whether they were cached before keyToString was   *)
(* filled or after.                                                        *)
KeyNameRoundTrip ==
    x[1] = "keys" =>
        LET kb == Lookups(MCTable, x[2]) IN RoundTrips(kb.s2k, kb.k2s)

-----------------------------------------------------------------------------
(* ModuleLookup.                                                           *)

\* The descriptors a module lookup meets: the modules' types, whose parent
\* is Module::type, and a type of objects.
MParent == [filesystem |-> "Module", math |-> "Module", Module |-> "Object",
            File |-> "Object", Object |-> NullPtr]

\* Reference: the ancestry relation of MParent.
MAncestry ==
    ReflexiveTransitiveClosure([a, b \in DOMAIN MParent |-> MParent[a] = b], DOMAIN MParent)

(* Whatever REGISTRY_MODULES or an FFI Proxy pointer holds (a registered *)
(* module, another Proxy, a released one, a plain value or nothing):      *)
(* luax_getmodule returns the Proxy's object exactly when the Proxy's     *)
(* type descends from the requested one, and raises otherwise, so a       *)
(* released module is handed out as nullptr; luax_optmodule does the same *)
(* but returns nullptr for a missing entry; luax_ffi_checktype returns an *)
(* object only for a live Proxy of such a type.  Descent is the closure   *)
(* of the descriptors' parents.                                            *)
ModuleLookupTyped ==
    x[1] = "lookup" =>
        LET e == x[2]  want == x[3]
            typed == e.kind = "proxy" /\ MAncestry[e.type, want]
        IN  /\ GetModule(MParent, e, want) = IF typed THEN e.obj ELSE "error"
            /\ OptModule(MParent, e, want) =
                 IF e.kind # "proxy" THEN NullPtr ELSE IF typed THEN e.obj ELSE "error"
            /\ FfiCheckType(MParent, e, want) = IF typed /\ e.obj # NullPtr THEN e.obj ELSE NullPtr

-----------------------------------------------------------------------------
(* FileWrite.                                                              *)

\* Second arguments of love.filesystem.write: a Data or a string of 0 to 2
\* bytes, or a value of another type.
WriteInputs == [kind : {"data", "string", "other"}, size : 0..2]

\* Third arguments: none, or an integer below, at and above those sizes.
WriteCounts == {<<>>} \cup {<<n>> : n \in -1..3}

(* love.filesystem.write and append never read past the end of what they  *)
(* were given: the bytes handed to Filesystem::write lie inside the string *)
(* or the Data passed as the second argument.                              *)
WriteReadsWithinInput ==
    x[1] = "write" =>
        LET r == WriteOrAppendCount(x[2], x[3]) IN r.out = "write" => r.len <= r.size

-----------------------------------------------------------------------------
(* TableFields.                                                            *)

\* The names getConstant knows.
FieldConsts == {"x", "y"}

\* Keys: known and unknown names, a number key and a boolean key.
FieldKeys == [t : {"string"}, name : {"x", "y", "z"}]
             \cup {[t |-> "number", name |-> "1"], [t |-> "boolean", name |-> "true"]}

\* Arguments: every table over those keys, and a value that is no table.
FieldArgs == [t : {"table"}, keys : SUBSET FieldKeys] \cup {[t |-> "number", keys |-> {}]}

(* luax_checktablefields accepts a table exactly when all its keys are    *)
(* strings getConstant knows; otherwise, whatever order lua_next walks it *)
(* in, it raises a type error for a key that is no string and an enum     *)
(* error for an unknown name, and each bad key is reported in some order. *)
TableFieldsReportBadKey ==
    x[1] = "fields" =>
        LET arg == x[2]
            bad == {k \in arg.keys : k.t # "string" \/ k.name \notin FieldConsts}
            expected ==
                IF arg.t # "table" THEN {[res |-> "argerror"]}
                ELSE IF bad = {} THEN {Walked}
                ELSE {[res |-> IF k.t = "string" THEN "enumerror" ELSE "typerror", key |-> k] : k \in bad}
        IN CheckTableFields(arg, FieldConsts) = expected

-----------------------------------------------------------------------------
(* MountArgs.                                                              *)

MountW == INSTANCE MountArgs WITH Perms <- {"read", "readwrite"}, CommonPaths <- {"appsave"}

\* Values: each userdata kind, a string that is also a permission and a
\* common path name, one that is neither, a number, false and nil.
MountVals ==
    {[t |-> "data", s |-> ""], [t |-> "filedata", s |-> "f"], [t |-> "nativefile", s |-> "n"],
     [t |-> "string", s |-> "a"], [t |-> "string", s |-> "readwrite"], [t |-> "string", s |-> "appsave"],
     [t |-> "number", s |-> "1"], [t |-> "boolean", s |-> "false"], [t |-> "nil", s |-> ""]}

\* The overloads of love.filesystem.mount: the kinds of the first argument,
\* where the archive's name is read (1: the first argument, or a file's own
\* name), where the mountpoint is, and what the third argument must be.
MountOverloads ==
    {[first |-> {"data"}, name |-> 2, mp |-> 3, third |-> "any"],
     [first |-> {"filedata"}, name |-> 2, mp |-> 3, third |-> "string"],
     [first |-> {"filedata"}, name |-> 1, mp |-> 2, third |-> "other"],
     [first |-> {"nativefile", "string", "number"}, name |-> 1, mp |-> 2, third |-> "any"]}

Applies(o, st) ==
    /\ MountW!ArgAt(st, 1).t \in o.first
    /\ o.third = "any" \/ (o.third = "string") = MountW!IsStr(MountW!ArgAt(st, 3))

\* The call the overload that applies makes, or the error at its first bad
\* argument.
OverloadCall(st) ==
    IF \E o \in MountOverloads : Applies(o, st)
    THEN LET o == CHOOSE o \in MountOverloads : Applies(o, st)
             bad == MountW!FirstNonString(st, {o.name, o.mp} \ {1})
         IN IF bad # 0 THEN MountW!ArgError(bad)
            ELSE [call |-> IF o.first \subseteq {"data", "filedata"} THEN "mountData" ELSE "mount",
                  archive |-> MountW!ArgAt(st, o.name).s, mountpoint |-> MountW!ArgAt(st, o.mp).s,
                  append |-> MountW!OptBoolean(MountW!ArgAt(st, o.mp + 1), FALSE)]
    ELSE MountW!ArgError(1)

(* love.filesystem.mount reads its arguments as the overload that applies *)
(* to them does, the FileData overloads told apart by the third argument; *)
(* what it mounted, unmount with the same Data, or with the archive's name *)
(* for a path, unmounts; mountFullPath and mountCommonPath mount for       *)
(* reading unless given a permission name, and refuse any other.           *)
MountReadsOverloads ==
    x[1] = "mount" =>
        LET st == x[2]
            r == MountW!Mount(st)
            fp == MountW!MountFullPath(st)
            p3 == MountW!ArgAt(st, 3)
        IN /\ r = OverloadCall(st)
           /\ r.call = "mountData" => MountW!Unmount("unmount", <<st[1]>>) = [call |-> "unmountData", archive |-> st[1].s]
           /\ r.call = "mount" =>
                MountW!Unmount("unmount", <<[t |-> "string", s |-> r.archive]>>) = [call |-> "unmount", archive |-> r.archive]
           /\ fp.call = "mountFullPath" =>
                fp.perm = IF p3.t \in {"none", "nil"} THEN "read" ELSE p3.s
           /\ MountW!IsStr(st[1]) /\ MountW!IsStr(MountW!ArgAt(st, 2)) /\ p3.t \in {"none", "nil"} =>
                fp.call = "mountFullPath" /\ (st[1].s = "appsave" => MountW!MountCommonPath(st).call = "mountCommonPath")

-----------------------------------------------------------------------------
(* GetInfo.                                                                *)

GI == INSTANCE GetInfo WITH FileTypes <- {"file", "directory"}, SizeCap <- 4

\* A table, empty or left over from an earlier call on another path.
InfoTables ==
    {[t |-> "table", s |-> "", f |-> [n \in GI!InfoFields |-> <<>>]],
     [t |-> "table", s |-> "", f |-> [type |-> <<"directory">>, readonly |-> <<TRUE>>, size |-> <<3>>, modtime |-> <<3>>]]}

InfoStr(s) == [t |-> "string", s |-> s, f |-> [n \in GI!InfoFields |-> <<>>]]

\* Every documented form, getInfo(path [, filtertype] [, table]), and
\* calls with a number for the path, an unknown type name or nil between.
InfoStacks ==
    {<<p>> : p \in {InfoStr("p"), [InfoStr("1") EXCEPT !.t = "number"], [InfoStr("") EXCEPT !.t = "nil"]}}
    \cup {<<InfoStr("p"), a>> : a \in {InfoStr("file"), InfoStr("directory"), InfoStr("link")} \cup InfoTables}
    \cup {<<InfoStr("p"), a, tb>> : a \in {InfoStr("file"), [InfoStr("") EXCEPT !.t = "nil"]}, tb \in InfoTables}

\* What Filesystem::getInfo reports: sizes and times unknown, small, or
\* beyond what a double holds exactly (5 > SizeCap); a type with no name.
InfoReports ==
    [exists : BOOLEAN, type : {"file", "directory", "bogus"}, readonly : BOOLEAN,
     size : {-1, 2, 5}, modtime : {-1, 4}]

(* For a string path, a known filter and a type that has a name,          *)
(* love.filesystem.getInfo returns nil exactly when the path does not     *)
(* exist or is not of the filter's type; otherwise it returns the table   *)
(* passed as the last argument of the documented forms (a new one if      *)
(* none), whose type and readonly are this path's, and a new table holds  *)
(* a size or modtime exactly when the path has one.                        *)
GetInfoDescribesPath ==
    x[1] = "info" =>
        LET st == x[2]
            info == x[3]
            r == GI!GetInfoCall(st, info)
            filter == IF Len(st) >= 2 /\ st[2].t = "string" THEN <<st[2].s>> ELSE <<>>
        IN /\ st[1].t = "string"
           /\ filter = <<>> \/ filter[1] \in {"file", "directory"}
           /\ info.type # "bogus"
           /\ Len(st) = 3 => st[2].t = "string"
           => /\ r.res = "nil" <=> ~info.exists \/ (filter # <<>> /\ filter[1] # info.type)
              /\ r.res # "nil" =>
                   /\ r.res = "passed" <=> st[Len(st)].t = "table"
                   /\ r.f.type = <<info.type>> /\ r.f.readonly = <<info.readonly>>
                   /\ r.res = "new" => \A n \in {"size", "modtime"} : (r.f[n] = <<>>) <=> info[n] < 0

-----------------------------------------------------------------------------
(* Inputs.                                                                 *)

MCSubs == {<<"?">>, <<"?", "?">>}
MCReps == {<<>>, <<"a">>, <<"?">>, <<"a", "?", "a">>}

-----------------------------------------------------------------------------
(* Every input is an initial state, and no step changes it.               *)

Init ==
    x \in ({"path"} \X Strings(Chars \cup {Sep}, MaxLen))
          \cup ({"list"} \X Strings(Strings(Chars, 2), 3))
          \cup ({"replace"} \X (Strings(Chars, MaxLen) \X Subs \X Reps))
          \cup ({"rpath"} \X Strings(Chars \cup {"/", Sep}, MaxLen))
          \cup ({"bmline"} \X ({"char", "page"} \X PairLists))
          \cup ({"font"} \X BF!Fonts)
          \cup ({"stack"} \X Stacks)
          \cup ({"https"} \X Requests \X JavaSides)
          \cup ({"plug"} \X PlugStreams \X Strings(PlugCalls, 3))
          \cup ({"lookup"} \X Entries(DOMAIN MParent) \X DOMAIN MParent)
          \cup ({"write"} \X WriteInputs \X WriteCounts)
          \cup ({"keys"} \X Strings(KeyboardCalls, 4))
          \cup ({"catch"} \X {"returns", "throws"} \X CatchMessages \X BOOLEAN \X BOOLEAN)
          \cup ({"fields"} \X FieldArgs)
          \cup ({"info"} \X InfoStacks \X InfoReports)
          \cup ({"mount"} \X (Strings(MountVals, 4) \ {<<>>}))
          \cup ({"joint"} \X (DOMAIN RevoluteMethods) \X JointProxies \X JointArgs)

Next == UNCHANGED x

=============================================================================
