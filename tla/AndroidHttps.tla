---------------------------- MODULE AndroidHttps ----------------------------
(***************************************************************************)
(* The Android backend of lua-https (AndroidClient.cpp): the replace       *)
(* routine, the encoding of NUL bytes as the modified UTF-8 pair C0 80     *)
(* that JNI strings need, valid(), getHTTPSClass() and request(), which    *)
(* drives the Java class org.love2d.luahttps.LuaHTTPS through JNI.         *)
(*                                                                         *)
(* A byte string is a sequence of the byte names "a", "b", Nul, "xC0" and  *)
(* "x80"; a Java string is a sequence of characters, U0 for U+0000.  What  *)
(* the Java side does is an input: a record j whose fields say whether     *)
(* there is an activity, whether the class loads, what request() returns, *)
(* the response code, the interleaved header array (JNull for null) and    *)
(* the response bytes (JNull for null); sdl says whether the two SDL entry *)
(* points were found and return a JNIEnv.                                  *)
(***************************************************************************)
EXTENDS Naturals, Sequences, SequencesExt, StringOps

Nul == "nul"
U0 == "U+0000"
CONSTANT JNull   \* Java null: a header array or a response body that is not there

Mod0 == <<"xC0", "x80">>   \* the modified UTF-8 encoding of U+0000

RECURSIVE ReplaceFrom(_, _, _, _)
(* The loop of replace(): copy up to the next match of from at or after    *)
(* oldpos, write to, and go on after the match; at no match, copy the rest. *)
ReplaceFrom(str, from, to, oldpos) ==
    LET pos == Find(str, from, oldpos) IN
    IF pos = 0 THEN SubSeq(str, oldpos, Len(str))
    ELSE SubSeq(str, oldpos, pos - 1) \o to \o ReplaceFrom(str, from, to, pos + Len(from))

\* Mutant of Replace: the loop breaks after the first match.
ReplaceOnce(str, from, to) ==
    LET pos == Find(str, from, 1) IN
    IF pos = 0 THEN str ELSE SubSeq(str, 1, pos - 1) \o to \o SubSeq(str, pos + Len(from), Len(str))

Replace(str, from, to) == ReplaceFrom(str, from, to, 1)

\* What a C API reads of a std::string through c_str(): up to the first NUL.
CStr(s) == LET i == SelectInSeq(s, LAMBDA c : c = Nul) IN IF i = 0 THEN s ELSE SubSeq(s, 1, i - 1)

RECURSIVE JavaDecode(_)
\* JNI NewStringUTF: modified UTF-8 to characters (C0 80 is U+0000).
JavaDecode(b) ==
    IF b = <<>> THEN <<>>
    ELSE IF Len(b) >= 2 /\ SubSeq(b, 1, 2) = Mod0 THEN <<U0>> \o JavaDecode(SubSeq(b, 3, Len(b)))
    ELSE <<Head(b)>> \o JavaDecode(Tail(b))

\* JNI GetStringUTFChars: characters to modified UTF-8, NUL-terminated.
JavaEncode(j) == FoldLeft(LAMBDA acc, c : acc \o (IF c = U0 THEN Mod0 ELSE <<c>>), <<>>, j)

\* newStringUTF: every NUL byte becomes C0 80, then NewStringUTF(c_str()).
NewStringUTF(s) == JavaDecode(CStr(Replace(s, <<Nul>>, Mod0)))

\* getStringUTF: the chars JNI hands back, with every C0 80 made a NUL again.
GetStringUTF(j) == Replace(CStr(JavaEncode(j)), Mod0, <<Nul>>)

(* getHTTPSClass: nullptr with no exception when there is no activity; the *)
(* result of ClassLoader.loadClass otherwise, null with a pending          *)
(* ClassNotFoundException when the class is missing.                       *)
HTTPSClass(j) ==
    CASE ~j.activity -> [cls |-> FALSE, exc |-> FALSE]
      [] ~j.loads    -> [cls |-> FALSE, exc |-> TRUE]
      [] OTHER       -> [cls |-> TRUE, exc |-> FALSE]

(* valid(): both SDL entry points found and a JNIEnv, then getHTTPSClass;  *)
(* a pending exception makes it false, anything else true.                 *)
Valid(j) == j.sdl /\ ~HTTPSClass(j).exc

\* Mutant of AssignHeader: std::map::insert, which keeps the first value.
InsertHeader(h, k, v) == IF k \in DOMAIN h THEN h ELSE (k :> v) @@ h

\* response.headers[key] = value: a later value for a key replaces it.
AssignHeader(h, k, v) == (k :> v) @@ h

(* The header loop of request(): for i = 0, 2, ... < len, the elements i   *)
(* and i + 1 through getStringUTF.  An odd length reads past the end:      *)
(* GetObjectArrayElement throws and returns null, and GetStringUTFChars    *)
(* on null aborts.  A null array aborts at GetArrayLength.                 *)
ReadHeaders(arr) ==
    IF arr = JNull \/ Len(arr) % 2 = 1 THEN JNull
    ELSE FoldLeft(LAMBDA h, i : AssignHeader(h, GetStringUTF(arr[2 * i - 1]), GetStringUTF(arr[2 * i])),
                  [k \in {} |-> <<>>], [i \in 1..(Len(arr) \div 2) |-> i])

(* request(): throw when the class is missing; otherwise what the Java     *)
(* object is sent (url through c_str() only, the post data as bytes, every *)
(* header through newStringUTF, in std::map order) and the reply: the      *)
(* response code always, headers and body only when request() returned     *)
(* true; "abort" for a JNI call on null (request() calls                    *)
(* SDL_AndroidGetJNIEnv without the check valid() makes).                   *)
Request(req, j) ==
    LET sent == [url |-> JavaDecode(CStr(req.url)),
                 post |-> IF req.method = "POST" THEN req.postdata ELSE JNull,
                 headers |-> {<<NewStringUTF(k), NewStringUTF(req.headers[k])>> : k \in DOMAIN req.headers}]
        hs == ReadHeaders(j.headers)
    IN  CASE ~j.sdl -> [kind |-> "abort"]
          [] ~HTTPSClass(j).cls -> [kind |-> "throw"]
          [] ~j.status -> [kind |-> "reply", sent |-> sent, code |-> j.code,
                           headers |-> [k \in {} |-> <<>>], body |-> <<>>]
          [] hs = JNull -> [kind |-> "abort"]
          [] OTHER -> [kind |-> "reply", sent |-> sent, code |-> j.code, headers |-> hs,
                       body |-> IF j.body = JNull THEN <<>> ELSE j.body]

=============================================================================
