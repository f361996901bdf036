---------------------------- MODULE RequirePath ----------------------------
(***************************************************************************)
(* The require paths of love.filesystem and the two searchers that use     *)
(* them (wrap_Filesystem.cpp): w_setRequirePath / w_setCRequirePath,       *)
(* w_getRequirePath / w_getCRequirePath, loader (Lua modules) and          *)
(* extloader (C libraries).  Strings are sequences of one-character        *)
(* strings; the file system is fixed: which paths are files, which of      *)
(* them SDL_LoadObject opens, and which of those export the open function. *)
(***************************************************************************)
EXTENDS Naturals, Sequences, SequencesExt, StringOps

CONSTANTS
    PathStrings,  \* strings a script passes to setRequirePath/setCRequirePath
    Modules,      \* module names a script requires
    Exts,         \* library_extensions, in order
    Files,        \* paths for which getInfo succeeds and is not a directory
    Loadable,     \* paths SDL_LoadObject opens
    Exporting,    \* paths whose library has loveopen_<f> or luaopen_<f>
    InitPath,     \* the require path the Filesystem module starts with
    InitCPath     \* the C require path the Filesystem module starts with

VARIABLES
    requirePath,   \* Filesystem::getRequirePath()
    cRequirePath,  \* Filesystem::getCRequirePath()
    result,        \* what the last call returned to Lua
    req            \* ghost: the module name of the last search

vars == <<requirePath, cRequirePath, result, req>>

Q == <<"?">>

\* The module name with every '.' made a '/' (the loops of both searchers).
Tokenized(m) == ReplaceAll(m, ".", "/")

Init ==
    /\ requirePath = InitPath
    /\ cRequirePath = InitCPath
    /\ result = <<"none">>
    /\ req = <<>>

SetRequirePath(s) ==
    /\ requirePath' = Split(s)
    /\ result' = <<"none">>
    /\ UNCHANGED <<cRequirePath, req>>

SetCRequirePath(s) ==
    /\ cRequirePath' = Split(s)
    /\ result' = <<"none">>
    /\ UNCHANGED <<requirePath, req>>

GetRequirePath ==
    /\ result' = <<"path", Join(requirePath)>>
    /\ UNCHANGED <<requirePath, cRequirePath, req>>

GetCRequirePath ==
    /\ result' = <<"path", Join(cRequirePath)>>
    /\ UNCHANGED <<requirePath, cRequirePath, req>>

\* The path loader takes for module m under the require path rp, or <<>>.
LoaderPath(rp, m) ==
    LET cands == [i \in 1..Len(rp) |-> ReplaceAllStr(rp[i], Q, Tokenized(m))]
        i == SelectInSeq(cands, LAMBDA c : c \in Files)
    IN  IF i = 0 THEN <<>> ELSE cands[i]

(* loader: the first element, with each '?' made the tokenized name, that  *)
(* is a file is loaded with w_load (the deprecation notice for a '/' in    *)
(* the name is left out); otherwise the "no '...'" message.                *)
Loader(m) ==
    /\ result' = IF LoaderPath(requirePath, m) = <<>> THEN <<"notfound">>
                 ELSE <<"load", LoaderPath(requirePath, m)>>
    /\ req' = m
    /\ UNCHANGED <<requirePath, cRequirePath>>

\* One candidate of extloader: "??" made name and extension, then '?' the name.
ExtCandidate(el, ext, tok) == ReplaceAllStr(ReplaceAllStr(el, Q \o Q, tok \o ext), Q, tok)

\* Every (element, extension) pair in the order of the two nested loops.
ExtTries(cp, tok) ==
    LET n == Len(Exts) IN
    [k \in 1..(Len(cp) * n) |-> ExtCandidate(cp[(k - 1) \div n + 1], Exts[((k - 1) % n) + 1], tok)]

(* extloader (not on Android): the first candidate that is a file and that *)
(* SDL_LoadObject opens ends both loops; a file it cannot open adds to the *)
(* error and the search goes on.  Then the open function is looked up, and *)
(* a library without it is unloaded and reported incompatible.             *)
ExtLoader(m) ==
    LET tries == ExtTries(cRequirePath, Tokenized(m))
        i == SelectInSeq(tries, LAMBDA c : c \in Files /\ c \in Loadable)
    IN  /\ result' = IF i = 0 THEN <<"notfound">>
                     ELSE IF tries[i] \in Exporting THEN <<"func", tries[i]>>
                     ELSE <<"incompatible", tries[i]>>
        /\ req' = m
        /\ UNCHANGED <<requirePath, cRequirePath>>

Next ==
    \/ \E s \in PathStrings : SetRequirePath(s) \/ SetCRequirePath(s)
    \/ GetRequirePath \/ GetCRequirePath
    \/ \E m \in Modules : Loader(m) \/ ExtLoader(m)

Spec == Init /\ [][Next]_vars

-----------------------------------------------------------------------------
(* Properties.                                                             *)

(* The idiom love.filesystem.setRequirePath(love.filesystem.getRequirePath()*)
(* .. ";x/?.lua") keeps every module resolving to the file it resolved to  *)
(* before under the require path rp, unless that module was not found: the *)
(* string round trip through getline and the ';' join never reorders,      *)
(* merges or splits elements.                                               *)
KeepsResolution(rp) ==
    \A m \in Modules, x \in PathStrings :
        LET rp2 == Split(Join(rp) \o <<Sep>> \o x) IN
        LoaderPath(rp, m) # <<>> => LoaderPath(rp2, m) = LoaderPath(rp, m)

RECURSIVE Instantiate(_, _, _)
\* Lua's package.searchpath style substitution: one left-to-right pass over
\* the template, "??" giving name and extension and '?' the name.
Instantiate(el, tok, ext) ==
    IF el = <<>> THEN <<>>
    ELSE IF Len(el) >= 2 /\ SubSeq(el, 1, 2) = Q \o Q THEN tok \o ext \o Instantiate(SubSeq(el, 3, Len(el)), tok, ext)
    ELSE IF Head(el) = "?" THEN tok \o Instantiate(Tail(el), tok, ext)
    ELSE <<Head(el)>> \o Instantiate(Tail(el), tok, ext)

(* extloader's comments: "Replace ?? with the filename and extension" and  *)
(* "And ? with just the filename".  Every path it loads is the C require   *)
(* path element with exactly those substitutions made in the template,    *)
(* for the name that was required.                                          *)
ExtLoaderTriesTemplate ==
    result[1] \in {"func", "incompatible"} =>
        \E i \in 1..Len(cRequirePath), j \in 1..Len(Exts) :
            result[2] = Instantiate(cRequirePath[i], Tokenized(req), Exts[j])

=============================================================================
