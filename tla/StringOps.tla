----------------------------- MODULE StringOps -----------------------------
(***************************************************************************)
(* The string routines of wrap_Filesystem.cpp: splitting a require path    *)
(* on ';' with std::getline (w_setRequirePath), joining it back            *)
(* (w_getRequirePath), and replaceAll, which finds every non-overlapping  *)
(* occurrence from the left and then replaces them from the last to the    *)
(* first.  A string is a sequence of characters.                           *)
(***************************************************************************)
EXTENDS Naturals, Sequences, SequencesExt

Sep == ";"

RECURSIVE SplitFromKeepLast(_, _, _)
(* Mutant of SplitFrom: the field at the end of the string is produced     *)
(* even when it is empty.                                                  *)
SplitFromKeepLast(s, cur, acc) ==
    IF s = <<>> THEN Append(acc, cur)
    ELSE IF Head(s) = Sep THEN SplitFromKeepLast(Tail(s), <<>>, Append(acc, cur))
    ELSE SplitFromKeepLast(Tail(s), Append(cur, Head(s)), acc)

RECURSIVE SplitFrom(_, _, _)
(* The std::getline loop of w_setRequirePath: a ';' ends the field read so *)
(* far, empty or not; at the end of the string a field is produced only if *)
(* some character was read, since getline fails when it extracts nothing.  *)
SplitFrom(s, cur, acc) ==
    IF s = <<>> THEN (IF cur = <<>> THEN acc ELSE Append(acc, cur))
    ELSE IF Head(s) = Sep THEN SplitFrom(Tail(s), <<>>, Append(acc, cur))
    ELSE SplitFrom(Tail(s), Append(cur, Head(s)), acc)

Split(s) == SplitFrom(s, <<>>, <<>>)

(* Mutant of Join: the flag that puts ';' before every element but the     *)
(* first is never set, so no separator is written.                         *)
JoinNoSep(p) == FoldLeft(LAMBDA acc, e : acc \o e, <<>>, p)

(* Mutant of Join: a separator after every element, not between them.     *)
JoinTerminated(p) == FoldLeft(LAMBDA acc, e : acc \o e \o <<Sep>>, <<>>, p)

(* The loop of w_getRequirePath: the elements with ';' between them.       *)
Join(p) ==
    IF p = <<>> THEN <<>>
    ELSE FoldLeft(LAMBDA acc, e : acc \o <<Sep>> \o e, Head(p), Tail(p))

\* std::string::find from 1-based position pos: the first index, or 0.
Find(str, sub, pos) ==
    LET hits == {i \in pos..(Len(str) - Len(sub) + 1) :
                    SubSeq(str, i, i + Len(sub) - 1) = sub}
    IN  IF hits = {} THEN 0 ELSE CHOOSE i \in hits : \A j \in hits : i <= j

RECURSIVE Locations(_, _, _)
\* The first loop of replaceAll: each match, searching on after its end.
Locations(str, sub, pos) ==
    LET i == Find(str, sub, pos) IN
    IF i = 0 THEN <<>> ELSE <<i>> \o Locations(str, sub, i + Len(sub))

\* std::string::replace of the Len(sub) characters at i.
ReplaceAt8(str, i, n, rep) == SubSeq(str, 1, i - 1) \o rep \o SubSeq(str, i + n, Len(str))

(* Mutant of ReplaceAllStr: the matches are replaced from the first to the    *)
(* last, at the positions found in the unmodified string.                  *)
ReplaceAllForward(str, sub, rep) ==
    FoldLeft(LAMBDA acc, i : ReplaceAt8(acc, i, Len(sub), rep), str, Locations(str, sub, 1))

(* replaceAll: collect the matches, then replace from the last one back,   *)
(* so each earlier position is still valid when its turn comes.  sub is    *)
(* never empty at a call site ("?" or "??").                               *)
ReplaceAllStr(str, sub, rep) ==
    FoldRight(LAMBDA i, acc : ReplaceAt8(acc, i, Len(sub), rep), Locations(str, sub, 1), str)

=============================================================================
