------------------------------- MODULE BMFont -------------------------------
(***************************************************************************)
(* The BMFont text-format parser of love::font::BMFontRasterizer          *)
(* (modules/font/BMFontRasterizer.cpp): BMFontLine's tokenizer of one      *)
(* "tag key=value ..." line, parseConfig's pass over the lines and its     *)
(* verification of the characters, and getGlyphDataForIndex, which copies  *)
(* a character's rectangle out of its page image.                          *)
(*                                                                         *)
(* A line is a sequence of symbols.  The separators the tokenizer looks    *)
(* for (" ", "=", the quote), the sign and the digits are one character    *)
(* each; a tag, a key or a file name, which the tokenizer only copies, is  *)
(* one symbol.  Positions are the code's 0-based size_t offsets.           *)
(***************************************************************************)
EXTENDS Integers, Sequences, SequencesExt, FiniteSets

\* std::string::npos; any value above every line length acts the same,
\* since the code only subtracts one from it and clamps with std::min.
Npos == 1000

Quote == "\""

\* std::string::find(c, pos) and rfind(c, pos).
FindChar(s, c, pos) ==
    LET hits == {i \in pos..(Len(s) - 1) : s[i + 1] = c}
    IN  IF hits = {} THEN Npos ELSE CHOOSE i \in hits : \A j \in hits : i <= j
RFindChar(s, c, pos) ==
    LET hits == {i \in 0..(IF pos < Len(s) THEN pos ELSE Len(s) - 1) : s[i + 1] = c}
    IN  IF hits = {} THEN Npos ELSE CHOOSE i \in hits : \A j \in hits : i >= j

\* std::string::substr(pos, n), the count cut at the end of the string.
Substr(s, pos, n) == SubSeq(s, pos + 1, IF pos + n < Len(s) THEN pos + n ELSE Len(s))

\* BMFontLine::tag: everything before the first space.
LineTag(line) == Substr(line, 0, FindChar(line, " ", 0))

RECURSIVE AttrLoopQuoteKept(_, _, _)
(* Mutant of AttrLoop: a quoted value runs up to and including its        *)
(* closing quote (the "- 1" after the find is lost).                        *)
AttrLoopQuoteKept(line, sp, attrs) ==
    LET fpos == FindChar(line, "=", sp)
        ks == RFindChar(line, " ", fpos)
        quoted == line[fpos + 2] = Quote
        vs == IF quoted THEN fpos + 2 ELSE fpos + 1
        ve0 == IF quoted THEN FindChar(line, Quote, vs)
               ELSE FindChar(line, " ", vs + 1) - 1
        ve == IF ve0 < Len(line) - 1 THEN ve0 ELSE Len(line) - 1
    IN  IF sp >= Len(line) \/ fpos = Npos \/ fpos + 1 >= Len(line) \/ ks = Npos THEN attrs
        ELSE AttrLoopQuoteKept(line, ve + 1,
                      (Substr(line, ks + 1, fpos - (ks + 1)) :> Substr(line, vs, ve - vs + 1)) @@ attrs)

RECURSIVE AttrLoop(_, _, _)
(* The loop of BMFontLine's constructor, from startpos sp: the next '='    *)
(* that has a character after it, the key back to the last space before   *)
(* it, and the value either up to the next quote (when it opens with one)  *)
(* or up to the next space after its first character; a later key         *)
(* overwrites an earlier one.                                              *)
AttrLoop(line, sp, attrs) ==
    LET fpos == FindChar(line, "=", sp)
        ks == RFindChar(line, " ", fpos)
        quoted == line[fpos + 2] = Quote
        vs == IF quoted THEN fpos + 2 ELSE fpos + 1
        ve0 == IF quoted THEN FindChar(line, Quote, vs) - 1
               ELSE FindChar(line, " ", vs + 1) - 1
        ve == IF ve0 < Len(line) - 1 THEN ve0 ELSE Len(line) - 1
    IN  IF sp >= Len(line) \/ fpos = Npos \/ fpos + 1 >= Len(line) \/ ks = Npos THEN attrs
        ELSE AttrLoop(line, ve + 1,
                      (Substr(line, ks + 1, fpos - (ks + 1)) :> Substr(line, vs, ve - vs + 1)) @@ attrs)

Attributes(line) == AttrLoop(line, 0, [k \in {} |-> <<>>])

Digits == <<"0", "1", "2", "3", "4", "5", "6", "7", "8", "9">>
DigitOf(c) == CHOOSE i \in 1..10 : Digits[i] = c
IsDigit(c) == \E i \in 1..10 : Digits[i] = c

RECURSIVE DigitRun(_, _)
DigitRun(s, acc) == IF s # <<>> /\ IsDigit(Head(s)) THEN DigitRun(Tail(s), acc * 10 + DigitOf(Head(s)) - 1) ELSE acc

RECURSIVE SkipSpaces(_)
SkipSpaces(s) == IF s # <<>> /\ Head(s) = " " THEN SkipSpaces(Tail(s)) ELSE s

(* strtol(s, nullptr, 10) on the short values of the model (no overflow):  *)
(* leading spaces, a sign, then the longest run of digits; 0 if none.      *)
Strtol(s) ==
    LET u == SkipSpaces(s) IN
    CASE u # <<>> /\ Head(u) = "-" -> 0 - DigitRun(Tail(u), 0)
      [] u # <<>> /\ Head(u) = "+" -> DigitRun(Tail(u), 0)
      [] OTHER -> DigitRun(u, 0)

\* getAttributeInt and getAttributeString: 0 and "" for a missing key.
AttrInt(a, k) == IF <<k>> \in DOMAIN a THEN Strtol(a[<<k>>]) ELSE 0
AttrString(a, k) == IF <<k>> \in DOMAIN a THEN a[<<k>>] ELSE <<>>

(* The (uint32) casts of character and kerning ids.  TLC's integers stop   *)
(* at 2^31 - 1, so a negative id n becomes 2^31 + n instead of 2^32 + n:   *)
(* like the real value, it is above every ASCII id and distinct per n.     *)
U32(n) == IF n >= 0 THEN n ELSE 2147483647 + n + 1

\* The null character parseConfig pushes first, at index 0.
NullChar == [x |-> 0, y |-> 0, page |-> -1, width |-> 0, height |-> 0, advance |-> 0, glyph |-> 0]

(* parseConfig's state before the first line: the page images passed to   *)
(* the constructor (page -> [w, h]) and the null character.                 *)
Start(given) ==
    [ok |-> TRUE, fontSize |-> 0, unicode |-> FALSE, lineHeight |-> 0, ascent |-> 0,
     descent |-> 0, advance |-> 0, images |-> given, chars |-> <<NullChar>>,
     indices |-> (0 :> 0), kerning |-> [k \in {} |-> 0]]

(* One iteration of parseConfig's getline loop, by tag.  A page whose      *)
(* image is missing is read through the Filesystem module (disk: file name *)
(* -> [w, h]); a read of a file that is not there throws.                  *)
ParseLine(f, line, disk) ==
    LET a == Attributes(line)
        tag == LineTag(line)
        c == [x |-> AttrInt(a, "x"), y |-> AttrInt(a, "y"), page |-> AttrInt(a, "page"),
              width |-> AttrInt(a, "width"), height |-> AttrInt(a, "height"),
              advance |-> AttrInt(a, "xadvance"), glyph |-> U32(AttrInt(a, "id"))]
        pg == AttrInt(a, "id")
        file == AttrString(a, "file")
    IN  CASE ~f.ok -> f
          [] tag = <<"info">> ->
               [f EXCEPT !.fontSize = AttrInt(a, "size"), !.unicode = AttrInt(a, "unicode") > 0]
          [] tag = <<"common">> ->
               [f EXCEPT !.lineHeight = AttrInt(a, "lineHeight"), !.ascent = AttrInt(a, "base"),
                         !.descent = AttrInt(a, "base") - AttrInt(a, "lineHeight")]
          [] tag = <<"page">> /\ pg \in DOMAIN f.images -> f
          [] tag = <<"page">> /\ file \in DOMAIN disk ->
               [f EXCEPT !.images = (pg :> disk[file]) @@ f.images]
          [] tag = <<"page">> -> [f EXCEPT !.ok = FALSE]
          [] tag = <<"char">> ->
               [f EXCEPT !.chars = Append(f.chars, c), !.indices = (c.glyph :> Len(f.chars)) @@ f.indices,
                         !.advance = IF c.advance > f.advance THEN c.advance ELSE f.advance]
          [] tag = <<"kerning">> ->
               [f EXCEPT !.kerning = (<<U32(AttrInt(a, "first")), U32(AttrInt(a, "second"))>> :> AttrInt(a, "amount")) @@ f.kerning]
          [] OTHER -> f

\* image::ImageData::inside.
Inside(img, x, y) == 0 <= x /\ x < img.w /\ 0 <= y /\ y < img.h

\* Mutant of CharValid: the width of a character is not checked.
CharValidNoWidth(f, c) ==
    /\ f.unicode \/ c.glyph <= 127
    /\ c.page >= 0 /\ c.page \in DOMAIN f.images
    /\ Inside(f.images[c.page], c.x, c.y)
    /\ c.height > 0 => Inside(f.images[c.page], c.x, c.y + c.height - 1)

(* The checks of the verification loop for one character other than the  *)
(* null glyph: ASCII unless unicode, a page with an image, the origin     *)
(* inside it, and the last column and row inside it when the width or the *)
(* height is positive.                                                     *)
CharValid(f, c) ==
    /\ f.unicode \/ c.glyph <= 127
    /\ c.page >= 0 /\ c.page \in DOMAIN f.images
    /\ Inside(f.images[c.page], c.x, c.y)
    /\ c.width > 0 => Inside(f.images[c.page], c.x + c.width - 1, c.y)
    /\ c.height > 0 => Inside(f.images[c.page], c.x, c.y + c.height - 1)

(* After the loop: no characters throws (never, the null character is     *)
(* always there); every character but glyph 0 is verified; a missing line *)
(* height becomes the tallest verified character.                          *)
Verify(f) ==
    LET checked == {i \in 1..Len(f.chars) : f.chars[i].glyph # 0}
        tallest == {f.chars[i].height : i \in checked} \cup {f.lineHeight}
    IN  IF ~f.ok \/ Len(f.chars) = 0 \/ \E i \in checked : ~CharValid(f, f.chars[i])
        THEN [f EXCEPT !.ok = FALSE]
        ELSE IF f.lineHeight = 0 THEN [f EXCEPT !.lineHeight = CHOOSE h \in tallest : \A g \in tallest : g <= h]
        ELSE f

(* The constructor: the images passed in, then parseConfig over the lines  *)
(* std::getline splits the file into.                                      *)
ParseConfig(lines, given, disk) ==
    Verify(FoldLeft(LAMBDA f, l : ParseLine(f, l, disk), Start(given), lines))

\* getGlyphIndex: the index of a glyph's character, 0 when there is none.
GlyphIndex(f, g) == IF g \in DOMAIN f.indices THEN f.indices[g] ELSE 0

(* The bytes getGlyphDataForIndex reads from the page image: for each of   *)
(* the character's rows, width pixels from column x (a memcpy whose size   *)
(* is pixelsize * width converted to size_t).  Nothing is read for an     *)
(* index out of range or a page without an image.                           *)
CopyInBounds(f, index) ==
    LET c == f.chars[index + 1] IN
    \/ index < 0 \/ index >= Len(f.chars)
    \/ c.page \notin DOMAIN f.images
    \/ c.height <= 0 \/ c.width = 0
    \/ /\ c.width > 0 /\ c.x >= 0 /\ c.y >= 0
       /\ c.x + c.width <= f.images[c.page].w
       /\ c.y + c.height <= f.images[c.page].h

=============================================================================
