------------------------------ MODULE MCBMFont ------------------------------
(***************************************************************************)
(* BMFont definition files for the parser: a writer of "tag key=value"     *)
(* lines as the BMFont tools emit them, and fonts of one page image, 2 by  *)
(* 2 pixels, passed to the constructor or read from disk, with one or two  *)
(* characters whose id, x and width vary.  x is the font under test.       *)
(***************************************************************************)
EXTENDS BMFont

VARIABLE x

RECURSIVE Decimal(_)
Decimal(n) == IF n < 10 THEN <<Digits[n + 1]>> ELSE Decimal(n \div 10) \o <<Digits[(n % 10) + 1]>>

\* An integer written in decimal.
Num(n) == IF n < 0 THEN <<"-">> \o Decimal(0 - n) ELSE Decimal(n)

\* " key=value" and a line of a tag followed by its pairs.
Pair(k, v) == <<" ", k, "=">> \o v
LineOf(tag, pairs) == FoldLeft(LAMBDA l, p : l \o Pair(p[1], p[2]), <<tag>>, pairs)

Page == [w |-> 2, h |-> 2]

CharLine(c) ==
    LineOf("char", <<<<"id", Num(c.id)>>, <<"x", Num(c.x)>>, <<"y", Num(0)>>,
                     <<"width", Num(c.width)>>, <<"height", Num(1)>>, <<"page", Num(0)>>>>)

Header ==
    << LineOf("info", <<<<"size", Num(2)>>, <<"unicode", Num(0)>>>>),
       LineOf("common", <<<<"lineHeight", Num(0)>>, <<"base", Num(1)>>>>),
       LineOf("page", <<<<"id", Num(0)>>, <<"file", <<Quote, "f0", Quote>>>>>>) >>

CharSpecs == [id : {0, 1, 200}, x : {0, 1, 2}, width : {-1, 0, 1, 2}]

Disk == (<<"f0">> :> Page)

Fonts ==
    [lines : {Header \o <<CharLine(c)>> : c \in CharSpecs}
                   \cup {Header \o <<CharLine(c), CharLine(d)>> : c, d \in CharSpecs},
           given : {(0 :> Page), [p \in {} |-> Page]}]

Init == x \in Fonts

Next == UNCHANGED x

(* Every character a font the constructor accepted can hand out (through  *)
(* getGlyphIndex and getGlyphDataForIndex) lies inside its page image: the *)
(* verification loop of parseConfig is what stands between the file and  *)
(* the memcpy of getGlyphDataForIndex.                                     *)
GlyphCopyInBounds ==
    LET f == ParseConfig(x.lines, x.given, Disk) IN
    f.ok => \A g \in DOMAIN f.indices : CopyInBounds(f, f.indices[g])

=============================================================================
