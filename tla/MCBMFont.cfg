\* Fonts of one 2x2 page with one or two characters: ids 0, ASCII and
\* above; x inside and outside; negative, zero and positive widths.
INIT Init
NEXT Next
INVARIANT GlyphCopyInBounds
