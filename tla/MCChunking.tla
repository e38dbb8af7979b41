----------------------------- MODULE MCChunking -----------------------------
EXTENDS Chunking

\* A heading with a mark has one.
Of(kind, chars) ==
  [kind |-> kind, lead |-> 0, chars |-> chars, trail |-> 0, gaps |-> {},
   marks |-> IF kind = "hash" THEN 1 ELSE 0, isAbstract |-> FALSE]
Abstract(line) == [line EXCEPT !.isAbstract = TRUE]

\* White space before, behind and in a line; a gap is as wide as a range.
Blanks == [Of("blank", 0) EXCEPT !.lead = 1]
Short == [Of("plain", 2) EXCEPT !.lead = 1]
Long == [Of("plain", 7) EXCEPT !.trail = 1, !.gaps = 3 .. 5]

Lines == {Blanks, Short, Long, Of("hash", 2)}
Others == {Of(k, 2) : k \in {"bare", "sentence", "number", "known"}}
            \cup {Of("blank", 0), Abstract(Of("known", 2)), Abstract(Of("hash", 2))}

\* Texts of up to six lines, and short ones of all kinds of lines.
MCBodies ==
  BoundedSeq(Lines, 6) \cup BoundedSeq(Lines \cup Others, 3)

MCAbstracts == {<<>>, <<Blanks, Long, Abstract(Of("hash", 2))>>}

\* A least size that the longer plain line just has, and the defaults, which
\* no section here reaches.
MCConfigs ==
  {c \in [mode : {"", "section", "size"}, max : {0, 3, 4}, min : {0, 7}, include : BOOLEAN] :
     /\ c.mode = "" => c.max = 0 /\ c.min = 0
     /\ c.mode = "section" => c.max = 3 /\ c.min = 7
     /\ c.mode = "size" => c.min = 0}
=============================================================================
