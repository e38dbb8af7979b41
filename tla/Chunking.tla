------------------------------ MODULE Chunking ------------------------------
(***************************************************************************)
(* How the text of a paper becomes chunks: chunkArxivContent of            *)
(* internal/sources/arxiv/chunking.go, as the arxiv source, the tool       *)
(* arxiv-chunker and, for its own texts, the testfile source use it.  A    *)
(* text is a sequence of lines; of a line the code tells apart whether it  *)
(* is blank, whether it is a heading, and which of its characters are      *)
(* white space.  Text is referred to by the numbers of its lines or        *)
(* characters, so that what is lost, doubled or moved shows.               *)
(***************************************************************************)
EXTENDS Integers, Sequences, SequencesExt

CONSTANTS
  Bodies, Abstracts, \* the texts explored, sets of sequences of lines
  Configs    \* the settings explored, a subset of ArxivConfig

\* "bare": nothing but #; "sentence": begins like a known heading, but is too
\* long for one, or has a full stop or colon.  A line has chars characters
\* between white space (lead, trail), with more of it at the places gaps;
\* marks (# and blanks) are those a normalized heading does not have, and
\* isAbstract says that it is then the word "abstract".
Line ==
  {line \in [kind : {"blank", "plain", "bare", "sentence", "hash", "number", "known"},
             lead : Nat, chars : Nat, trail : Nat, gaps : SUBSET Nat, marks : Nat,
             isAbstract : BOOLEAN] :
     /\ line.marks <= line.chars
     /\ line.gaps \subseteq 2 .. line.chars - 1
     /\ line.isAbstract => line.kind \in {"hash", "known"}}

\* ArxivChunkingConfig and IncludeAbstractInChunks; 0 for what is not set.
ArxivConfig == [mode : {"", "section", "size"}, max : Int, min : Int, include : BOOLEAN]

ASSUME ChunkingAssumption ==
  /\ Configs \subseteq ArxivConfig
  /\ \A t \in Bodies \cup Abstracts :
       /\ t \in Seq(Line)
       /\ \A n \in DOMAIN t : (t[n].kind = "blank") <=> (t[n].chars = 0)

VARIABLES
  body, abstract, \* the texts of the paper, blank ones if there is none
  config,
  user,           \* "none" yet, then "arxiv", "abstract", "tool" or "testfile"
  content,        \* the text that was split
  chunks

paperVars == <<body, abstract, config, user, content, chunks>>

\* What defaultArxivChunkingConfig makes of the settings.
Mode == IF config.mode = "size" THEN "size" ELSE "section"
MaxChars == IF config.max <= 0 THEN 4000 ELSE config.max
MinChars == IF config.min <= 0 THEN 400 ELSE config.min

\* isSectionHeading
Heading(line) == line.kind \in {"hash", "number", "known"}

Blank(t) == \A n \in DOMAIN t : t[n].kind = "blank"

Numbers(t) == [n \in DOMAIN t |-> n]

\* strings.TrimSpace, of some lines of a text and of the whole text.
TrimmedLines(t, ns) ==
  LET first == SelectInSeq(ns, LAMBDA n : t[n].kind # "blank")
      last == SelectLastInSeq(ns, LAMBDA n : t[n].kind # "blank")
  IN IF first = 0 THEN <<>> ELSE SubSeq(ns, first, last)
TrimSpace(t) ==
  LET ns == TrimmedLines(t, Numbers(t)) IN
  [i \in DOMAIN ns |-> [t[ns[i]] EXCEPT !.lead = IF i = 1 THEN 0 ELSE @,
                                        !.trail = IF i = Len(ns) THEN 0 ELSE @]]

\* How many characters there are up to each line and the line feed behind it,
\* how many in the whole text, and which of them are no white space.
LineEnds(t) ==
  LET ends[n \in 0 .. Len(t)] ==
        IF n = 0 THEN 0
        ELSE ends[n - 1] + (t[n].lead + t[n].chars + t[n].trail + 1)
  IN ends
Size(t) == IF t = <<>> THEN 0 ELSE LineEnds(t)[Len(t)] - 1
Ink(t) ==
  UNION {{LineEnds(t)[n - 1] + t[n].lead + p : p \in (1 .. t[n].chars) \ t[n].gaps} :
           n \in DOMAIN t}

\* The characters of the lines ns of a text t, as a section has them; line 0 is
\* an empty one that is put in, before a heading that normalizeHeading has
\* stripped of its marks.  What it joins was trimmed before.
CharsAt(t, ns, k) ==
  LET line == t[ns[k]] IN
  IF ns[k] = 0 THEN 0
  ELSE IF k > 1 /\ ns[k - 1] = 0 THEN line.chars - line.marks
  ELSE (IF k = 1 \/ (k > 2 /\ ns[k - 2] = 0) THEN 0 ELSE line.lead)
       + line.chars
       + (IF k = Len(ns) \/ ns[k + 1] = 0 THEN 0 ELSE line.trail)
Chars(t, ns) ==
  LET sum[k \in 0 .. Len(ns)] == IF k = 0 THEN 0 ELSE sum[k - 1] + CharsAt(t, ns, k)
  IN sum[Len(ns)] + IF ns = <<>> THEN 0 ELSE Len(ns) - 1

-----------------------------------------------------------------------------
(* A section has the number of its heading, 0 for none, and its lines. *)

\* flush: the lines in the buffer become a section, unless they are blank.
Flush(t, s) ==
  LET lines == TrimmedLines(t, s.buffer) IN
  [s EXCEPT !.buffer = <<>>,
            !.sections = IF lines = <<>> THEN @
                         ELSE Append(@, [title |-> s.title, lines |-> lines])]

\* What is known after each line: headings end a section and begin the next.
SplitUpTo(t) ==
  LET read[n \in 0 .. Len(t)] ==
        IF n = 0 THEN [sections |-> <<>>, title |-> 0, buffer |-> <<>>]
        ELSE IF Heading(t[n]) THEN [Flush(t, read[n - 1]) EXCEPT !.title = n]
        ELSE [read[n - 1] EXCEPT !.buffer = Append(@, n)]
  IN read

\* The lines under the last heading are left in the buffer.
WrongSplitSections(t) == SplitUpTo(t)[Len(t)].sections

\* A section without text is left out, with its heading.
SplitSections(t) == Flush(t, SplitUpTo(t)[Len(t)]).sections

\* A section is measured with the one it may swallow.
WrongMerge(t, merged, s) ==
  IF merged # <<>> /\ Chars(t, Last(merged).lines \o <<0, s.title>> \o s.lines) < MinChars
  THEN [merged EXCEPT ![Len(merged)].lines = @ \o <<0, s.title>> \o s.lines]
  ELSE Append(merged, s)

\* A section that is too small swallows the next one, heading and all.
Merge(t, merged, s) ==
  IF merged # <<>> /\ Chars(t, Last(merged).lines) < MinChars
  THEN [merged EXCEPT ![Len(merged)].lines = @ \o <<0, s.title>> \o s.lines]
  ELSE Append(merged, s)

MergedUpTo(t, sections) ==
  LET merged[k \in 0 .. Len(sections)] ==
        IF k = 0 THEN <<>> ELSE Merge(t, merged[k - 1], sections[k])
  IN merged
MergeSmallSections(t, sections) == MergedUpTo(t, sections)[Len(sections)]

-----------------------------------------------------------------------------
(* A chunk is a section, a range of the characters of the text, or the     *)
(* abstract.                                                               *)

AbstractChunk == [part |-> "abstract"]

\* buildChunkText writes the title above the text, but not if it is "Abstract".
SectionChunk(t, s) ==
  [part |-> "section", lines |-> s.lines,
   title |-> IF s.title # 0 /\ t[s.title].isAbstract THEN 0 ELSE s.title]

CutBySize(total, max) ==
  [k \in 1 .. (total + max - 1) \div max |->
     [part |-> "range", from |-> (k - 1) * max,
      to |-> IF k * max > total THEN total ELSE k * max]]

\* buildChunkText trims a range: it may be left without anything.
TrimRange(t, range) ==
  LET ink == Ink(t) \cap (range.from + 1 .. range.to) IN
  IF ink = {} THEN [range EXCEPT !.to = range.from]
  ELSE [range EXCEPT !.from = Min(ink) - 1, !.to = Max(ink)]

ChunkBySize(t, max) ==
  LET cut == CutBySize(Size(t), max) IN [k \in DOMAIN cut |-> TrimRange(t, cut[k])]

\* chunkArxivContent, of a text that is trimmed.
Chunks(t, include) ==
  LET front == IF include /\ ~Blank(abstract) THEN <<AbstractChunk>> ELSE <<>>
      sections == MergeSmallSections(t, SplitSections(t))
  IN IF t = <<>> /\ ~Blank(abstract) THEN <<AbstractChunk>>
     ELSE IF Mode = "size" \/ \A n \in DOMAIN t : ~Heading(t[n])
     THEN front \o ChunkBySize(t, MaxChars)
     ELSE front \o [k \in DOMAIN sections |-> SectionChunk(t, sections[k])]

PaperInit ==
  /\ body \in Bodies /\ abstract \in Abstracts /\ config \in Configs
  /\ user = "none" /\ content = <<>> /\ chunks = <<>>

Use(u) == user = "none" /\ user' = u /\ UNCHANGED <<body, abstract, config>>

\* The source takes the text of the PDF, and the abstract if there is none.
FetchPaper ==
  /\ Use("arxiv")
  /\ content' = TrimSpace(IF Blank(body) THEN abstract ELSE body)
  /\ chunks' = Chunks(content', config.include /\ ~Blank(body))

\* abstract_only
FetchAbstract ==
  /\ Use("abstract")
  /\ content' = TrimSpace(abstract)
  /\ chunks' = Chunks(content', FALSE)

PreviewChunking ==
  /\ Use("tool")
  /\ content' = TrimSpace(body)
  /\ chunks' = Chunks(content', config.include)

\* The testfile source takes its file as it is.
FetchTestFile ==
  /\ Use("testfile")
  /\ content' = body
  /\ chunks' = IF config.max <= 0
               THEN <<[part |-> "range", from |-> 0, to |-> Size(body)]>>
               ELSE CutBySize(Size(body), config.max)

PaperNext == FetchPaper \/ FetchAbstract \/ PreviewChunking \/ FetchTestFile

PaperSpec == PaperInit /\ [][PaperNext]_paperVars
-----------------------------------------------------------------------------
(* Properties *)

Parts(part) == {k \in DOMAIN chunks : chunks[k].part = part}

\* The lines a section stands for, with its heading and the empty ones put in.
Told(k) == <<chunks[k].title>> \o chunks[k].lines
LinesTold == (UNION {ToSet(Told(k)) : k \in Parts("section")}) \ {0}

\* They are in their order, within a section and from one to the next.
InPlace ==
  /\ \A k \in Parts("section") : \A i, j \in DOMAIN Told(k) :
       i < j /\ Told(k)[j] # 0 => Told(k)[i] < Told(k)[j]
  /\ \A k, l \in Parts("section") : k < l =>
       \A m \in ToSet(Told(k)), n \in ToSet(Told(l)) : n # 0 => m < n

\* The lines of the text that are text, or the heading of some.
Telling ==
  {n \in DOMAIN content :
    /\ content[n].kind # "blank"
    /\ Heading(content[n]) =>
         \E m \in n + 1 .. Len(content) :
           /\ content[m].kind # "blank"
           /\ \A i \in n + 1 .. m : ~Heading(content[i])}

\* A heading "Abstract" is not in the chunk whose text stands under it.
LeftOut(n) ==
  /\ Heading(content[n]) /\ content[n].isAbstract
  /\ \E k \in Parts("section") :
       LET first == chunks[k].lines[1] IN
       /\ chunks[k].title = 0 /\ n < first
       /\ \A m \in n + 1 .. first : ~Heading(content[m])

\* What must be in a range: only the testfile source keeps white space.
ToKeep == IF user = "testfile" THEN 1 .. Size(content) ELSE Ink(content)

(***************************************************************************)
(* Chunks are the paper: every line of text is in them once, in its place, *)
(* and so is its heading, unless it is "Abstract" and would stand at the   *)
(* head of a chunk.  Where the text is cut by size, every character is in  *)
(* one range, and ranges are in order; only white space may be missing.    *)
(* The abstract is in front once if it is asked for, and where there is    *)
(* nothing else it is there once in any case.                              *)
(***************************************************************************)
NothingLostInChunks ==
  user # "none" =>
    /\ Parts("section") # {} =>
         /\ Parts("range") = {} /\ InPlace
         /\ {n \in LinesTold : content[n].kind # "blank"} \subseteq Telling
         /\ \A n \in Telling \ LinesTold : LeftOut(n)
    /\ Parts("range") # {} =>
         /\ \A p \in ToKeep : \E k \in Parts("range") :
              p \in chunks[k].from + 1 .. chunks[k].to
         /\ \A k \in Parts("range") :
              0 <= chunks[k].from /\ chunks[k].from <= chunks[k].to
                /\ chunks[k].to <= Size(content)
         /\ \A k, l \in Parts("range") : k < l => chunks[k].to <= chunks[l].from
    /\ Parts("section") \cup Parts("range") = {} => Telling = {}
    /\ Parts("abstract") =
         IF /\ user \in {"arxiv", "tool"} /\ ~Blank(abstract)
            /\ config.include \/ content = <<>>
            /\ user = "arxiv" => ~Blank(body)
         THEN {1} ELSE {}

(***************************************************************************)
(* Sizes are kept: of the sections only the last is smaller than the least *)
(* size, and none has swallowed another that it did not need; of the       *)
(* ranges none is larger than asked for, and there are no more of them     *)
(* than the text needs.                                                    *)
(***************************************************************************)
SizesKept ==
  user # "none" =>
    /\ \A k \in Parts("section") :
         LET ns == chunks[k].lines IN
         /\ k < Len(chunks) => Chars(content, ns) >= MinChars
         /\ \A i \in DOMAIN ns : ns[i] = 0 => Chars(content, SubSeq(ns, 1, i - 1)) < MinChars
    /\ user # "testfile" =>
         \A k \in Parts("range") :
           LET before == IF 1 \in Parts("abstract") THEN k - 2 ELSE k - 1 IN
           /\ chunks[k].to - chunks[k].from <= MaxChars
           /\ before * MaxChars < Size(content)
=============================================================================
