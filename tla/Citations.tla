------------------------------ MODULE Citations -------------------------------
\* Citation markers in what the model writes: the parser and the grounder of
\* backend/app/chat/citations.py, which the orchestrator and the briefing composer
\* apply one after the other, and the renderer of the frontend.
\*
\* A text is a sequence of tokens.  Each is one offset of space and two of its own,
\* so that token k has its head at 3k - 2, its tail at 3k - 1 and its end at 3k.
\* Texts here are one space longer at the start than what the model wrote: a marker
\* is consumed with the space before it.  The kinds of tokens are what the three
\* patterns tell apart:
\*   "number"   a decimal, a percentage or thousands: a financial number
\*   "glued"    a financial number that follows a letter, as in SEK2.1: NUMBER_RE
\*              begins at a word boundary and finds its tail only
\*   "count"    an integer: a numeral, but not a financial number
\*   "date"     an ISO date: NUMBER_RE finds its parts, and the last one last
\*   "opening"  a word that begins a sentence; the space before it ends the last one
\*   "marker"   [ec_...]
EXTENDS Integers, SequencesExt

CONSTANTS
  Ids,       \* the engine calls of the turn
  Unknown,   \* an id that the model has made up
  Window,    \* how far before a marker a numeral is looked for (60 characters)
  Payload    \* the values each call has returned, in ten-thousandths

\* What the reader sees besides the calls: a number without source, and plain text.
Flag == "uncited"
Shown == "shown"

ASSUME CitationsAssumption ==
  /\ {Unknown, Flag, Shown} \cap Ids = {}
  /\ IsFiniteSet(Ids)
  /\ Window \in Nat /\ Window >= 2   \* a marker sees all of the number it follows
  /\ \A id \in Ids : Payload[id] \subseteq Int

HeadAt(k) == 3 * k - 2
TailAt(k) == 3 * k - 1
EndAt(k)  == 3 * k

\* Tokens.  A form is how a number is written: its decimals, its digits, and whether
\* thousands are separated and a percent sign follows, as <<2, 251234, "grouped">> for
\* 2,512.34.
Styles == {"plain", "percent", "grouped", "grouped percent"}
Word(kind)         == [kind |-> kind, form |-> <<>>, id |-> Unknown]
Number(kind, form) == [kind |-> kind, form |-> form, id |-> Unknown]
Marker(id)         == [kind |-> "marker", form |-> <<>>, id |-> id]

Numeral(token)   == token.kind \in {"number", "glued", "count", "date"}
Financial(token) == token.kind \in {"number", "glued"}
Span(start, end, id) == [start |-> start, end |-> end, id |-> id]
Earlier(s, t) == s.start < t.start \/ (s.start = t.start /\ s.end < t.end)

\* The place of the i-th span when spans are sorted: behind those that are earlier, and
\* behind those before it that are not later.  Both languages sort stably; SortSeq has
\* no meaning when two spans of different calls tie.
Place(spans, i) ==
  Cardinality({j \in DOMAIN spans :
    Earlier(spans[j], spans[i]) \/ (j <= i /\ ~Earlier(spans[i], spans[j]))})
Sorted(spans) ==
  [n \in DOMAIN spans |-> spans[CHOOSE i \in DOMAIN spans : Place(spans, i) = n]]

-------------------------------------------------------------------------------
(* parse_citations                                                             *)

\* What NUMBER_RE finds of the numeral at k in a window that begins at from.
Extent(token, k, from) ==
  IF token.kind \in {"number", "count"} /\ HeadAt(k) >= from
  THEN <<HeadAt(k), EndAt(k)>>
  ELSE <<TailAt(k), EndAt(k)>>

\* The numerals that the window before the marker at m shows some of.
InReach(text, m) == {k \in 1..(m - 1) : Numeral(text[k]) /\ TailAt(k) >= EndAt(m - 1) - Window}

\* The fragment that the marker at m cites: the last of them, if there is one.
CitedFragment(text, m) ==
  {Extent(text[k], k, EndAt(m - 1) - Window) :
     k \in {k \in InReach(text, m) : \A n \in InReach(text, m) : n <= k}}

Markers(text) == {m \in DOMAIN text : text[m].kind = "marker"}
\* Mutant: made-up ids are taken for calls.
KnownMarkersMutant(text) == Markers(text)
KnownMarkers(text) == {m \in Markers(text) : text[m].id \in Ids}

\* Mutant: all that was consumed so far is subtracted.
ShiftMutant(text, m, start) == 3 * Cardinality({p \in Markers(text) : p < m})

\* How much is removed before the fragment: the earlier markers that end before it.
Shift(text, m, start) == 3 * Cardinality({p \in Markers(text) : p < m /\ EndAt(p) <= start})

SpansAt(text, m) ==
  {Span(f[1] - Shift(text, m, f[1]), f[2] - Shift(text, m, f[1]), text[m].id) :
     f \in IF m \in KnownMarkers(text) THEN CitedFragment(text, m) ELSE {}}

\* The text without markers, and the spans in the order of their markers, each once.
WithoutMarker(token) == IF token.kind = "marker" THEN <<>> ELSE <<token>>
NewSpans(text, m) == SpansAt(text, m) \ UNION {SpansAt(text, p) : p \in 1..(m - 1)}

Parse(text) ==
  [text  |-> FlattenSeq([k \in DOMAIN text |-> WithoutMarker(text[k])]),
   spans |-> FlattenSeq([m \in DOMAIN text |-> SetToSeq(NewSpans(text, m))])]

-------------------------------------------------------------------------------
(* find_uncited_numerics and auto_ground.  A span covers the token at k of a   *)
(* piece of the text that begins at offset at.                                 *)

\* Mutant: a span that touches a number covers it.
CoversMutant(span, k, at) == span.start < EndAt(k) - at /\ HeadAt(k) - at < span.end

Covers(span, k, at) == span.start <= HeadAt(k) - at /\ EndAt(k) - at <= span.end

Uncited(text, spans) ==
  {k \in DOMAIN text : Financial(text[k]) /\ \A s \in ToSet(spans) : ~Covers(s, k, 0)}

\* A value rounded to a number of decimals (no value of an instance is halfway).
Rounded(value, decimals) ==
  (Max({value, -value}) + 10 ^ (4 - decimals) \div 2) \div 10 ^ (4 - decimals)

Integral(value) == value % 10000 = 0

\* The forms of a value that the index has: one to four decimals, with and without a
\* percent sign, and separated thousands of a whole number without one.
CanonicalForms(value) ==
  {<<decimals, Rounded(value, decimals), style>> :
     decimals \in 1..4, style \in {"plain", "percent"}}
    \cup {<<0, n, "grouped">> : n \in {n \in {Rounded(value, 0)} : n >= 1000 /\ Integral(value)}}

\* The calls that the index has for this form.
Candidates(form) == {id \in Ids : \E value \in Payload[id] : form \in CanonicalForms(value)}

\* A form of a value that the pattern for financial numbers finds: with decimals or, of a
\* whole number, without; with separated thousands, a percent sign or both.
FinancialForm(form, value) ==
  \E decimals \in 0..4, style \in Styles :
     /\ form = <<decimals, Rounded(value, decimals), style>>
     /\ decimals = 0 => Integral(value) /\ style # "plain"
     /\ style \in {"grouped", "grouped percent"} => Rounded(value, 0) >= 1000

\* The calls that have returned a value of this form, whether the index has it or not.
CallsOf(form) == {id \in Ids : \E value \in Payload[id] : FinancialForm(form, value)}

\* An uncited number with one candidate is marked with it.
WithSource(text, spans, k) ==
  IF k \in Uncited(text, spans) /\ Cardinality(Candidates(text[k].form)) = 1
  THEN <<text[k]>> \o SetToSeq({Marker(id) : id \in Candidates(text[k].form)})
  ELSE <<text[k]>>

AutoGround(parsed) ==
  LET marked   == FlattenSeq([k \in DOMAIN parsed.text |-> WithSource(parsed.text, parsed.spans, k)])
      reparsed == Parse(marked)
  IN  IF marked = parsed.text THEN parsed
      ELSE [text  |-> reparsed.text,
            spans |-> Sorted(parsed.spans \o reparsed.spans)]

\* What the orchestrator and the composer store of a text.
Answer(text) == AutoGround(Parse(text))

-------------------------------------------------------------------------------
(* renderWithCitations, for a piece of the text: the offsets from piece.from up *)
(* to piece.to.  Positions and spans are relative to the piece's beginning.    *)

\* What appears: the character at an offset, or a chip behind it.
Slice(from, to) == [i \in 1..(to - from) |-> <<from + i - 1, Shown>>]
ChipOf(span)    == <<span.end, span.id>>

\* A chip for each cited span and one for each financial number without.
Chips(text, spans, piece) ==
  LET inside  == {k \in DOMAIN text : piece.from <= HeadAt(k) /\ EndAt(k) <= piece.to}
      flagged == {k \in inside : Financial(text[k])
                                   /\ \A s \in ToSet(spans) : ~Covers(s, k, piece.from)}
      flags   == {Span(HeadAt(k) - piece.from, EndAt(k) - piece.from, Flag) : k \in flagged}
  IN  Sorted(spans \o SetToSeq(flags))

\* A chip is left out if the next one is of the same call and touches it.
SameCitedAsNext(chips, i) ==
  /\ i < Len(chips) /\ chips[i].id # Flag
  /\ chips[i + 1].id = chips[i].id /\ chips[i + 1].start = chips[i].end

\* The loop's cursor is where the chip before ends; each chip draws what is left before
\* it, its own text and itself.
Draw(chips, size) ==
  LET Cursor(i) == IF i = 0 THEN 0 ELSE chips[i].end
      Nodes(i)  == Slice(Cursor(i - 1), chips[i].start) \o Slice(chips[i].start, chips[i].end)
                     \o IF SameCitedAsNext(chips, i) THEN <<>> ELSE <<ChipOf(chips[i])>>
  IN  FlattenSeq([i \in DOMAIN chips |-> Nodes(i)]) \o Slice(Cursor(Len(chips)), size)

Render(text, spans, piece) == Draw(Chips(text, spans, piece), piece.to - piece.from)

\* A response is rendered in one piece.
RenderResponse(answer) ==
  Render(answer.text, answer.spans, [from |-> 0, to |-> EndAt(Len(answer.text))])

\* A briefing is split where its second sentence begins (splitLede), which takes the
\* offset of the space with it; spans are handed to the piece they lie in.
SplitAt(text) ==
  {HeadAt(k) : k \in {k \in DOMAIN text : k > 1 /\ text[k].kind = "opening"}}

Selected(spans, Test(_)) ==
  FlattenSeq([i \in DOMAIN spans |-> IF Test(spans[i]) THEN <<spans[i]>> ELSE <<>>])

\* What is drawn of a piece, or a span of it, at a distance from its place.
MovedSpans(spans, by) ==
  [i \in DOMAIN spans |-> Span(spans[i].start + by, spans[i].end + by, spans[i].id)]
Moved(nodes, by) == [i \in DOMAIN nodes |-> <<nodes[i][1] + by, nodes[i][2]>>]

RenderBriefing(answer) ==
  IF SplitAt(answer.text) = {} THEN RenderResponse(answer)
  ELSE LET at    == Min(SplitAt(answer.text))
           lede  == Selected(answer.spans, LAMBDA s : s.end <= at)
           later == Selected(answer.spans, LAMBDA s : s.start >= at)
           below == [from |-> at, to |-> EndAt(Len(answer.text))]
       IN  Render(answer.text, lede, [from |-> 0, to |-> at])
             \o Moved(Render(answer.text, MovedSpans(later, -at), below), at)

-------------------------------------------------------------------------------
(* What the markers of a text say, without offsets.                            *)

\* The calls whose markers follow the numeral at k, with no numeral between and close
\* enough to see some of it, each with what it sees.
CitedBy(text, k) ==
  {<<text[m].id, Extent(text[k], k, EndAt(m - 1) - Window)>> :
     m \in {m \in KnownMarkers(text) : k \in InReach(text, m) /\ k = Max(InReach(text, m))}}
CallsFor(text, k) == {c[1] : c \in CitedBy(text, k)}

\* The one chip that belongs behind the token at k: the call that was marked, or
\* the only call that has returned the number, or the flag of a number without.
ChipFor(text, k) ==
  IF ~Numeral(text[k]) THEN {}
  ELSE IF CallsFor(text, k) # {} THEN CallsFor(text, k)
  ELSE IF ~Financial(text[k]) THEN {}
  ELSE IF Cardinality(Candidates(text[k].form)) = 1 THEN Candidates(text[k].form)
  ELSE {Flag}

\* The forms that the index has of no value, although the pattern finds them: separated
\* thousands with decimals or a percent sign, and whole percentages.
Unindexed(form) ==
  \/ form[3] = "grouped" /\ form[1] > 0
  \/ form[3] = "grouped percent"
  \/ form[3] = "percent" /\ form[1] = 0

\* The text as its author would see it: each token once, and its chip behind it.
AsMarked(text) ==
  LET Kept(k)  == k - Cardinality({m \in Markers(text) : m <= k})
      Block(k) == Slice(EndAt(Kept(k) - 1), EndAt(Kept(k)))
                    \o SetToSeq({<<EndAt(Kept(k)), c>> : c \in ChipFor(text, k)})
  IN  FlattenSeq([k \in DOMAIN text |-> IF text[k].kind = "marker" THEN <<>> ELSE Block(k)])

\* Texts that are not rendered as marked: two markers see a numeral differently or name
\* two calls, one sees only the tail of a number, or a glued number has a source.
Contended(text) ==
  \E k \in DOMAIN text :
    \/ Cardinality(CitedBy(text, k)) > 1
    \/ text[k].kind = "number" /\ \E c \in CitedBy(text, k) : c[2][1] = TailAt(k)
    \/ text[k].kind = "glued" /\ ChipFor(text, k) # {Flag}
===============================================================================
