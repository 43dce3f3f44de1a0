-------------------------------- MODULE Prose --------------------------------
(***************************************************************************)
(* The text of a palette document: how its lines are read (rst.rs), how    *)
(* its prose is rewrapped (reflow.rs) and how the write tools change a     *)
(* title, a header field or a section (edit.rs), with the line endings     *)
(* each change leaves (text.rs).                                           *)
(*                                                                         *)
(* A line is [ind, words, eol].  A word is a member of Words; a span in    *)
(* backticks is one word, as the wrapper takes it.  The words that mean    *)
(* something to the scanner are the markers below.                         *)
(***************************************************************************)
EXTENDS Integers, Sequences, FiniteSets

CONSTANTS
    Length,     \* the number of characters of each word
    Wrap,       \* the column prose is wrapped at
    Papers,      \* the documents at hand: sequences of lines
    Blocks,     \* what a write tool splices in: sequences of [ind, words]
    Titles,     \* new titles and field values, of one word
    MaxTouches  \* bound: how often the document is changed

VARIABLES
    text,       \* the lines of the document
    touches     \* how often it was changed

proseVars == <<text, touches>>

Bullet  == "-"
FieldMark == ":F:"
Dots    == ".."
Bar     == "|"
Colons  == "x::"
Rules   == {"===", "---", "***"}
ListMarks == {Bullet}
Words   == DOMAIN Length

-----------------------------------------------------------------------------
(***************************************************************************)
(* One line.                                                               *)
(***************************************************************************)
IsBlank(l)     == l.words = <<>>
First(l)       == IF IsBlank(l) THEN "" ELSE l.words[1]
\* The word that underlines or overlines a title: alone on its line, at column 0.
IsRule(l)      == l.ind = 0 /\ Len(l.words) = 1 /\ First(l) \in Rules
OpensItem(l)   == First(l) \in ListMarks \cup {FieldMark}
IsTableLine(l) == First(l) = Bar
EndsLiteral(l) == ~IsBlank(l) /\ l.words[Len(l.words)] = Colons
\* 1 to 5 for the adornments of the house style, 6 for another character.
Level(rule) == CASE rule = "===" -> 1 [] rule = "---" -> 2 [] OTHER -> 6

-----------------------------------------------------------------------------
(***************************************************************************)
(* Doc::parse: the kind of every line and the headings, one line after the *)
(* other.  A title of two or three lines is classified at its first.       *)
(***************************************************************************)
None == -1
NothingRead == [kinds |-> <<>>, headings |-> <<>>, explicit |-> None, pending |-> None, literal |-> None]

HeadingAt(doc, i, title, under) ==
  [level |-> Level(First(doc[under])), title |-> doc[title].words, line |-> title,
   start |-> i, body |-> under + 1]

OverlinedAt(doc, i) ==
  /\ i + 2 \in DOMAIN doc
  /\ IsRule(doc[i]) /\ IsRule(doc[i + 2]) /\ First(doc[i]) = First(doc[i + 2])
  /\ doc[i + 1].ind = 0 /\ ~IsBlank(doc[i + 1]) /\ ~IsRule(doc[i + 1])
UnderlinedAt(doc, i) ==
  i + 1 \in DOMAIN doc /\ doc[i].ind = 0 /\ ~IsRule(doc[i]) /\ IsRule(doc[i + 1])

\* A literal block or explicit markup that was open ends at the first line not deeper.
Closed(st, l) ==
  IF IsBlank(l) THEN st
  ELSE [st EXCEPT !.literal  = IF @ # None /\ l.ind > @ THEN @ ELSE None,
                  !.explicit = IF @ # None /\ l.ind > @ THEN @ ELSE None]

ReadLine(doc, st, i) ==
  LET l == doc[i]
      s == Closed(st, l)
      Is(kind) == [s EXCEPT !.kinds = Append(@, kind)]
      Titled(t, u, kinds) == [s EXCEPT !.kinds = @ \o kinds, !.pending = None,
                                       !.headings = Append(@, HeadingAt(doc, i, t, u))]
  IN CASE i <= Len(st.kinds) -> st
       [] i > Len(st.kinds) /\ IsBlank(l) -> Is("blank")
       [] i > Len(st.kinds) /\ ~IsBlank(l) ->
          CASE s.literal # None -> Is("literal")
            [] s.literal = None /\ s.explicit # None -> Is("body")
            [] s.literal = None /\ s.explicit = None /\ s.pending # None /\ l.ind > s.pending ->
               [Is("literal") EXCEPT !.literal = s.pending, !.pending = None]
            [] OTHER ->
               CASE First(l) = Dots -> [Is("comment") EXCEPT !.explicit = l.ind, !.pending = None]
                 [] OverlinedAt(doc, i) -> Titled(i + 1, i + 2, <<"adornment", "title", "adornment">>)
                 [] First(l) # Dots /\ UnderlinedAt(doc, i) -> Titled(i, i + 1, <<"title", "adornment">>)
                 [] OTHER -> [Is("text") EXCEPT !.pending = IF EndsLiteral(l) THEN l.ind ELSE None]

Parsed(doc) ==
  LET upTo[i \in 0..Len(doc)] == IF i = 0 THEN NothingRead ELSE ReadLine(doc, upTo[i - 1], i)
  IN upTo[Len(doc)]

\* The lines of a heading's section: to the next heading, and to the next of its level or above.
BodyEnd(doc, hs, h) == IF h = Len(hs) THEN Len(doc) + 1 ELSE hs[h + 1].start
ExtentEnd_Above(doc, hs, h) ==
  LET next == {k \in h + 1 .. Len(hs) : hs[k].level < hs[h].level}
  IN IF next = {} THEN Len(doc) + 1 ELSE hs[CHOOSE k \in next : \A o \in next : k <= o].start
ExtentEnd(doc, hs, h) ==
  LET next == {k \in h + 1 .. Len(hs) : hs[k].level <= hs[h].level}
  IN IF next = {} THEN Len(doc) + 1 ELSE hs[CHOOSE k \in next : \A o \in next : k <= o].start

\* The last line of the field that starts at line i: it takes deeper lines of text.
FieldEnd(doc, kinds, i, end) ==
  CHOOSE j \in i .. end - 1 :
    /\ \A k \in i + 1 .. j : kinds[k] = "text" /\ doc[k].ind > 0
    /\ j + 1 < end => ~(kinds[j + 1] = "text" /\ doc[j + 1].ind > 0)
\* The fields of the header: between the title and the first heading after it.
HeaderFields(doc, r) ==
  LET titles == {h \in DOMAIN r.headings : r.headings[h].level = 1}
      t == CHOOSE h \in titles : \A o \in titles : h <= o
      end == BodyEnd(doc, r.headings, t)
  IN IF titles = {} THEN {}
     ELSE {i \in r.headings[t].body .. end - 1 :
             r.kinds[i] = "text" /\ doc[i].ind = 0 /\ First(doc[i]) = FieldMark}

-----------------------------------------------------------------------------
(***************************************************************************)
(* Reflow.  A block of prose is [a, b]: its first and last line.           *)
(***************************************************************************)
Continues(doc, a, j) ==
  /\ ~OpensItem(doc[j])
  /\ IF OpensItem(doc[a]) THEN doc[j].ind > doc[a].ind ELSE doc[j].ind = doc[a].ind

\* prose_blocks: where each line of text starts a block or goes on with the one before.
BlockStarts(doc, kinds) ==
  LET start[i \in 0..Len(doc)] ==
        IF i = 0 \/ kinds[i] # "text" THEN 0
        ELSE IF start[i - 1] # 0 /\ Continues(doc, start[i - 1], i) THEN start[i - 1] ELSE i
  IN start
ProseBlocks(doc, kinds) ==
  LET start == BlockStarts(doc, kinds)
  IN {<<a, b>> \in (DOMAIN doc) \X (DOMAIN doc) :
        a <= b /\ start[a] = a /\ start[b] = a /\ (b < Len(doc) => start[b + 1] # a)}

\* table_runs: a run of text lines with a table line in it is left alone.
InTable(doc, kinds, i) ==
  \E j \in DOMAIN doc : /\ IsTableLine(doc[j]) /\ kinds[j] = "text"
                        /\ \A k \in DOMAIN doc : (i <= k /\ k <= j) \/ (j <= k /\ k <= i) => kinds[k] = "text"

\* may_break_between: where a line break would make other markup of the words about it.
MayBreak_Marks(prev, next) ==
  prev # Colons /\ prev \notin Rules /\ next \notin {Bar, Dots} \cup Rules
MayBreak(prev, next) ==
  /\ prev # Colons /\ prev \notin Rules
  /\ next \notin ListMarks \cup {FieldMark, Bar, Dots} \cup Rules
\* glue_words: the words that stay on one line, together.
Glued(ws) ==
  LET upTo[i \in 1..Len(ws)] ==
        IF i = 1 THEN <<<<ws[1]>>>>
        ELSE IF MayBreak(ws[i - 1], ws[i]) THEN Append(upTo[i - 1], <<ws[i]>>)
        ELSE [upTo[i - 1] EXCEPT ![Len(upTo[i - 1])] = Append(@, ws[i])]
  IN IF ws = <<>> THEN <<>> ELSE upTo[Len(ws)]

\* The width of words with one space between them.
Wide(ws) == LET sum[i \in 0..Len(ws)] == IF i = 0 THEN 0 ELSE sum[i - 1] + Length[ws[i]] + (IF i = 1 THEN 0 ELSE 1)
            IN sum[Len(ws)]
\* wrap_tokens: lines of words, each after `hang` columns.
Wrapped(tokens, hang) ==
  LET upTo[i \in 1..Len(tokens)] ==
        IF i = 1 THEN <<tokens[1]>>
        ELSE LET ls == upTo[i - 1]
             IN IF hang + Wide(ls[Len(ls)]) + 1 + Wide(tokens[i]) > Wrap
                THEN Append(ls, tokens[i])
                ELSE [ls EXCEPT ![Len(ls)] = @ \o tokens[i]]
  IN upTo[Len(tokens)]

WordsIn(ls) == LET upTo[i \in 0..Len(ls)] == IF i = 0 THEN <<>> ELSE upTo[i - 1] \o ls[i].words
               IN upTo[Len(ls)]
\* The words of a block after the marker that opens it.
Flow(doc, a, b) == LET ws == WordsIn(SubSeq(doc, a, b))
                   IN IF OpensItem(doc[a]) THEN Tail(ws) ELSE ws
BlockLines(doc, a, b) ==
  LET item == OpensItem(doc[a])
      hang == doc[a].ind + (IF item THEN Length[Bullet] + 1 ELSE 0)
      ls == Wrapped(Glued(Flow(doc, a, b)), hang)
  IN [i \in DOMAIN ls |->
       IF i = 1 /\ item THEN [ind |-> doc[a].ind, words |-> <<Bullet>> \o ls[1]]
       ELSE [ind |-> hang, words |-> ls[i]]]

\* rewrap_block gives up on: a field, a marker alone on its line or before another, a term
\* of a definition.
LeftAlone(doc, kinds, a, b) ==
  \/ First(doc[a]) = FieldMark
  \/ OpensItem(doc[a]) /\ (Len(doc[a].words) = 1 \/ doc[a].words[2] \in ListMarks \cup {FieldMark})
  \/ ~OpensItem(doc[a]) /\ b < Len(doc) /\ kinds[b + 1] = "text" /\ doc[b + 1].ind > doc[a].ind
\* Whether the line after the block reads as literal, as it did before.
ReadsOn(doc, kinds, b, last) ==
  LET after == {j \in b + 1 .. Len(doc) : ~IsBlank(doc[j])}
      next == CHOOSE j \in after : \A o \in after : j <= o
  IN after # {} => ((EndsLiteral(last) /\ doc[next].ind > last.ind) <=> kinds[next] = "literal")

Bare(ls) == [i \in DOMAIN ls |-> [ind |-> ls[i].ind, words |-> ls[i].words]]
\* plan: the blocks whose lines change, with their new lines.
Edits(doc) ==
  LET kinds == Parsed(doc).kinds
  IN {e \in {<<blk[1], blk[2], BlockLines(doc, blk[1], blk[2])>> :
               blk \in {k \in ProseBlocks(doc, kinds) :
                          ~InTable(doc, kinds, k[1]) /\ ~LeftAlone(doc, kinds, k[1], k[2])}} :
        /\ ReadsOn(doc, kinds, e[2], e[3][Len(e[3])])
        /\ Bare(SubSeq(doc, e[1], e[2])) # e[3]}

-----------------------------------------------------------------------------
(***************************************************************************)
(* Source: lines a to b replaced by `new` (b = a - 1: inserted before a).  *)
(***************************************************************************)
NativeEol(doc) ==
  IF Cardinality({i \in DOMAIN doc : doc[i].eol = "crlf"}) > Cardinality({i \in DOMAIN doc : doc[i].eol = "lf"})
  THEN "crlf" ELSE "lf"
Splice(doc, a, b, new) ==
  LET native == NativeEol(doc)
      tail == b >= Len(doc) /\ b >= a
      Ended(i) == [ind |-> new[i].ind, words |-> new[i].words,
                   eol |-> IF i = Len(new) /\ tail THEN doc[b].eol ELSE native]
      before == [i \in 1 .. a - 1 |-> IF i = a - 1 /\ i = Len(doc) /\ doc[i].eol = "none"
                                      THEN [doc[i] EXCEPT !.eol = native] ELSE doc[i]]
  IN before \o [i \in DOMAIN new |-> Ended(i)] \o SubSeq(doc, b + 1, Len(doc))

\* The edits of a plan from the last to the first.
SpliceAll(doc, edits) ==
  LET from[i \in 1 .. Len(doc) + 1] ==
        IF i > Len(doc) THEN doc
        ELSE LET here == {e \in edits : e[1] = i}
             IN IF here = {} THEN from[i + 1]
                ELSE LET e == CHOOSE x \in here : TRUE IN Splice(from[i + 1], e[1], e[2], e[3])
  IN from[1]

\* shape: what a pass must keep.
Shape(doc) ==
  LET r == Parsed(doc)
      fixed[i \in 0 .. Len(doc)] ==
        IF i = 0 THEN <<>>
        ELSE IF r.kinds[i] # "text" THEN Append(fixed[i - 1], <<r.kinds[i], doc[i].ind, doc[i].words>>)
        ELSE IF i > 1 /\ r.kinds[i - 1] = "text" THEN fixed[i - 1]
        ELSE Append(fixed[i - 1], <<"text", 0, <<>>>>)
      fields == {i \in DOMAIN doc : r.kinds[i] = "text" /\ doc[i].ind = 0 /\ First(doc[i]) = FieldMark}
  IN [fixed |-> fixed[Len(doc)],
      headings |-> [h \in DOMAIN r.headings |-> <<r.headings[h].level, r.headings[h].title>>],
      fields |-> {WordsIn(SubSeq(doc, i, FieldEnd(doc, r.kinds, i, Len(doc) + 1))) : i \in fields}]

Reflowed(doc) == SpliceAll(doc, Edits(doc))
RefusesRewrap(doc)  == Shape(Reflowed(doc)) # Shape(doc)
\* wrap_fragment: a fragment whose structure the pass would change goes in as given.
WrapFragment(new) ==
  LET doc == [i \in DOMAIN new |-> [ind |-> new[i].ind, words |-> new[i].words, eol |-> "lf"]]
  IN Bare(IF RefusesRewrap(doc) THEN doc ELSE Reflowed(doc))

-----------------------------------------------------------------------------
(***************************************************************************)
(* The edits of the write tools, each on the document as it reads.         *)
(***************************************************************************)
Line(ind, words) == [ind |-> ind, words |-> words]
BlankLine == Line(0, <<>>)
NonePar   == "None."

\* set_header_field: the field's lines become `:F: value`.
SetField(doc, value) ==
  LET r == Parsed(doc)
      i == CHOOSE f \in HeaderFields(doc, r) : \A o \in HeaderFields(doc, r) : f <= o
      end == FieldEnd(doc, r.kinds, i, BodyEnd(doc, r.headings, 1))
  IN IF WordsIn(SubSeq(doc, i, end)) = <<FieldMark, value>> THEN doc
     ELSE Splice(doc, i, end, <<Line(0, <<FieldMark, value>>)>>)

\* retitle: the underline is long enough in every document here.
Retitled(doc, h, title) ==
  LET at == Parsed(doc).headings[h].line IN Splice(doc, at, at, <<Line(0, <<title>>)>>)

\* append_to_section: after the last line of the section's own body, or for a lone `None.`.
Appended(doc, h, block, blankBefore) ==
  LET hs == Parsed(doc).headings
      said == {i \in hs[h].body .. BodyEnd(doc, hs, h) - 1 : ~IsBlank(doc[i])}
      last == CHOOSE i \in said : \A o \in said : o <= i
  IN CASE said = {} -> Splice(doc, hs[h].body, hs[h].body - 1, <<BlankLine>> \o block)
       [] Cardinality(said) = 1 /\ doc[last].words = <<NonePar>> -> Splice(doc, last, last, block)
       [] OTHER -> Splice(doc, last + 1, last, (IF blankBefore THEN <<BlankLine>> ELSE <<>>) \o block)

\* replace_section_body: the section with its subsections.
Replaced(doc, h, body) ==
  LET hs == Parsed(doc).headings
      end == ExtentEnd(doc, hs, h)
  IN Splice(doc, hs[h].body, end - 1,
            <<BlankLine>> \o body \o (IF end <= Len(doc) THEN <<BlankLine>> ELSE <<>>))

-----------------------------------------------------------------------------
ProseInit == text \in Papers /\ touches = 0

Touch == touches < MaxTouches /\ touches' = touches + 1

\* palette reflow: refused, and nothing written, when the structure would change.
Reflow == Touch /\ ~RefusesRewrap(text) /\ text' = Reflowed(text)

SetHeaderField ==
  /\ Touch /\ HeaderFields(text, Parsed(text)) # {}
  /\ \E value \in Titles : text' = SetField(text, value)

Retitle ==
  Touch /\ \E h \in DOMAIN Parsed(text).headings, title \in Titles : text' = Retitled(text, h, title)

AppendToSection ==
  /\ Touch
  /\ \E h \in DOMAIN Parsed(text).headings, block \in Blocks, blankBefore \in BOOLEAN :
       text' = Appended(text, h, block, blankBefore)

ReplaceSection ==
  /\ Touch
  /\ \E h \in {k \in DOMAIN Parsed(text).headings : Parsed(text).headings[k].level = 2}, block \in Blocks :
       text' = Replaced(text, h, WrapFragment(block))

ProseNext == Reflow \/ SetHeaderField \/ Retitle \/ AppendToSection \/ ReplaceSection

-----------------------------------------------------------------------------
(***************************************************************************)
(* A rewrap loses, adds and moves no word, reads as the same titles, the   *)
(* same literal text and the same paragraphs and items, and leaves nothing *)
(* that a second rewrap would change (reflow.rs; the words of a fragment   *)
(* and of a document alike).                                               *)
(***************************************************************************)
Titling(doc) == LET hs == Parsed(doc).headings IN [h \in DOMAIN hs |-> <<hs[h].level, hs[h].title>>]
LiteralWords(doc) ==
  LET kinds == Parsed(doc).kinds
  IN WordsIn([i \in DOMAIN doc |-> IF kinds[i] = "literal" THEN doc[i] ELSE BlankLine])
\* The words of each block of prose, in order.
Paragraphs(doc) ==
  LET start == BlockStarts(doc, Parsed(doc).kinds)
      upTo[i \in 0 .. Len(doc)] ==
        IF i = 0 THEN <<>>
        ELSE CASE start[i] = 0 -> upTo[i - 1]
               [] start[i] = i -> Append(upTo[i - 1], doc[i].words)
               [] OTHER -> [upTo[i - 1] EXCEPT ![Len(upTo[i - 1])] = @ \o doc[i].words]
  IN upTo[Len(doc)]
SettledBy(doc, new) ==
  /\ WordsIn(new) = WordsIn(doc)
  /\ Titling(new) = Titling(doc) /\ LiteralWords(new) = LiteralWords(doc)
  /\ Paragraphs(new) = Paragraphs(doc)
  /\ Reflowed(new) = new
ReflowSettles == [][Reflow => SettledBy(text, text')]_proseVars

\* No line but the last is without its ending, and one kind of ending stays one.
LinesEnd(doc) ==
  /\ \A i \in DOMAIN doc : doc[i].eol = "none" => i = Len(doc)
  /\ ~({"lf", "crlf"} \subseteq {doc[i].eol : i \in DOMAIN doc})

(***************************************************************************)
(* A write of a field, a title or a section leaves every other section as  *)
(* it was: its title, its level and its words (edit.rs over Source::splice *)
(* and the section extents of Doc::parse).                                 *)
(***************************************************************************)
Sections(doc) ==
  LET hs == Parsed(doc).headings
  IN [h \in DOMAIN hs |-> [level |-> hs[h].level, title |-> hs[h].title,
        words |-> WordsIn(SubSeq(doc, hs[h].body, BodyEnd(doc, hs, h) - 1))]]
KeptBut(s, t) == s.level = t.level /\ (s.title = t.title \/ s.words = t.words)
BodyChanged(old, new) ==
  /\ Len(new) = Len(old)
  /\ \E h \in DOMAIN old : KeptBut(old[h], new[h]) /\ \A k \in DOMAIN old \ {h} : new[k] = old[k]
ExtentChanged(old, new, h) ==
  /\ h \in DOMAIN new /\ KeptBut(old[h], new[h])
  /\ \A k \in 1 .. h - 1 : new[k] = old[k]
  /\ \A k \in h + 1 .. Len(old) :
       (\E j \in h + 1 .. k : old[j].level <= old[h].level) =>
          LET at == Len(new) - (Len(old) - k) IN at > h /\ new[at] = old[k]
WroteOneSection(old, new) ==
  /\ SetHeaderField \/ Retitle \/ AppendToSection => BodyChanged(old, new)
  /\ ReplaceSection => \E h \in DOMAIN old : old[h].level = 2 /\ ExtentChanged(old, new, h)
WritesOneSection ==
  [][SetHeaderField \/ Retitle \/ AppendToSection \/ ReplaceSection =>
       /\ LinesEnd(text')
       /\ \E old \in {Sections(text)}, new \in {Sections(text')} : WroteOneSection(old, new)]_proseVars
=============================================================================
