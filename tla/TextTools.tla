------------------------------ MODULE TextTools ------------------------------
(***************************************************************************)
(* What the program tells and writes of a file's text: the tools read,     *)
(* grep and edit (crates/btv-tools/src/{read,grep,edit,diff,lib}.rs) and   *)
(* the export of a deliverable (crates/btv-cli/src/convert.rs).  A text is *)
(* a sequence of symbols: "n" ends a line, "r" is a carriage return, " " a *)
(* blank, "w" a letter of two bytes and "ctl" a control character.         *)
(* A behaviour is one call on one file of the workspace, which others may  *)
(* change while it runs.                                                   *)
(***************************************************************************)
EXTENDS Naturals, Sequences, FiniteSets, SequencesExt

CONSTANTS
  ReadSymbol,     \* symbols of the texts that are read and searched
  EditSymbol,     \* symbols of the texts that are edited
  ExportSymbol,   \* symbols of the texts that are exported
  MaxText,        \* bound: length of a text
  MaxWord,        \* bound: length of a pattern, of an edit's strings
  OutputLimit,    \* DEFAULT_OUTPUT_LIMIT, in bytes
  MaxMatches,     \* MAX_MATCHES of grep
  ContextLines    \* CONTEXT_LINES of a diff

ASSUME TextConstants ==
  /\ {MaxText, MaxWord, OutputLimit, MaxMatches, ContextLines} \subseteq Nat
  /\ MaxMatches > 0

VARIABLES
  file,      \* the text on disk
  textCall   \* the call: its tool, where it is, what it read, asked and answered

textVars == <<file, textCall>>

TextTool == {"read", "grep", "edit", "export"}
Escape == "esc"   \* the backslash

Symbols(tool) == CASE tool = "export" -> ExportSymbol [] tool = "edit" -> EditSymbol
                   [] OTHER -> ReadSymbol
LeastOf(a, b) == IF a < b THEN a ELSE b
Greatest(S) == CHOOSE n \in S : \A k \in S : k <= n
Ascending(S) ==
  [k \in 1 .. Cardinality(S) |-> CHOOSE n \in S : Cardinality({i \in S : i <= n}) = k]

TextInit ==
  \E tool \in TextTool :
    /\ file \in BoundedSeq(Symbols(tool), MaxText)
    /\ textCall = [tool |-> tool, at |-> "called", text |-> << >>, asked |-> << >>,
                   answer |-> << >>]

-----------------------------------------------------------------------------
(* Lines and bytes. *)

(* A newline ends a line, a last empty one is none. *)
RawLines(text) ==
  LET starts == {s \in {1} \cup {i + 1 : i \in {j \in DOMAIN text : text[j] = "n"}} :
                   s <= Len(text)}
      at == Ascending(starts)
      EndOf(s) == CHOOSE e \in s - 1 .. Len(text) :
                    /\ e = Len(text) \/ text[e + 1] = "n"
                    /\ \A i \in s .. e : text[i] # "n"
  IN  [k \in DOMAIN at |-> SubSeq(text, at[k], EndOf(at[k]))]

(* `str::lines`: a carriage return before the newline is of the line's end. *)
TextLines(text) ==
  LET returns == {i \in 2 .. Len(text) : text[i] = "n" /\ text[i - 1] = "r"}
  IN  RawLines(FlattenSeq([i \in DOMAIN text |->
                             IF i + 1 \in returns THEN << >> ELSE <<text[i]>>]))

(* The bytes of a text: of a letter its first and its second. *)
Utf8(text) ==
  FlattenSeq([i \in DOMAIN text |-> IF text[i] = "w" THEN <<"w1", "w2">> ELSE <<text[i]>>])
Bytes(text) == Len(Utf8(text))

(* Bug: the whole text is not kept when it is cut. *)
BoundOutputDropped(text) ==
  LET fits == {k \in 0 .. Len(text) : Bytes(SubSeq(text, 1, k)) <= OutputLimit}
  IN  [shown |-> SubSeq(text, 1, Greatest(fits)), truncated |-> Bytes(text) > OutputLimit,
       overflow |-> << >>]

(* `bound_output_managed`: cut at a letter's boundary, the whole in a file. *)
BoundOutput(text) ==
  LET fits == {k \in 0 .. Len(text) : Bytes(SubSeq(text, 1, k)) <= OutputLimit}
      over == Bytes(text) > OutputLimit
  IN  [shown |-> SubSeq(text, 1, Greatest(fits)), truncated |-> over,
       overflow |-> IF over THEN text ELSE << >>]

Answer(asked, answer) ==
  textCall' = [textCall EXCEPT !.at = "answered", !.text = file, !.asked = asked,
                               !.answer = answer]

(* What is too long is not told where its file cannot be written. *)
Tells(asked, text) ==
  \/ Answer(asked, BoundOutput(text))
  \/ /\ Bytes(text) > OutputLimit
     /\ textCall' = [textCall EXCEPT !.at = "failed"]

-----------------------------------------------------------------------------
(* read: lines from `offset`, at most `limit`, each with its number. *)

ReadLines(text, offset, limit) ==
  LET lines == TextLines(text)
      first == IF offset = 0 THEN 1 ELSE offset
  IN  FlattenSeq([k \in 1 .. LeastOf(limit, IF first > Len(lines) THEN 0
                                            ELSE Len(lines) - first + 1) |->
                    <<ToString(first + k - 1), "t">> \o lines[first + k - 1] \o <<"n">>])

ReadFile ==
  /\ textCall.tool = "read" /\ textCall.at = "called"
  /\ \E offset \in 0 .. MaxWord, limit \in 0 .. MaxWord + 1 :
       Tells(<<offset, limit>>, ReadLines(file, offset, limit))
  /\ UNCHANGED file

-----------------------------------------------------------------------------
(* grep: per line that matches its number, the byte at which the first     *)
(* match begins and the line, without what is blank at its end.            *)

StartsAt(text, i, word) ==
  i + Len(word) - 1 <= Len(text) /\ SubSeq(text, i, i + Len(word) - 1) = word
Matching(text, word) == {i \in 1 .. Len(text) + 1 : StartsAt(text, i, word)}

Blank == {" ", "r"}
TrimEnd(line) ==
  SubSeq(line, 1, Greatest({0} \cup {i \in DOMAIN line : line[i] \notin Blank}))

GrepMatches(text, word) ==
  LET lines == RawLines(text)
      hits == Ascending({k \in DOMAIN lines : Matching(lines[k], word) # {}})
      Column(line) == Bytes(SubSeq(line, 1, Ascending(Matching(line, word))[1] - 1)) + 1
  IN  [k \in DOMAIN hits |->
        <<ToString(hits[k]), ":", ToString(Column(lines[hits[k]])), ":">>
          \o TrimEnd(lines[hits[k]])]

(* Bug: what is beyond the limit is left out without a word. *)
LimitMatchesSilently(matches) == SubSeq(matches, 1, LeastOf(MaxMatches, Len(matches)))

(* The search stops at the limit, and says so. *)
LimitMatches(matches) ==
  IF Len(matches) >= MaxMatches THEN Append(SubSeq(matches, 1, MaxMatches), <<"limit">>)
  ELSE matches

Join(lines) ==
  FlattenSeq([k \in DOMAIN lines |-> lines[k] \o IF k < Len(lines) THEN <<"n">> ELSE << >>])

GrepFile ==
  /\ textCall.tool = "grep" /\ textCall.at = "called"
  /\ \E word \in BoundedSeq(ReadSymbol \ {"n"}, MaxWord) :
       LET matches == GrepMatches(file, word)
       IN  IF matches = << >> THEN Answer(word, BoundOutput(<<"none">>))
           ELSE Tells(word, Join(LimitMatches(matches)))
  /\ UNCHANGED file

-----------------------------------------------------------------------------
(* edit: one exact string for another, once or everywhere. *)

(* `str::matches`: from the left, without overlaps. *)
MatchesOf(text, word) ==
  LET from[i \in 1 .. Len(text) + 2] ==
        IF i > Len(text) + 1 THEN {}
        ELSE IF StartsAt(text, i, word)
             THEN {i} \cup from[i + (IF word = << >> THEN 1 ELSE Len(word))]
             ELSE from[i + 1]
  IN  from[1]

SpliceAt(text, places, old, new) ==
  FlattenSeq([i \in 1 .. Len(text) + 1 |->
    (IF i \in places THEN new ELSE << >>)
    \o (IF i > Len(text) \/ \E p \in places : i \in p .. p + Len(old) - 1
        THEN << >> ELSE <<text[i]>>)])

(* Bug: the common end may run over the common beginning. *)
CommonEndOverlapping(before, after) ==
  Greatest({k \in 0 .. LeastOf(Len(before), Len(after)) :
              \A i \in 0 .. k - 1 : before[Len(before) - i] = after[Len(after) - i]})

CommonBegin(before, after) ==
  Greatest({k \in 0 .. LeastOf(Len(before), Len(after)) :
              \A i \in 1 .. k : before[i] = after[i]})
CommonEnd(before, after) ==
  Greatest({k \in 0 .. LeastOf(Len(before), Len(after)) - CommonBegin(before, after) :
              \A i \in 0 .. k - 1 : before[Len(before) - i] = after[Len(after) - i]})

DiffLine(sign, lines) == [i \in DOMAIN lines |-> [sign |-> sign, line |-> lines[i]]]
Hidden(n) == IF n > 0 THEN <<[sign |-> "hidden", count |-> n]>> ELSE << >>

(* `line_diff`: what is between the common beginning and end, in context. *)
LineDiff(before, after) ==
  LET begin == CommonBegin(before, after)
      end == CommonEnd(before, after)
      removed == SubSeq(before, begin + 1, Len(before) - end)
      added == SubSeq(after, begin + 1, Len(after) - end)
      from == IF begin > ContextLines THEN begin - ContextLines ELSE 0
      to == LeastOf(Len(before) - end + ContextLines, Len(before))
  IN  IF removed = << >> /\ added = << >> THEN << >>
      ELSE Hidden(from) \o DiffLine(" ", SubSeq(before, from + 1, begin))
           \o DiffLine("-", removed) \o DiffLine("+", added)
           \o DiffLine(" ", SubSeq(before, Len(before) - end + 1, to))
           \o Hidden(Len(before) - to)

(* The file is read. *)
EditReads ==
  /\ textCall.tool = "edit" /\ textCall.at = "called"
  /\ \E old, new \in BoundedSeq(EditSymbol, MaxWord), all \in BOOLEAN :
       /\ old # new
       /\ textCall' = [textCall EXCEPT !.at = "read", !.text = file,
                                       !.asked = [old |-> old, new |-> new, all |-> all]]
  /\ UNCHANGED file

(* Then it is written whole, or the call is refused. *)
EditWrites ==
  /\ textCall.at = "read"
  /\ LET e == textCall.asked
         places == MatchesOf(textCall.text, e.old)
         updated == SpliceAt(textCall.text, places, e.old, e.new)
         accepted == Cardinality(places) = 1 \/ (e.all /\ places # {})
     IN  /\ file' = IF accepted THEN updated ELSE file
         /\ textCall' = [textCall EXCEPT !.at = "answered",
              !.answer = [ok |-> accepted,
                          diff |-> IF accepted
                                   THEN LineDiff(TextLines(textCall.text), TextLines(updated))
                                   ELSE << >>]]

(* Another program, or another session's tool, writes the file. *)
OtherWrites ==
  /\ textCall.at = "read"
  /\ file' = << >>
  /\ UNCHANGED textCall

-----------------------------------------------------------------------------
(* Export: a package of XML parts, a PDF page, or the text as it is. *)

ReplaceSymbol(text, symbol, by) ==
  FlattenSeq([i \in DOMAIN text |-> IF text[i] = symbol THEN by ELSE <<text[i]>>])

(* Bug: the ampersand is escaped last. *)
XmlEscapeLate(text) ==
  ReplaceSymbol(ReplaceSymbol(text, "<", <<"&", "lt">>), "&", <<"&", "amp">>)

(* `xml_escape`: one `replace` after another, the ampersand's first. *)
XmlEscape(text) ==
  ReplaceSymbol(ReplaceSymbol(text, "&", <<"&", "amp">>), "<", <<"&", "lt">>)

PdfEscape(text) ==
  ReplaceSymbol(ReplaceSymbol(ReplaceSymbol(text, Escape, <<Escape, Escape>>),
                              "(", <<Escape, "(">>), ")", <<Escape, ")">>)

(* `zip_stored`: per part a local header and its bytes, then the central   *)
(* directory with each header's offset, then where that directory is.      *)
ZipStored(parts) ==
  LET OffsetOf(k) == Len(FlattenSeq([i \in 1 .. k - 1 |-> <<i>> \o parts[i].data]))
      local == FlattenSeq([k \in DOMAIN parts |->
                 <<[name |-> parts[k].name, size |-> Len(parts[k].data)]>> \o parts[k].data])
      central == [k \in DOMAIN parts |->
                   [name |-> parts[k].name, size |-> Len(parts[k].data), offset |-> OffsetOf(k)]]
  IN  Append(local \o central, [count |-> Len(parts), offset |-> Len(local)])

Part(name, data) == [name |-> name, data |-> data]
Boilerplate == <<"xml">>

(* A paragraph, or a numbered row with one cell, per line. *)
XmlLines(text) ==
  LET lines == TextLines(text)
  IN  FlattenSeq([i \in DOMAIN lines |->
        <<"<row>", ToString(i)>> \o Utf8(XmlEscape(lines[i])) \o <<"</row>">>])

ToDocx(text) ==
  ZipStored(<<Part("types", Boilerplate), Part("rels", Boilerplate),
              Part("document", XmlLines(text))>>)
ToXlsx(text) ==
  ZipStored(<<Part("types", Boilerplate), Part("rels", Boilerplate),
              Part("workbook", Boilerplate), Part("workbook rels", Boilerplate),
              Part("sheet", XmlLines(text))>>)

(* `to_pdf`: five objects, the fourth the page's text, and their offsets. *)
ToPdf(text) ==
  LET lines == TextLines(text)
      page == IF lines = << >> THEN <<"(", ")">>
              ELSE FlattenSeq([i \in DOMAIN lines |-> <<"(">> \o Utf8(PdfEscape(lines[i])) \o <<")">>])
      objects == <<<<"catalog">>, <<"pages">>, <<"page">>, page, <<"font">>>>
      Body(n) == FlattenSeq([i \in 1 .. n |-> <<[object |-> i]>> \o objects[i]])
  IN  <<"%PDF">> \o Body(5)
      \o <<[offsets |-> [i \in 1 .. 5 |-> 1 + Len(Body(i - 1))], length |-> Len(page)],
           [xref |-> 1 + Len(Body(5))]>>

Convert(format, text) ==
  CASE format = "docx" -> ToDocx(text)
    [] format = "xlsx" -> ToXlsx(text)
    [] format = "pdf"  -> ToPdf(text)
    [] format = "svg"  -> text

Export ==
  /\ textCall.tool = "export" /\ textCall.at = "called"
  /\ \E format \in {"docx", "xlsx", "pdf", "svg"} : Answer(<<format>>, Convert(format, file))
  /\ UNCHANGED file

TextNext == ReadFile \/ GrepFile \/ EditReads \/ EditWrites \/ OtherWrites \/ Export

-----------------------------------------------------------------------------
(* Properties.  What reads the answers is written apart from what wrote    *)
(* them.                                                                   *)

Answered(tool) == textCall.tool = tool /\ textCall.at = "answered"

(* What is told: all of it, or a beginning as long as the limit allows and *)
(* a file with all of it.                                                  *)
Told(a) == IF a.truncated THEN a.overflow ELSE a.shown
ToldInBound(a) ==
  /\ Bytes(a.shown) <= OutputLimit
  /\ a.truncated => /\ IsStrictPrefix(a.shown, a.overflow)
                    /\ Bytes(SubSeq(a.overflow, 1, Len(a.shown) + 1)) > OutputLimit

(* A read tells the lines asked for, each with its number. *)
ReadsAreExact ==
  Answered("read") =>
    LET lines == TextLines(textCall.text)
        told == RawLines(Told(textCall.answer))
        first == IF textCall.asked[1] = 0 THEN 1 ELSE textCall.asked[1]
    IN  /\ \A k \in DOMAIN told :
             told[k] = <<ToString(first + k - 1), "t">> \o lines[first + k - 1]
        /\ Len(told) = textCall.asked[2] \/ first + Len(told) > Len(lines)
        /\ ToldInBound(textCall.answer)

(* A search tells every line that has the pattern and nothing else, or     *)
(* says that it stopped at its limit.  A row tells the line's number, the  *)
(* byte the first match begins with, and the line but for the blanks at    *)
(* its end (which may be where it matches).                                *)
GrepsAreComplete ==
  Answered("grep") =>
    LET lines == RawLines(textCall.text)
        told == RawLines(Told(textCall.answer))
        stopped == Last(told) = <<"limit">>
        rows == IF stopped THEN Front(told) ELSE told
        Has(k) == \E i \in 1 .. Len(lines[k]) + 1 : StartsAt(lines[k], i, textCall.asked)
        Tells1(row, k) ==
          /\ row[1] = ToString(k)
          /\ \E i \in 1 .. Len(lines[k]) + 1 :
               /\ StartsAt(lines[k], i, textCall.asked)
               /\ \A j \in 1 .. i - 1 : ~StartsAt(lines[k], j, textCall.asked)
               /\ row[3] = ToString(Len(Utf8(SubSeq(lines[k], 1, i - 1))) + 1)
          /\ LET line == SubSeq(row, 5, Len(row))
             IN  /\ IsPrefix(line, lines[k]) /\ (line # << >> => Last(line) \notin Blank)
                 /\ \A i \in Len(line) + 1 .. Len(lines[k]) : lines[k][i] \in Blank
        hits == Ascending({k \in DOMAIN lines : Has(k)})
    IN  /\ IF hits = << >> THEN told = <<<<"none">>>>
           ELSE /\ \A i \in DOMAIN rows : Tells1(rows[i], hits[i])
                /\ Len(rows) = Len(hits) \/ (stopped /\ Len(rows) = MaxMatches)
        /\ ToldInBound(textCall.answer)

(* The lines an entry of a diff takes from the old text, and the new text  *)
(* that the old one and the diff make.                                     *)
Takes(d) == CASE d.sign = "hidden" -> d.count [] d.sign = "+" -> 0 [] OTHER -> 1
TakenBefore(diff, i) ==
  Len(FlattenSeq([j \in 1 .. i - 1 |-> [k \in 1 .. Takes(diff[j]) |-> j]]))
Patched(lines, diff) ==
  FlattenSeq([i \in DOMAIN diff |->
    LET at == TakenBefore(diff, i)
    IN  CASE diff[i].sign = "hidden" -> SubSeq(lines, at + 1, at + diff[i].count)
          [] diff[i].sign = "-" -> << >>
          [] OTHER -> <<diff[i].line>>])

(* The diff an edit tells makes the new lines of the old; an edit of one   *)
(* place changes that place only; a refused one leaves the file alone.     *)
EditsAreTold ==
  Answered("edit") =>
    LET lines == TextLines(textCall.text)
        e == textCall.asked
        diff == textCall.answer.diff
    IN  textCall.answer.ok =>
          /\ IF diff = << >> THEN TextLines(file) = lines
             ELSE /\ \A i \in DOMAIN diff : diff[i].sign \in {" ", "-"} =>
                       diff[i].line = lines[TakenBefore(diff, i) + 1]
                  /\ TakenBefore(diff, Len(diff) + 1) = Len(lines)
                  /\ TextLines(file) = Patched(lines, diff)
          /\ ~e.all => \E i \in Matching(textCall.text, e.old) :
               file = SubSeq(textCall.text, 1, i - 1) \o e.new
                      \o SubSeq(textCall.text, i + Len(e.old), Len(textCall.text))

(* What a reader of the formats makes of an export: a part found through   *)
(* the central directory, XML text, the strings of a PDF page.             *)
Unzipped(zip, name) ==
  LET end == Last(zip)
      central == SubSeq(zip, end.offset + 1, end.offset + end.count)
      e == CHOOSE c \in ToSet(central) : c.name = name
  IN  IF zip[e.offset + 1] = [name |-> e.name, size |-> e.size]
      THEN SubSeq(zip, e.offset + 2, e.offset + 1 + e.size) ELSE <<"corrupt">>

(* The letters of bytes; a carriage return is read as a newline. *)
Letters(bytes) ==
  FlattenSeq([i \in DOMAIN bytes |-> CASE bytes[i] = "w1" -> <<"w">> [] bytes[i] = "w2" -> << >>
                                      [] OTHER -> <<bytes[i]>>])
Returned(text) == [i \in DOMAIN text |-> IF text[i] = "r" THEN "n" ELSE text[i]]

Rows(part) ==
  LET begins == Ascending({i \in DOMAIN part : part[i] = "<row>"})
      ends == Ascending({i \in DOMAIN part : part[i] = "</row>"})
  IN  [k \in DOMAIN begins |->
        [row |-> part[begins[k] + 1], text |-> SubSeq(part, begins[k] + 2, ends[k] - 1)]]
XmlText(s) ==
  FlattenSeq([i \in DOMAIN s |->
    IF s[i] = "&" THEN (IF i < Len(s) /\ s[i + 1] = "amp" THEN <<"&">> ELSE <<"<">>)
    ELSE IF i > 1 /\ s[i - 1] = "&" THEN << >> ELSE <<s[i]>>])
WellFormed(s) ==
  \A i \in DOMAIN s : /\ s[i] \notin {"<", "ctl"}
                      /\ s[i] = "&" => i < Len(s) /\ s[i + 1] \in {"amp", "lt"}

EscapedAt(s, i) ==
  Greatest({k \in 0 .. i - 1 : \A j \in i - k .. i - 1 : s[j] = Escape}) % 2 = 1
PdfStrings(s) ==
  LET Places(c) == Ascending({i \in DOMAIN s : s[i] = c /\ ~EscapedAt(s, i)})
      open == Places("(")
      close == Places(")")
      Between(from, to) == FlattenSeq([i \in 1 .. to - from - 1 |->
        IF s[from + i] = Escape /\ ~EscapedAt(s, from + i) THEN << >> ELSE <<s[from + i]>>])
  IN  IF Len(open) # Len(close) THEN <<"corrupt">>
      ELSE [k \in DOMAIN open |-> Between(open[k], close[k])]

(* A package's part is found and can be read back, line by line, unless    *)
(* the text has a control character, which XML cannot hold and nothing     *)
(* takes out: then no reader accepts the part.  A PDF's page holds the     *)
(* lines' bytes, each of which its font shows as a letter: of a letter of  *)
(* two bytes two others are seen, and what runs over the page's edges is   *)
(* not seen at all.  An SVG is the text.                                   *)
ExportsHoldTheText ==
  Answered("export") =>
    LET lines == TextLines(textCall.text)
        out == textCall.answer
        Holds(part) ==
          LET rows == Rows(Unzipped(out, part))
          IN  /\ Len(rows) = Len(lines)
              /\ \A i \in DOMAIN lines :
                   /\ rows[i].row = ToString(i)
                   /\ WellFormed(rows[i].text) \/ "ctl" \in ToSet(lines[i])
                   /\ XmlText(Returned(Letters(rows[i].text))) = Returned(lines[i])
    IN  CASE textCall.asked[1] = "docx" -> Holds("document")
          [] textCall.asked[1] = "xlsx" -> Holds("sheet")
          [] textCall.asked[1] = "svg"  -> out = textCall.text
          [] textCall.asked[1] = "pdf"  ->
               LET xref == out[Last(out).xref + 1]
                   page == SubSeq(out, xref.offsets[4] + 2, xref.offsets[4] + 1 + xref.length)
                   shown == PdfStrings(page)
               IN  /\ \A n \in 1 .. 5 : out[xref.offsets[n] + 1] = [object |-> n]
                   /\ xref.offsets[5] = xref.offsets[4] + 1 + xref.length
                   /\ IF lines = << >> THEN shown = << << >> >>
                      ELSE shown = [i \in DOMAIN lines |-> Utf8(lines[i])]

(* What is told and written of a text is that text, or says what is        *)
(* missing; what an export loses is what its format or font cannot hold.   *)
TextIsTold ==
  /\ ReadsAreExact
  /\ GrepsAreComplete
  /\ EditsAreTold
  /\ ExportsHoldTheText

(* Not true: every export can be read back. *)
ExportsAreReadable ==
  Answered("export") =>
    LET format == textCall.asked[1]
        lines == TextLines(textCall.text)
        out == textCall.answer
        Reads(part) == \A i \in DOMAIN lines : WellFormed(Rows(Unzipped(out, part))[i].text)
    IN  CASE format = "docx" -> Reads("document")
          [] format = "xlsx" -> Reads("sheet")
          [] format = "pdf"  -> Bytes(textCall.text) = Len(textCall.text)
          [] OTHER -> TRUE

(* Not true: what another wrote between an edit's read and its write is    *)
(* lost.                                                                   *)
EditsKeepOthersWork ==
  [][textCall.at = "read" /\ textCall'.at = "answered" => file = textCall.text]_textVars

TextSpec == TextInit /\ [][TextNext]_textVars
=============================================================================
