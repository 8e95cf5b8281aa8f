------------------------------ MODULE HappyReader ------------------------------
(***************************************************************************)
(* The reading half of Happy's Parser (tools/happy/src/Parser.cpp): the    *)
(* buffer that is filled by read() and trimmed now and then, the position  *)
(* in the document, the cached symbol, and the functions that take one     *)
(* symbol out of the document.  Which of them is called next is decided by *)
(* the grammar (HappyParser); here it is any function that fits the next   *)
(* symbol, and a ParseException may end the parsing at any symbol.         *)
(*                                                                         *)
(* A character is a string; SP, LF, CR, BSL and NUL name the space, the    *)
(* line feed, the carriage return, the backslash and the zero byte.  The   *)
(* letter D stands for the text of a keyword: the six keywords are told    *)
(* apart by their text and treated alike.  No rule calls parse_number yet; *)
(* it is a function of the class like the others.  The value of a number   *)
(* is a decimal fraction, where the code's double rounds.                  *)
(***************************************************************************)
EXTENDS Integers, SequencesExt

CONSTANTS
  Alphabet,      \* characters of the documents
  MaxLength,     \* bound: characters of a document
  Reads,         \* the most a call of read() returns
  ReadAhead,     \* 0x0800
  TrimAt,        \* 0x4000
  IntegerMax     \* the largest AstInteger

ASSUME ReaderAssumption ==
  /\ MaxLength \in Nat /\ Reads \subseteq Nat \ {0}
  /\ ReadAhead \in Nat \ {0} /\ TrimAt \in Nat \ {0} /\ IntegerMax \in Nat

VARIABLES
  parser,        \* the members of Parser, and the rest of the stream
  outcome,       \* how parsing has ended, or "parsing"
  \* History, not in the code:
  doc,           \* the document
  read_size,     \* the reader's choice from Reads
  delivered      \* the values of the symbols taken

vars == <<parser, outcome, doc, read_size, delivered>>

DigitValue == [c \in {"0", "7"} |-> IF c = "0" THEN 0 ELSE 7]
Digits == DOMAIN DigitValue
Letters == {"n", "D"}
WordChars == Letters \cup Digits \cup {"_"}
Quotes == {"'", "''"}
Blanks == {"SP", "LF", "CR"}
Keyword == <<"D">>

\* SIGN(x) of peek_symbol and parse_symbol.
Signs ==
  [c \in {":", ".", "{", "}", "[", "]"} |->
    CASE c = ":" -> "colon"        [] c = "." -> "namespace_sep"
      [] c = "{" -> "curly_open"   [] c = "}" -> "curly_close"
      [] c = "[" -> "bracket_open" [] c = "]" -> "bracket_close"]

Drop(s, n) == SubSeq(s, n + 1, Len(s))

Init ==
  /\ doc \in SeqOf(Alphabet, MaxLength)
  /\ read_size \in Reads
  /\ parser = [unread |-> doc, buffer |-> <<>>, buffer_offset |-> 0,
               line |-> 1, column |-> 0, next_symbol |-> "invalid"]
  /\ outcome = "parsing" /\ delivered = <<>>

--------------------------------------------------------------------------------
(* The buffer. *)

\* The loop of peek_at: read until the character is there or the stream ends.
RECURSIVE Fill(_, _)
Fill(p, offset) ==
  LET wanted == p.buffer_offset + offset + ReadAhead - Len(p.buffer)
      readlen == Min({wanted, read_size, Len(p.unread)})
  IN IF p.buffer_offset + offset < Len(p.buffer) \/ readlen = 0 THEN p
     ELSE Fill([p EXCEPT !.buffer = @ \o SubSeq(p.unread, 1, readlen),
                         !.unread = Drop(@, readlen)], offset)

\* What peek_at returns once the buffer is filled.
At(p, offset) ==
  IF p.buffer_offset + offset < Len(p.buffer)
  THEN p.buffer[p.buffer_offset + offset + 1] ELSE "NUL"

\* A loop that peeks from offset on, as long as the characters are in chars.
RECURSIVE Span(_, _, _)
Span(p, offset, chars) ==
  LET q == Fill(p, offset)
  IN IF At(q, offset) \in chars THEN Span(q, offset + 1, chars)
     ELSE [parser |-> q, length |-> offset]

\* trim_opportunity
Trim(p) ==
  IF p.buffer_offset < TrimAt THEN p
  ELSE [p EXCEPT !.buffer = Drop(@, p.buffer_offset), !.buffer_offset = 0]

\* What a character does to the position: in advance, and in skip_whitespace.
Newline(p) == [p EXCEPT !.line = @ + 1, !.column = 0]
Column(p) == [p EXCEPT !.column = @ + 1]
Next1(p) == [p EXCEPT !.buffer_offset = @ + 1]

\* Mutant: a line feed inside a symbol is one more column.
AdvanceInLine(p, offset) ==
  Trim([p EXCEPT !.column = @ + offset, !.buffer_offset = @ + offset,
                 !.next_symbol = "invalid"])

\* Mutant: the symbol stays cached.
AdvanceCached(p, offset) ==
  LET Passed(q, c) == IF c = "LF" THEN Newline(q) ELSE Column(q)
      q == FoldLeft(Passed, p, [j \in 1 .. offset |-> At(p, j - 1)])
  IN Trim([q EXCEPT !.buffer_offset = @ + offset])

\* advance: the characters have been peeked before.
Advance(p, offset) ==
  LET Passed(q, c) == IF c = "LF" THEN Newline(q) ELSE Column(q)
      text == [j \in 1 .. offset |-> At(p, j - 1)]
      q == FoldLeft(Passed, p, text)
  IN Trim([q EXCEPT !.buffer_offset = @ + offset, !.next_symbol = "invalid"])

\* The loop of skip_whitespace, and its inner loop, which passes the comment
\* mark and what follows it up to the end of the line.
RECURSIVE Skip(_)
Skip(p) ==
  LET q == Fill(p, 0)
      comment == Span(q, 1, Alphabet \ {"NUL", "LF", "CR"})
  IN CASE At(q, 0) = "SP" -> Skip(Next1(Column(q)))
       [] At(q, 0) = "LF" -> Skip(Next1(Newline(q)))
       [] At(q, 0) = "CR" -> Skip(Next1(q))
       [] At(q, 0) = "#" -> Skip([comment.parser EXCEPT !.column = @ + comment.length,
                                                       !.buffer_offset = @ + comment.length])
       [] OTHER -> q

--------------------------------------------------------------------------------
(* The symbols. *)

\* The symbol at the start of a parser whose whitespace has been skipped, and
\* the parser with what had to be read ahead for it.
Classify(p) ==
  LET c == At(p, 0)
      digits == Span(p, 1, Digits)
      word == Span(p, 1, WordChars)
      text == [j \in 1 .. word.length |-> At(word.parser, j - 1)]
      Is(q, symbol) == [q EXCEPT !.next_symbol = symbol]
  IN CASE c = "NUL" -> Is(p, "eof")
       [] c \in Digits \cup {"-", "+"} ->
            Is(digits.parser,
               IF At(digits.parser, digits.length) = "." THEN "number" ELSE "integer")
       [] c \in DOMAIN Signs -> Is(p, Signs[c])
       [] c \in Quotes -> Is(p, "string")
       [] c \in Letters ->
            Is(word.parser, IF text = Keyword THEN "keyword" ELSE "identifier")
       [] OTHER -> Is(p, "error")

\* peek_symbol
Peek(p) ==
  IF p.next_symbol # "invalid" THEN p ELSE Classify(Fill(Trim(Skip(p)), 0))

\* parse_string's loop, from offset on: the value and the length of the
\* symbol; found is false when the stream ends before the delimiter.
RECURSIVE Scan(_, _, _)
Scan(p, offset, ret) ==
  LET q == Fill(p, offset)
      r == Fill(q, offset + 1)
      Ended(x, n) == x.buffer_offset + n >= Len(x.buffer)
      escape == [c \in Alphabet \cup {"NUL"} |->
                   CASE c = "n" -> "LF" [] c = "0" -> "NUL" [] OTHER -> c]
  IN CASE Ended(q, offset) -> [parser |-> q, found |-> FALSE]
       [] At(q, offset) = At(q, 0) ->
            [parser |-> q, found |-> TRUE, length |-> offset + 1, value |-> ret]
       [] At(q, offset) = "BSL" ->
            Scan(r, offset + 2, Append(ret, escape[At(r, offset + 1)]))
       [] OTHER -> Scan(q, offset + 1, Append(ret, At(q, offset)))

\* An AstInteger after an operation, in two's complement.
Wrap(v) == ((v + IntegerMax + 1) % (2 * (IntegerMax + 1))) - IntegerMax - 1

\* The digits that parse_integer and parse_number add up, at the offsets
\* from .. to - 1.
DigitsAt(p, from, to) == [j \in 1 .. to - from |-> DigitValue[At(p, from + j - 1)]]

--------------------------------------------------------------------------------
(* The functions the rules call.  All but the first begin with expect. *)

PeekSymbol ==
  /\ outcome = "parsing" /\ parser.next_symbol = "invalid"
  /\ parser' = Peek(parser)
  /\ UNCHANGED <<outcome, doc, read_size, delivered>>

\* A function that takes a symbol of length characters out of p.
Take(p, length, value) ==
  /\ parser' = Advance(p, length)
  /\ delivered' = Append(delivered, value)
  /\ UNCHANGED <<outcome, doc, read_size>>

\* parse_symbol trims once more.
ParseSymbol ==
  /\ outcome = "parsing"
  /\ LET p == Peek(parser)
     IN /\ p.next_symbol \in Range(Signs) \cup {"keyword"}
        /\ parser' = Trim(Advance(p, IF p.next_symbol = "keyword" THEN Len(Keyword) ELSE 1))
        /\ delivered' = Append(delivered, p.next_symbol)
  /\ UNCHANGED <<outcome, doc, read_size>>

ParseIdentifier ==
  /\ outcome = "parsing"
  /\ LET word == Span(Peek(parser), 0, WordChars)
     IN /\ word.parser.next_symbol = "identifier"
        /\ Take(word.parser, word.length,
                [j \in 1 .. word.length |-> At(word.parser, j - 1)])

ParseString ==
  /\ outcome = "parsing" /\ Peek(parser).next_symbol = "string"
  /\ LET text == Scan(Peek(parser), 1, <<>>)
     IN \/ text.found /\ Take(text.parser, text.length, text.value)
        \/ \* peek_at answers '\0' for ever
           /\ ~text.found /\ outcome' = "overrun" /\ parser' = text.parser
           /\ UNCHANGED <<doc, read_size, delivered>>

\* The length of the sign at the start, and what the sign does to a value.
SignLength(p) == IF At(p, 0) \in {"-", "+"} THEN 1 ELSE 0
Signed(p, v) == IF At(p, 0) = "-" THEN -v ELSE v

ParseInteger ==
  /\ outcome = "parsing"
  /\ LET p == Peek(parser)
         digits == Span(p, SignLength(p), Digits)
         Add(v, digit) == Wrap(v * 10 + digit)
         ret == FoldLeft(Add, 0, DigitsAt(digits.parser, SignLength(p), digits.length))
     IN /\ p.next_symbol = "integer"
        /\ Take(digits.parser, digits.length, Wrap(Signed(p, ret)))

\* The value is units / 10^places.
ParseNumber ==
  /\ outcome = "parsing"
  /\ LET p == Peek(parser)
         Add(v, digit) == v * 10 + digit
         whole == Span(p, SignLength(p), Digits)
         fract == Span(whole.parser, whole.length + 1, Digits)
         ret == FoldLeft(Add, 0, DigitsAt(whole.parser, SignLength(p), whole.length))
         units == FoldLeft(Add, ret, DigitsAt(fract.parser, whole.length + 1, fract.length))
     IN /\ p.next_symbol = "number"
        /\ Take(fract.parser, fract.length,
                [units |-> Signed(p, units), places |-> fract.length - whole.length - 1])

\* unexpected: some rule does not accept the symbol.
Unexpected ==
  /\ outcome = "parsing"
  /\ parser' = Peek(parser) /\ outcome' = "exception"
  /\ UNCHANGED <<doc, read_size, delivered>>

\* parse_document's loop ends.
Eof ==
  /\ outcome = "parsing" /\ Peek(parser).next_symbol = "eof"
  /\ parser' = Peek(parser) /\ outcome' = "document"
  /\ UNCHANGED <<doc, read_size, delivered>>

Next ==
  \/ PeekSymbol \/ ParseSymbol \/ ParseIdentifier \/ ParseString
  \/ ParseInteger \/ ParseNumber \/ Unexpected \/ Eof

Spec == Init /\ [][Next]_vars

--------------------------------------------------------------------------------
(* The symbols of a document, defined on its text: no buffer, no cache, and  *)
(* a symbol is the longest piece of text that has the form of one.           *)

\* Blanks, and comments up to the end of their line.
IsGap(w) ==
  \A j \in 1 .. Len(w) :
    \/ w[j] \in Blanks
    \/ \E k \in 1 .. j : w[k] = "#" /\ \A i \in k .. j : w[i] \notin {"LF", "CR", "NUL"}

\* A character of a string counts as written after an odd run of backslashes.
Escaped(w, j) ==
  \E k \in 1 .. j - 1 :
    k % 2 = 1 /\ j - k > 1 /\ (\A i \in j - k .. j - 1 : w[i] = "BSL")
              /\ (j - k = 2 \/ w[j - k - 1] # "BSL")

IsString(w) ==
  /\ Len(w) > 1 /\ w[1] \in Quotes
  /\ \A j \in 2 .. Len(w) : (w[j] = w[1] /\ ~Escaped(w, j)) <=> j = Len(w)

IsWord(w) == w[1] \in Letters /\ ToSet(w) \subseteq WordChars

\* A number with at most one point, which a sign or a digit precedes.
IsNumeral(w) ==
  /\ w[1] \in Digits \cup {"-", "+"}
  /\ \A j \in 2 .. Len(w) : w[j] \in Digits \cup {"."}
  /\ Cardinality({j \in 1 .. Len(w) : w[j] = "."}) <= 1

\* The sum of the digits of w, each with its weight.
Worth(w) ==
  LET ds == SelectSeq(w, LAMBDA c : c \in Digits)
      Weighted(j, sum) == sum + DigitValue[ds[j]] * 10 ^ (Len(ds) - j)
      sum == FoldSet(Weighted, 0, DOMAIN ds)
  IN IF w[1] = "-" THEN -sum ELSE sum

\* What an escape sequence, or another character of a string, stands for.
Unescaped(w) ==
  LET Kept(j) == w[j] # "BSL" \/ Escaped(w, j)
      Meant(j) == IF ~Escaped(w, j) THEN w[j]
                  ELSE CASE w[j] = "n" -> "LF" [] w[j] = "0" -> "NUL" [] OTHER -> w[j]
      Add(s, j) == IF Kept(j) THEN Append(s, Meant(j)) ELSE s
  IN FoldLeft(Add, <<>>, [j \in 1 .. Len(w) - 2 |-> j + 1])

\* The symbol after the first i characters: its place, its kind and its value.
TokenAt(i) ==
  LET Text(a, n) == SubSeq(doc, a + 1, a + n)
      start == i + Max({n \in 0 .. Len(doc) - i : IsGap(Text(i, n))})
      Longest(Form(_)) == Max({0} \cup {n \in 1 .. Len(doc) - start : Form(Text(start, n))})
      Token(symbol, n, value) ==
        [symbol |-> symbol, start |-> start, end |-> start + n, value |-> value]
      c == IF start = Len(doc) THEN "NUL" ELSE doc[start + 1]
      word == Text(start, Longest(IsWord))
      numeral == Text(start, Longest(IsNumeral))
      string == Text(start, Longest(IsString))
      points == {j \in 1 .. Len(numeral) : numeral[j] = "."}
  IN CASE c = "NUL" -> Token("eof", 0, "")
       [] c \in DOMAIN Signs -> Token(Signs[c], 1, Signs[c])
       [] word = Keyword -> Token("keyword", Len(word), "keyword")
       [] word # <<>> /\ word # Keyword -> Token("identifier", Len(word), word)
       [] numeral # <<>> /\ points = {} -> Token("integer", Len(numeral), Worth(numeral))
       [] points # {} ->
            Token("number", Len(numeral),
                  [units |-> Worth(numeral), places |-> Len(numeral) - Max(points)])
       [] c \in Quotes -> Token("string", Len(string), Unescaped(string))
       [] OTHER -> Token("error", 0, "")

\* The first n symbols.
RECURSIVE Tokens(_)
Tokens(n) ==
  IF n = 0 THEN <<>>
  ELSE LET before == Tokens(n - 1)
       IN Append(before, TokenAt(IF n = 1 THEN 0 ELSE before[n - 1].end))

Taken == Tokens(Len(delivered))
Place == IF delivered = <<>> THEN 0 ELSE Taken[Len(delivered)].end
Upcoming == TokenAt(Place)

\* The parser's position: before the next symbol once that has been peeked.
Position == IF parser.next_symbol = "invalid" THEN Place ELSE Upcoming.start

\* What parse_symbol, parse_identifier, parse_string and parse_integer deliver
\* is the document, symbol by symbol: no cached symbol outlives its text, no
\* value depends on where a read ended or the buffer was trimmed, and an
\* integer that AstInteger can hold is exact.  parse_string runs past the end
\* of the stream exactly when the string is not closed.
ReadsTheDocument ==
  /\ \A k \in 1 .. Len(delivered) :
       \/ delivered[k] = Taken[k].value
       \/ /\ Taken[k].symbol = "integer"
          /\ Taken[k].value \notin -IntegerMax .. IntegerMax
  /\ parser.next_symbol \in {"invalid", Upcoming.symbol}
  /\ outcome = "overrun" => Upcoming.symbol = "string" /\ Upcoming.end = Upcoming.start
  /\ outcome = "document" => Upcoming.symbol = "eof"

\* current_position, which a ParseException and every node of the tree carry:
\* the line is one more than the line feeds before it, in strings and comments
\* too, and the column is the number of characters since the last of them.
\* skip_whitespace counts no column for a carriage return.
PositionExact ==
  LET feeds == {j \in 1 .. Position : doc[j] = "LF"}
      bol == Max({0} \cup feeds)
  IN /\ parser.line = 1 + Cardinality(feeds)
     /\ (\A j \in bol + 1 .. Position : doc[j] # "CR") => parser.column = Position - bol
====
