------------------------------- MODULE Lexer -------------------------------
(***************************************************************************)
(* The lexer of bcparse (lexer.cpp over source_stream.cpp): a text is cut  *)
(* into tokens, and the ends of lines become tokens of their own, except   *)
(* before `{` and `.`.  A text is a sequence of characters.  A word that   *)
(* the program tells from others is one letter here.  One step is one turn *)
(* of the loop in Lexer::analyze: a token, the space after it and the end  *)
(* of its line.                                                            *)
(***************************************************************************)
EXTENDS Integers, Sequences, FiniteSets

CONSTANTS
  Letters,     \* letters, `_` among them, and words
  Digits,      \* decimal digits, "0" among them
  HexLetters,  \* the letters that are hexadecimal digits
  Texts        \* the files a behaviour may begin with

ASSUME LettersAssumption ==
  /\ HexLetters \subseteq Letters /\ Letters \cap Digits = {}
  /\ {"0"} \subseteq Digits /\ {"x", "n"} \subseteq Letters

VARIABLES
  text,     \* the SourceFile's buffer
  pos,      \* m_position of the SourceStream, from 1
  line,     \* m_sourceLocation's line
  tokens,   \* the TokenStream's
  failed,   \* whether the ErrorList has an error
  unit      \* "file", "body" of a directive or "interpolation"

lexVars == <<text, pos, line, tokens, failed, unit>>

Newline == "\n"
Blank == " "
DoubleQuote == "\""
Comma == ","
LeftBrace == "{"
RightBrace == "}"

Space == {Blank, Newline}
Quotes == {DoubleQuote, "'"}
Escapes == {"t", "b", "n", "r", "f", "\\"} \cup Quotes

(* peek() gives 0 at the end, at a NUL and at a byte that begins no        *)
(* character of UTF-8.                                                     *)
Nul == "NUL"

Size == Len(text)

HasNext(p) == p <= Size

Peek(p) == IF HasNext(p) THEN text[p] ELSE Nul

(* expectChar finds the character, or reports that it is missing.          *)
Expected(p, ch) == HasNext(p) /\ Peek(p) = ch

(* The first position from p on with a character outside C, or in it.      *)
Past(p, C) ==
  CHOOSE q \in p .. Size + 1 :
    /\ HasNext(q) => text[q] \notin C
    /\ \A i \in p .. q - 1 : text[i] \in C

Until(p, C) ==
  CHOOSE q \in p .. Size + 1 :
    /\ HasNext(q) => text[q] \in C
    /\ \A i \in p .. q - 1 : text[i] \notin C

Newlines(p, q) == Cardinality({i \in p .. q - 1 : text[i] = Newline})

Slice(p, q) == SubSeq(text, p, q - 1)

Token(class, value, l) == [class |-> class, value |-> value, line |-> l]

(* What a reader leaves: the token's class and value, the position after   *)
(* it, the lines it counted and whether it reported an error.              *)
Scan(class, value, to, lines, error) ==
  [class |-> class, value |-> value, to |-> to, lines |-> lines, error |-> error]

Plain(class, value, to) == Scan(class, value, to, 0, FALSE)

-----------------------------------------------------------------------------
(* readStringLiteral: a backslash takes the next character with it, be it  *)
(* the quote or the end of the line.                                       *)
Escaped(p) ==
  LET esc[i \in p + 1 .. Size + 1] ==
        i > p + 1 /\ text[i - 1] = "\\" /\ ~esc[i - 1]
  IN {i \in p + 1 .. Size + 1 : esc[i]}

(* Mistaken form of StringAt: the end of the line a string runs into is    *)
(* not counted.                                                            *)
StringAtUncounted(p) ==
  LET esc == Escaped(p)
      end == CHOOSE i \in p + 1 .. Size + 1 :
               /\ i \notin esc /\ (Peek(i) \in {text[p], Newline} \/ i >= Size)
               /\ \A j \in (p + 1 .. i - 1) \ esc :
                    Peek(j) \notin {text[p], Newline} /\ j < Size
  IN Scan("string", Slice(p + 1, end), IF HasNext(end) THEN end + 1 ELSE end,
          0, Peek(end) # text[p])

StringAt(p) ==
  LET esc == Escaped(p)
      Ends(i) ==
        i \notin esc /\ (Peek(i) \in {text[p], Newline} \/ i >= Size)
      end == CHOOSE i \in p + 1 .. Size + 1 :
               Ends(i) /\ \A j \in p + 1 .. i - 1 : ~Ends(j)
      closed == Peek(end) = text[p]
      to == IF HasNext(end) THEN end + 1 ELSE end
  IN Scan("string", Slice(p + 1, end), to, IF Peek(end) = Newline THEN 1 ELSE 0,
          ~closed \/ \E i \in esc : i < end /\ text[i] \notin Escapes)

(* readHexNumberLiteral: the character after `0x` is taken whatever it is. *)
HexAt(p) ==
  LET to == IF HasNext(p + 2) THEN Past(p + 3, Digits \cup HexLetters)
            ELSE p + 2
  IN Plain("integer", Slice(p, to), to)

(* readNumberLiteral: a point makes a float unless a letter follows it.    *)
NumberAt(p) ==
  LET point == Past(p, Digits)
      to == Past(point + 1, Digits)
  IN IF Peek(point) = "." /\ (point = p \/ Peek(point + 1) \notin Letters)
       THEN Plain("float", Slice(p, to), to)
       ELSE Plain("integer", Slice(p, point), point)

(* Mistaken form of CommentAt: the comment is a token of no class, and the *)
(* end of the line before it is lost with it.                              *)
CommentAtEmpty(p) == Plain("empty", << >>, Until(p + 2, {Newline}))

(* readComment: up to the end of the line, for which it stands.            *)
CommentAt(p) == Plain("newline", << >>, Until(p + 2, {Newline}))

DirectiveAt(p) ==
  LET to == Past(p + 1, Letters \cup Digits)
  IN Plain("directive", Slice(p + 1, to), to)

(* readIdentifier: colons belong to the name, a last one makes it a label. *)
IdentifierAt(p) ==
  LET to == Past(p, Letters \cup Digits \cup {":"})
  IN IF to > p /\ text[to - 1] = ":"
       THEN Plain("label", Slice(p, to - 1), to)
       ELSE Plain("ident", Slice(p, to), to)

(* readDataLocation: `$`, a name and an offset in brackets.                *)
DataLocationAt(p) ==
  LET name == IdentifierAt(p + 1)
      offset == Past(name.to + 1, Digits \cup {"-", "+"})
  IN IF Peek(name.to) # "["
       THEN Plain("data", name.value, name.to)
     ELSE IF Expected(offset, "]")
       THEN Plain("data", name.value \o Slice(name.to, offset + 1), offset + 1)
     ELSE Scan("data", name.value \o Slice(name.to, offset), offset, 0, TRUE)

(* readInterpolation: to the brace that closes the first one, within the   *)
(* line.  Without one the characters are lost and an error is reported.    *)
InterpolationAt(p) ==
  LET last == Until(p, {Newline})
      Braces(b, q) == Cardinality({i \in p + 1 .. q : text[i] = b})
      Closes(q) == text[q] = RightBrace /\ Braces(LeftBrace, q) = Braces(RightBrace, q)
      closing == {q \in p + 2 .. last - 1 : Closes(q)}
      close == CHOOSE q \in closing : \A r \in closing : q <= r
  IN IF ~Expected(p + 1, LeftBrace) THEN Scan("empty", << >>, p + 1, 0, TRUE)
     ELSE IF closing = {} THEN Scan("empty", << >>, last, 0, TRUE)
     ELSE Plain("interpolation", Slice(p + 2, close), close + 1)

Punctuation == {Comma, "(", ")", "[", "]", LeftBrace, RightBrace}

(* What isalpha and isdigit know is none of the other characters; a file   *)
(* is a sequence of characters.                                            *)
ASSUME CharactersAssumption ==
  (Letters \cup Digits)
    \cap (Space \cup Quotes \cup Punctuation \cup {"@", "#", "$", ".", "/", Nul}) = {}

Alphabet == UNION {{t[i] : i \in DOMAIN t} : t \in Texts}

ASSUME TextsAssumption == Texts \subseteq Seq(Alphabet)

-----------------------------------------------------------------------------
(* The order of the tests in nextToken.                                    *)
IsString(p) == Peek(p) \in Quotes
IsHex(p) == Peek(p) = "0" /\ Peek(p + 1) = "x"
IsNumber(p) ==
  \/ Peek(p) \in Digits /\ ~IsHex(p)
  \/ Peek(p) = "." /\ Peek(p + 1) \in Digits
IsComment(p) == Peek(p) = "/" /\ Peek(p + 1) = "/"

(* The characters nextToken has a use for.                                 *)
Known(p) ==
  \/ IsString(p) \/ IsHex(p) \/ IsNumber(p) \/ IsComment(p)
  \/ Peek(p) \in {"@", "#", "$"} \cup Letters \cup Punctuation

(* An interpolation's lexer has a unit of its own, whose errors nobody     *)
(* reads.                                                                  *)
Reported(error) == error /\ unit # "interpolation"

(* Whether analyze() puts a newline behind a token.                        *)
Ended(class, lines, next) ==
  lines > 0 /\ class \notin {"empty", "newline"} /\ Peek(next) \notin {LeftBrace, "."}

(* The rest of a turn of the loop: the token, skipWhitespace, the newline. *)
Read(t) ==
  LET next == Past(t.to, Space)
      lines == Newlines(t.to, next)
  IN /\ pos' = next
     /\ line' = line + t.lines + lines
     /\ tokens' =
          tokens
            \o (IF t.class = "empty" THEN << >>
                ELSE <<Token(t.class, t.value, line)>>)
            \o (IF Ended(t.class, lines, next)
                  THEN <<Token("newline", << >>, line + t.lines)>>
                  ELSE << >>)
     /\ failed' = (failed \/ Reported(t.error))
     /\ UNCHANGED <<text, unit>>

Reading == HasNext(pos) /\ Peek(pos) # Nul

ReadString == Reading /\ IsString(pos) /\ Read(StringAt(pos))
ReadHex == Reading /\ IsHex(pos) /\ Read(HexAt(pos))
ReadNumber == Reading /\ IsNumber(pos) /\ Read(NumberAt(pos))
ReadComment == Reading /\ IsComment(pos) /\ Read(CommentAt(pos))
ReadDirective == Reading /\ Peek(pos) = "@" /\ Read(DirectiveAt(pos))
ReadInterpolation == Reading /\ Peek(pos) = "#" /\ Read(InterpolationAt(pos))
ReadIdentifier == Reading /\ Peek(pos) \in Letters /\ Read(IdentifierAt(pos))
ReadDataLocation == Reading /\ Peek(pos) = "$" /\ Read(DataLocationAt(pos))

ReadPunctuation ==
  /\ Reading /\ Peek(pos) \in Punctuation
  /\ Read(Plain(Peek(pos), << >>, pos + 1))

(* Mistaken form of ReadUnknown: the character is not taken.               *)
ReadUnknownAgain == Reading /\ ~Known(pos) /\ Read(Scan("empty", << >>, pos, 0, TRUE))

ReadUnknown ==
  Reading /\ ~Known(pos) /\ Read(Scan("empty", << >>, pos + 1, 0, TRUE))

NextToken ==
  \/ ReadString \/ ReadHex \/ ReadNumber \/ ReadComment \/ ReadDirective
  \/ ReadInterpolation \/ ReadIdentifier \/ ReadDataLocation
  \/ ReadPunctuation \/ ReadUnknown

(* A new stream over the given text, the space before the first token      *)
(* skipped.                                                                *)
FirstOf(t) ==
  CHOOSE q \in 1 .. Len(t) + 1 :
    /\ q <= Len(t) => t[q] \notin Space
    /\ \A i \in 1 .. q - 1 : t[i] \in Space

Skipped(t) == Cardinality({i \in 1 .. FirstOf(t) - 1 : t[i] = Newline})

LexInit ==
  /\ text \in Texts
  /\ pos = FirstOf(text)
  /\ line = Skipped(text)
  /\ tokens = << >> /\ failed = FALSE /\ unit = "file"
=============================================================================
