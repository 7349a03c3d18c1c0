------------------------------ MODULE Parser -------------------------------
(***************************************************************************)
(* The parser of bcparse (parser.cpp over token_stream.hpp) on the tokens  *)
(* the lexer leaves.  One step is one call of parseStatement.  When a unit *)
(* is parsed, what it holds may be read in turn: the braces of a directive *)
(* are parsed by AstCodeBody::visit or where the macro is used, and what   *)
(* an interpolation holds is cut into tokens by a lexer of its own.        *)
(***************************************************************************)
EXTENDS Lexer, Hoisting

VARIABLES
  phase,    \* "lex", "parse" or "parsed"
  at,       \* m_position of the TokenStream, from 1
  stmts     \* the statements read, then as the AstIterator has them

vars == <<lexVars, phase, at, stmts>>

Length == Len(tokens)

Class(p) == IF p \in 1 .. Length THEN tokens[p].class ELSE "empty"

IsWord(p, words) == Class(p) = "ident" /\ tokens[p].value \in {<<w>> : w \in words}

(* Past the newlines from p on: skipStatementTerminators.                  *)
Begin(p) ==
  CHOOSE q \in p .. Length + 1 :
    Class(q) # "newline" /\ \A i \in p .. q - 1 : Class(i) = "newline"

-----------------------------------------------------------------------------
(* parseTerm: the classes that make an expression; a parenthesis and a     *)
(* bracket make none, and no error; any other token is an error and is     *)
(* passed over, and so is the end of the tokens.                           *)
Operand == {"ident", "integer", "float", "string", "interpolation", "data"}
Ignored == {"(", "["}

(* Where a list of n operands that begins at p ends, or stops short.       *)
OperandsEnd(p, n) ==
  CHOOSE q \in p .. p + n :
    /\ q < p + n => Class(q) \notin Operand
    /\ \A i \in p .. q - 1 : Class(i) \in Operand

(* The operands of a directive, a call or a print: up to the end of the    *)
(* line, an opening brace or a token that is no operand.                   *)
ArgumentsEnd(p) ==
  CHOOSE q \in p .. Length + 1 :
    Class(q) \notin Operand /\ \A i \in p .. q - 1 : Class(i) \in Operand

Stops(q) == q > Length \/ Class(q) \in {"newline", LeftBrace}

(* An operand missing at q: whether that is reported, and the position     *)
(* after it.                                                               *)
Misses(q) == Class(q) \notin Ignored

AfterMissing(q) == IF Misses(q) /\ q <= Length THEN q + 1 ELSE q

(* Mistaken form of EndOfStmt: the rest of the line is not skipped.        *)
EndOfStmtInPlace(p) ==
  IF p > Length THEN [at |-> p, error |-> FALSE]
  ELSE IF Class(p) = "newline" THEN [at |-> p + 1, error |-> FALSE]
  ELSE [at |-> p, error |-> TRUE]

(* expectEndOfStmt, where there are tokens left: past the newline, or past *)
(* the next one with an error.                                             *)
EndOfStmt(p) ==
  LET q == CHOOSE q \in p + 1 .. Length + 1 :
             /\ q > Length \/ Class(q) = "newline"
             /\ \A i \in p + 1 .. q - 1 : Class(i) # "newline"
  IN IF p > Length THEN [at |-> p, error |-> FALSE]
     ELSE IF Class(p) = "newline" THEN [at |-> p + 1, error |-> FALSE]
     ELSE [at |-> IF q > Length THEN q ELSE q + 1, error |-> TRUE]

(* The statement of the tokens first .. last - 1 is read; the tokens       *)
(* between its braces come with it.                                        *)
Parsed(kind, first, last, error, body) ==
  LET end == EndOfStmt(last)
  IN /\ stmts' = Append(stmts, [kind |-> kind, first |-> first, last |-> last - 1,
                                body |-> body])
     /\ at' = end.at
     /\ failed' = (failed \/ error \/ end.error)
     /\ UNCHANGED <<text, pos, line, tokens, unit, phase>>

(* AstDirective::isHoisted: the definitions of macros come first.          *)
IsMacro(s) == s.kind = "directive" /\ tokens[s.first].value = <<"macro">>

Hoist(s) == HoistFrom(s, {i \in DOMAIN s : IsMacro(s[i])})

(* parse() gives its statements to the iterator and returns, when          *)
(* parseStatement returned none.                                           *)
Stop(p, error) ==
  /\ stmts' = Hoist(stmts)
  /\ at' = p
  /\ failed' = (failed \/ error)
  /\ phase' = "parsed"
  /\ UNCHANGED <<text, pos, line, tokens, unit>>

-----------------------------------------------------------------------------
Parsing == phase = "parse"

first == Begin(at)

(* The last statement was followed by newlines at most.                    *)
ParseEnd == Parsing /\ first > Length /\ Stop(first, FALSE)

(* Mistaken form of Closing: braces inside are not counted.                *)
ClosingFirst(p) ==
  LET closes == {q \in p .. Length : Class(q) = RightBrace}
  IN IF closes = {} THEN Length + 1 ELSE CHOOSE q \in closes : \A r \in closes : q <= r

(* The closing brace of the one opened before p, or the end.               *)
Closing(p) ==
  LET Count(c, q) == Cardinality({i \in p .. q : Class(i) = c})
      closes == {q \in p .. Length :
                   /\ Class(q) = RightBrace
                   /\ Count(RightBrace, q) = Count(LeftBrace, q) + 1}
  IN IF closes = {} THEN Length + 1 ELSE CHOOSE q \in closes : \A r \in closes : q <= r

(* parseDirective: operands, then the tokens between braces.               *)
ParseDirective ==
  /\ Parsing /\ Class(first) = "directive"
  /\ LET end == ArgumentsEnd(first + 1)
         error == ~Stops(end) /\ Misses(end)
         open == IF Stops(end) THEN end ELSE AfterMissing(end)
         close == Closing(open + 1)
     IN IF Class(open) = LeftBrace
          THEN Parsed("directive", first, IF close > Length THEN close ELSE close + 1,
                      error, SubSeq(tokens, open + 1, close - 1))
          ELSE Parsed("directive", first, open, error, << >>)

ParseLabel ==
  /\ Parsing /\ Class(first) = "label"
  /\ Parsed("label", first, first + 1, FALSE, << >>)

(* The commands, by the operands they take.                                *)
Jumps == {"jmp", "je", "jne", "jg", "jge"}
Binary == {"add", "addf", "addfl", "addfr", "sub", "subf", "subfl", "subfr",
           "mul", "mulf", "mulfl", "mulfr", "div", "divf", "divfl", "divfr",
           "mod", "xor", "and", "or", "shl", "shr"}
Lists == {"call", "print"}

Taking(n) ==
  CASE n = 1 -> Jumps \cup {"push"}
    [] n = 2 -> {"cmp", "mov"} \cup Binary

Commands == Taking(1) \cup Taking(2) \cup Lists \cup {"pop"}

(* A command with one or two operands; without one of them it is dropped.  *)
ParseCommand(n) ==
  /\ Parsing /\ IsWord(first, Taking(n))
  /\ LET end == OperandsEnd(first + 1, n)
     IN IF end = first + 1 + n
          THEN Parsed("command", first, end, FALSE, << >>)
          ELSE Stop(AfterMissing(end), Misses(end))

ParsePop ==
  /\ Parsing /\ IsWord(first, {"pop"})
  /\ Parsed("command", first,
            IF Class(first + 1) = "integer" THEN first + 2 ELSE first + 1,
            FALSE, << >>)

ParseList ==
  /\ Parsing /\ IsWord(first, Lists)
  /\ LET end == ArgumentsEnd(first + 1)
     IN IF Stops(end) THEN Parsed("command", first, end, FALSE, << >>)
        ELSE Parsed("command", first, AfterMissing(end), Misses(end), << >>)

(* Another word is a variable within an interpolation, else an error.      *)
ParseWord ==
  /\ Parsing /\ Class(first) = "ident" /\ ~IsWord(first, Commands)
  /\ IF unit = "interpolation"
       THEN Parsed("variable", first, first + 1, FALSE, << >>)
       ELSE Stop(first + 1, TRUE)

(* Mistaken form of ParseExpression: a token that begins no statement is   *)
(* not reported.                                                           *)
ParseExpressionSilently ==
  /\ Parsing /\ first <= Length
  /\ Class(first) \notin {"directive", "label", "ident"}
  /\ IF Class(first) \in Operand
       THEN Parsed("expression", first, first + 1, FALSE, << >>)
       ELSE Stop(AfterMissing(first), FALSE)

(* Any other token: an expression, or none.                                *)
ParseExpression ==
  /\ Parsing /\ first <= Length
  /\ Class(first) \notin {"directive", "label", "ident"}
  /\ IF Class(first) \in Operand
       THEN Parsed("expression", first, first + 1, FALSE, << >>)
       ELSE Stop(AfterMissing(first), Misses(first))

ParseStatement ==
  \/ ParseEnd \/ ParseDirective \/ ParseLabel \/ (\E n \in 1 .. 2 : ParseCommand(n))
  \/ ParsePop \/ ParseList \/ ParseWord \/ ParseExpression

-----------------------------------------------------------------------------
(* analyze() returns, and parse() begins.                                  *)
Lexed ==
  /\ phase = "lex" /\ ~Reading
  /\ phase' = "parse" /\ at' = 1 /\ stmts' = << >>
  /\ UNCHANGED lexVars

Lex == phase = "lex" /\ NextToken /\ UNCHANGED <<phase, at, stmts>>

(* The tokens of a statement outside its braces.                           *)
Words(s) == {p \in s.first .. s.last : \A i \in s.first .. p : Class(i) # LeftBrace}

(* The braces of a directive are parsed, as a unit of their own.           *)
OpenBody ==
  /\ phase = "parsed"
  /\ \E i \in DOMAIN stmts :
       /\ stmts[i].body # << >>
       /\ tokens' = stmts[i].body
  /\ unit' = "body" /\ phase' = "parse" /\ at' = 1 /\ stmts' = << >>
  /\ UNCHANGED <<text, pos, line, failed>>

(* parseInterpolation's lexer begins, and a parser in variable mode after  *)
(* it.                                                                     *)
OpenInterpolation ==
  /\ phase = "parsed"
  /\ \E i \in DOMAIN stmts : \E p \in Words(stmts[i]) :
       /\ tokens[p].class = "interpolation"
       /\ text' = tokens[p].value
       /\ pos' = FirstOf(text')
       /\ line' = tokens[p].line + Skipped(text')
  /\ unit' = "interpolation" /\ phase' = "lex"
  /\ tokens' = << >> /\ at' = 1 /\ stmts' = << >>
  /\ UNCHANGED failed

Init == LexInit /\ phase = "lex" /\ at = 1 /\ stmts = << >>

Next == Lex \/ Lexed \/ ParseStatement \/ OpenBody \/ OpenInterpolation

(* analyze() and parse() run to their end, and what is read is visited.    *)
Spec == Init /\ [][Next]_vars /\ WF_vars(Next)

-----------------------------------------------------------------------------
(* Newlines the lexer passes without counting them: behind a backslash in  *)
(* a string, and behind `0x`.                                              *)
Swallows ==
  \E i \in 2 .. Size : text[i] = Newline /\ text[i - 1] \in {"\\", "x"}

(* Messages name the right line: wherever the lexer stands in a file, its  *)
(* line is the number of ends of lines before it, through comments, blank  *)
(* lines and strings that run into the end of their line                   *)
(* (Lexer::skipWhitespace, readStringLiteral).                             *)
Located ==
  unit = "file" /\ ~Swallows => line = Newlines(1, pos)

(* A line is a statement (Lexer::analyze, Parser::expectEndOfStmt): where  *)
(* no error was reported, the tokens of a statement outside its braces lie *)
(* on one line, except that `{` and `.` may begin the next, and the next   *)
(* statement begins on a later line.                                       *)
Continues(p) ==
  \/ Class(p) = LeftBrace
  \/ Class(p) = "float" /\ tokens[p].value[1] = "."

LinesAreStatements ==
  phase = "parsed" /\ ~failed /\ ~Swallows =>
    /\ \A i \in DOMAIN stmts : \A p \in Words(stmts[i]) :
         p > stmts[i].first =>
           tokens[p].line = tokens[p - 1].line \/ Continues(p)
    /\ \A i, j \in DOMAIN stmts :
         stmts[i].first < stmts[j].first =>
           tokens[stmts[i].last].line < tokens[stmts[j].first].line

(* Nothing is left out in silence (Parser::parse): a unit parsed without   *)
(* an error has each of its tokens in a statement, unless the parser met a *)
(* parenthesis or a bracket where it wanted an operand: that ends the unit *)
(* without a word.                                                         *)
NothingDropped ==
  phase = "parsed" /\ ~failed =>
    \/ at <= Length /\ Class(at) \in Ignored
    \/ \A p \in 1 .. Length :
         \/ Class(p) = "newline"
         \/ \E i \in DOMAIN stmts : p \in stmts[i].first .. stmts[i].last

(* A directive ends at the brace that closes its own, through the braces   *)
(* of directives inside it, or nowhere (Parser::parseDirective); and an    *)
(* interpolation likewise (Lexer::readInterpolation).                      *)
BracesMatch ==
  /\ \A i \in DOMAIN stmts :
       LET Of(c) ==
             {p \in (stmts[i].first .. stmts[i].last) \ Words(stmts[i]) : Class(p) = c}
       IN \/ Cardinality(Of(LeftBrace)) = Cardinality(Of(RightBrace))
          \/ stmts[i].last = Length
  /\ \A p \in 1 .. Length : Class(p) = "interpolation" =>
       LET Of(c) == {i \in DOMAIN tokens[p].value : tokens[p].value[i] = c}
       IN Cardinality(Of(LeftBrace)) = Cardinality(Of(RightBrace))

(* After an error the parser goes on at the beginning of a line: no        *)
(* statement is made of the rest of one that was wrong                     *)
(* (Parser::expectEndOfStmt).                                              *)
Resumes ==
  \A i \in DOMAIN stmts :
    stmts[i].first = 1 \/ Class(stmts[i].first - 1) = "newline"

(* Reading ends, whatever the text is, and so does the reading of bodies   *)
(* and interpolations inside one another: every turn of the loops of       *)
(* Lexer::analyze and Parser::parse takes something.                       *)
Ends == <>[](phase = "parsed")
=============================================================================
