------------------------------ MODULE MCParser ------------------------------
(* Files of up to three lines, each of them an instance of a rule of the   *)
(* lexer or the parser, right or wrong, with and without comments.         *)
EXTENDS Parser

MCHexLetters == {"a"}
MCLetters == {"w", "x", "n", "r", "macro", "jmp", "mov", "pop", "print"} \cup MCHexLetters
MCDigits == {"0", "1"}

Interpolated == <<"#", "{", "w", "}">>
Macro == <<"@", "macro", " ", "w">>
Open == <<"{">>
Close == <<"}">>
Pop == <<"pop", " ", "1">>
Shown == <<"print", " ", "1">>

(* Lines that belong together in twos and threes.                          *)
Few == {Macro, Macro \o Open, Open, Close, Pop, Shown, <<"@", "w", " ", "{", "pop", "}">>}

Lines == Few \cup {
  Interpolated,
  <<"jmp", " ">> \o Interpolated,
  <<"#", "{", "@", "w", "{", "}", "}">>,
  <<"jmp", " ", "#", "{", "w">>,
  <<"jmp", "#", "w">>,
  <<"jmp">>,
  <<"w", ":">>, <<"w">>,
  <<"mov", " ", "$", "r", "[", "0", "]", " ", "0", "x", "a">>,
  <<"mov", " ", "$", "r", "[", "w", " ", "1">>,
  <<"print", " ", "0", "x">>,
  <<"print", " ", "1", ".", "0", "\"", "{", "\\", "\"", "\\", "r", "\"">>,
  <<"print", " ", "1", ".", "a">>,
  <<"print", " ", "'", "w">>,
  <<"print", " ", "'", "\\">>,
  <<"print", " ", "(">>,
  <<"(">>, <<".", "1">>, <<",">>, <<"~", "pop">>, <<Nul>>
}

Glue == {<<Newline>>, <<Newline, " ", Newline>>, <<" ", "/", "/", "w", Newline>>}

MCTexts ==
  {a \o g \o b \o e : a, b \in Lines, g \in Glue, e \in {<< >>, <<Newline>>}}
    \cup {a \o g \o b \o <<Newline>> \o c : a, b, c \in Few, g \in Glue}
=============================================================================
