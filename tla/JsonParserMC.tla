---------------------------- MODULE JsonParserMC ----------------------------
(* Texts for TLC: few kinds of lexemes to a text, so that it may be long.   *)
EXTENDS JsonParser

Number(n) == Word(NUMBER, "int", n)
Structure == {Mark(t) : t \in {A_BEGIN, A_END, O_BEGIN, O_END, COMMA, COLON}}
Lists == {Number(1)} \cup {Mark(t) : t \in {A_BEGIN, A_END, COMMA}}
OtherValues == {Word(STRING_T, "string", 1), Word(TRUE_T, "bool", 1), Word(FALSE_T, "bool", 0),
             Word(NULL_T, "nil", 0)}
Members == {Mark(t) : t \in {O_BEGIN, O_END, COMMA, COLON}} \cup {Number(1), Number(2)}
Kinds == {Lexeme(k) : k \in {"import", "name", "rest", "blank", "newline", "other"}}

Text(lexemes, left, calls) == [lexemes |-> lexemes, left |-> left, calls |-> calls]
AnyTexts ==
  {Text(Lists, 7, 4), Text(Members, 9, 3),
   Text(Structure \cup {Number(1)}, 6, 4), Text(Structure \cup OtherValues, 4, 3),
   Text(Kinds \cup {Mark(A_BEGIN), Mark(A_END)}, 5, 5)}
=============================================================================
