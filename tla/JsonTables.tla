----------------------------- MODULE JsonTables -----------------------------
(***************************************************************************)
(* The tables of the JSON parser that bison wrote to c/json/json.yacc.c,   *)
(* and the way yyparse looks a state and a symbol up in them.  A symbol is *)
(* its internal number, a rule its number in json.y.                       *)
(***************************************************************************)
EXTENDS Integers, Sequences

EOF == 0
NUMBER == 3
STRING_T == 4
TRUE_T == 5
FALSE_T == 6
NULL_T == 7
O_BEGIN == 8
O_END == 9
A_BEGIN == 10
A_END == 11
COMMA == 12
COLON == 13
CODE_SEG == 16

YYFINAL == 26
YYLAST == 41
YYNTOKENS == 14
YYPACT_NINF == -7

Table(t) == [i \in 0 .. Len(t) - 1 |-> t[i + 1]]

yypact == Table(
  <<27, 14, -3, 15, 27, -7, -7, -7, -7, -7, -7, -7, -7, 13, -6, 18, -7, -7, -7, -7,
    -7, -7, -7, -7, 25, 20, -7, -7, -7, 21, 6, -7, 6, -7, -7, -7>>)
yydefact == Table(
  <<0, 0, 0, 0, 2, 5, 4, 16, 15, 17, 18, 19, 6, 0, 8, 0, 21, 20, 24, 25,
    26, 11, 22, 23, 0, 13, 1, 3, 7, 0, 0, 12, 0, 9, 10, 14>>)
yypgoto == Table(<<-7, -7, 34, 29, 10, -7, 30, 8, -7, 11>>)
yydefgoto == Table(<<-1, 3, 4, 22, 13, 14, 23, 24, 15, 25>>)
yytable == Table(
  <<16, 17, 18, 19, 20, 1, 29, 2, 21, 16, 17, 18, 19, 20, 1, 26, 2, 7, 8, 9,
    10, 11, 28, 12, 7, 8, 9, 10, 11, 5, 6, 30, 32, 5, 6, 1, 31, 2, 27, 33, 35, 34>>)
yycheck == Table(
  <<3, 4, 5, 6, 7, 8, 12, 10, 11, 3, 4, 5, 6, 7, 8, 0, 10, 3, 4, 5,
    6, 7, 9, 9, 3, 4, 5, 6, 7, 0, 0, 13, 12, 4, 4, 8, 11, 10, 4, 29, 32, 30>>)
yystos == Table(
  <<0, 8, 10, 15, 16, 17, 20, 3, 4, 5, 6, 7, 9, 18, 19, 22, 3, 4, 5, 6,
    7, 11, 17, 20, 21, 23, 0, 16, 9, 12, 13, 11, 12, 18, 23, 21>>)
yyr1 == Table(
  <<0, 14, 15, 15, 16, 16, 17, 17, 18, 18, 19, 20, 20, 21, 21, 22, 22, 22, 22, 22,
    23, 23, 23, 23, 23, 23, 23>>)
yyr2 == Table(
  <<0, 2, 1, 2, 1, 1, 2, 3, 1, 3, 3, 2, 3, 1, 3, 1, 1, 1, 1, 1,
    1, 1, 1, 1, 1, 1, 1>>)

InTable(n, symbol) == n \in 0 .. YYLAST /\ yycheck[n] = symbol

(* A state that reduces, or fails, whatever comes next. *)
ByDefault(state) == yypact[state] = YYPACT_NINF

(* No entry of yytable is zero or negative: one that is found is a shift. *)
Shifts(state, token) == ~ByDefault(state) /\ InTable(yypact[state] + token, token)
ShiftTo(state, token) == yytable[yypact[state] + token]

(* The state after the result of a rule is pushed on a state. *)
Goto(state, rule) ==
  LET symbol == yyr1[rule] - YYNTOKENS
      n == yypgoto[symbol] + state
  IN  IF InTable(n, state) THEN yytable[n] ELSE yydefgoto[symbol]

=============================================================================
