----------------------------- MODULE JsonParser -----------------------------
(***************************************************************************)
(* The JSON runtime of c/json: cjson_runtime.c with its stacks of runtimes *)
(* and sources, the flex scanner json.lex.c on the sources, the bison      *)
(* parser json.yacc.c on the words of the scanner, and the objects of      *)
(* cjson.c that the parser makes.                                          *)
(*                                                                         *)
(* A text is the sequence of its lexemes, each chosen when the scanner     *)
(* comes to it, from what the rules of json.l tell apart.  A source and    *)
(* the flex buffer it owns have one name.                                  *)
(***************************************************************************)
EXTENDS CjsonHeap, JsonTables

CONSTANTS
  YYINITDEPTH,   \* the stack the parser starts with: 200 in the code
  YYMAXDEPTH,    \* the stack it may grow to: 10000 in the code
  Places,        \* of rt_list: 8 in the code
  Texts          \* bounds: the lexemes of a text, how many at most (left), and how
                 \* many calls the client makes with it

ASSUME DepthAssumption ==
  YYINITDEPTH \in Nat \ {0, 1} /\ YYMAXDEPTH \in Nat /\ YYINITDEPTH <= YYMAXDEPTH

VARIABLES
  heap, rt_list,
  src,           \* the live sources: the one before, where in its line the next
                 \* character is (bol, mid, eol, past), and the lexemes of an imported text
  curbs, current,              \* the last source, the buffer of the scanner
  start,                       \* the start condition of the scanner
  yyss, yyvs, yystacksize, yychar, yylval,
  pc,            \* idle, parsing or exited (exit(0))
  yyresult,      \* of the last yyparse
  text,          \* which of Texts, and how much of it and of its calls is left
  seen,          \* history: the words of this analysis
  had,           \* history: code and leaked as they were when the analysis began
  leaked,        \* history: objects a failed analysis left behind
  lost,          \* history: pairs a growing map left behind
  overStale      \* history: a source was pushed when curbs was freed

scanner == <<src, curbs, current, start, text>>
parser == <<yyss, yyvs, yystacksize, yychar, yylval>>
client == <<rt_list, overStale, had>>
vars == <<heap, scanner, parser, client, pc, yyresult, seen, leaked, lost>>

YYEMPTY == -2
None == 0
Never == -1

(* What the rules of json.l tell apart.  "other" is any character no rule   *)
(* has a use for, the NUL that ends a text included.  After import( the     *)
(* longest match counts: a "name" ends with a parenthesis and has no blanks *)
(* before it, but may have newlines, also as its first character; a "rest"  *)
(* is what is left of a line where no name is longer.                       *)
Lexeme(kind) == [kind |-> kind, token |-> EOF, type |-> "nil", value |-> 0]
Word(token, type, value) == [kind |-> "word", token |-> token, type |-> type, value |-> value]
Mark(token) == Word(token, "nil", 0)
ValueTokens == {NUMBER, STRING_T, TRUE_T, FALSE_T, NULL_T}

ImportedText ==
  <<Mark(A_BEGIN), Word(NUMBER, "int", 1), Mark(A_END), Lexeme("newline"), Lexeme("other")>>

NoAnalysis == [code |-> 0, leaked |-> {}]

Init ==
  /\ heap = EmptyHeap
  /\ rt_list = <<>>
  /\ src = [i \in {} |-> None]
  /\ curbs = None /\ current = None
  /\ start = "INITIAL"
  /\ yyss = <<>> /\ yyvs = <<>> /\ yystacksize = YYINITDEPTH
  /\ yychar = YYEMPTY /\ yylval = NULL
  /\ pc = "idle" /\ yyresult = Never
  /\ text \in Texts
  /\ seen = <<>> /\ leaked = {} /\ lost = {} /\ overStale = FALSE
  /\ had = NoAnalysis

-----------------------------------------------------------------------------
(* cjson_runtime.c *)
Call ==
  /\ pc = "idle" /\ ~heap.wild
  /\ text.calls > 0 /\ text' = [text EXCEPT !.calls = @ - 1]

(* The next call begins: nothing is said of the last analysis any more. *)
Forget == yyresult' = Never /\ seen' = <<>> /\ had' = NoAnalysis

(* cjson_rt_push_new_runtime tests nothing: the client counts the places. *)
PushRuntime ==
  /\ Call /\ Len(rt_list) < Places
  /\ LET made == MakeRuntime(heap)
     IN  heap' = made.heap /\ rt_list' = Append(rt_list, made.ref)
  /\ Forget
  /\ UNCHANGED <<src, curbs, current, start, parser, overStale, pc, leaked, lost>>

(* cjson_rt_pop_last_runtime, and the release of what it returns. *)
PopRuntime ==
  /\ Call /\ rt_list # <<>>
  /\ heap' = Release(heap, Last(rt_list))
  /\ rt_list' = Front(rt_list)
  /\ Forget
  /\ UNCHANGED <<src, curbs, current, start, parser, overStale, pc, leaked, lost>>

(* cjson_rt_add_code_segment: without a runtime nothing is added. *)
AddSegment(h, segment) ==
  IF rt_list = <<>> THEN h ELSE AddCodeSegment(h, Last(rt_list), segment, FALSE)

(* cjson_source_push_from_buffer: the new source, and its buffer with       *)
(* yy_scan_bytes, become the current ones.  An address is used anew as soon *)
(* as it can be.                                                            *)
Source(given, lexemes) ==
  [prev |-> curbs, at |-> "bol", given |-> given, lexemes |-> lexemes]
Pushed(sources, source) ==
  LET id == Min(1 .. (Cardinality(DOMAIN src) + 1) \ DOMAIN src)
  IN  src' = [i \in DOMAIN sources \cup {id} |-> IF i = id THEN source ELSE sources[i]] /\ curbs' = id /\ current' = id

Stale == curbs # None /\ curbs \notin DOMAIN src

PushSource ==
  /\ Call
  /\ Pushed(src, Source(TRUE, <<>>))
  /\ overStale' = (overStale \/ Stale)
  /\ Forget
  /\ UNCHANGED <<heap, rt_list, start, parser, pc, leaked, lost>>

(* cjson_source_analyze: yyparse, up to its first state. *)
Code(h) == IF rt_list = <<>> THEN <<>> ELSE h.objs[h.objs[Last(rt_list)].kids[1]].kids
Analyze ==
  /\ Call /\ current # None
  /\ pc' = "parsing" /\ yyresult' = Never
  /\ yyss' = <<0>> /\ yyvs' = <<NULL>> /\ yystacksize' = YYINITDEPTH
  /\ yychar' = YYEMPTY
  /\ seen' = <<>> /\ had' = [code |-> Len(Code(heap)), leaked |-> leaked]
  /\ UNCHANGED <<heap, rt_list, src, curbs, current, start, yylval, leaked, lost, overStale>>

-----------------------------------------------------------------------------
(* The scanner, called for the next word when the state asks for one. *)
Scanning(condition) ==
  /\ pc = "parsing" /\ ~heap.wild
  /\ yychar = YYEMPTY /\ ~ByDefault(Last(yyss))
  /\ start = condition

Here == src[current]
Ahead ==
  IF ~Here.given THEN {Here.lexemes[i] : i \in DOMAIN Here.lexemes \cap {1}}
  ELSE {l \in text.lexemes :
          /\ text.left > 0
          /\ Here.at = "eol" => l.kind \in {"newline", "name"}
          /\ Here.at = "past" => l.kind # "name"}

(* The next lexeme is of a kind and is consumed; YY_RULE_SETUP notes if it  *)
(* ended a line.                                                            *)
Consume(l, kind, at) ==
  /\ l \in Ahead /\ l.kind = kind
  /\ src' = [src EXCEPT ![current].at = at,
                        ![current].lexemes = IF @ = <<>> THEN @ ELSE Tail(@)]
  /\ text' = IF Here.given THEN [text EXCEPT !.left = @ - 1] ELSE text

Undisturbed == UNCHANGED <<heap, parser, client, pc, yyresult, seen, leaked, lost>>

(* A word, with the object the scanner makes for it. *)
NextWord(l) ==
  /\ Scanning("INITIAL")
  /\ Consume(l, "word", "mid")
  /\ IF l.token \in ValueTokens
     THEN LET made == MakeScalar(heap, l.type, l.value)
          IN  heap' = made.heap /\ yylval' = made.ref
     ELSE UNCHANGED <<heap, yylval>>
  /\ yychar' = l.token
  /\ seen' = Append(seen, l)
  /\ UNCHANGED <<curbs, current, start, yyss, yyvs, yystacksize, client, pc, yyresult, leaked,
                 lost>>

(* After import( a blank is one only if nothing else is left of the line. *)
Blank(l) ==
  /\ \/ Scanning("INITIAL") /\ Consume(l, "blank", "mid")
     \/ Scanning("IFILE") /\ Consume(l, "blank", "eol")
  /\ UNCHANGED <<curbs, current, start>> /\ Undisturbed

(* Ignored where a line begins, and copied to the output elsewhere.  After  *)
(* import( that is what is left for a newline no name begins with: up to    *)
(* the next blank no name can follow it ("past"), and the scanner stays in  *)
(* the rules for names.                                                     *)
NewLine(l) ==
  /\ \/ Scanning("INITIAL") /\ Consume(l, "newline", "bol")
     \/ Scanning("IFILE") /\ Consume(l, "newline", "past")
  /\ UNCHANGED <<curbs, current, start>> /\ Undisturbed

(* A character no rule has a use for is ignored where a line begins, and    *)
(* ends the process elsewhere.                                              *)
Unexpected(l) ==
  /\ Scanning("INITIAL")
  /\ Consume(l, "other", "mid")
  /\ pc' = IF Here.at = "bol" THEN pc ELSE "exited"
  /\ UNCHANGED <<curbs, current, start, heap, parser, client, yyresult, seen, leaked, lost>>

Import(l) ==
  /\ Scanning("INITIAL") /\ Here.at = "bol"
  /\ Consume(l, "import", "mid")
  /\ start' = "IFILE"
  /\ UNCHANGED <<curbs, current>> /\ Undisturbed

(* Every file imported has the same text: the scanner does not look it up.  *)
(* The name ends in the middle of a line: only one that crosses no newline  *)
(* is longer than a rest of the line because it ends the line.              *)
ImportName(l) ==
  /\ Scanning("IFILE")
  /\ l \in Ahead /\ l.kind = "name"
  /\ Pushed([src EXCEPT ![current].at = "mid"], Source(FALSE, ImportedText))
  /\ text' = [text EXCEPT !.left = @ - 1]
  /\ start' = "INITIAL" /\ Undisturbed

(* Anything else takes the rest of the line.  The scanner ends, and leaves  *)
(* its start condition and the source as they are.                          *)
FromNewline(lexemes) ==
  LET m == {i \in DOMAIN lexemes : lexemes[i].kind = "newline"}
  IN  IF m = {} THEN <<>> ELSE SubSeq(lexemes, Min(m), Len(lexemes))
BadInclude(l) ==
  /\ Scanning("IFILE")
  /\ l \in Ahead /\ (IF Here.given THEN l.kind = "rest" ELSE l.kind # "newline")
  /\ src' = [src EXCEPT ![current].at = "eol", ![current].lexemes = FromNewline(@)]
  /\ text' = IF Here.given THEN [text EXCEPT !.left = @ - 1] ELSE text
  /\ yychar' = EOF
  /\ seen' = Append(seen, Mark(EOF))
  /\ UNCHANGED <<heap, curbs, current, start, yyss, yyvs, yystacksize, yylval, client,
                 pc, yyresult, leaked, lost>>

PastTheEnd ==      \* what every end of a source leaves as it is
  UNCHANGED <<start, text, yyss, yyvs, yystacksize, yylval, client, pc, yyresult, leaked,
              lost>>


(* Mutant: after the last source the scanner goes on. *)
EndOfSourceAgain ==
  LET prev == Here.prev
  IN  /\ Scanning("INITIAL") \/ Scanning("IFILE")
      /\ Here.lexemes = <<>>
      /\ prev # None
      /\ src' = [i \in DOMAIN src \ {current} |-> src[i]]
      /\ curbs' = prev /\ current' = prev
      /\ UNCHANGED <<heap, yychar, seen>> /\ PastTheEnd

(* The end of a source, in either start condition: cjson_source_pop goes    *)
(* back to the source before; after the last one it returns before curbs is *)
(* set, and the scanner ends.                                               *)
EndOfSource ==
  LET prev == Here.prev
      rest == [i \in DOMAIN src \ {current} |-> src[i]]
  IN  /\ Scanning("INITIAL") \/ Scanning("IFILE")
      /\ Here.lexemes = <<>>
      /\ src' = rest
      /\ IF prev = None
         THEN /\ current' = None /\ UNCHANGED <<curbs, heap>>
              /\ yychar' = EOF /\ seen' = Append(seen, Mark(EOF))
         ELSE IF prev \in DOMAIN rest
         THEN /\ curbs' = prev /\ current' = prev /\ UNCHANGED <<heap, yychar, seen>>
         ELSE /\ heap' = Wild(heap) /\ UNCHANGED <<curbs, current, yychar, seen>>
      /\ PastTheEnd

-----------------------------------------------------------------------------
(* The semantic actions of the rules, on the values of their right sides.   *)
OfSegment(h, v) == [heap |-> Release(AddSegment(h, v[1]), v[1]),
                    ref |-> IF rt_list = <<>> THEN NULL ELSE Last(rt_list)]

(* Mutant: the operands change places. *)
OfPairSwapped(h, v) ==
  LET pair == MakeTuple(h, 2)
      filled == Filled(pair.heap, pair.ref, v[3], v[1])
  IN  [heap |-> Release(Release(filled, v[1]), v[3]), ref |-> pair.ref]

OfPair(h, v) ==
  LET pair == MakeTuple(h, 2)
      filled == Filled(pair.heap, pair.ref, v[1], v[3])
  IN  [heap |-> Release(Release(filled, v[1]), v[3]), ref |-> pair.ref]

WithPair(map, pair) ==
  [heap |-> Release(AddTuple(map.heap, map.ref, pair), pair), ref |-> map.ref]
OfMembers(h, v) ==
  IF Len(v) = 1 THEN WithPair(MakeMap(h), v[1]) ELSE WithPair([heap |-> h, ref |-> v[3]], v[1])

(* Mutant: the operand is not released. *)
WithElementKept(arr, value) ==
  [heap |-> AddObject(arr.heap, arr.ref, value, FALSE), ref |-> arr.ref]

WithElement(arr, value) ==
  [heap |-> Release(AddObject(arr.heap, arr.ref, value, FALSE), value), ref |-> arr.ref]
OfElements(h, v) ==
  IF Len(v) = 1 THEN WithElement(MakeArray(h), v[1])
  ELSE WithElement([heap |-> h, ref |-> v[3]], v[1])

(* A scalar is taken from yylval: the rule is reduced before the next word. *)
Reduced(rule, h, v) ==
  CASE rule \in {4, 5} -> OfSegment(h, v)
    [] rule = 6 -> MakeMap(h)
    [] rule = 11 -> MakeArray(h)
    [] rule \in {7, 12} -> [heap |-> h, ref |-> v[2]]
    [] rule \in {8, 9} -> OfMembers(h, v)
    [] rule = 10 -> OfPair(h, v)
    [] rule \in {13, 14} -> OfElements(h, v)
    [] rule \in 15 .. 21 \cup 24 .. 26 -> [heap |-> h, ref |-> yylval]
    [] OTHER -> [heap |-> h, ref |-> v[1]]    \* 2, 3, 22, 23: the default

(* yyss and yyvs with one more state, on a stack that doubles when full. *)
Exhausted(ss) == Len(ss) >= yystacksize /\ YYMAXDEPTH <= yystacksize
SizeForLate(ss) ==      \* mutant: the stack grows one state too late
  IF Len(ss) <= yystacksize THEN yystacksize
  ELSE IF 2 * yystacksize > YYMAXDEPTH THEN YYMAXDEPTH ELSE 2 * yystacksize
SizeFor(ss) ==
  IF Len(ss) < yystacksize THEN yystacksize
  ELSE IF 2 * yystacksize > YYMAXDEPTH THEN YYMAXDEPTH ELSE 2 * yystacksize

(* yyparse ends, and with it the stack: yydestruct frees no value.  What    *)
(* was on the stack, or still in yylval, belongs to nobody from now on.     *)
Valued(ss) == {i \in 2 .. Len(ss) : yystos[ss[i]] \in ValueTokens \cup 17 .. 23}
InHand(char) == IF char \in ValueTokens THEN {yylval} ELSE {}
Owned(ss, vs, char) == {vs[i] : i \in Valued(ss)} \cup InHand(char)
Return(r, ss, vs, char) ==
  /\ pc' = "idle" /\ yyresult' = r
  /\ yyss' = <<>> /\ yyvs' = <<>> /\ yystacksize' = YYINITDEPTH
  /\ yychar' = YYEMPTY /\ yylval' = NULL    \* nobody reads them before they are set
  /\ leaked' = leaked \cup Owned(ss, vs, char)

PushState(ss, vs, char) ==
  \/ /\ Exhausted(ss)
     /\ Return(2, ss, vs, char)
  \/ /\ ~Exhausted(ss)
     /\ Last(ss) = YYFINAL
     /\ Return(0, ss, vs, char)
  \/ /\ ~Exhausted(ss)
     /\ Last(ss) # YYFINAL
     /\ yyss' = ss /\ yyvs' = vs /\ yystacksize' = SizeFor(ss)
     /\ yychar' = char
     /\ UNCHANGED <<yylval, pc, yyresult, leaked>>

Parsing == pc = "parsing" /\ ~heap.wild
Decided == Parsing /\ (yychar # YYEMPTY \/ ByDefault(Last(yyss)))

Shift ==
  /\ Decided
  /\ Shifts(Last(yyss), yychar)
  /\ PushState(Append(yyss, ShiftTo(Last(yyss), yychar)), Append(yyvs, yylval), YYEMPTY)
  /\ UNCHANGED <<heap, scanner, client, seen, lost>>

Reduce ==
  LET rule == yydefact[Last(yyss)]
      below == Len(yyss) - yyr2[rule]
      v == SubSeq(yyvs, below + 1, Len(yyvs))
      val == Reduced(rule, heap, v)
      ss == SubSeq(yyss, 1, below)
  IN  /\ Decided
      /\ ~Shifts(Last(yyss), yychar)
      /\ rule # 0
      /\ heap' = val.heap
      /\ lost' = IF rule = 9 THEN lost \cup LeftBehind(heap, val.heap, v[3]) ELSE lost
      /\ PushState(Append(ss, Goto(Last(ss), rule)), Append(SubSeq(yyvs, 1, below), val.ref), yychar)
      /\ UNCHANGED <<scanner, client, seen>>

(* yyerrlab: no state shifts the error token, so that all are popped. *)
SyntaxError ==
  /\ Decided
  /\ ~Shifts(Last(yyss), yychar)
  /\ yydefact[Last(yyss)] = 0
  /\ Return(1, yyss, yyvs, yychar)
  /\ UNCHANGED <<heap, scanner, client, seen, lost>>

Scan ==
  \/ \E l \in Ahead : NextWord(l)
  \/ \E l \in Ahead : Blank(l)
  \/ \E l \in Ahead : NewLine(l)
  \/ \E l \in Ahead : Unexpected(l)
  \/ \E l \in Ahead : Import(l)
  \/ \E l \in Ahead : ImportName(l)
  \/ \E l \in Ahead : BadInclude(l)
  \/ EndOfSource
YYLex == current # None /\ ~heap.wild /\ Scan
Decide == Shift \/ Reduce \/ SyntaxError

Next ==
  \/ PushRuntime
  \/ PopRuntime
  \/ PushSource
  \/ Analyze
  \/ YYLex
  \/ Decide

(* One thread runs yyparse to its end, and a text is finite: the scanner    *)
(* and the parser are weakly fair.  Decided stands in the place of          *)
(* ENABLED <<Decide>>_vars, which it equals and TLC is slow to evaluate.    *)
Fairness == WF_vars(YYLex) /\ ([]<>~Decided \/ []<><<Decide>>_vars)
Spec == Init /\ [][Next]_vars /\ Fairness

-----------------------------------------------------------------------------
Trees(refs) == [i \in DOMAIN refs |-> Tree(heap, refs[i], Cardinality(Live(heap)))]
NewCode == Trees(SubSeq(Code(heap), had.code + 1, Len(Code(heap))))
Finished == pc = "idle" /\ yyresult # Never /\ ~heap.wild

(* The stacks of the parser stay inside the space they have, both of one    *)
(* height; the word that was read is one the grammar knows.                 *)
TypeOK ==
  /\ Len(yyss) = Len(yyvs) /\ Len(yyss) < yystacksize
  /\ yystacksize \in YYINITDEPTH .. YYMAXDEPTH
  /\ ToSet(yyss) \subseteq DOMAIN yystos
  /\ yychar \in {YYEMPTY} \cup 0 .. YYNTOKENS - 1
  /\ pc \in {"idle", "parsing", "exited"}
  /\ start \in {"INITIAL", "IFILE"}

(* The semantic actions copy an operand into its container and release it:  *)
(* at every step each live object belongs to exactly one of a runtime, a    *)
(* value of the parser's stack, the word just read, what failed analyses    *)
(* left behind and what growing maps did; and only a failed analysis leaves *)
(* anything else behind.                                                    *)
OwnedOnce ==
  LET onStack == IF pc = "idle" THEN {} ELSE Valued(yyss)
      word == IF pc = "idle" THEN {} ELSE InHand(yychar)
      stack == {yyvs[i] : i \in onStack}
      owners == ToSet(rt_list) \cup stack \cup word \cup leaked \cup lost
  IN  heap.wild \/
      /\ OwnedBy(heap, owners)
      /\ Cardinality(owners) = Len(rt_list) + Cardinality(onStack) + Cardinality(word)
                                 + Cardinality(leaked) + Cardinality(lost)
      /\ Finished /\ yyresult = 0 => leaked = had.leaked

-----------------------------------------------------------------------------
(* A reader of JSON that knows nothing of bison: the open containers with   *)
(* what they expect next, and the trees that are complete.  The items of an *)
(* array come out in falling order (json.y says so at its ELEMENTS); the    *)
(* first of the members with the same key counts.                           *)
NoWord == [open |-> <<>>, done |-> <<>>, ended |-> FALSE, ok |-> TRUE]
Node(type, kids) == [type |-> type, value |-> NULL, kids |-> kids]
Opened(token) ==
  [type |-> IF token = A_BEGIN THEN "array" ELSE "map", kids |-> <<>>, key |-> <<>>,
   want |-> "first"]

Ordered(pairs) ==
  LET first == SelectSeq([i \in DOMAIN pairs |-> i],
                         LAMBDA i : \A j \in 1 .. i - 1 : pairs[j].kids[1] # pairs[i].kids[1])
  IN  SortSeq([k \in DOMAIN first |-> pairs[first[k]]],
              LAMBDA p, q : CompareScalars(p.kids[1], q.kids[1]) > 0)
Closed(c) == Node(c.type, IF c.type = "map" THEN Ordered(c.kids) ELSE c.kids)

(* A complete value goes to the container that is open. *)
Put(s, tree) ==
  IF s.open = <<>> THEN [s EXCEPT !.done = Append(@, tree)]
  ELSE LET c == Last(s.open)
           more == IF c.type = "array" THEN <<tree>> \o c.kids
                   ELSE Append(c.kids, Node("tuple", c.key \o <<tree>>))
       IN  [s EXCEPT !.open = Append(Front(s.open), [c EXCEPT !.kids = more, !.want = "next"])]

Expect(s, want) == [s EXCEPT !.open[Len(s.open)].want = want]
Scalar(w) == [type |-> w.type, value |-> w.value, kids |-> <<>>]
ItemNext(c) == c.want = "value" \/ (c.type = "array" /\ c.want = "first")
KeyNext(c) == c.type = "map" /\ c.want \in {"first", "key"}

Read(s, w) ==
  LET c == Last(s.open)
      inside == s.open # <<>>
      close == IF inside /\ c.type = "array" THEN A_END ELSE O_END
  IN  IF ~s.ok THEN s
      ELSE IF w.token \in {A_BEGIN, O_BEGIN} /\ (IF inside THEN ItemNext(c) ELSE Len(s.done) < 2)
      THEN [s EXCEPT !.open = Append(@, Opened(w.token))]
      ELSE IF w.token = EOF /\ ~inside /\ s.done # <<>> THEN [s EXCEPT !.ended = TRUE]
      ELSE IF ~inside THEN [s EXCEPT !.ok = FALSE]
      ELSE IF w.token \in ValueTokens /\ ItemNext(c) THEN Put(s, Scalar(w))
      ELSE IF w.token \in ValueTokens /\ KeyNext(c)
      THEN Expect([s EXCEPT !.open[Len(s.open)].key = <<Scalar(w)>>], "colon")
      ELSE IF w.token = COLON /\ c.want = "colon" THEN Expect(s, "value")
      ELSE IF w.token = COMMA /\ c.want = "next"
      THEN Expect(s, IF c.type = "map" THEN "key" ELSE "value")
      ELSE IF w.token = close /\ c.want \in {"first", "next"}
      THEN Put([s EXCEPT !.open = Front(@)], Closed(c))
      ELSE [s EXCEPT !.ok = FALSE]

(* What an analysis gives is what its words say: yyparse accepts exactly    *)
(* one or two containers, fails exactly on the first word that cannot       *)
(* follow, exhausts its stack on long texts only; and the runtime then has  *)
(* the containers that were complete, each with the values it was given.    *)
(* All unless a map had to grow, which then has a pair too few.             *)
MeansWhatItSays ==
  LET reading == FoldLeft(Read, NoWord, seen)
      code == IF rt_list = <<>> THEN <<>> ELSE reading.done
  IN  Finished /\ lost = {} =>
        /\ yyresult = 0 <=> reading.ok /\ reading.ended
        /\ yyresult = 1 <=> ~reading.ok
        /\ yyresult = 2 => Len(seen) + 1 >= YYMAXDEPTH
        /\ IF yyresult = 2 THEN IsPrefix(NewCode, code) ELSE NewCode = code


(* An analysis comes to an end: the scanner gets through its sources, the   *)
(* parser through the words, also when an analysis starts in the rules for  *)
(* names, where a failed one stopped.                                       *)
Terminates == pc = "parsing" ~> (pc # "parsing" \/ heap.wild)

=============================================================================
