------------------------------ MODULE Parsing -------------------------------
(***************************************************************************)
(* What reads a text: command line flags (flag.c) and JSON, its grammar,   *)
(* its tokens and its tree, each with a state of its own.                  *)
(***************************************************************************)
EXTENDS Integers, Sequences

-----------------------------------------------------------------------------
(***************************************************************************)
(* xFlagParse, the command-line parser.  A text is a sequence of letters;  *)
(* a token is [k |-> "short", text], [k |-> "long", name, val] (val <<>>   *)
(* when there is no "="), [k |-> "end"] for "--", or [k |-> "word", text], *)
(* "-" among them.  The set may hold an integer flag (-n, --num), a        *)
(* boolean one (-b, --bool) and a counter (-c), positionals and a tail.    *)
(*                                                                         *)
(* args.set  the registrations: flags, req (the required ones), npos and   *)
(*           posreq the positionals, tail in {"no", "yes", "req"}          *)
(* args.argv  the tokens after the program's name                          *)
(***************************************************************************)

CONSTANTS MaxTokens,
          FlagSets,       \* the sets of flags a program may register
          Words,          \* the texts of words and of "=" values
          Shorts,         \* the letters of a short token
          MaxShort

VARIABLE args

\* shortc and name of each flag; xFlagAdd* of a name or letter already there
\* is refused, so both are keys.
Letter(f) == CASE f = "num" -> "n" [] f = "bool" -> "b" [] f = "count" -> "c"
xFlagFindByLong(set, name) == {f \in set.flags : f = name /\ f # "count"}
xFlagFindByShort(set, c) == {f \in set.flags : Letter(f) = c}
xFlagNeedsValue(f) == f = "num"

FlagInit == \E fl \in FlagSets, req \in {{}, {"num"}}, np \in 0 .. 1, pr \in BOOLEAN, t \in {"no", "yes", "req"} :
              /\ req \subseteq fl /\ (np = 0 => ~pr)
              /\ args = [set |-> [flags |-> fl, req |-> req, npos |-> np, posreq |-> pr, tail |-> t], argv |-> <<>>]

AllTokens == {[k |-> "end"]}
             \union {[k |-> "word", text |-> w] : w \in Words \union {<<"-">>}}
             \union {[k |-> "short", text |-> s] : s \in UNION {[1 .. n -> Shorts] : n \in 1 .. MaxShort}}
             \union {[k |-> "long", name |-> f, val |-> v] : f \in {"num", "bool", "what", "help"}, v \in {<<>>} \union Words}

Argument == /\ Len(args.argv) < MaxTokens
            /\ \E t \in AllTokens : args' = [args EXCEPT !.argv = Append(@, t)]

-----------------------------------------------------------------------------
\* What a token is worth when it is taken as a value.
Text(t) == CASE t.k = "word" -> t.text [] t.k = "short" -> <<"-">> \o t.text
             [] t.k = "end" -> <<"-", "-">>
             [] t.k = "long" -> <<"-", "-", t.name>> \o (IF t.val = <<>> THEN <<>> ELSE <<"=">> \o t.val)

Start == [rc |-> "go", why |-> "none", num |-> <<>>, bool |-> FALSE, count |-> 0, seen |-> {}, pos |-> <<>>, tail |-> <<>>]
FlagFail(r, why) == [r EXCEPT !.rc = "invalid", !.why = why]
Again(r) == [r EXCEPT !.rc = "again"]

\* xFlagApplyValue: "1" is the number of the model.
xFlagApplyFlag(r, f, value) ==
    LET s == [r EXCEPT !.seen = @ \union {f}]
    IN  CASE f = "bool" -> [s EXCEPT !.bool = TRUE]
          [] f = "count" -> [s EXCEPT !.count = @ + 1]
          [] f = "num" -> IF value = <<"1">> THEN [s EXCEPT !.num = value] ELSE FlagFail(s, "number")

TheOf(S) == CHOOSE x \in S : TRUE

\* One long token; the second value is how many tokens it took.
LongOption(set, r, t, rest) ==
    LET F == xFlagFindByLong(set, t.name)
        f == TheOf(F)
    IN  IF t.name = "help" THEN <<Again(r), 1>>
        ELSE IF F = {} THEN <<FlagFail(r, "unknown"), 1>>
        ELSE IF xFlagNeedsValue(f)
             THEN IF t.val # <<>> THEN <<xFlagApplyFlag(r, f, t.val), 1>>
                  ELSE IF rest # <<>> THEN <<xFlagApplyFlag(r, f, Text(Head(rest))), 2>>
                  ELSE <<FlagFail(r, "value"), 1>>
        ELSE IF t.val # <<>> THEN <<FlagFail(r, "novalue"), 1>>
        ELSE <<xFlagApplyFlag(r, f, <<>>), 1>>

\* The rest of the token, or the next one.
GluedValue(p, rest) ==
    IF Tail(p) # <<>> THEN <<Tail(p), 1>>
    ELSE <<IF rest = <<>> THEN <<>> ELSE Text(Head(rest)), 2>>

\* The letters of a short token, until one takes a value.
RECURSIVE ShortOptions(_, _, _, _)
ShortOptions(set, r, p, rest) ==
    LET F == xFlagFindByShort(set, Head(p))
        f == TheOf(F)
        v == GluedValue(p, rest)
    IN  IF p = <<>> \/ r.rc # "go" THEN <<r, 1>>
        ELSE IF Head(p) = "h" /\ F = {} THEN <<Again(r), 1>>
        ELSE IF F = {} THEN <<FlagFail(r, "unknown"), 1>>
        ELSE IF xFlagNeedsValue(f)
             THEN IF v[1] = <<>> THEN <<FlagFail(r, "value"), 1>> ELSE <<xFlagApplyFlag(r, f, v[1]), v[2]>>
        ELSE ShortOptions(set, xFlagApplyFlag(r, f, <<>>), Tail(p), rest)

RECURSIVE Scan(_, _, _)
Scan(set, r, argv) ==
    LET t == Head(argv)
        rest == Tail(argv)
        step == IF t.k = "long" THEN LongOption(set, r, t, rest) ELSE ShortOptions(set, r, t.text, rest)
    IN  IF argv = <<>> \/ r.rc # "go" THEN r
        ELSE IF t.k = "end" THEN [r EXCEPT !.pos = @ \o [i \in 1 .. Len(rest) |-> Text(rest[i])]]
        ELSE IF t.k = "word" THEN Scan(set, [r EXCEPT !.pos = Append(@, t.text)], rest)
        ELSE Scan(set, step[1], SubSeq(argv, step[2] + 1, Len(argv)))

\* Required flags, then the positionals in order, then the tail.
Assign(set, r) ==
    LET given == IF Len(r.pos) < set.npos THEN Len(r.pos) ELSE set.npos
        left  == SubSeq(r.pos, given + 1, Len(r.pos))
    IN  IF r.rc # "go" THEN r
        ELSE IF set.req \ r.seen # {} THEN FlagFail(r, "required")
        ELSE IF given < set.npos /\ set.posreq THEN FlagFail(r, "argument")
        ELSE IF set.tail = "no" /\ left # <<>> THEN FlagFail(r, "unexpected")
        ELSE IF set.tail = "req" /\ left = <<>> THEN FlagFail(r, "argument")
        ELSE [r EXCEPT !.rc = "ok", !.tail = left]

xFlagParse(set, argv) == Assign(set, Scan(set, Start, argv))

FlagNext == Argument
FlagSpec == FlagInit /\ [][FlagNext]_args

-----------------------------------------------------------------------------
\* The canonical spelling: one letter in each short token, every value in a
\* token of its own.  A value taken from the next token is kept as a word.
RECURSIVE Canon(_, _)
Canon(set, argv) ==
    LET t == Head(argv)
        rest == Tail(argv)
        takes(c) == \E f \in xFlagFindByShort(set, c) : xFlagNeedsValue(f)
        w(x) == [k |-> "word", text |-> x]
        one == [k |-> "short", text |-> SubSeq(t.text, 1, 1)]
    IN  IF argv = <<>> \/ t.k = "end" THEN argv
        ELSE IF t.k = "word" THEN <<t>> \o Canon(set, rest)
        ELSE IF t.k = "long"
             THEN IF t.name = "num" /\ "num" \in set.flags
                  THEN IF t.val # <<>> THEN <<[t EXCEPT !.val = <<>>], w(t.val)>> \o Canon(set, rest)
                       ELSE IF rest = <<>> THEN <<t>>
                       ELSE <<t, w(Text(Head(rest)))>> \o Canon(set, Tail(rest))
                  ELSE <<t>> \o Canon(set, rest)
        ELSE IF takes(Head(t.text))
             THEN IF Len(t.text) > 1 THEN <<one, w(Tail(t.text))>> \o Canon(set, rest)
                  ELSE IF rest = <<>> THEN <<t>>
                  ELSE <<one, w(Text(Head(rest)))>> \o Canon(set, Tail(rest))
        ELSE IF Len(t.text) = 1 THEN <<one>> \o Canon(set, rest)
        ELSE <<one>> \o Canon(set, <<[t EXCEPT !.text = Tail(@)]>> \o rest)

\* All the spellings of "Supported syntax" (flag.h:12-21) mean the same: a
\* command line and its canonical form give the same result, the same
\* refusal and the same positionals (flag.c:680-892).
SpellingsAgree == xFlagParse(args.set, args.argv) = xFlagParse(args.set, Canon(args.set, args.argv))

-----------------------------------------------------------------------------
(***************************************************************************)
(* The JSON parser, its tree builder and its callback form, over texts of  *)
(* tokens.  A text is a sequence of the punctuation "{" "}" "[" "]" ":"    *)
(* ",", of " " for a run of white space, of "s" for a string literal and   *)
(* of "1" for any number, true, false or null.  JsonToken.tla has what is  *)
(* inside a literal.                                                       *)
(*                                                                         *)
(* A tree is <<"s">>, <<"1">>, <<"[", elements>> or <<"{", values>>; every *)
(* key is the same literal.  json.text is the text read so far, json.dom   *)
(* what xJsonParse answers for it, json.sax what xJsonSaxParse does with   *)
(* callbacks the json.stop-th of which aborts (0: none does).  A failure   *)
(* has the place where the parser stopped.                                 *)
(***************************************************************************)

CONSTANTS MaxText,      \* bound: tokens of a text
          MaxStop       \* bound: callbacks before one aborts

VARIABLE json

Tokens == {"{", "}", "[", "]", ":", ",", " ", "s", "1"}

\* A step of the parser: the position reached, and the value or the failure.
Fail(p) == [ok |-> FALSE, pos |-> p, val |-> <<"none">>]
Got(p, v) == [ok |-> TRUE, pos |-> p, val |-> v]

At(t, p, c) == p <= Len(t) /\ t[p] = c

RECURSIVE xjson_tok_skip_ws(_, _)
xjson_tok_skip_ws(t, p) == IF At(t, p, " ") THEN xjson_tok_skip_ws(t, p + 1) ELSE p

\* White space is skipped before the literal, whether it is there or not, and
\* not after it.
xjson_tok_match(t, p, c) ==
    LET q == xjson_tok_skip_ws(t, p) IN [ok |-> At(t, q, c), pos |-> IF At(t, q, c) THEN q + 1 ELSE q]

RECURSIVE xjson_p_value_(_, _)

RECURSIVE Elements(_, _, _)
Elements(t, p, got) ==
    LET e == xjson_p_value_(t, p)
        close == xjson_tok_match(t, e.pos, "]")
        comma == xjson_tok_match(t, close.pos, ",")
    IN  IF ~e.ok THEN e
        ELSE IF close.ok THEN Got(close.pos, <<"[", Append(got, e.val)>>)
        ELSE IF comma.ok THEN Elements(t, comma.pos, Append(got, e.val)) ELSE Fail(comma.pos)

xjson_p_array_(t, p) ==
    LET empty == xjson_tok_match(t, p + 1, "]")
    IN  IF empty.ok THEN Got(empty.pos, <<"[", <<>>>>) ELSE Elements(t, empty.pos, <<>>)

\* The key must be where the parser stands: xjson_tok_string skips nothing.
RECURSIVE Members(_, _, _)
Members(t, p, got) ==
    LET colon == xjson_tok_match(t, p + 1, ":")
        e == xjson_p_value_(t, colon.pos)
        close == xjson_tok_match(t, e.pos, "}")
        comma == xjson_tok_match(t, close.pos, ",")
    IN  IF ~At(t, p, "s") THEN Fail(p) ELSE IF ~colon.ok THEN Fail(colon.pos) ELSE IF ~e.ok THEN e
        ELSE IF close.ok THEN Got(close.pos, <<"{", Append(got, e.val)>>)
        ELSE IF comma.ok THEN Members(t, comma.pos, Append(got, e.val)) ELSE Fail(comma.pos)

xjson_p_object_(t, p) ==
    LET empty == xjson_tok_match(t, p + 1, "}")
    IN  IF empty.ok THEN Got(empty.pos, <<"{", <<>>>>) ELSE Members(t, empty.pos, <<>>)

xjson_p_value_(t, p0) ==
    LET p == xjson_tok_skip_ws(t, p0)
    IN  IF p > Len(t) THEN Fail(p)
        ELSE IF t[p] = "s" THEN Got(p + 1, <<"s">>)
        ELSE IF t[p] = "1" THEN Got(p + 1, <<"1">>)
        ELSE IF t[p] = "[" THEN xjson_p_array_(t, p)
        ELSE IF t[p] = "{" THEN xjson_p_object_(t, p) ELSE Fail(p)

xjson_do_parse_(t) ==
    LET r == xjson_p_value_(t, 1)
    IN  IF r.ok /\ xjson_tok_skip_ws(t, r.pos) <= Len(t) THEN Fail(xjson_tok_skip_ws(t, r.pos)) ELSE r

-----------------------------------------------------------------------------
\* The callback parser: s = [pos, r, ev], ev the callbacks made; the stop-th
\* answers 7, which ends the parse.
Call(s, name, stop) ==
    [s EXCEPT !.ev = Append(@, name), !.r = IF Len(s.ev) + 1 = stop THEN 7 ELSE 0]
Bad(s) == [s EXCEPT !.r = -1]

RECURSIVE xjson_sax_value_(_, _, _)

\* The rest of an array or an object, after its first bracket.
RECURSIVE SaxItems(_, _, _, _)
SaxItems(t, s, stop, close) ==
    LET colon == xjson_tok_match(t, s.pos + 1, ":")
        k == IF close = "]" THEN s
             ELSE IF At(t, s.pos, "s") /\ colon.ok THEN Call([s EXCEPT !.pos = colon.pos], "key", stop)
             ELSE Bad(s)
        v == IF k.r # 0 THEN k ELSE xjson_sax_value_(t, k, stop)
        last == xjson_tok_match(t, v.pos, close)
        comma == xjson_tok_match(t, last.pos, ",")
    IN  IF v.r # 0 THEN v
        ELSE IF last.ok THEN Call([v EXCEPT !.pos = last.pos], close, stop)
        ELSE IF comma.ok THEN SaxItems(t, [v EXCEPT !.pos = comma.pos], stop, close) ELSE Bad(v)

Opened(t, s0, stop, close) ==
    LET s == Call([s0 EXCEPT !.pos = @ + 1], t[s0.pos], stop)
        empty == xjson_tok_match(t, s.pos, close)
    IN  IF s.r # 0 THEN s
        ELSE IF empty.ok THEN Call([s EXCEPT !.pos = empty.pos], close, stop)
        ELSE SaxItems(t, [s EXCEPT !.pos = empty.pos], stop, close)

xjson_sax_array_(t, s, stop) == Opened(t, s, stop, "]")
xjson_sax_object_(t, s, stop) == Opened(t, s, stop, "}")

xjson_sax_value_(t, s0, stop) ==
    LET s == [s0 EXCEPT !.pos = xjson_tok_skip_ws(t, @)]
    IN  IF s.pos > Len(t) THEN Bad(s)
        ELSE IF t[s.pos] \in {"s", "1"} THEN Call([s EXCEPT !.pos = @ + 1], t[s.pos], stop)
        ELSE IF t[s.pos] = "[" THEN xjson_sax_array_(t, s, stop)
        ELSE IF t[s.pos] = "{" THEN xjson_sax_object_(t, s, stop) ELSE Bad(s)

xJsonSaxParse(t, stop) ==
    LET s0 == [pos |-> 1, r |-> 0, ev |-> <<>>]
        s == xjson_sax_value_(t, s0, stop)
    IN  IF t = <<>> THEN Bad(s0)
        ELSE IF s.r = 0 /\ xjson_tok_skip_ws(t, s.pos) <= Len(t) THEN Bad(s) ELSE s

-----------------------------------------------------------------------------
\* The serializer; pretty puts a line break before every element and member,
\* before the closing bracket, and a space after the colon.
Blank(pretty) == IF pretty THEN <<" ">> ELSE <<>>

RECURSIVE xjson_strify_impl_(_, _)
RECURSIVE Items(_, _, _)
Items(s, pretty, key) ==
    IF s = <<>> THEN <<>>
    ELSE Blank(pretty) \o (IF key THEN <<"s", ":">> \o Blank(pretty) ELSE <<>>)
         \o xjson_strify_impl_(s[1], pretty)
         \o (IF Len(s) > 1 THEN <<",">> \o Items(Tail(s), pretty, key) ELSE Blank(pretty))

xjson_strify_impl_(v, pretty) ==
    IF v[1] = "[" THEN <<"[">> \o Items(v[2], pretty, FALSE) \o <<"]">>
    ELSE IF v[1] = "{" THEN <<"{">> \o Items(v[2], pretty, TRUE) \o <<"}">> ELSE <<v[1]>>

\* The callbacks a tree stands for.
RECURSIVE Walk(_)
RECURSIVE WalkAll(_, _)
WalkAll(s, key) == IF s = <<>> THEN <<>>
                   ELSE (IF key THEN <<"key">> ELSE <<>>) \o Walk(s[1]) \o WalkAll(Tail(s), key)
Walk(v) == IF v[1] = "[" THEN <<"[">> \o WalkAll(v[2], FALSE) \o <<"]">>
           ELSE IF v[1] = "{" THEN <<"{">> \o WalkAll(v[2], TRUE) \o <<"}">> ELSE <<v[1]>>

-----------------------------------------------------------------------------
NotSpace(c) == c # " "
Answer(t, stop) == [text |-> t, stop |-> stop, dom |-> xjson_do_parse_(t), sax |-> xJsonSaxParse(t, stop)]

JsonInit == \E stop \in 0 .. MaxStop : json = Answer(<<>>, stop)

\* One more token arrives, and the text is parsed from its start again, as
\* long as the parser did not stop before the end of it.
Read(c) == Len(json.text) < MaxText /\ json.dom.pos > Len(json.text) /\ json' = Answer(Append(json.text, c), json.stop)

JsonNext == \E c \in Tokens : Read(c)
JsonSpec == JsonInit /\ [][JsonNext]_json

-----------------------------------------------------------------------------
\* A text is taken only for the tree it spells: serializing the tree gives the
\* text back, white space apart; the compact form of a tree is taken, and the
\* callbacks made are the walk of that tree, up to the one that aborts, after
\* which none is made and whose answer is the parse's (json_sax.h:53-55).
ParsedRight ==
    /\ json.dom.ok => xjson_strify_impl_(json.dom.val, FALSE) = SelectSeq(json.text, NotSpace)
    /\ json.dom.ok => xjson_do_parse_(SelectSeq(json.text, NotSpace)) = [json.dom EXCEPT !.pos = Len(SelectSeq(json.text, NotSpace)) + 1]
    /\ json.sax.r = 7 => Len(json.sax.ev) = json.stop
    /\ (json.stop = 0 \/ Len(json.sax.ev) < json.stop) => (json.sax.r = 0) = json.dom.ok
    /\ json.dom.ok => json.sax.ev = (IF json.stop = 0 \/ json.stop > Len(Walk(json.dom.val)) THEN Walk(json.dom.val)
                                     ELSE SubSeq(Walk(json.dom.val), 1, json.stop))

-----------------------------------------------------------------------------
(***************************************************************************)
(* What is inside a JSON literal: xjson_tok_string's two passes over a     *)
(* string, the escapes xjson_stringify_str_ writes, and xjson_tok_number.  *)
(* The characters of a string are "q" the quote, "b" the backslash, "n",   *)
(* "u", "0" (a hexadecimal digit) and "LF" a control character that has a  *)
(* short escape (\n).  A decoded character is <<c>>; <<"cp", digits>> is   *)
(* what a \u escape stands for.                                            *)
(*                                                                         *)
(* lex.kind is "string" or "number", lex.text the characters, the first    *)
(* one that of the literal; lex.tok what the tokenizer answers.            *)
(***************************************************************************)

CONSTANTS HexLen,       \* the digits of a \u escape: 4 in the code
          MaxStringLen, \* bound: characters of a string literal
          MaxNumberLen  \* bound: characters of a number

VARIABLE lex

StringChars == {"q", "b", "n", "u", "0", "LF"}
NumberChars == {"-", "0", "1", ".", "e", "+"}

NoToken == [ok |-> FALSE, pos |-> 0, out |-> <<>>, dbl |-> FALSE]

-----------------------------------------------------------------------------
\* A backslash taken for itself.
RECURSIVE ClosingQuoteBare(_, _)
ClosingQuoteBare(t, s) ==
    IF s > Len(t) THEN 0 ELSE IF t[s] = "q" THEN s ELSE ClosingQuoteBare(t, s + 1)

\* First pass: the closing quote; a backslash hides the character after it.
RECURSIVE ClosingQuote(_, _)
ClosingQuote(t, s) ==
    IF s > Len(t) THEN 0
    ELSE IF t[s] = "q" THEN s
    ELSE IF t[s] = "b" THEN ClosingQuote(t, s + 2) ELSE ClosingQuote(t, s + 1)

ShortEscape(x) == CASE x = "q" -> "q" [] x = "b" -> "b" [] x = "n" -> "LF" [] OTHER -> "none"

\* Second pass, up to the closing quote at e; "bad" for a wrong escape.
RECURSIVE Unescape(_, _, _)
Unescape(t, s, e) ==
    IF s >= e THEN [ok |-> TRUE, out |-> <<>>]
    ELSE LET Then(x, k) == LET r == Unescape(t, k, e) IN [r EXCEPT !.out = <<x>> \o @]
         IN  IF t[s] # "b" THEN Then(<<t[s]>>, s + 1)
             ELSE IF t[s + 1] = "u"
                  THEN IF \A i \in 1 .. HexLen : s + 1 + i <= e /\ t[s + 1 + i] = "0"
                       THEN Then(<<"cp", HexLen>>, s + 2 + HexLen) ELSE [ok |-> FALSE, out |-> <<>>]
                  ELSE IF ShortEscape(t[s + 1]) = "none" THEN [ok |-> FALSE, out |-> <<>>]
                  ELSE Then(<<ShortEscape(t[s + 1])>>, s + 2)

xjson_tok_string(t) ==
    LET e == ClosingQuote(t, 2)
        u == Unescape(t, 2, e)
    IN  IF t = <<>> THEN NoToken
        ELSE IF t[1] # "q" \/ e = 0 THEN NoToken
        ELSE IF ~u.ok THEN NoToken ELSE [NoToken EXCEPT !.ok = TRUE, !.pos = e + 1, !.out = u.out]

RECURSIVE Escaped(_)
Escaped(o) == IF o = <<>> THEN <<>>
              ELSE (CASE o[1] = <<"q">> -> <<"b", "q">>
                      [] o[1] = <<"b">> -> <<"b", "b">>
                      [] o[1] = <<"LF">> -> <<"b", "n">>
                      [] Len(o[1]) = 2 -> <<"b", "u">> \o [i \in 1 .. HexLen |-> "0"]
                      [] OTHER -> o[1]) \o Escaped(Tail(o))
xjson_stringify_str_(o) == <<"q">> \o Escaped(o) \o <<"q">>

-----------------------------------------------------------------------------
Digit(t, p) == p <= Len(t) /\ t[p] \in {"0", "1"}

RECURSIVE Digits(_, _)
Digits(t, p) == IF Digit(t, p) THEN Digits(t, p + 1) ELSE p

Sym(t, p, x) == p <= Len(t) /\ t[p] = x

\* The cursor goes over the sign, the digits, the fraction and the exponent;
\* 0 for a failure.
xjson_tok_number(t) ==
    LET a == IF Sym(t, 1, "-") THEN 2 ELSE 1
        b == Digits(t, a)
        dot == Sym(t, b, ".")
        d == IF dot THEN Digits(t, b + 1) ELSE b
        exp == Sym(t, d, "e")
        g == IF Sym(t, d + 1, "+") \/ Sym(t, d + 1, "-") THEN d + 2 ELSE d + 1
        h == IF exp THEN Digits(t, g) ELSE d
    IN  IF \/ ~Digit(t, a) \/ (Sym(t, a, "0") /\ Digit(t, a + 1))
           \/ (dot /\ ~Digit(t, b + 1)) \/ (exp /\ ~Digit(t, g))
        THEN NoToken
        ELSE [NoToken EXCEPT !.ok = TRUE, !.pos = h, !.dbl = dot \/ exp]

-----------------------------------------------------------------------------
TokenAnswer(kind, t) == [kind |-> kind, text |-> t,
                         tok |-> IF kind = "string" THEN xjson_tok_string(t) ELSE xjson_tok_number(t)]

TokenInit == \E kind \in {"string", "number"} : lex = TokenAnswer(kind, <<>>)

ReadString(x) == /\ lex.kind = "string" /\ Len(lex.text) < MaxStringLen /\ (lex.text = <<>> => x = "q")
                 /\ lex' = TokenAnswer("string", Append(lex.text, x))
ReadNumber(x) == /\ lex.kind = "number" /\ Len(lex.text) < MaxNumberLen
                 /\ lex' = TokenAnswer("number", Append(lex.text, x))

TokenNext == (\E x \in StringChars : ReadString(x)) \/ (\E x \in NumberChars : ReadNumber(x))
TokenSpec == TokenInit /\ [][TokenNext]_lex

-----------------------------------------------------------------------------
\* The grammar of RFC 8259 for a number, by the places of its parts.
NumberIn(t) ==
    LET DigitsAt(p, q) == p < q /\ \A i \in p .. q - 1 : t[i] \in {"0", "1"}
        n == Len(t) + 1
    IN  n > 1 /\ \E a \in {1, 2}, b \in 2 .. n, d \in 2 .. n :
           /\ a < b /\ b <= d
           /\ a = 2 <=> t[1] = "-"
           /\ DigitsAt(a, b) /\ (t[a] = "0" => b = a + 1)
           /\ b = d \/ (t[b] = "." /\ DigitsAt(b + 1, d))
           /\ d = n \/ (t[d] = "e" /\ \E g \in {d + 1, d + 2} :
                           DigitsAt(g, n) /\ (g = d + 2 => t[d + 1] \in {"+", "-"}))

\* A string is what its characters spell: escaping what was decoded and
\* reading all of it again gives the same characters, no more of them than the input
\* took; and a text is a number exactly when the grammar has it
\* (json_parse.c:38-166).
TokensRight ==
    /\ lex.kind = "string" /\ lex.tok.ok =>
            /\ \E w \in {xjson_stringify_str_(lex.tok.out)} :
                  xjson_tok_string(w) = [lex.tok EXCEPT !.pos = Len(w) + 1]
            /\ Len(lex.tok.out) <= lex.tok.pos - 3
            /\ lex.tok.pos > Len(lex.text) => \A k \in 1 .. Len(lex.text) - 1 : ~xjson_tok_string(SubSeq(lex.text, 1, k)).ok
    /\ lex.kind = "number" => (lex.tok.ok /\ lex.tok.pos > Len(lex.text)) = NumberIn(lex.text)

-----------------------------------------------------------------------------
(***************************************************************************)
(* Trees of malloc'd xJson nodes as a caller builds and changes them, and  *)
(* an iterator over an object.                                             *)
(*                                                                         *)
(* node.kind[n]  "obj", "arr", "freed", or "none" for a node not made yet; *)
(*   a string or a number is a container nothing is put into               *)
(* node.first[n], node.next[n]  the child list of n: its head, its links   *)
(* node.key[n]  the key a member was set under; node.owned[n]              *)
(*   XJSON_FLAG_OWNED                                                      *)
(* node.it, node.cur  the iterator's object and its place, 0 for none      *)
(* node.twice   history: a node was freed that was not allocated           *)
(***************************************************************************)

CONSTANTS NNodes, MemberKeys

VARIABLE node

Nodes == 1 .. NNodes
Live(n) == node.kind[n] \in {"obj", "arr"}

\* The list from n on, by its links; NNodes bounds a list without a cycle.
RECURSIVE From(_, _, _)
From(s, n, fuel) == IF n = 0 \/ fuel = 0 THEN <<>> ELSE <<n>> \o From(s, s.next[n], fuel - 1)
Children(s, n) == From(s, s.first[n], NNodes + 1)

NodeInit == node = [kind |-> [n \in Nodes |-> "none"], first |-> [n \in Nodes |-> 0],
                    next |-> [n \in Nodes |-> 0], key |-> [n \in Nodes |-> "-"],
                    owned |-> [n \in Nodes |-> FALSE], it |-> 0, cur |-> 0, twice |-> FALSE]

\* A caller hands over a node that is nobody's, never one that holds the
\* object it goes into.
RECURSIVE Holds(_, _, _)
Holds(s, n, x) == n = x \/ \E i \in 1 .. Len(Children(s, n)) : Holds(s, Children(s, n)[i], x)
Free1(v, o) == Live(v) /\ ~node.owned[v] /\ ~Holds(node, v, o)

-----------------------------------------------------------------------------
xjson_new_(n, kind) ==
    /\ node.kind[n] = "none" /\ \A m \in 1 .. n - 1 : node.kind[m] # "none"
    /\ node' = [node EXCEPT !.kind[n] = kind]

\* A node, then its children, each with what is under it.
RECURSIVE xjson_free_subtree_(_, _)
RECURSIVE FreeList(_, _)
FreeList(s, l) == IF l = <<>> THEN s ELSE FreeList(xjson_free_subtree_(s, l[1]), Tail(l))
xjson_free_subtree_(s0, n) ==
    LET s == FreeList(s0, Children(s0, n))
    IN  [s EXCEPT !.kind[n] = "freed", !.first[n] = 0, !.next[n] = 0, !.key[n] = "-", !.owned[n] = FALSE,
                  !.twice = @ \/ s.kind[n] \in {"freed", "none"}]

\* The link that holds the i-th child of o, or the last link: its owner is the
\* child before, or o.
SetLink(s, o, i, x) ==
    IF i = 1 THEN [s EXCEPT !.first[o] = x] ELSE [s EXCEPT !.next[Children(s, o)[i - 1]] = x]

Unlink(s, o, i) ==
    LET v == Children(s, o)[i]
    IN  xjson_free_subtree_([SetLink(s, o, i, s.next[v]) EXCEPT !.next[v] = 0], v)

\* v takes the place of the i-th child, which goes.
Replace(s, o, i, v) ==
    LET old == Children(s, o)[i]
    IN  xjson_free_subtree_([SetLink([s EXCEPT !.next[v] = s.next[old]], o, i, v) EXCEPT !.next[old] = 0], old)

Insert(s, o, i, v) ==
    LET c == Children(s, o)
    IN  SetLink([s EXCEPT !.next[v] = IF i <= Len(c) THEN c[i] ELSE 0], o, i, v)

\* The place of the first member with the key, or the one after the last.
xjson_obj_find_(s, o, k) ==
    LET c == Children(s, o)
        found == {i \in 1 .. Len(c) : s.key[c[i]] = k}
    IN  IF found = {} THEN Len(c) + 1 ELSE CHOOSE i \in found : \A m \in found : i <= m

-----------------------------------------------------------------------------
\* The iterator's caller leaves the member it stands on alone (json.h:296-298).
NotAtCursor(o, i) == ~(node.it = o /\ node.cur # 0 /\ i <= Len(Children(node, o)) /\ Children(node, o)[i] = node.cur)

xJsonObjectSet(o, k, v) ==
    LET s == [node EXCEPT !.owned[v] = TRUE, !.key[v] = k]
        i == xjson_obj_find_(node, o, k)
    IN  /\ node.kind[o] = "obj" /\ Free1(v, o) /\ NotAtCursor(o, i)
        /\ node' = IF i <= Len(Children(node, o)) THEN Replace(s, o, i, v) ELSE Insert(s, o, i, v)

xJsonObjectDel(o, k) ==
    LET i == xjson_obj_find_(node, o, k)
    IN  /\ node.kind[o] = "obj" /\ i <= Len(Children(node, o)) /\ NotAtCursor(o, i)
        /\ node' = Unlink(node, o, i)

\* xjson_arr_ptr_at_ counts from the end below 0: every index it accepts is a
\* place 1 .. size + 1 of the list, and what it refuses changes nothing.
xJsonArraySet(a, i, v) ==
    /\ node.kind[a] = "arr" /\ i <= Len(Children(node, a)) /\ Free1(v, a)
    /\ node' = Replace([node EXCEPT !.owned[v] = TRUE], a, i, v)
xJsonArrayInsert(a, i, v) ==
    /\ node.kind[a] = "arr" /\ i <= Len(Children(node, a)) + 1 /\ Free1(v, a)
    /\ node' = Insert([node EXCEPT !.owned[v] = TRUE], a, i, v)
xJsonArrayAppend(a, v) ==
    /\ node.kind[a] = "arr" /\ Free1(v, a)
    /\ node' = Insert([node EXCEPT !.owned[v] = TRUE], a, Len(Children(node, a)) + 1, v)
xJsonArrayRemove(a, i) ==
    /\ node.kind[a] = "arr" /\ i <= Len(Children(node, a))
    /\ node' = Unlink(node, a, i)

\* An owned node is left alone; the caller frees the iterator of a tree first.
xJsonFree(n) ==
    /\ Live(n) /\ (node.it # 0 => ~Holds(node, n, node.it))
    /\ node' = IF node.owned[n] THEN node ELSE xjson_free_subtree_(node, n)

xJsonNewIterator(o) == node.it = 0 /\ node.kind[o] = "obj" /\ node' = [node EXCEPT !.it = o, !.cur = 0]
xJsonIteratorNext ==
    /\ node.it # 0
    /\ LET n == IF node.cur # 0 THEN node.next[node.cur] ELSE node.first[node.it]
       IN  node' = [node EXCEPT !.cur = n, !.it = IF n = 0 THEN 0 ELSE @]

\* The container the iterator walks is not freed through another one.
Kept == node.it # 0 => node'.kind[node.it] = "obj"

NodeNext == \/ \E n \in Nodes, kind \in {"obj", "arr"} : xjson_new_(n, kind)
            \/ (\E o, v \in Nodes, k \in MemberKeys : xJsonObjectSet(o, k, v)) /\ Kept
            \/ (\E o \in Nodes, k \in MemberKeys : xJsonObjectDel(o, k)) /\ Kept
            \/ (\E a, i, v \in Nodes : xJsonArraySet(a, i, v)) /\ Kept
            \/ \E a, i, v \in Nodes : xJsonArrayInsert(a, i, v)
            \/ \E a, v \in Nodes : xJsonArrayAppend(a, v)
            \/ (\E a, i \in Nodes : xJsonArrayRemove(a, i)) /\ Kept
            \/ (\E n \in Nodes : xJsonFree(n)) /\ Kept
            \/ \E o \in Nodes : xJsonNewIterator(o)
            \/ xJsonIteratorNext

NodeSpec == NodeInit /\ [][NodeNext]_node

-----------------------------------------------------------------------------
\* Every node has one place: it is owned exactly when it is in one child list,
\* once; what is in a list is alive, no node is freed twice, an object has a
\* key once, and the iterator stands on a member of its object.
TreesHeld ==
    LET Links == UNION {LET c == Children(node, o) IN {<<o, i, c[i]>> : i \in 1 .. Len(c)} : o \in Nodes}
    IN  /\ ~node.twice
        /\ \E links \in {Links} :
              /\ \A l \in links : Live(l[1]) /\ Live(l[3])
              /\ \A l, k \in links : l[3] = k[3] => l = k
              /\ \A n \in Nodes : node.owned[n] <=> \E l \in links : l[3] = n
              /\ \A l, k \in links :
                    l[1] = k[1] /\ node.kind[l[1]] = "obj" /\ node.key[l[3]] = node.key[k[3]] => l = k
              /\ node.cur # 0 => \E l \in links : l[1] = node.it /\ l[3] = node.cur
=============================================================================
