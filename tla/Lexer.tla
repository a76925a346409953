------------------------------- MODULE Lexer -------------------------------
(***************************************************************************)
(* The lexer (frontend/lexer/Lexer.cpp): from the characters of a text to  *)
(* its tokens, one call of next() after the other.                         *)
(*                                                                         *)
(* A word is one character here ("id" stands for any name, "int" for the   *)
(* keyword int), as is a sequence of bytes that is legal UTF-8 ("utf");    *)
(* "bad" is a byte that no such sequence starts with; "dq", "sq" and "bq"  *)
(* are the quotes ", ' and `, and "bs" is \.  Upper-case letters, tabs and *)
(* carriage returns have the rules of those modelled.                      *)
(***************************************************************************)
EXTENDS Integers, Sequences, SequencesExt

VARIABLE chars         \* the text

Space == {" ", "\n"}
Digits == {"0", "1", "2", "3", "4", "5", "6", "7", "8", "9"}
HexDigits == Digits \cup {"a", "b", "c", "d", "e", "f"}
Punctuation == {"(", ")", "[", "]", "{", "}", "<", ">", "?", ":", ";", ",", ".", "=", "+", "-", "*", "/", "%",
                "&", "|", "^", "!", "~", "dq", "sq", "bq", "$", "bs", "@"}

\* isAsciiIdentStart; every other character is a letter or a word
IsWord(c) == c \notin Space \cup Digits \cup Punctuation \cup {"", "utf", "bad"}

\* The operators of more than one character
LongOperators == {
    <<"+", "+">>, <<"+", "=">>, <<"-", "-">>, <<"-", "=">>, <<"-", ">">>, <<"*", "*">>, <<"*", "=">>, <<"/", "=">>,
    <<"%", "=">>, <<"<", "<">>, <<"<", "<", "=">>, <<"<", "=">>, <<">", ">">>, <<">", ">", "=">>, <<">", "=">>,
    <<"=", "=">>, <<"=", ">">>, <<"!", "=">>, <<"&", "&">>, <<"&", "=">>, <<"|", ">">>, <<"|", "|">>, <<"|", "=">>,
    <<"^", "=">>, <<"?", "?">>, <<"?", ".">>, <<".", ".", ".">>}
Signs == Punctuation \ {"dq", "sq", "bq", "$", "bs", "@"}

\* A lexeme is named by its characters put together: "<<" for <<"<", "<">>.
Named ==
    {<<"++", <<"+", "+">> >>, <<"--", <<"-", "-">> >>, <<"+=", <<"+", "=">> >>, <<"->", <<"-", ">">> >>,
     <<"**", <<"*", "*">> >>, <<"*=", <<"*", "=">> >>, <<"<<", <<"<", "<">> >>, <<">>", <<">", ">">> >>,
     <<"<=", <<"<", "=">> >>, <<">=", <<">", "=">> >>, <<">>=", <<">", ">", "=">> >>, <<"==", <<"=", "=">> >>,
     <<"=>", <<"=", ">">> >>, <<"!=", <<"!", "=">> >>, <<"&&", <<"&", "&">> >>, <<"|>", <<"|", ">">> >>,
     <<"||", <<"|", "|">> >>, <<"??", <<"?", "?">> >>, <<"?.", <<"?", ".">> >>, <<"...", <<".", ".", ".">> >>,
     <<"str", <<"dq", "dq">> >>, <<"tmpl", <<"bq", "bq">> >>}
Spelling == [x \in {n[1] : n \in Named} |-> (CHOOSE n \in Named : n[1] = x)[2]]
Glyphs(x) == IF x \in DOMAIN Spelling THEN Spelling[x] ELSE <<x>>
\* the other operators that assign are parsed like these two
NameOf(g) ==
    IF Len(g) = 1 THEN g[1]
    ELSE IF \E n \in Named : n[2] = g THEN (CHOOSE n \in Named : n[2] = g)[1]
    ELSE "+="

RECURSIVE Characters(_)
Characters(t) == IF t = <<>> THEN <<>> ELSE Glyphs(Head(t)) \o Characters(Tail(t))

-----------------------------------------------------------------------------
(* The state: the place of curPtr, whether the lexer is in a template      *)
(* string, where the current fragment of it starts (0: nowhere), and the   *)
(* balance of braces of each interpolation that is open                    *)

LexStart == [p |-> 1, template |-> FALSE, frag |-> 0, stack |-> <<>>]

CharAt(c) == IF c <= Len(chars) THEN chars[c] ELSE ""
AtEnd(l) == l.p > Len(chars)
Goto(l, p) == [l EXCEPT !.p = p]

Token(l, k, from) == [l |-> l, k |-> k, at |-> from, n |-> l.p - from]
ErrorAt(l, from) == Token(l, "error", from)

RECURSIVE SkipChars(_, _)
SkipChars(set, c) == IF CharAt(c) \in set THEN SkipChars(set, c + 1) ELSE c
SkipSpace(c) == SkipChars(Space, c)

\* Behind the block comment whose depth at c is given; 0 when the text ends in it
RECURSIVE BlockComment(_, _)
BlockComment(depth, c) ==
    IF depth = 0 THEN c
    ELSE IF c > Len(chars) THEN 0
    ELSE IF CharAt(c) = "/" /\ CharAt(c + 1) = "*" THEN BlockComment(depth + 1, c + 2)
    ELSE IF CharAt(c) = "*" /\ CharAt(c + 1) = "/" THEN BlockComment(depth - 1, c + 2)
    ELSE BlockComment(depth, c + 1)

SkipComment(c) ==
    IF CharAt(c + 1) = "/" THEN SkipChars({x \in ToSet(chars) : x # "\n"}, c + 2)
    ELSE BlockComment(1, c + 2)

\* Behind the escape that starts at c; valid or not.
ConsumeEscape(c) ==
    LET e == CharAt(c + 1)
        Fixed(n) == LET ok == \A i \in c + 2 .. c + 1 + n : CharAt(i) \in HexDigits
                    IN [ok |-> ok, p |-> IF ok THEN c + 2 + n ELSE c + 2]
        close == SkipChars(HexDigits, c + 3)
    IN CASE e = "" -> [ok |-> FALSE, p |-> c + 1]
         [] e \in {"n", "r", "t", "0", "b", "bs", "sq", "dq", "bq", "$"} -> [ok |-> TRUE, p |-> c + 2]
         [] e = "x" -> Fixed(2)
         [] e = "u" -> IF CharAt(c + 2) # "{" THEN Fixed(4)
                       ELSE [ok |-> CharAt(close) = "}", p |-> IF CharAt(close) = "}" THEN close + 1 ELSE close]
         [] OTHER -> [ok |-> FALSE, p |-> c + 1]

-----------------------------------------------------------------------------
(* Scanners: each is called at the first character of its token *)

NumericSuffixes == {<<"i", "8">>, <<"u", "8">>, <<"i", "1", "6">>, <<"u", "1", "6">>, <<"i", "3", "2">>, <<"u", "3", "2">>,
             <<"i", "6", "4">>, <<"u", "6", "4">>, <<"isize">>, <<"usize">>, <<"f", "8">>, <<"f", "1", "6">>,
             <<"f", "3", "2">>, <<"f", "6", "4">>, <<"d">>}

RECURSIVE SkipName(_)
SkipName(c) == IF IsWord(CharAt(c)) \/ CharAt(c) \in Digits THEN SkipName(c + 1) ELSE c

SkipDigits(c) == SkipChars(Digits \cup {"_"}, c)

\* The place behind the fraction of the number that starts at p with digits up to whole
Fraction(whole) ==
    IF CharAt(whole) # "." THEN whole
    ELSE IF CharAt(whole + 1) \in Digits THEN SkipDigits(whole + 1)
    ELSE IF IsWord(CharAt(whole + 1)) THEN whole ELSE whole + 1

\* A number that ends in a suffix, which takes all letters and digits that follow its body
NumberTo(l, body, bad) ==
    LET end == IF IsWord(CharAt(body)) THEN SkipName(body) ELSE body
        suffix == SubSeq(chars, body, end - 1)
        underscores == \/ CharAt(end - 1) = "_" /\ suffix \notin NumericSuffixes
                       \/ \E i \in l.p .. end - 2 : CharAt(i) = "_" /\ CharAt(i + 1) = "_"
    IN IF bad \/ underscores \/ (suffix # <<>> /\ suffix \notin NumericSuffixes)
       THEN ErrorAt(Goto(l, end), l.p) ELSE Token(Goto(l, end), "1", l.p)

\* The exponent, behind the digits and points that end at mantissa
Exponent(l, mantissa, twoPoints) ==
    LET power == IF CharAt(mantissa + 1) \in {"+", "-"} THEN mantissa + 2 ELSE mantissa + 1
    IN IF CharAt(mantissa) # "e" THEN NumberTo(l, mantissa, twoPoints)
       ELSE NumberTo(l, SkipDigits(power), twoPoints \/ CharAt(power) \notin Digits)

Decimal(l, whole, fraction) ==
    IF fraction > whole + 1 /\ CharAt(fraction) = "."
    THEN Exponent(l, SkipChars(Digits \cup {".", "_"}, fraction), TRUE)
    ELSE Exponent(l, fraction, FALSE)

ScanNumber(l) ==
    LET p == l.p
        base == CASE CharAt(p) = "0" /\ CharAt(p + 1) = "x" -> HexDigits
                  [] CharAt(p) = "0" /\ CharAt(p + 1) = "b" -> {"0", "1"}
                  [] CharAt(p) = "0" /\ CharAt(p + 1) = "o" -> Digits \ {"8", "9"}
                  [] OTHER -> {}
        Point(whole) == Decimal(l, whole, Fraction(whole))
    IN IF base # {} THEN NumberTo(l, SkipChars(base \cup {"_"}, p + 2), FALSE)
       ELSE Point(SkipDigits(IF CharAt(p) = "." THEN SkipDigits(p + 1) ELSE p))

Keywords == {
    "class", "operator", "thread", "ref", "weak", "shared", "new", "delete", "unsafe", "unsigned", "constructor",
    "destructor", "this", "super", "null", "if", "else", "while", "do", "for", "in", "switch", "case", "default",
    "return", "break", "continue", "defer", "with", "try", "catch", "throw", "finally", "void", "int", "short", "long",
    "isize", "usize", "float", "double", "bool", "string", "char", "half", "quarter", "decimal", "any", "as", "true",
    "false", "public", "private", "protected", "promise", "const", "cast", "bitcast", "static", "async", "await",
    "import", "from", "macro", "enum", "table", "generic", "struct", "union", "packed", "volatile", "align", "sizeof",
    "interrupt", "naked", "noreturn", "noinline", "inline", "pure", "cold", "lock", "view", "mut", "virtual",
    "override", "input", "closure", "move", "out", "inout", "clobber", "extern", "using", "asm", "section", "used",
    "thread_local"}

ScanIdentifier(l) ==
    LET RECURSIVE Body(_)
        Body(c) == IF IsWord(CharAt(c)) \/ CharAt(c) \in Digits \cup {"utf"} THEN Body(c + 1) ELSE c
        end == Body(l.p)
        spelling == SubSeq(chars, l.p, end - 1)
    IN IF CharAt(end) = "bad" THEN ErrorAt(Goto(l, end), l.p)
       ELSE Token(Goto(l, end), IF Len(spelling) = 1 /\ spelling[1] \in Keywords THEN spelling[1] ELSE "id", l.p)

ScanChar(l) ==
    LET c == l.p + 1
        escape == ConsumeEscape(c)
        r == IF CharAt(c) = "bs" THEN escape
             ELSE IF CharAt(c) \in {"", "bad"} THEN [ok |-> FALSE, p |-> c] ELSE [ok |-> TRUE, p |-> c + 1]
    IN IF r.ok /\ CharAt(r.p) = "sq" THEN Token(Goto(l, r.p + 1), "1", l.p) ELSE ErrorAt(Goto(l, r.p), l.p)

\* The longest operator; { and } are counted in an interpolation, and its last } ends it.
ScanOperator(l) ==
    LET c == CharAt(l.p)
        long == {x \in LongOperators : \A i \in DOMAIN x : CharAt(l.p + i - 1) = x[i]}
        g == IF long = {} THEN <<c>> ELSE CHOOSE x \in long : \A y \in long : Len(y) <= Len(x)
        z == Goto(l, l.p + Len(g))
        n == Len(l.stack)
        Count(d) == [z EXCEPT !.stack[n] = @ + d]
    IN IF c \notin Signs THEN ErrorAt(z, l.p)
       ELSE IF c = "}" /\ n > 0 /\ l.stack[n] = 0
       THEN Token([z EXCEPT !.stack = Front(@), !.template = TRUE, !.frag = z.p], "}$", l.p)
       ELSE IF c \in {"{", "}"} /\ n > 0 THEN Token(Count(IF c = "{" THEN 1 ELSE -1), c, l.p)
       ELSE Token(z, NameOf(g), l.p)

\* To the end of a string, or of a fragment of a template string; failed: an escape was not valid.
RECURSIVE ScanString(_, _, _)
ScanString(l, from, failed) ==
    LET c == CharAt(l.p)
        escape == ConsumeEscape(l.p)
        normal == [l EXCEPT !.template = FALSE]
        none == [normal EXCEPT !.frag = 0]
        start == IF l.template THEN l.frag ELSE from
    IN CASE AtEnd(l) -> ErrorAt(none, start)
         [] ~l.template /\ c = "\n" -> ErrorAt(l, start)
         [] c = "bs" -> ScanString(Goto(l, escape.p), from, failed \/ ~escape.ok)
         [] c = (IF l.template THEN "bq" ELSE "dq") ->
                LET z == [(IF l.template THEN none ELSE l) EXCEPT !.p = @ + 1]
                IN Token(z, IF failed THEN "error" ELSE IF l.template THEN "tmpl" ELSE "str", start)
         [] l.template /\ c = "$" /\ CharAt(l.p + 1) = "{" ->
                IF l.p = l.frag THEN Token([normal EXCEPT !.p = @ + 2, !.stack = Append(@, 0)], "${", l.p)
                ELSE Token([l EXCEPT !.frag = l.p], "frag", l.frag)
         [] OTHER -> ScanString(Goto(l, l.p + 1), from, failed)

\* In a template string already, or at a quote
ScanText(l) ==
    IF l.template THEN ScanString(IF l.frag = 0 THEN [l EXCEPT !.frag = l.p] ELSE l, 0, FALSE)
    ELSE IF CharAt(l.p) = "bq" THEN ScanString([l EXCEPT !.p = @ + 1, !.template = TRUE, !.frag = l.p + 1], 0, FALSE)
    ELSE ScanString(Goto(l, l.p + 1), l.p, FALSE)

RECURSIVE SkipBlanks(_)
SkipBlanks(c) ==
    LET p == SkipSpace(c)
        behind == SkipComment(p)
    IN IF CharAt(p) # "/" \/ CharAt(p + 1) \notin {"/", "*"} THEN p
       ELSE IF behind = 0 THEN 0 ELSE SkipBlanks(behind)

\* The next token.  At the end of the text behind an interpolation it is an error, for ever.
\* The token at p, behind the blanks
TokenAt(z, p, c) ==
    CASE c = "" -> Token(z, "eof", p)
      [] IsWord(c) \/ c = "utf" -> ScanIdentifier(z)
      [] c = "bad" -> ErrorAt(z, p)
      [] c \in Digits \/ (c = "." /\ CharAt(p + 1) \in Digits) -> ScanNumber(z)
      [] c \in {"dq", "bq"} -> ScanText(z)
      [] c = "sq" -> ScanChar(z)
      [] OTHER -> ScanOperator(z)

NextToken(l) ==
    LET From(p) == IF p = 0 THEN ErrorAt(Goto(l, Len(chars) + 1), Len(chars) + 1)
                   ELSE TokenAt(Goto(l, p), p, CharAt(p))
    IN IF ~l.template \/ l.stack # <<>> THEN From(SkipBlanks(l.p))
       ELSE IF AtEnd(l) THEN ErrorAt(l, IF l.frag = 0 THEN 1 ELSE l.frag) ELSE ScanText(l)

\* The calls of next() up to the first that all later ones repeat
RECURSIVE TokensFrom(_)
TokensFrom(l) ==
    LET Tokens(t) == <<[k |-> t.k, at |-> t.at, n |-> t.n]>>
                     \o IF t.k = "eof" \/ t.l = l THEN <<>> ELSE TokensFrom(t.l)
    IN Tokens(NextToken(l))
=============================================================================
