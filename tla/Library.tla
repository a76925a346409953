------------------------------ MODULE Library ------------------------------
(***************************************************************************)
(* What programs call in the library besides containers: texts             *)
(* (core/string.c), decimals and long division (core/math.c, core/io.c)    *)
(* and files of text, JSON, YAML and CSV (core/file.c).  A text is the     *)
(* sequence of its characters, for the functions below are about them; an  *)
(* offset counts from 0 as in C.  A job is one call, or a writer and the   *)
(* reader of what it wrote; its answer is compared with what the call is   *)
(* for.                                                                    *)
(***************************************************************************)
EXTENDS Integers, Sequences, FiniteSetsExt, SequencesExt

CONSTANTS Jobs,       \* the jobs done: records like NoJob
          WordBits,   \* 64: the width of the long division
          LineCap     \* 128: the first buffer of readLine

NULL == <<"NULL">>    \* no text: a null pointer

Dec(m, sc) == [m |-> m, sc |-> sc]   \* MokshaDecimal: mantissa and scale
NoJob == [fn |-> "none", s |-> <<>>, t |-> <<>>, u |-> <<>>,
          a |-> Dec(0, 0), b |-> Dec(0, 0), parts |-> <<>>, rows |-> <<>>]

VARIABLES job,     \* the call, with its arguments
          disk,    \* the text of the one file, NULL when there is none
          phase,   \* "asked", "written", "appended", "answered"
          got      \* the answer
askVars == <<job, disk, phase, got>>

Answer(v) == [ok |-> TRUE, v |-> v]
Panic == [ok |-> FALSE, v |-> NULL]

-----------------------------------------------------------------------------
(* Texts *)

Spaces == {" ", "\t", "\n", "\r"}
Least(S, none) == IF S = {} THEN none ELSE Min(S)

\* The rest of s from offset p begins with t.
Begins(s, t, p) == \A k \in 1 .. Len(t) : p + k <= Len(s) /\ s[p + k] = t[k]

\* internal_strstr on the rest of s from offset p; -1 is NULL.
Strstr(s, t, p) ==
    IF t = <<>> THEN p ELSE Least({i \in p .. Len(s) - 1 : Begins(s, t, i)}, -1)

Substring(s, start, end) ==
    LET from == IF start < 0 THEN 0 ELSE start
        to == IF end > Len(s) THEN Len(s) ELSE end
    IN  IF s = NULL THEN NULL
        ELSE IF from > to \/ from >= Len(s) THEN <<>> ELSE SubSeq(s, from + 1, to)

Index(s, t) == IF s = NULL \/ t = NULL THEN -1 ELSE Strstr(s, t, 0)
Holds(s, t) == s # NULL /\ t # NULL /\ Strstr(s, t, 0) # -1
StartsWith(s, t) == s # NULL /\ t # NULL /\ Begins(s, t, 0)
EndsWith(s, t) ==
    s # NULL /\ t # NULL /\ Len(t) <= Len(s) /\ Begins(s, t, Len(s) - Len(t))

\* The letters that occur here.
Smalls == <<"a", "b">>
Capitals == <<"A", "B">>
Mapped(s, from, to) ==
    [i \in DOMAIN s |-> IF s[i] \in Range(from) THEN to[CHOOSE k \in DOMAIN from : from[k] = s[i]] ELSE s[i]]
ToUpper(s) == IF s = NULL THEN NULL ELSE Mapped(s, Smalls, Capitals)
ToLower(s) == IF s = NULL THEN NULL ELSE Mapped(s, Capitals, Smalls)

Trim(s) ==
    LET start == Least({i \in 0 .. Len(s) - 1 : s[i + 1] \notin Spaces}, Len(s))
        end == Max({start} \cup {i \in start .. Len(s) : i > start /\ s[i] \notin Spaces})
    IN  IF s \in {NULL, <<>>} THEN s ELSE SubSeq(s, start + 1, end)

RECURSIVE Count(_, _, _)
CountOverlapping(s, t, p) ==
    LET n == Strstr(s, t, p) IN IF n = -1 THEN 0 ELSE 1 + Count(s, t, n + 1)

\* The first scan of moksha_string_replace and of moksha_string_split, which counts.
Count(s, t, p) ==
    LET n == Strstr(s, t, p) IN IF n = -1 THEN 0 ELSE 1 + Count(s, t, n + Len(t))

\* The second scan of moksha_string_split, which copies.
RECURSIVE Pieces(_, _, _)
Pieces(s, t, p) ==
    LET n == Strstr(s, t, p)
    IN  IF n = -1 THEN <<SubSeq(s, p + 1, Len(s))>>
        ELSE <<SubSeq(s, p + 1, n)>> \o Pieces(s, t, n + Len(t))

\* The second scan of moksha_string_replace, from offset p.
RECURSIVE Substituted(_, _, _, _)
Substituted(s, old, new, p) ==
    LET next == Strstr(s, old, p)
    IN  IF next = -1 THEN SubSeq(s, p + 1, Len(s))
        ELSE SubSeq(s, p + 1, next) \o new \o Substituted(s, old, new, next + Len(old))

\* A result with the size that was allocated for it.
Sized(size, v) == [size |-> size, v |-> v]

Replace(s, old, new) ==
    IF NULL \in {s, old, new} \/ old = <<>> \/ Count(s, old, 0) = 0 THEN Sized(Len(s), s)
    ELSE Sized(Len(s) + Count(s, old, 0) * (Len(new) - Len(old)), Substituted(s, old, new, 0))

\* moksha_string_split: count goes to the slice and to the allocation.
Split(s, d) ==
    IF NULL \in {s, d} THEN Sized(0, <<>>)
    ELSE IF d = <<>> THEN Sized(1, <<s>>)
    ELSE Sized(1 + Count(s, d, 0), Pieces(s, d, 0))

Join(parts, d) ==
    LET glue == IF d = NULL THEN <<>> ELSE d
    IN  FlattenSeq([i \in DOMAIN parts |-> IF i < Len(parts) THEN parts[i] \o glue ELSE parts[i]])

-----------------------------------------------------------------------------
(* Numbers.  128 bits hold every mantissa that occurs here. *)

Abs(n) == IF n < 0 THEN -n ELSE n
Sign(n) == IF n < 0 THEN -1 ELSE IF n > 0 THEN 1 ELSE 0
Quot(a, b) == Sign(a) * Sign(b) * (Abs(a) \div Abs(b))   \* division in C truncates
Rem(a, b) == a - b * Quot(a, b)

\* __moksha_powi32, __moksha_powi64, moksha_pow10_128: one squaring per bit of exp.
RECURSIVE Squaring(_, _, _)
Squaring(result, base, exp) ==
    IF exp = 0 THEN result
    ELSE Squaring(IF exp % 2 = 1 THEN result * base ELSE result, base * base, exp \div 2)
Powi(base, exp) == IF exp < 0 THEN 0 ELSE Squaring(1, base, exp)

Scale(d, target) ==
    Dec(IF target >= d.sc THEN d.m * Powi(10, target - d.sc) ELSE Quot(d.m, Powi(10, d.sc - target)),
        target)
Wider(a, b) == IF a.sc > b.sc THEN a.sc ELSE b.sc
DecAdd(a, b) == LET w == Wider(a, b) IN Dec(Scale(a, w).m + Scale(b, w).m, w)
DecSub(a, b) == LET w == Wider(a, b) IN Dec(Scale(a, w).m - Scale(b, w).m, w)
DecMul(a, b) == Dec(a.m * b.m, a.sc + b.sc)
DecDiv(a, b) ==
    LET w == Wider(a, b)
    IN  IF b.m = 0 THEN Panic
        ELSE Answer(Dec(Quot(a.m * Powi(10, b.sc + w - a.sc), b.m), w))
DecMod(a, b) ==
    LET w == Wider(a, b)
    IN  IF b.m = 0 THEN Panic ELSE Answer(Dec(Rem(Scale(a, w).m, Scale(b, w).m), w))
DecCmp(a, b) == LET w == Wider(a, b) IN Sign(Scale(a, w).m - Scale(b, w).m)

Digits == <<"0", "1", "2", "3", "4", "5", "6", "7", "8", "9">>
Digit(n) == Digits[(n % 10) + 1]

\* internal_utoa64 and internal_itoa64.
RECURSIVE Utoa(_)
Utoa(n) == IF n < 10 THEN <<Digit(n)>> ELSE Append(Utoa(n \div 10), Digit(n))
Itoa(n) == IF n < 0 THEN <<"-">> \o Utoa(-n) ELSE Utoa(n)

\* The loop of moksha_rt_dec_to_string and of moksha_print_decimal128, back to front.
RECURSIVE DecDigits(_, _, _)
DecDigits(value, scale, done) ==
    IF ~(value > 0 \/ done < scale + 1) THEN <<>>
    ELSE DecDigits(value \div 10, scale, done + 1)
         \o <<Digit(value)>> \o (IF done = scale /\ scale > 0 THEN <<".">> ELSE <<>>)
DecText(d) ==
    IF d.m = 0 THEN <<"0">>
    ELSE (IF d.m < 0 THEN <<"-">> ELSE <<>>) \o DecDigits(Abs(d.m), d.sc, 0)

\* __moksha_string_to_decimal.
Valued(text) == [i \in DOMAIN text |-> (CHOOSE k \in DOMAIN Digits : Digits[k] = text[i]) - 1]
ToDecimal(s) ==
    LET start == Least({i \in DOMAIN s : s[i] \notin Spaces}, Len(s) + 1)
        signed == start <= Len(s) /\ s[start] \in {"-", "+"}
        body == SubSeq(s, IF signed THEN start + 1 ELSE start, Len(s))
        points == {i \in DOMAIN body : body[i] = "."}
        digits == SelectSeq(body, LAMBDA c : c \in Range(Digits))
        frac == IF points = {} THEN <<>>
                ELSE SelectSeq(SubSeq(body, Min(points), Len(body)), LAMBDA c : c \in Range(Digits))
        m == FoldLeft(LAMBDA n, v : n * 10 + v, 0, Valued(digits))
    IN  IF \/ start > Len(s) \/ digits = <<>> \/ Cardinality(points) > 1
           \/ \E i \in DOMAIN body : body[i] \notin Range(Digits) \cup {"."} \cup Spaces
        THEN Panic
        ELSE Answer(Dec(IF signed /\ s[start] = "-" THEN -m ELSE m, Len(frac)))

\* __udivmoddi4: the bits of a from the highest, with a remainder of WordBits bits.
Bit(a, i) == (a \div 2^i) % 2
RECURSIVE LongDivision(_, _, _, _, _)
LongDivision(a, b, i, r, res) ==
    IF i < 0 THEN [q |-> res, r |-> r]
    ELSE LET s == ((2 * r) % 2^WordBits) + Bit(a, i)
         IN  IF s >= b THEN LongDivision(a, b, i - 1, s - b, res + 2^i)
             ELSE LongDivision(a, b, i - 1, s, res)
Udivmod(a, b) == IF b = 0 THEN [q |-> 0, r |-> 0] ELSE LongDivision(a, b, WordBits - 1, 0, 0)

\* Two's complement.
Unsigned(n) == n % 2^WordBits
AsSigned(n) == LET u == Unsigned(n) IN IF u >= 2^(WordBits - 1) THEN u - 2^WordBits ELSE u
Magnitude(n) == Unsigned(IF n < 0 THEN AsSigned(-n) ELSE n)
Divdi3(a, b) ==
    LET res == Udivmod(Magnitude(a), Magnitude(b)).q
    IN  IF (a < 0) # (b < 0) THEN AsSigned(-AsSigned(res)) ELSE AsSigned(res)
Moddi3(a, b) ==
    LET rem == Udivmod(Magnitude(a), Magnitude(b)).r
    IN  IF a < 0 THEN AsSigned(-AsSigned(rem)) ELSE AsSigned(rem)

-----------------------------------------------------------------------------
(* Files.  A value is what an any holds; a table is the sequence of its    *)
(* entries, in the order of their first insertion (module TableAbs).       *)

Of(kind, t, n) == [kind |-> kind, t |-> t, n |-> n]
StrVal(t) == Of("str", t, 0)
IntVal(n) == Of("i32", <<>>, n)
BoolVal(b) == Of("bool", IF b THEN <<"t", "r", "u", "e">> ELSE <<"f", "a", "l", "s", "e">>, 0)
FloatVal(t) == Of("f64", t, 0)      \* by its text
Entry(k, v) == [k |-> k, v |-> v]

MapInsert(map, k, v) ==
    IF \E i \in DOMAIN map : map[i].k = k
    THEN [i \in DOMAIN map |-> IF map[i].k = k THEN Entry(k, v) ELSE map[i]]
    ELSE Append(map, Entry(k, v))

\* is_str ? data : __moksha_any_to_string.
ValText(v) == IF v.kind = "i32" THEN Itoa(v.n) ELSE v.t

\* The scans of the readers: places in a text x from 1, the end at Len(x) + 1.
At(x, p) == IF p <= Len(x) THEN x[p] ELSE ""
Past(x, p, skipped) == CHOOSE q \in p .. Len(x) + 1 :
    At(x, q) \notin skipped /\ \A r \in p .. q - 1 : At(x, r) \in skipped
To(x, p, stops) == CHOOSE q \in p .. Len(x) + 1 :
    At(x, q) \in stops \cup {""} /\ \A r \in p .. q - 1 : At(x, r) \notin stops
Over(x, p, c) == IF At(x, p) = c THEN p + 1 ELSE p
Cut(x, p, q) == SubSeq(x, p, q - 1)

\* strtol and strtod: the longest number that tmp begins with, after spaces.
NumberIn(x) ==
    LET p == Past(x, 1, Spaces)
        d == IF At(x, p) \in {"-", "+"} THEN p + 1 ELSE p
        e == Past(x, d, Range(Digits))
        n == FoldLeft(LAMBDA m, v : m * 10 + v, 0, Valued(Cut(x, d, e)))
    IN  [found |-> e > d, n |-> IF At(x, p) = "-" THEN -n ELSE n]
FloatFound(x) ==
    LET p == Past(x, 1, Spaces)
        d == IF At(x, p) \in {"-", "+"} THEN p + 1 ELSE p
    IN  \/ At(x, d) \in Range(Digits)
        \/ At(x, d) = "." /\ At(x, d + 1) \in Range(Digits)

\* parse_and_box_literal; texts longer than its 127 characters are not used here.
Literal(x, isString) ==
    LET len == Max({0} \cup {i \in DOMAIN x : x[i] \notin {" ", "\r"}})
        tmp == SubSeq(x, 1, len)
    IN  IF isString THEN StrVal(x)
        ELSE IF Begins(tmp, BoolVal(TRUE).t, 0) THEN BoolVal(TRUE)
        ELSE IF Begins(tmp, BoolVal(FALSE).t, 0) THEN BoolVal(FALSE)
        ELSE IF Begins(tmp, <<"n", "u", "l", "l">>, 0) THEN StrVal(<<>>)
        ELSE IF "." \in Range(tmp) /\ FloatFound(tmp) THEN FloatVal(tmp)
        ELSE IF "." \notin Range(tmp) /\ NumberIn(tmp).found THEN IntVal(NumberIn(tmp).n)
        ELSE StrVal(tmp)

Quoted(t, needed) == IF needed THEN <<"\"">> \o t \o <<"\"">> ELSE t

WriteJson(map) ==
    <<"{", "\n">>
    \o FlattenSeq([i \in DOMAIN map |->
         <<" ", " ">> \o Quoted(map[i].k, TRUE) \o <<":", " ">>
         \o Quoted(ValText(map[i].v), map[i].v.kind = "str")
         \o (IF i < Len(map) THEN <<",", "\n">> ELSE <<"\n">>)])
    \o <<"}", "\n">>

\* One round of the loop of moksha_file_readJson from place p.
RECURSIVE JsonEntries(_, _, _)
JsonEntries(x, p, map) ==
    LET a == Past(x, p, {" ", "\n", "\r", ","})
        key == Over(x, a, "\"")
        keyEnd == To(x, key, {"\""})
        colon == To(x, Over(x, keyEnd, "\""), {":"})
        v == Past(x, Over(x, colon, ":"), {" ", "\n", "\r"})
        isString == At(x, v) = "\""
        val == Over(x, v, "\"")
        valEnd == To(x, val, IF isString THEN {"\""} ELSE {",", "}", " ", "\n", "\r"})
        next == IF isString THEN Over(x, valEnd, "\"") ELSE valEnd
    IN  IF At(x, p) \in {"", "}"} \/ At(x, a) = "}" THEN map
        ELSE JsonEntries(x, next,
                 MapInsert(map, Cut(x, key, keyEnd), Literal(Cut(x, val, valEnd), isString)))
ReadJson(x) == JsonEntries(x, Over(x, To(x, 1, {"{"}), "{"), <<>>)

WriteYaml(map) ==
    FlattenSeq([i \in DOMAIN map |-> map[i].k \o <<":", " ">> \o ValText(map[i].v) \o <<"\n">>])

RECURSIVE YamlEntries(_, _, _)
YamlEntries(x, p, map) ==
    LET key == Past(x, p, {" ", "\n", "\r"})
        keyEnd == To(x, key, {":"})
        val == Past(x, Over(x, keyEnd, ":"), {" "})
        valEnd == To(x, val, {"\n", "\r"})
        isString == valEnd - val >= 2 /\ At(x, val) = "\"" /\ At(x, valEnd - 1) = "\""
        v == IF isString THEN Cut(x, val + 1, valEnd - 1) ELSE Cut(x, val, valEnd)
    IN  IF At(x, key) = "" THEN map
        ELSE YamlEntries(x, valEnd, MapInsert(map, Cut(x, key, keyEnd), Literal(v, isString)))
ReadYaml(x) == YamlEntries(x, 1, <<>>)

CsvLine(cells) ==
    FlattenSeq([i \in DOMAIN cells |->
        Quoted(cells[i], "," \in Range(cells[i])) \o (IF i < Len(cells) THEN <<",">> ELSE <<>>)])
    \o <<"\n">>

\* moksha_file_writeCsv: the columns are the keys of the first row; a cell is found by
\* its place in the row.
WriteCsv(rows) ==
    LET keys == [i \in DOMAIN rows[1] |-> rows[1][i].k]
        cells(row) == [i \in DOMAIN keys |-> IF i <= Len(row) THEN ValText(row[i].v) ELSE <<>>]
    IN  CsvLine(keys) \o FlattenSeq([r \in DOMAIN rows |-> CsvLine(cells(rows[r]))])

\* A cell from place p: its text, whether it was quoted, and the place behind it.
CsvCell(x, p) ==
    LET quoted == At(x, p) = "\""
        from == Over(x, p, "\"")
        to == To(x, from, IF quoted THEN {"\""} ELSE {",", "\n", "\r"})
        next == Over(x, IF quoted THEN Over(x, to, "\"") ELSE to, ",")
    IN  [t |-> Cut(x, from, to), quoted |-> quoted, next |-> next]

LineEnds == {"", "\n", "\r"}
RECURSIVE CsvHeaders(_, _, _)
CsvHeaders(x, p, keys) ==   \* at most 256 in the code
    LET c == CsvCell(x, p)
    IN  IF At(x, p) \in LineEnds THEN [keys |-> keys, next |-> p]
        ELSE CsvHeaders(x, c.next, Append(keys, c.t))

RECURSIVE CsvRow(_, _, _, _, _)
CsvRow(x, p, keys, i, map) ==
    LET c == CsvCell(x, p)
    IN  IF i > Len(keys) \/ At(x, p) \in LineEnds THEN [row |-> map, next |-> p]
        ELSE CsvRow(x, c.next, keys, i + 1, MapInsert(map, keys[i], Literal(c.t, c.quoted)))

RECURSIVE CsvRows(_, _, _, _)
CsvRows(x, p, keys, rows) ==
    LET r == CsvRow(x, p, keys, 1, <<>>)
        end == To(x, r.next, {"\n", "\r"})
    IN  IF At(x, p) = "" THEN rows
        ELSE IF At(x, p) \in LineEnds THEN CsvRows(x, p + 1, keys, rows)
        ELSE CsvRows(x, Over(x, Over(x, end, "\r"), "\n"), keys, Append(rows, r.row))
ReadCsv(x) ==
    LET h == CsvHeaders(x, Past(x, 1, {" ", "\r", "\n"}), <<>>)
    IN  CsvRows(x, Over(x, Over(x, h.next, "\r"), "\n"), h.keys, <<>>)

\* moksha_file_readLine with its buffer, which grows before it is full.
RECURSIVE LineFrom(_, _, _, _)
LineFrom(x, p, buf, cap) ==
    LET grown == IF Len(buf) + 1 >= cap THEN 2 * cap ELSE cap
    IN  IF At(x, p) \in {"", "\n"}
        THEN [t |-> buf, next |-> Over(x, p, "\n"), fits |-> Len(buf) < cap]
        ELSE IF At(x, p) = "\r" THEN LineFrom(x, p + 1, buf, cap)
        ELSE LineFrom(x, p + 1, Append(buf, x[p]), grown)

\* moksha_file_readLines: until readLine has read nothing.
RECURSIVE LinesFrom(_, _, _)
LinesFrom(x, p, lines) ==
    LET l == LineFrom(x, p, <<>>, LineCap)
    IN  IF At(x, p) = "" THEN lines ELSE LinesFrom(x, l.next, Append(lines, [t |-> l.t, fits |-> l.fits]))

WriteLines(lines) == FlattenSeq([i \in DOMAIN lines |-> Append(lines[i], "\n")])

-----------------------------------------------------------------------------
(* Jobs *)

Files == {"text", "lines", "json", "yaml", "csv"}

\* The file is opened with O_CREAT and O_TRUNC; moksha_file_writeCsv returns before that
\* when there are no rows.
Written(j) ==
    CASE j.fn = "text" -> j.s
      [] j.fn = "lines" -> WriteLines(j.parts)
      [] j.fn = "json" -> WriteJson(j.rows[1])
      [] j.fn = "yaml" -> WriteYaml(j.rows[1])
      [] j.fn = "csv" -> IF j.rows = <<>> THEN disk ELSE WriteCsv(j.rows)

Reply(j) ==
    CASE j.fn = "substring" -> Answer(Substring(j.s, j.a.m, j.b.m))
      [] j.fn = "find" -> Answer([index |-> Index(j.s, j.t), contains |-> Holds(j.s, j.t),
                                  starts |-> StartsWith(j.s, j.t), ends |-> EndsWith(j.s, j.t)])
      [] j.fn = "case" -> Answer([upper |-> ToUpper(j.s), lower |-> ToLower(j.s)])
      [] j.fn = "trim" -> Answer(Trim(j.s))
      [] j.fn = "split" -> Answer(Split(j.s, j.t))
      [] j.fn = "replace" -> Answer(Replace(j.s, j.t, j.u))
      [] j.fn = "join" -> Answer(Split(Join(j.parts, j.t), j.t))
      [] j.fn = "pow" -> Answer(AsSigned(Powi(j.a.m, j.b.m)))
      [] j.fn = "scale" -> Answer(Scale(j.a, j.b.sc))
      [] j.fn = "add" -> Answer(DecAdd(j.a, j.b))
      [] j.fn = "sub" -> Answer(DecSub(j.a, j.b))
      [] j.fn = "mul" -> Answer(DecMul(j.a, j.b))
      [] j.fn = "div" -> DecDiv(j.a, j.b)
      [] j.fn = "mod" -> DecMod(j.a, j.b)
      [] j.fn = "cmp" -> Answer(DecCmp(j.a, j.b))
      [] j.fn = "print" -> ToDecimal(DecText(j.a))
      [] j.fn = "parse" -> ToDecimal(j.s)
      [] j.fn = "udiv" -> Answer(Udivmod(Unsigned(j.a.m), Unsigned(j.b.m)))
      [] j.fn = "idiv" -> Answer([q |-> Divdi3(j.a.m, j.b.m), r |-> Moddi3(j.a.m, j.b.m)])
      [] j.fn = "text" -> Answer(disk)
      [] j.fn = "lines" -> Answer(LinesFrom(disk, 1, <<>>))
      [] j.fn = "json" -> Answer(ReadJson(disk))
      [] j.fn = "yaml" -> Answer(ReadYaml(disk))
      [] j.fn = "csv" -> Answer(IF disk = NULL THEN <<>> ELSE ReadCsv(disk))

\* The file is there already, or it is not.
AskInit ==
    /\ job \in Jobs
    /\ disk \in (IF job.fn \in Files THEN {NULL, <<"a", "\n", "1", "\n">>} ELSE {NULL})
    /\ phase = "asked"
    /\ got = Answer(NULL)

Idle == job = NoJob /\ disk = NULL /\ phase = "answered" /\ got = Answer(NULL)

WriteFile ==
    /\ phase = "asked" /\ job.fn \in Files
    /\ disk' = Written(job)
    /\ phase' = "written"
    /\ UNCHANGED <<job, got>>

AppendText ==
    /\ phase = "written" /\ job.fn = "text"
    /\ disk' = disk \o job.t
    /\ phase' = "appended"
    /\ UNCHANGED <<job, got>>

Call ==
    /\ phase = (CASE job.fn = "text" -> "appended" [] job.fn \in Files -> "written" [] OTHER -> "asked")
    /\ got' = Reply(job)
    /\ phase' = "answered"
    /\ UNCHANGED <<job, disk>>

Answered == phase = "answered" /\ job # NoJob

AskNext == WriteFile \/ AppendText \/ Call

-----------------------------------------------------------------------------
(* What the calls are for *)

\* A piece ends where the delimiter first occurs behind its beginning.
Cuts(parts, d) ==
    \A i \in DOMAIN parts :
        IF i < Len(parts) THEN \A n \in 0 .. Len(parts[i]) - 1 : ~Begins(parts[i] \o d, d, n)
        ELSE \A n \in 0 .. Len(parts[i]) - Len(d) : ~Begins(parts[i], d, n)

\* Found where it is, and nowhere before.
Found(s, t, v) ==
    LET places == {i \in 0 .. Len(s) - Len(t) : SubSeq(s, i + 1, i + Len(t)) = t}
    IN  /\ v.contains <=> places # {}
        /\ v.index = IF places = {} THEN -1 ELSE Min(places)
        /\ v.starts <=> 0 \in places
        /\ v.ends <=> Len(s) - Len(t) \in places

\* Two decimals as fractions: m * 10^-sc.
Equal(v, m, sc) == v.m * 10^sc = m * 10^v.sc

\* Truncated at its scale: closer to zero than m / n, by less than one unit.
Truncated(v, m, n) ==
    /\ Abs(v.m) * Abs(n) <= Abs(m) * 10^v.sc
    /\ (Abs(v.m) + 1) * Abs(n) > Abs(m) * 10^v.sc
    /\ v.m # 0 => Sign(v.m) = Sign(m) * Sign(n)

\* What the formats, which escape nothing, can hold.
Like(t) ==   \* a text that a reader takes for a literal
    \/ \E w \in {BoolVal(TRUE).t, BoolVal(FALSE).t, <<"n", "u", "l", "l">>} : IsPrefix(w, t)
    \/ \E n \in 1 .. 3 : /\ n <= Len(t) /\ t[n] \in Range(Digits)
                         /\ \A i \in 1 .. n - 1 : t[i] \in {"-", "+", "."}
                         /\ n = 3 => t[1] # "." /\ t[2] = "."
                         /\ n = 2 => t[1] # "." \/ "." \in Range(t)
Bare(t) ==
    /\ ~Like(t)
    /\ t # <<>> => t[1] # " " /\ t[Len(t)] # " " /\ t[1] # "\""
OneLine(t) == Range(t) \cap {"\n", "\r"} = {}
InJson(t) == "\"" \notin Range(t)
InYaml(e) ==
    /\ ":" \notin Range(e.k) /\ OneLine(e.k) /\ (e.k # <<>> => e.k[1] # " ")
    /\ e.v.kind = "str" => OneLine(e.v.t) /\ Bare(e.v.t)
InCsv(row) ==
    /\ \A i \in DOMAIN row :
         /\ InJson(row[i].k) /\ OneLine(row[i].k)
         /\ row[i].v.kind = "str" =>
              InJson(row[i].v.t) /\ OneLine(row[i].v.t) /\ ("," \in Range(row[i].v.t) \/ Bare(row[i].v.t))
         /\ i = 1 => row[i].k # <<>> /\ row[i].k[1] # " "
         /\ i = Len(row) => row[i].k # <<>> /\ ValText(row[i].v) # <<>>
    /\ row # <<>>

\* What moksha_file_writeCsv gets wrong although a sheet of tables could hold it: the header
\* is taken from the first row (file.c 816 to 844) and cell i of a row is its entry at place
\* i, whatever its key (854), so a row with the keys in another order, or with another key,
\* comes back under the wrong names and a longer row comes back cut; and it returns before
\* it opens the file when there are no rows (809), so the rows of an earlier call stay.
Mislabelled(rows) ==
    \E row \in Range(rows) : \E i \in DOMAIN row :
        i > Len(rows[1]) \/ row[i].k # rows[1][i].k
LeavesOldFile(rows) == rows = <<>>

\* A text that is not there has no parts and is nowhere, and stays what it is.
RightOfNull(j, g) ==
    CASE j.fn = "find" -> g.v = [index |-> -1, contains |-> FALSE, starts |-> FALSE, ends |-> FALSE]
      [] j.fn = "case" -> g.v = [upper |-> NULL, lower |-> NULL]
      [] j.fn = "split" -> g.v = Sized(0, <<>>)
      [] j.fn = "replace" -> g.v.v = j.s
      [] OTHER -> g.v = NULL

Right(j, g) ==
    CASE j.fn = "substring" ->
           LET kept == {i \in 0 .. Len(j.s) - 1 : j.a.m <= i /\ i < j.b.m}
           IN  g.v = IF kept = {} THEN <<>> ELSE SubSeq(j.s, Min(kept) + 1, Max(kept) + 1)
      [] j.fn = "find" -> Found(j.s, j.t, g.v)
      [] j.fn = "case" -> /\ Len(g.v.upper) = Len(j.s) /\ ToUpper(g.v.lower) = g.v.upper
                          /\ ToLower(g.v.upper) = g.v.lower
                          /\ \A i \in DOMAIN j.s : j.s[i] \in {g.v.upper[i], g.v.lower[i]}
      [] j.fn = "trim" ->
           /\ g.v # <<>> => Head(g.v) \notin Spaces /\ Last(g.v) \notin Spaces
           /\ \E p \in 0 .. Len(j.s) : /\ Begins(j.s, g.v, p)
                \* what is cut off is blank
                /\ \A i \in DOMAIN j.s : i <= p \/ i > p + Len(g.v) => j.s[i] \in Spaces
      [] j.fn = "split" ->
           /\ g.v.size = Len(g.v.v)
           /\ Join(g.v.v, j.t) = j.s
           /\ j.t # <<>> => Cuts(g.v.v, j.t)
      [] j.fn = "replace" -> /\ g.v.size = Len(g.v.v)
                             /\ g.v.v = IF j.t = <<>> THEN j.s ELSE Join(Split(j.s, j.t).v, j.u)
      [] j.fn = "join" -> Cuts(j.parts, j.t) /\ j.parts # <<>> => g.v.v = j.parts
      [] j.fn = "pow" -> g.v = AsSigned(IF j.b.m = 0 THEN 1 ELSE j.a.m^j.b.m)
      [] j.fn = "scale" -> Truncated(g.v, j.a.m, 10^j.a.sc)
      [] j.fn = "add" -> Equal(g.v, j.a.m * 10^j.b.sc + j.b.m * 10^j.a.sc, j.a.sc + j.b.sc)
      [] j.fn = "sub" -> Equal(g.v, j.a.m * 10^j.b.sc - j.b.m * 10^j.a.sc, j.a.sc + j.b.sc)
      [] j.fn = "mul" -> Equal(g.v, j.a.m * j.b.m, j.a.sc + j.b.sc)
      [] j.fn = "div" -> /\ g.ok <=> j.b.m # 0
                         /\ g.ok => Truncated(g.v, j.a.m * 10^j.b.sc, j.b.m * 10^j.a.sc)
      [] j.fn = "mod" ->
           /\ g.ok <=> j.b.m # 0
           /\ g.ok => \* smaller than the divisor, of the sign of the dividend, and a multiple away
                LET m == g.v.m * 10^(j.a.sc + j.b.sc)
                    x == j.a.m * 10^(g.v.sc + j.b.sc)
                    y == j.b.m * 10^(g.v.sc + j.a.sc)
                IN  Abs(m) < Abs(y) /\ Sign(m) \in {0, Sign(x)} /\ (Abs(x - m) % Abs(y)) = 0
      [] j.fn = "cmp" -> g.v = Sign(j.a.m * 10^j.b.sc - j.b.m * 10^j.a.sc)
      [] j.fn = "print" -> g.ok /\ Equal(g.v, j.a.m, j.a.sc)
      [] j.fn = "parse" ->
           LET digits == {i \in DOMAIN j.s : j.s[i] \in Range(Digits)}
               points == {i \in DOMAIN j.s : j.s[i] = "."}
           IN  /\ g.ok <=> /\ digits # {} /\ Cardinality(points) <= 1
                           /\ \A i \in DOMAIN j.s : j.s[i] = "-" => i = 1
               /\ g.ok => /\ g.v.sc = Cardinality({i \in digits : \E p \in points : p < i})
                          /\ Abs(g.v.m) = MapThenSumSet(LAMBDA i :
                               Valued(<<j.s[i]>>)[1] * 10^Cardinality({k \in digits : k > i}), digits)
                          /\ g.v.m < 0 => j.s[1] = "-"
      [] j.fn = "udiv" ->
           LET a == Unsigned(j.a.m)  b == Unsigned(j.b.m)
           IN  b # 0 => g.v = [q |-> a \div b, r |-> a % b]
      [] j.fn = "idiv" -> j.b.m # 0 => g.v = [q |-> AsSigned(Quot(j.a.m, j.b.m)), r |-> Rem(j.a.m, j.b.m)]
      [] j.fn = "text" -> g.v = j.s \o j.t
      [] j.fn = "lines" -> (\A i \in DOMAIN j.parts : OneLine(j.parts[i]))
                           => g.v = [i \in DOMAIN j.parts |-> [t |-> j.parts[i], fits |-> TRUE]]
      [] j.fn = "json" -> (\A i \in DOMAIN j.rows[1] :
                             /\ InJson(j.rows[1][i].k)
                             /\ j.rows[1][i].v.kind = "str" => InJson(j.rows[1][i].v.t))
                          => g.v = j.rows[1]
      [] j.fn = "yaml" -> (\A i \in DOMAIN j.rows[1] : InYaml(j.rows[1][i])) => g.v = j.rows[1]
      [] j.fn = "csv" -> \/ LeavesOldFile(j.rows) \/ Mislabelled(j.rows)
                         \/ \E r \in DOMAIN j.rows : ~InCsv(j.rows[r])
                         \/ g.v = j.rows

\* An answer is what the call is for, apart from Mislabelled and LeavesOldFile.
AnswersRight == Answered =>
    IF NULL \in {job.s, job.t, job.u} THEN RightOfNull(job, got) ELSE Right(job, got)
=============================================================================
