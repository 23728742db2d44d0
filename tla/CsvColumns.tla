----------------------------- MODULE CsvColumns -----------------------------
(***************************************************************************)
(* The columns of a line of a csv file: cutting at the separator outside   *)
(* quotes, trimming, unescaping, matching a header against the columns     *)
(* asked for, and converting a column to a number of a given width.        *)
(* Characters are their codes; a line is the characters before its NUL.    *)
(***************************************************************************)
EXTENDS Calls, SequencesExt

CONSTANTS
  CsvFields,     \* bound: the values that are written to columns and read back
  CsvLines,      \* bound: the lines parsed as they are
  CsvNames,      \* column names, for headers
  NumberText,    \* bound: the texts converted to numbers
  IntBits        \* width of the integer type converted to

SepC == 44      \* the comma: CSVReader's default separator
QuoteC == 34
TrimC == {32, 9}
IsDigit(c) == c \in 48..57
ErrorIs(why) == [error |-> why]
Failed(r) == "error" \in DOMAIN r

-----------------------------------------------------------------------------
(* Cutting a line into columns.                                            *)

\* trim_chars::trim.
TrimmedEnds(s) ==
  LET kept == {i \in DOMAIN s : s[i] \notin TrimC}
  IN  IF kept = {} THEN <<>>
      ELSE SubSeq(s, CHOOSE i \in kept : \A j \in kept : i <= j,
                     CHOOSE i \in kept : \A j \in kept : i >= j)

\* no_quote_escape::find_next_column_end, from position i on.
PlainEnd(line, i) ==
  CHOOSE e \in i..(Len(line) + 1) :
    /\ e = Len(line) + 1 \/ line[e] = SepC
    /\ \A j \in i..(e - 1) : line[j] # SepC

\* double_quote_escape::find_next_column_end: separators inside quotes do not
\* count, a doubled quote reopens the string, 0 when a quote is not closed.
QuotedEnd(line, i) ==
  LET end[j \in 1..(Len(line) + 1)] ==
        IF j > Len(line) \/ line[j] = SepC THEN j
        ELSE IF line[j] # QuoteC THEN end[j + 1]
        ELSE LET close == {k \in (j + 1)..Len(line) : line[k] = QuoteC}
             IN  IF close = {} THEN 0
                 ELSE end[1 + CHOOSE k \in close : \A m \in close : k <= m]
  IN  end[i]

\* double_quote_escape::unescape.
Unescaped(s) ==
  LET n == Len(s) - 2
      in == SubSeq(s, 2, Len(s) - 1)
      un[i \in 1..(n + 2)] ==
        IF i > n THEN <<>>
        ELSE IF in[i] = QuoteC /\ i < n /\ in[i + 1] = QuoteC
          THEN <<QuoteC>> \o un[i + 2]
          ELSE <<in[i]>> \o un[i + 1]
  IN  IF Len(s) >= 2 /\ Head(s) = QuoteC /\ Last(s) = QuoteC THEN un[1] ELSE s

LineOver(line, e) == e = Len(line) + 1

\* chop_next_column until the line is used up: the columns as they stand, or
\* an error.  parse_line stops as soon as it has seen a column too many, which
\* the caller cannot tell from stopping behind the last one.
Chopped(quoted, line) ==
  LET n == Len(line) + 1
      from[i \in 1..(n + 1)] ==
        LET e == IF quoted THEN QuotedEnd(line, i) ELSE PlainEnd(line, i) IN
        IF e = 0 THEN <<ErrorIs("escaped_string_not_closed")>>
        ELSE IF LineOver(line, e) THEN <<[text |-> SubSeq(line, i, e - 1)]>>
        ELSE <<[text |-> SubSeq(line, i, e - 1)]>> \o from[e + 1]
  IN  from[1]

Cell(quoted, text) ==
  IF quoted THEN Unescaped(TrimmedEnds(text)) ELSE TrimmedEnds(text)

\* parse_line: the k-th column of the line goes where col_order[k] says, -1
\* to nowhere; the result is the row of the columns asked for, <<-1>> where
\* the header had no such column.  A quote left open in a column that is
\* never reached is not found.
NoCell == <<-1>>
ParseLine(quoted, line, order, width) ==
  LET cols == Chopped(quoted, line)
      bad == {k \in DOMAIN cols : Failed(cols[k])}
  IN  IF \E k \in bad : k <= Len(order) THEN ErrorIs("escaped_string_not_closed")
      ELSE IF Len(cols) < Len(order) THEN ErrorIs("too_few_columns")
      ELSE IF Len(cols) > Len(order) THEN ErrorIs("too_many_columns")
      ELSE [row |-> [i \in 1..width |->
              IF \E k \in DOMAIN order : order[k] = i
                THEN Cell(quoted, cols[CHOOSE k \in DOMAIN order : order[k] = i].text)
                ELSE NoCell]]

-----------------------------------------------------------------------------
(* Headers.                                                                *)

\* The column a name stands for when a name may stand for two.
MatchAny(names, order, text) ==
  LET hit == {i \in DOMAIN names : names[i] = text}
  IN  IF hit = {} THEN -1 ELSE CHOOSE i \in hit : \A j \in hit : i <= j

\* The inner loop of parse_header_line: the first name that fits; 0 when that
\* column was found before.
MatchName(names, order, text) ==
  LET hit == {i \in DOMAIN names : names[i] = text}
      i == CHOOSE i \in hit : \A j \in hit : i <= j
  IN  IF hit = {} THEN -1 ELSE IF \E k \in DOMAIN order : order[k] = i THEN 0 ELSE i

\* parse_header_line: the order in which the columns asked for come in the
\* file, or the first complaint.
ParseHeader(quoted, line, names, extra_ok, missing_ok) ==
  LET step(acc, col) ==
        IF Failed(acc) THEN acc
        ELSE IF Failed(col) THEN col
        ELSE LET i == MatchName(names, acc.order, Cell(quoted, col.text)) IN
             CASE i = 0 -> ErrorIs("duplicated_column_in_header")
               [] i = -1 /\ ~extra_ok -> ErrorIs("extra_column_in_header")
               [] OTHER -> [order |-> Append(acc.order, i)]
      all == FoldLeft(step, [order |-> <<>>], Chopped(quoted, line))
  IN  IF ~Failed(all) /\ ~missing_ok /\
         \E i \in DOMAIN names : \A k \in DOMAIN all.order : all.order[k] # i
        THEN ErrorIs("missing_column_in_header")
        ELSE all

-----------------------------------------------------------------------------
(* Numbers.  C division truncates.                                         *)

Quot(a, b) == IF a >= 0 THEN a \div b ELSE -((-a) \div b)
MaxInt == 2^(IntBits - 1) - 1
MinInt == -(2^(IntBits - 1))
MaxUInt == 2^IntBits - 1

\* The overflow policies: what the number becomes.
OnOverflow(policy, x, limit) ==
  CASE policy = "throw" -> ErrorIs("integer_overflow")
    [] policy = "ignore" -> [value |-> x]
    [] policy = "set_to_max" -> [value |-> limit]

\* The test before 10*x+y.
AboveMax(x, y, max) == x > (max - y) \div 10
BelowMin(x, y) == x < Quot(MinInt + y, 10)

\* parse_unsigned_integer for a type whose largest value is max.
ParseUnsigned(policy, col, max) ==
  LET step(acc, c) ==
        IF acc.done THEN acc
        ELSE IF ~IsDigit(c) THEN [done |-> TRUE, out |-> ErrorIs("no_digit")]
        ELSE LET x == acc.out.value
                 y == c - 48
             IN  IF AboveMax(x, y, max)
                   THEN [done |-> TRUE, out |-> OnOverflow(policy, x, max)]
                   ELSE [done |-> FALSE, out |-> [value |-> 10 * x + y]]
  IN  FoldLeft(step, [done |-> FALSE, out |-> [value |-> 0]], col).out

\* parse_signed_integer.
ParseSigned(policy, col) ==
  LET step(acc, c) ==
        IF acc.done THEN acc
        ELSE IF ~IsDigit(c) THEN [done |-> TRUE, out |-> ErrorIs("no_digit")]
        ELSE LET x == acc.out.value
                 y == c - 48
             IN  IF BelowMin(x, y)
                   THEN [done |-> TRUE, out |-> OnOverflow(policy, x, MinInt)]
                   ELSE [done |-> FALSE, out |-> [value |-> 10 * x - y]]
  IN  CASE col # <<>> /\ Head(col) = 45 ->
             FoldLeft(step, [done |-> FALSE, out |-> [value |-> 0]], Tail(col)).out
        [] col # <<>> /\ Head(col) = 43 -> ParseUnsigned(policy, Tail(col), MaxInt)
        [] OTHER -> ParseUnsigned(policy, col, MaxInt)

\* The exponent loop of parse_float: the exponent of ten that x gains while
\* base is squared and multiplied in.  The loop leaves at e = 1 only.
ScaleBy(e) ==
  LET loop[k \in 1..MaxInt, base \in 1..MaxInt] ==
        IF k = 1 THEN base
        ELSE IF k % 2 = 0 THEN loop[k \div 2, 2 * base]
        ELSE base + loop[k - 1, base]
  IN  loop[e, 1]

\* parse_float: sign, digits, an optional fraction and an optional exponent.
\* The value is digits * 10^scale.  Behind an exponent nothing is checked but
\* that it is an integer, and one out of range is clipped; -e has no value for
\* the smallest int, and the loop does not end then.
RunOfDigits(col, i) ==
  CHOOSE e \in i..(Len(col) + 1) :
    /\ e = Len(col) + 1 \/ ~IsDigit(col[e])
    /\ \A j \in i..(e - 1) : IsDigit(col[j])
IsAt(col, i, chars) == i <= Len(col) /\ col[i] \in chars
ParseFloat(col) ==
  LET i == IF IsAt(col, 1, {43, 45}) THEN 2 ELSE 1
      j == RunOfDigits(col, i)
      k == IF IsAt(col, j, {44, 46}) THEN RunOfDigits(col, j + 1) ELSE j
      digits == SubSeq(col, i, j - 1) \o SubSeq(col, j + 1, k - 1)
      frac == IF k = j THEN 0 ELSE k - j - 1
      e == ParseSigned("set_to_max", SubSeq(col, k + 1, Len(col)))
      scaled(by) == [negative |-> IsAt(col, 1, {45}), digits |-> digits,
                     scale |-> by - frac]
  IN  IF k = Len(col) + 1 THEN scaled(0)
      ELSE IF ~IsAt(col, k, {69, 101}) THEN ErrorIs("no_digit")
      ELSE IF Failed(e) THEN e
      ELSE CASE e.value = 0 -> scaled(0)
             [] e.value = MinInt -> ErrorIs("diverges")
             [] e.value \in (MinInt + 1)..(-1) -> scaled(-ScaleBy(-e.value))
             [] e.value > 0 -> scaled(ScaleBy(e.value))

-----------------------------------------------------------------------------
(* The calls.                                                              *)

\* A row as a csv writer quotes it: every quote doubled, all between quotes.
Doubled(s) == FoldLeft(LAMBDA acc, c : acc \o IF c = QuoteC THEN <<c, c>> ELSE <<c>>, <<>>, s)
Joined(cells) ==
  FoldLeft(LAMBDA acc, c : acc \o <<SepC>> \o c, Head(cells), Tail(cells))
QuotedRow(fields) == Joined([k \in DOMAIN fields |-> <<QuoteC>> \o Doubled(fields[k]) \o <<QuoteC>>])

CallParseRow ==
  \E fields \in CsvFields :
    Call("parse_row", fields,
         ParseLine(TRUE, QuotedRow(fields), [k \in DOMAIN fields |-> k], Len(fields)))

CallParseLine ==
  \E line \in CsvLines, quoted \in BOOLEAN :
    Call("parse_line", [line |-> line, quoted |-> quoted], Chopped(quoted, line))

\* read_header, then a row whose k-th column holds k.
CallReadTable ==
  \E header \in UNION {[1..n -> CsvNames \cup {<<90>>}] : n \in 1..3},
     extra, missing \in BOOLEAN :
    LET names == SetToSeq(CsvNames)
        h == ParseHeader(FALSE, Joined(header), names, extra, missing)
        line == Joined([k \in DOMAIN header |-> <<48 + k>>])
    IN  Call("read_table", [header |-> header, names |-> names,
                            extra |-> extra, missing |-> missing],
             IF Failed(h) THEN h ELSE ParseLine(FALSE, line, h.order, Len(names)))

Policies == {"throw", "ignore", "set_to_max"}
CallParseInt ==
  \E col \in NumberText, policy \in Policies :
    \/ Call("parse_unsigned", [col |-> col, policy |-> policy],
            ParseUnsigned(policy, col, MaxUInt))
    \/ Call("parse_signed", [col |-> col, policy |-> policy], ParseSigned(policy, col))

CallParseFloat ==
  \E col \in {s \in NumberText : Len(s) = 2}, e \in NumberText :
    Call("parse_float", [mantissa |-> col, e |-> e], ParseFloat(col \o <<101>> \o e))

CsvColumnsNext ==
  /\ Fresh
  /\ CallParseRow \/ CallParseLine \/ CallReadTable \/ CallParseInt \/ CallParseFloat

-----------------------------------------------------------------------------
(* Properties.                                                             *)

\* What a csv writer quotes comes back as it was, whatever separators, quotes
\* and blanks the values hold (find_next_column_end with unescape).
QuotedRoundTrip == Of("parse_row", LAMBDA in, out : out = [row |-> in])

\* No character is lost or moved by cutting: the columns joined by separators
\* are the line, for either quoting, and an unquoted column has none inside.
ColumnsCoverLine ==
  Of("parse_line", LAMBDA in, out :
       \/ Failed(Last(out))
       \/ /\ Joined([k \in DOMAIN out |-> out[k].text]) = in.line
          /\ ~in.quoted => \A k \in DOMAIN out : SepC \notin ToSet(out[k].text))

\* Each column asked for by name gets the cell under its name, in whatever
\* order the file has them, and none when the file lacks it; a header with
\* the same name twice is refused (parse_header_line and parse_line agree).
CellUnderName ==
  Of("read_table", LAMBDA in, out :
       LET at(name) == {k \in DOMAIN in.header : in.header[k] = name}
           names == ToSet(in.names)
           dup == \E name \in names : \E j, k \in at(name) : j # k
           extra == \E k \in DOMAIN in.header : in.header[k] \notin names
           missing == \E name \in names : at(name) = {}
       IN  IF dup \/ (extra /\ ~in.extra) \/ (missing /\ ~in.missing)
             THEN Failed(out)
             ELSE \A i \in DOMAIN in.names :
                    out.row[i] = IF at(in.names[i]) = {} THEN NoCell
                                 ELSE <<48 + CHOOSE k \in at(in.names[i]) : TRUE>>)

\* A number is converted to its value when the type holds it, and handed to
\* the overflow policy when it does not: at the limits too (parse_*_integer).
NumeralValue(s) == FoldLeft(LAMBDA acc, c : 10 * acc + c - 48, 0, s)
Numeral(s) == \A i \in DOMAIN s : IsDigit(s[i])
IntegerValue ==
  \A op \in {"parse_unsigned", "parse_signed"} :
    Of(op, LAMBDA in, out :
         LET signed == op = "parse_signed" /\ in.col # <<>> /\ Head(in.col) \in {43, 45}
             text == IF signed THEN Tail(in.col) ELSE in.col
             v == IF signed /\ Head(in.col) = 45 THEN -NumeralValue(text)
                                                 ELSE NumeralValue(text)
             lo == IF op = "parse_signed" THEN MinInt ELSE 0
             hi == IF op = "parse_signed" THEN MaxInt ELSE MaxUInt
         IN  Numeral(text) =>
               IF v \in lo..hi THEN out = [value |-> v]
               ELSE CASE in.policy = "throw" -> Failed(out)
                      [] in.policy = "set_to_max" -> out.value = IF v < lo THEN lo ELSE hi
                      [] OTHER -> out.value \in lo..hi)

\* The exponent of a float is applied exactly, up to the limits of an int; the
\* smallest one is the only one whose loop does not end (parse_float).
FloatScale ==
  Of("parse_float", LAMBDA in, out :
       LET e == ParseSigned("ignore", in.e)
           clip == ParseSigned("set_to_max", in.e)
       IN  Numeral(in.mantissa) /\ ~Failed(e) =>
             IF clip.value = MinInt THEN out = ErrorIs("diverges")
             ELSE out.scale = clip.value /\ out.digits = in.mantissa)

\* csv.h: a line is cut into the cells that were written, each under its name, and numbers
\* are converted or refused at the edges of their type (the parts above).
CellsSound ==
  QuotedRoundTrip /\ ColumnsCoverLine /\ CellUnderName /\ IntegerValue /\ FloatScale
=============================================================================
