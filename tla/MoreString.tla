----------------------------- MODULE MoreString -----------------------------
(***************************************************************************)
(* server/more_string.c: splitting, joining, encoding and parsing of       *)
(* strings.  A string is the sequence of its bytes; a word that the code   *)
(* compares as a whole, such as a method or the name of a header, is one   *)
(* number from 256 up, and stands for letters.                             *)
(***************************************************************************)
EXTENDS Integers, SequencesExt

NUL == 0
LF == 10
CR == 13
SP == 32
Quote == 34
Hash == 35
Percent == 37
Amp == 38
Plus == 43
Minus == 45
Colon == 58
Semicolon == 59
Less == 60
Equal == 61
Greater == 62
Query == 63

Digit == 48..57
Upper == 65..90
Lower == 97..122
IsAlnum(c) == c \in Digit \cup Upper \cup Lower \/ c >= 256

\* strchr, and a C string as the code sees it: up to the first NUL.
strchr(s, c) == LET at == {i \in DOMAIN s : s[i] = c} IN IF at = {} THEN 0 ELSE Min(at)
Before(s, i) == SubSeq(s, 1, i - 1)
After(s, i) == SubSeq(s, i + 1, Len(s))
CString(s) == IF strchr(s, NUL) = 0 THEN s ELSE Before(s, strchr(s, NUL))

starts_with(starts, s) == IsPrefix(starts, s)

append_strings(strs) == FlattenSeq(strs)

to_string(v) ==
    LET digits[n \in 0..v] ==
            IF n < 10 THEN <<48 + n>> ELSE Append(digits[n \div 10], 48 + (n % 10))
    IN  digits[v]

\* The number that the digits at the head of s write.
Number(s) ==
    LET others == {i \in DOMAIN s : s[i] \notin Digit}
        digits == IF others = {} THEN s ELSE Before(s, Min(others))
        value[i \in 0..Len(digits)] == IF i = 0 THEN 0 ELSE 10 * value[i - 1] + (digits[i] - 48)
    IN  value[Len(digits)]

\* atoi: white space, a sign, digits.
IsSpace(c) == c \in {9, 10, 11, 12, 13, 32}
atoi(s) ==
    LET start == Min({i \in DOMAIN s : ~IsSpace(s[i])} \cup {Len(s) + 1})
        text == SubSeq(s, start, Len(s))
    IN  IF IsPrefix(<<Minus>>, text) THEN -Number(Tail(text))
        ELSE IF IsPrefix(<<Plus>>, text) THEN Number(Tail(text))
        ELSE Number(text)

\* The pieces of str that bytes of seps end; what follows the last of them is
\* a piece too, unless it is empty.
Pieces(str, seps) ==
    LET end(k) == Min({i \in k..Len(str) : str[i] \in seps} \cup {Len(str) + 1})
        from[k \in 1..Len(str) + 2] ==
            IF k > Len(str) THEN <<>> ELSE <<SubSeq(str, k, end(k) - 1)>> \o from[end(k) + 1]
    IN  from[1]

\* Not the code: an empty piece at the end is kept, as if sep were no terminator.
split_stringKeepsLast(str, sep) == Pieces(Append(str, sep), {sep})

split_string(str, sep) == Pieces(str, {sep})
join_strings(strs, sep) == FlattenSeq([i \in DOMAIN strs |-> Append(strs[i], sep)])

\* Not the code: sep is taken for a terminator although more follows.
split_roomTerminated(str, sep) == Max({1, Cardinality({i \in DOMAIN str : str[i] = sep})})

\* The number of pieces split_string makes room for before it makes them.
split_room(str, sep) ==
    1 + Cardinality({i \in DOMAIN str : str[i] = sep})
      - (IF str # <<>> /\ Last(str) = sep THEN 1 ELSE 0)

(***************************************************************************)
(* Lines of HTTP.  parse_three gives three parts or nothing at all.        *)
(***************************************************************************)
parse_three(buf, extra_space_ok) ==
    LET s1 == strchr(buf, SP)
        s2 == s1 + strchr(After(buf, s1), SP)
        text == SubSeq(buf, 1, Len(buf) - 2)
    IN  IF /\ Len(buf) >= 2 /\ buf[Len(buf) - 1] = CR /\ buf[Len(buf)] = LF
           /\ s1 # 0 /\ s2 # s1
           /\ extra_space_ok \/ strchr(After(buf, s2), SP) = 0
        THEN <<Before(text, s1), SubSeq(text, s1 + 1, s2 - 1), After(text, s2)>>
        ELSE <<>>

parse_request_line(buf) == parse_three(buf, FALSE)

Trim(s) ==
    LET text == {i \in DOMAIN s : ~IsSpace(s[i])}
    IN  IF text = {} THEN <<>> ELSE SubSeq(s, Min(text), Max(text))

\* dictionary_set: the last value counts.
Set(d, name, value) ==
    [n \in DOMAIN d \cup {CString(name)} |-> IF n = CString(name) THEN CString(value) ELSE d[n]]
Get(d, name) == IF name \in DOMAIN d THEN d[name] ELSE <<>>

\* A line without colon adds nothing.
parse_header_line(buf, d) ==
    LET colon == strchr(buf, Colon)
    IN  IF colon = 0 THEN d ELSE Set(d, Before(buf, colon), Trim(After(buf, colon)))

(***************************************************************************)
(* Encodings.                                                              *)
(***************************************************************************)
ishexdigit(v) == v \in Digit \cup 65..70 \cup 97..102
hex_value(v) ==
    IF v \in Digit THEN v - 48 ELSE IF v \in 65..70 THEN v - 65 + 10 ELSE v - 97 + 10
hex_digit(v) == IF v < 10 THEN 48 + v ELSE 97 + (v - 10)

Escape(data, i) ==
    /\ data[i] = Percent /\ i + 2 <= Len(data)
    /\ ishexdigit(data[i + 1]) /\ ishexdigit(data[i + 2])

Decoded(data, i) ==
    IF Escape(data, i) THEN hex_value(data[i + 1]) * 16 + hex_value(data[i + 2])
    ELSE IF data[i] = Plus THEN SP ELSE data[i]

\* Not the code: the digits of an escape are looked at again.
query_decodeRescans(data) == [i \in DOMAIN data |-> Decoded(data, i)]

\* from[i] is what data decodes to from i on: i skips the digits of an escape.
query_decode(data) ==
    LET from[i \in 1..Len(data) + 1] ==
            IF i > Len(data) THEN <<>>
            ELSE <<Decoded(data, i)>> \o from[i + IF Escape(data, i) THEN 3 ELSE 1]
    IN  from[1]

query_encode(data) ==
    FlattenSeq([i \in DOMAIN data |->
        IF IsAlnum(data[i]) THEN <<data[i]>>
        ELSE <<Percent, hex_digit(data[i] \div 16), hex_digit(data[i] % 16)>>])

\* Not the code: the ampersand is left alone.
EntityNoAmp(c) ==
    CASE c = Less    -> <<Amp, 108, 116, Semicolon>>
      [] c = Greater -> <<Amp, 103, 116, Semicolon>>
      [] c = Quote   -> <<Amp, 113, 117, 111, 116, Semicolon>>
      [] OTHER       -> <<c>>

Entity(c) ==
    CASE c = Less    -> <<Amp, 108, 116, Semicolon>>
      [] c = Greater -> <<Amp, 103, 116, Semicolon>>
      [] c = Amp     -> <<Amp, 97, 109, 112, Semicolon>>
      [] c = Quote   -> <<Amp, 113, 117, 111, 116, Semicolon>>
      [] OTHER       -> <<c>>

entity_encode(data) == FlattenSeq([i \in DOMAIN data |-> Entity(data[i])])

(***************************************************************************)
(* Queries: fields that & or ; end, up to a #, each cut at its first =.    *)
(***************************************************************************)
\* Not the code: cut at the last =.
FieldLast(piece) ==
    LET eqs == {i \in DOMAIN piece : piece[i] = Equal}
    IN  IF eqs = {} THEN <<piece, <<>>>> ELSE <<Before(piece, Max(eqs)), After(piece, Max(eqs))>>

Field(piece) ==
    LET eq == strchr(piece, Equal)
    IN  IF eq = 0 THEN <<piece, <<>>>> ELSE <<Before(piece, eq), After(piece, eq)>>

parse_query(buf, d) ==
    LET end == strchr(CString(buf), Hash)
        text == IF end = 0 THEN CString(buf) ELSE Before(buf, end)
        pieces == Pieces(text, {Amp, Semicolon})
        dict[i \in 0..Len(pieces)] ==
            IF i = 0 THEN d
            ELSE LET field == Field(pieces[i])
                 IN  Set(dict[i - 1], query_decode(field[1]), query_decode(field[2]))
    IN  dict[Len(pieces)]

parse_uriquery(buf, d) ==
    LET q == strchr(buf, Query) IN IF q = 0 THEN d ELSE parse_query(After(buf, q), d)
=============================================================================
