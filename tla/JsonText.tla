------------------------------ MODULE JsonText ------------------------------
(***************************************************************************)
(* JsonObject's text form: write_to_string and read_from_string with the   *)
(* functions they are made of, as operators on sequences of characters.    *)
(*                                                                         *)
(* A value is a pair of a type and what it holds: a string a sequence of   *)
(* characters, an object a function from such sequences, an array a        *)
(* sequence of values.  Numbers are the integers up to 99; doubles, which  *)
(* no message of the program has, are left out.                            *)
(***************************************************************************)
EXTENDS Integers, Sequences, SequencesExt, FiniteSetsExt

Undefined == <<"undefined", 0>>

Digit == <<"0", "1", "2", "3", "4", "5", "6", "7", "8", "9">>

Decimal(n) == IF n < 10 THEN <<Digit[n + 1]>>
              ELSE <<Digit[(n \div 10) + 1], Digit[(n % 10) + 1]>>

(* string_replace looks for the next occurrence behind what it put in. *)
string_replace(s, search, replacement) ==
  LET k == Len(search)
      From[i \in 1..(Len(s) + k + 1)] ==
        IF i > Len(s) THEN <<>>
        ELSE IF i + k - 1 <= Len(s) /\ SubSeq(s, i, i + k - 1) = search
        THEN replacement \o From[i + k]
        ELSE <<s[i]>> \o From[i + 1]
  IN  From[1]

(* What escape_string replaces, behind a backslash, after the backslash    *)
(* itself; \b, \f, \r and \t are treated like \n.                          *)
Escapes == << <<"/", "/">>, <<"\"", "\"">>, <<"\n", "n">> >>

escape_string(s) ==
  FoldLeft(LAMBDA r, e : string_replace(r, <<e[1]>>, <<"\\", e[2]>>),
           string_replace(s, <<"\\">>, <<"\\", "\\">>), Escapes)

(* unescape_string undoes the backslash last. *)
unescape_string(s) ==
  string_replace(
    FoldLeft(LAMBDA r, e : string_replace(r, <<"\\", e[2]>>, <<e[1]>>),
             s, Escapes),
    <<"\\", "\\">>, <<"\\">>)

----------------------------------------------------------------------------
(* The elements of an array are the members "0", "1", ... of a map, which  *)
(* keeps the order of strings.                                             *)
DigitsLess(i, j) ==
  LET Head1(n) == IF n < 10 THEN n ELSE n \div 10 IN
  \/ Head1(i) < Head1(j)
  \/ Head1(i) = Head1(j) /\ i < j

MapOrder(n) ==
  LET order == SortSeq([i \in 1..n |-> i - 1], DigitsLess) IN
  [i \in 1..n |-> order[i] + 1]

Joined(texts) ==
  FlattenSeq([i \in DOMAIN texts |->
                IF i = 1 THEN texts[i] ELSE <<",">> \o texts[i]])

(* write_to_string; keys are written as they are.  The text is <<"fail">>  *)
(* when a value is undefined.                                              *)
RECURSIVE WriteValue(_)
WriteValue(v) ==
  CASE v[1] = "string" -> <<"\"">> \o escape_string(v[2]) \o <<"\"">>
    [] v[1] = "int"    -> IF v[2] < 0 THEN <<"-">> \o Decimal(-v[2])
                          ELSE Decimal(v[2])
    [] v[1] = "bool"   -> IF v[2] THEN <<"t", "r", "u", "e">>
                          ELSE <<"f", "a", "l", "s", "e">>
    [] v[1] = "null"   -> <<"n", "u", "l", "l">>
    [] v[1] = "array"  ->
         <<"[">> \o Joined([i \in 1..Len(v[2]) |->
                              WriteValue(v[2][MapOrder(Len(v[2]))[i]])])
           \o <<"]">>
    [] v[1] = "object" ->
         LET keys == SetToSeq(DOMAIN v[2]) IN
         <<"{">> \o Joined([i \in DOMAIN keys |->
                              <<"\"">> \o keys[i] \o <<"\"", ":">>
                                \o WriteValue(v[2][keys[i]])])
           \o <<"}">>

----------------------------------------------------------------------------
(* Reading: a result and the position behind it, or no result.             *)
Fail == [ok |-> FALSE, v |-> Undefined, pos |-> 0]
Read(v, pos) == [ok |-> TRUE, v |-> v, pos |-> pos]

CharAt(s, p) == IF p <= Len(s) THEN s[p] ELSE "end"

read_whitespace(s, p) ==
  Min({q \in p..(Len(s) + 1) : CharAt(s, q) \notin {" ", "\n"}})

(* The delimiter and the position behind the blanks that follow it. *)
read_delimiter(s, p) ==
  LET q == read_whitespace(s, p) IN
  IF q > Len(s) THEN Fail ELSE Read(s[q], read_whitespace(s, q + 1))

(* Mutant of read_string: an escaped quote ends the string. *)
read_string_plain(s, p) ==
  LET ends == {q \in (p + 1)..Len(s) : s[q] = "\""} IN
  IF ends = {} THEN Fail
  ELSE Read(<<"string", unescape_string(SubSeq(s, p + 1, Min(ends) - 1))>>,
            Min(ends) + 1)

(* The string ends at the first quote that does not follow a backslash. *)
read_string(s, p) ==
  LET ends == {q \in (p + 1)..Len(s) : s[q] = "\"" /\ s[q - 1] # "\\"} IN
  IF ends = {} THEN Fail
  ELSE Read(<<"string", unescape_string(SubSeq(s, p + 1, Min(ends) - 1))>>,
            Min(ends) + 1)

(* The digits from p on: read_number takes no sign. *)
read_number(s, p) ==
  LET q == Min({k \in p..(Len(s) + 1) : CharAt(s, k) \notin Range(Digit)})
      ValueOf(c) == CHOOSE n \in 0..9 : Digit[n + 1] = c
  IN  IF q = p THEN Fail
      ELSE Read(<<"int", FoldLeft(LAMBDA n, c : 10 * n + ValueOf(c), 0,
                                  SubSeq(s, p, q - 1))>>, q)

read_word(s, p, word, v) ==
  IF SubSeq(s, p, Min({p + Len(word) - 1, Len(s)})) = word
  THEN Read(v, p + Len(word)) ELSE Fail

(* read_json_key_value, read_object and read_array; read_null leaves the   *)
(* value undefined.                                                        *)
RECURSIVE ReadValue(_, _), ReadMembers(_, _, _), ReadElements(_, _, _)
ReadValue(s, start) ==
  LET p == read_whitespace(s, start)
      c == CharAt(s, p)
  IN  CASE start > Len(s) -> Fail
        [] c = "\"" -> IF p = Len(s) THEN Fail ELSE read_string(s, p)
        [] c \in Range(Digit) \union {"-"} -> read_number(s, p)
        [] c = "{" -> IF p = Len(s) THEN Fail ELSE ReadMembers(s, p + 1, <<>>)
        [] c = "[" -> IF p = Len(s) THEN Fail ELSE ReadElements(s, p + 1, <<>>)
        [] c = "t" -> read_word(s, p, <<"t", "r", "u", "e">>, <<"bool", TRUE>>)
        [] c = "f" -> read_word(s, p, <<"f", "a", "l", "s", "e">>,
                                <<"bool", FALSE>>)
        [] c = "n" -> read_word(s, p, <<"n", "u", "l", "l">>, Undefined)
        [] OTHER   -> Fail
ReadMembers(s, p, members) ==
  LET key   == ReadValue(s, p)
      colon == read_delimiter(s, key.pos)
      value == ReadValue(s, colon.pos)
      more  == read_delimiter(s, value.pos)
      all   == [k \in DOMAIN members \union {key.v[2]} |->
                  IF k = key.v[2] THEN value.v ELSE members[k]]
  IN  CASE CharAt(s, p) = "}" -> Read(<<"object", members>>, p + 1)
        [] ~key.ok \/ key.v[1] # "string" -> Fail
        [] ~colon.ok \/ colon.v # ":" \/ ~value.ok \/ ~more.ok -> Fail
        [] more.v = "}" -> Read(<<"object", all>>, more.pos)
        [] more.v = "," -> ReadMembers(s, more.pos, all)
        [] OTHER        -> Fail
ReadElements(s, p, elements) ==
  LET value == ReadValue(s, p)
      more  == read_delimiter(s, value.pos)
  IN  CASE CharAt(s, p) = "]" -> Read(<<"array", elements>>, p + 1)
        [] ~value.ok \/ ~more.ok -> Fail
        [] more.v = "]" -> Read(<<"array", Append(elements, value.v)>>, more.pos)
        [] more.v = "," -> ReadElements(s, more.pos, Append(elements, value.v))
        [] OTHER        -> Fail

(* read_from_string takes an object or an array. *)
read_from_string(s) ==
  IF CharAt(s, read_whitespace(s, 1)) \in {"{", "["} THEN ReadValue(s, 1) ELSE Fail
=============================================================================
