-------------------------------- MODULE Utf8 --------------------------------
(***************************************************************************)
(* The two checks of common_utf8.cpp for UTF-8, as operators on sequences  *)
(* of bytes that end before a NUL, and what Unicode calls well-formed.     *)
(***************************************************************************)
EXTENDS Integers, Sequences, SequencesExt

(* The bytes that the first byte of a character asks for in is_utf8_chars: *)
(* its leading ones, or one byte.                                          *)
Asked(b) ==
  IF b < 128 THEN 1 ELSE IF b < 224 THEN 2 ELSE IF b < 240 THEN 3
  ELSE IF b < 248 THEN 4 ELSE IF b < 252 THEN 5 ELSE 6

Continues(b) == b \in 128..191

(* The bits that are left of the first byte, then six of each other one.   *)
Codepoint(c) ==
  LET n == Len(c) IN
  IF n = 1 THEN c[1]
  ELSE FoldLeft(LAMBDA v, b : v * 64 + b - 128, c[1] % 2^(7 - n), Tail(c))

(* Mutant of Shortest: a character of three bytes may be an overlong one. *)
ShortestLoose(n) == IF n = 1 THEN 0 ELSE IF n = 2 THEN 128 ELSE 2^(5 * n - 5)

Shortest(n) == IF n = 1 THEN 0 ELSE IF n = 2 THEN 128 ELSE 2^(5 * n - 4)

(* One round of the loop of is_utf8_chars. *)
CharOk(c) ==
  /\ ~Continues(c[1]) /\ c[1] < 254
  /\ Len(c) = Asked(c[1]) /\ \A i \in 2..Len(c) : Continues(c[i])
  /\ LET v == Codepoint(c) IN
     v >= Shortest(Len(c)) /\ v < 1114112 /\ v # 65534 /\ v \notin 55296..57343

(* Where the next character ends; the end of the string is a NUL, which is *)
(* no continuation.                                                        *)
CharAt(s, p) ==
  SubSeq(s, p, IF p + Asked(s[p]) - 1 <= Len(s) THEN p + Asked(s[p]) - 1 ELSE Len(s))

is_utf8_chars(s) ==
  LET Loop[p \in 1..(Len(s) + 1)] ==
        p > Len(s) \/ (CharOk(CharAt(s, p)) /\ Loop[p + Len(CharAt(s, p))])
  IN  Loop[1]

(* One byte of is_utf8_str: the bytes still wanted, or -1 for ever. *)
Wanted(left, b) ==
  CASE left = -1 -> -1
    [] left = 0  -> IF b < 128 THEN 0
                    ELSE IF b \in 252..253 THEN 5
                    ELSE IF b >= 248 THEN 4
                    ELSE IF b >= 240 THEN 3
                    ELSE IF b >= 224 THEN 2
                    ELSE IF b >= 192 THEN 1 ELSE -1
    [] OTHER     -> IF Continues(b) THEN left - 1 ELSE -1

is_utf8_str(s) == FoldLeft(Wanted, 0, s) = 0

----------------------------------------------------------------------------
(* The Unicode Standard, table 3-7: the well-formed byte sequences. *)
WellFormedChar(c) ==
  \/ Len(c) = 1 /\ c[1] \in 0..127
  \/ Len(c) = 2 /\ c[1] \in 194..223 /\ c[2] \in 128..191
  \/ Len(c) = 3 /\ c[3] \in 128..191
       /\ \/ c[1] = 224 /\ c[2] \in 160..191
          \/ c[1] \in 225..236 /\ c[2] \in 128..191
          \/ c[1] = 237 /\ c[2] \in 128..159
          \/ c[1] \in 238..239 /\ c[2] \in 128..191
  \/ Len(c) = 4 /\ c[3] \in 128..191 /\ c[4] \in 128..191
       /\ \/ c[1] = 240 /\ c[2] \in 144..191
          \/ c[1] \in 241..243 /\ c[2] \in 128..191
          \/ c[1] = 244 /\ c[2] \in 128..143

WellFormed(s) ==
  LET Good[p \in 1..(Len(s) + 1)] ==
        p > Len(s) \/ \E n \in 1..4 :
          /\ p + n - 1 <= Len(s) /\ WellFormedChar(SubSeq(s, p, p + n - 1))
          /\ Good[p + n]
  IN  Good[1]

(* U+FFFE, which the code refuses, as it does not U+FFFF. *)
HasFFFE(s) ==
  \E p \in 1..(Len(s) - 2) : SubSeq(s, p, p + 2) = <<239, 191, 190>>
=============================================================================
