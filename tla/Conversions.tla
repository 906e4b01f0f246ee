---------------------------- MODULE Conversions ----------------------------
(***************************************************************************)
(* The conversions of the program on every input up to a length: an input  *)
(* of some kind grows symbol by symbol, and every prefix is converted and  *)
(* compared with its reference.                                            *)
(***************************************************************************)
EXTENDS CodecUtils, Utf8

CONSTANTS
  AvcLen,   \* bytes of a video stream that vary
  NalLen,   \* bytes of a unit
  AacLen,   \* frames of an audio stream
  Utf8Len,  \* bytes of a text
  JsonLen,  \* characters of a string
  MaxArray  \* elements of an array

ASSUME LengthAssumption ==
  {AvcLen, NalLen, AacLen, Utf8Len, JsonLen, MaxArray} \subseteq Nat

VARIABLES kind, input

vars == <<kind, input>>

(* Symbols of an input: bytes of start codes and slices; bytes an encoder  *)
(* has to protect; the payload of an ADTS header; frame lengths; bits;     *)
(* bytes at the limits of the UTF-8 ranges; characters of a JSON string.   *)
Alphabet ==
  [avc    |-> {0, 1, 5, 7},
   nal    |-> {0, 1, 3},
   adts   |-> {0, 90, 165, 255},
   aac    |-> {0, 7, 9},
   number |-> {0, 1},
   utf8   |-> {65, 128, 143, 144, 159, 160, 190, 191, 193, 194, 224, 237,
               239, 240, 244, 248, 254},
   json   |-> {"a", "n", "\\", "\"", "/", "\n"},
   array  |-> {0}]

Limit ==
  [avc |-> AvcLen, nal |-> NalLen, adts |-> 6, aac |-> AacLen, number |-> 5,
   utf8 |-> Utf8Len, json |-> JsonLen, array |-> MaxArray]

Init == kind \in DOMAIN Alphabet /\ input = <<>>

Grow ==
  /\ Len(input) < Limit[kind]
  /\ \E x \in Alphabet[kind] : input' = Append(input, x)
  /\ UNCHANGED kind

Done == Len(input) = Limit[kind] /\ UNCHANGED vars

Next == Grow \/ Done

Spec == Init /\ [][Next]_vars

----------------------------------------------------------------------------
(* The input at any alignment, alone or deep enough inside other bytes for *)
(* the word-wise search to meet it.                                        *)
Streams ==
  {[base |-> b, data |-> [i \in 1..f |-> 5] \o input \o [i \in 1..t |-> 5]] :
     b \in 0..3, f \in {0, 4, 7}, t \in {0, 3}}

(* send_data finds the units of the byte stream, whatever the alignment of *)
(* the buffer and wherever a start code falls in the words of the search:  *)
(* of a tidy stream those of Annex B, of any other the same ones with the  *)
(* bytes that avc_find_start_code leaves behind them.                      *)
SplitExact ==
  kind = "avc" =>
    \A s \in Streams :
      /\ Tidy(s.data) => send_data(s.data, s.base) = AnnexBUnits(s.data)
      /\ send_data(s.data, s.base) = Kept(s.data, SentSpans(s.data))

(* The functions that look for or count frames see each unit once. *)
ScansExact ==
  kind = "avc" =>
    \A s \in Streams :
      LET types == CodeTypes(s.data)
          slices == {i \in DOMAIN types : types[i] \in {1, 5}}
      IN  /\ count_frames(s.data, s.base) = Len(types)
          /\ count_avc_key_frames(s.data, s.base) =
               Cardinality({i \in DOMAIN types : types[i] = 5})
          /\ avc_find_key_frame(s.data, s.base) <=>
               slices # {} /\ types[Min(slices)] = 5
          /\ avc_find_sps_pps_idr(s.data, s.base) <=>
               \E i \in DOMAIN types : types[i] \in {5, 7, 8}

(* parse_adts_header takes every field from its place in the header. *)
AdtsParsed ==
  kind = "adts" /\ Len(input) = 6 =>
    LET d == <<255, 240 + (input[1] % 16)>> \o Tail(input) IN
    IsAdts(d) /\ parse_adts_header(d) = AdtsFields(d)

(* count_aac_frames counts the frames of a stream, and never returns when  *)
(* a header says that its frame is empty.                                  *)
AacCounted ==
  kind = "aac" =>
    LET Frame(n) == [i \in 1..(IF n < 7 THEN 7 ELSE n) |-> IF i = 1 THEN n ELSE -1]
        stream == FlattenSeq([i \in DOMAIN input |-> Frame(input[i])])
    IN  count_aac_frames(stream) = IF 0 \in Range(input) THEN -1 ELSE Len(input)

(* Ue and Se read the number that was coded, and stop behind its code. *)
GolombInverse ==
  kind = "number" =>
    LET v == Value(input)
        Framed(code) == <<1>> \o code \o <<1, 0>>
    IN  /\ Ue(Framed(CodeOf(v)), 1) = <<v, 1 + Len(CodeOf(v))>>
        /\ \A x \in {v, -v} : Se(Framed(SignedCode(x)), 1) = x

(* de_emulation_prevention gives back the unit that was protected, except  *)
(* where 0 3 follows a byte it removes (the scan goes on inside the bytes  *)
(* it has just joined and takes that 3 for another one to remove), and     *)
(* except for a unit of less than two bytes, which it runs out of.         *)
EmulationRemoved ==
  kind = "nal" =>
    LET p == Emulated(input)
        r == de_emulation_prevention(p)
    IN  /\ r = input <=>
             /\ Len(p) >= 2
             /\ \A i \in 1..(Len(p) - 4) : SubSeq(p, i, i + 4) # <<0, 0, 3, 0, 3>>
        /\ r = Overrun <=> Len(p) < 2

(* A stream of units is taken apart as the sender put it together, by the  *)
(* packet builder and by the functions that look for frames.               *)
UnitsFound == SplitExact /\ ScansExact

(* The headers of both streams are read as they were coded: the fields,    *)
(* the numbers, and the bytes of a parameter set behind its protection,    *)
(* with the exceptions that each part names.                               *)
HeadersParsed == AdtsParsed /\ AacCounted /\ GolombInverse /\ EmulationRemoved

(* is_utf8_chars accepts what Unicode calls well-formed, U+FFFE excepted,  *)
(* and is_utf8_str accepts at least that.                                  *)
Utf8Accepted ==
  kind = "utf8" =>
    /\ is_utf8_chars(input)
         <=> WellFormed(input) /\ ~HasFFFE(input)
    /\ WellFormed(input) => is_utf8_str(input)
=============================================================================
