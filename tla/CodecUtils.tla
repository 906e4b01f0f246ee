----------------------------- MODULE CodecUtils -----------------------------
(***************************************************************************)
(* The functions of codec_utils.cpp on byte streams, as operators, and the *)
(* definitions they are compared with.  Data is a sequence of bytes; as in *)
(* the code, positions count from 0 and the end is the length.             *)
(***************************************************************************)
EXTENDS Integers, Sequences, SequencesExt, FiniteSetsExt

At(d, p) == d[p + 1]
Smaller(a, b) == IF a < b THEN a ELSE b

IsCode(d, p) == At(d, p) = 0 /\ At(d, p + 1) = 0 /\ At(d, p + 2) = 1

(* The first position of a set that holds a start code, or the end. *)
FirstCode(d, S) ==
  LET hits == {p \in S : IsCode(d, p)} IN
  IF hits = {} THEN Len(d) ELSE Min(hits)

(* Mutant of FindInWord: a start code that straddles two words is missed. *)
FindInWordShort(d, p) == FirstCode(d, p..(p + 1))

(* One round of the fast loop: a word without a zero byte is skipped, else *)
(* the start codes that begin in it are looked for.                        *)
FindInWord(d, p) ==
  IF \A k \in p..(p + 3) : At(d, k) # 0 THEN Len(d)
  ELSE IF At(d, p + 1) = 0 /\ FirstCode(d, p..(p + 1)) # Len(d)
  THEN FirstCode(d, p..(p + 1))
  ELSE IF At(d, p + 3) = 0 THEN FirstCode(d, (p + 2)..(p + 3))
  ELSE Len(d)

(* AVCFindStartCodeInternal from position s, at an address that is s plus  *)
(* base: byte by byte up to the next word (a whole one when the address is *)
(* aligned), word by word, and byte by byte to the end.                    *)
AVCFindStartCodeInternal(d, s, base) ==
  LET end   == Len(d)
      a     == s + 4 - ((base + s) % 4)
      mid   == Max({s, Smaller(a, end - 3)})
      first == FirstCode(d, s..(mid - 1))
      words == {p \in mid..(end - 7) : (p - mid) % 4 = 0}
      found == {p \in words : FindInWord(d, p) # end}
      rest  == IF words = {} THEN mid ELSE Max(words) + 4
  IN  IF first # end THEN first
      ELSE IF found # {} THEN FindInWord(d, Min(found))
      ELSE FirstCode(d, rest..(end - 4))

(* A zero byte before a start code belongs to it. *)
avc_find_start_code(d, s, base) ==
  LET pos == AVCFindStartCodeInternal(d, s, base) IN
  IF s < pos /\ pos < Len(d) /\ At(d, pos - 1) = 0 THEN pos - 1 ELSE pos

(* The position behind the zero bytes and the one byte that follows them;  *)
(* a start code has that byte, and behind none the end is reached.         *)
SkipCode(d, p) ==
  Min({k \in p..(Len(d) - 1) : At(d, k) # 0 \/ k = Len(d) - 1}) + 1

(* The loop of send_data, and of the functions that look at every unit:    *)
(* where units begin, and where the next start code is.                    *)
Units(d, base) ==
  LET Walk[p \in 0..Len(d)] ==
        IF p = Len(d) THEN <<>>
        ELSE LET s == SkipCode(d, p)
                 n == avc_find_start_code(d, s, base)
             IN  <<<<s, n>>>> \o Walk[n]
  IN  Walk[avc_find_start_code(d, 0, base)]

(* RTPH264PacketBuilder::send_data keeps the units that are not empty. *)
Kept(d, units) ==
  LET kept == SelectSeq(units, LAMBDA u : u[2] > u[1]) IN
  [i \in DOMAIN kept |-> SubSeq(d, kept[i][1] + 1, kept[i][2])]

send_data(d, base) == Kept(d, Units(d, base))

Types(d, base) ==
  LET us == Units(d, base) IN [i \in DOMAIN us |-> At(d, us[i][1]) % 32]

count_frames(d, base) == Len(Units(d, base))

count_avc_key_frames(d, base) ==
  FoldLeft(LAMBDA count, t : IF t = 5 THEN count + 1 ELSE count, 0, Types(d, base))

(* The first unit that is a slice decides. *)
avc_find_key_frame(d, base) ==
  LET types == Types(d, base) IN
  \E i \in DOMAIN types :
    types[i] = 5 /\ \A j \in 1..(i - 1) : types[j] \notin {1, 5}

avc_find_sps_pps_idr(d, base) == Range(Types(d, base)) \cap {5, 7, 8} # {}

----------------------------------------------------------------------------
(* What H.264 Annex B says of the same stream: a unit lies between a start *)
(* code and the next one or the end, and the zero bytes before those       *)
(* (trailing_zero_8bits, and the first byte of a long start code) are      *)
(* outside it.  A start code with no byte behind it begins no unit.        *)
Codes(d) == {p \in 0..(Len(d) - 4) : IsCode(d, p)}

UnitEnd(d, p) ==
  LET later == {q \in (p + 1)..(Len(d) - 3) : IsCode(d, q)}
      next == Min(later \cup {Len(d)})
  IN  Min({e \in (p + 3)..next : \A k \in e..(next - 1) : At(d, k) = 0})

(* From left to right, a unit behind each start code, with its end. *)
Spans(d, end) ==
  LET From[p \in 0..Len(d)] ==
        IF p = Len(d) THEN <<>>
        ELSE (IF p \in Codes(d) THEN <<<<p + 3, end[p]>>>> ELSE <<>>) \o From[p + 1]
  IN  From[0]

AnnexBUnits(d) == Kept(d, Spans(d, [p \in Codes(d) |-> UnitEnd(d, p)]))

(* avc_find_start_code takes one zero byte to a start code and none to the *)
(* end, and finds no start code in the last three bytes: what a unit has   *)
(* behind it besides goes out as part of it.                               *)
SentEnd(d, p) ==
  LET later == {q \in Codes(d) : q > p} IN
  IF later = {} THEN Len(d)
  ELSE LET q == Min(later) IN
       IF q - 1 >= p + 3 /\ At(d, q - 1) = 0 THEN q - 1 ELSE q

SentSpans(d) == Spans(d, [p \in Codes(d) |-> SentEnd(d, p)])

(* A stream with nothing of the kind: start codes of three or four bytes,  *)
(* and a unit's last byte at the end.                                      *)
Tidy(d) ==
  /\ \A i \in 1..(Len(d) - 4) : SubSeq(d, i, i + 4) # <<0, 0, 0, 0, 1>>
  /\ Len(d) >= 3 => At(d, Len(d) - 1) # 0 /\ ~IsCode(d, Len(d) - 3)

CodeTypes(d) ==
  LET spans == SentSpans(d) IN
  [i \in DOMAIN spans |-> At(d, spans[i][1]) % 32]

----------------------------------------------------------------------------
(* Bits of a byte, as a shift and a mask take them. *)
Field(byte, mask, shift) ==
  LET On(x, k) == (x \div 2^k) % 2
      Bit(k) == On(byte, k) * On(mask, k) * 2^k
  IN
  FoldSet(LAMBDA k, s : s + Bit(k), 0, 0..7) \div 2^shift

(* Mutant of FrameLength: the upper bits are taken from the wrong place. *)
FrameLengthShifted(d) ==
  Field(d[4], 3, 0) * 2^10 + d[5] * 2^3 + Field(d[6], 224, 5)

FrameLength(d) ==
  Field(d[4], 3, 0) * 2^11 + d[5] * 2^3 + Field(d[6], 224, 5)

IsAdts(d) == Len(d) >= 7 /\ d[1] = 255 /\ Field(d[2], 240, 0) = 240

(* parse_adts_header: the fields in the order of the struct. *)
parse_adts_header(d) ==
  << Field(d[2], 8, 3), Field(d[2], 6, 1), Field(d[2], 1, 0),
     Field(d[3], 192, 6), Field(d[3], 60, 2), Field(d[3], 2, 1),
     Field(d[3], 1, 0) * 4 + Field(d[4], 192, 6),
     Field(d[4], 32, 5), Field(d[4], 16, 4), Field(d[4], 8, 3),
     Field(d[4], 4, 2), FrameLength(d),
     Field(d[6], 31, 0) * 2^6 + Field(d[7], 252, 2), Field(d[7], 3, 0) >>

(* ISO/IEC 13818-7: the widths of the fields behind the twelve sync bits. *)
AdtsWidths == <<1, 2, 1, 2, 4, 1, 3, 1, 1, 1, 1, 13, 11, 2>>

Bits(d) == FlattenSeq([i \in DOMAIN d |-> [k \in 1..8 |-> (d[i] \div 2^(8 - k)) % 2]])

Value(bits) == FoldLeft(LAMBDA v, b : 2 * v + b, 0, bits)

AdtsFields(d) ==
  LET Start(i) == 13 + FoldLeft(LAMBDA a, b : a + b, 0,
                                SubSeq(AdtsWidths, 1, i - 1))
  IN  [i \in DOMAIN AdtsWidths |->
         Value(SubSeq(Bits(d), Start(i), Start(i) + AdtsWidths[i] - 1))]

(* The loop of count_aac_frames over headers at positions: head[p] is the  *)
(* frame length a header at p gives, or -1.  The result is the count, or   *)
(* -1 when the loop does not end.                                          *)
count_aac_frames(head) ==
  LET size == Len(head)
      Loop[p \in 0..(2 * size + 1)] ==
        IF p + 7 > size \/ At(head, p) = -1 THEN 0
        ELSE IF At(head, p) = 0 THEN -1
        ELSE LET n == Loop[Smaller(p + At(head, p), 2 * size + 1)] IN
             IF n = -1 THEN -1 ELSE n + 1
  IN  Loop[0]

----------------------------------------------------------------------------
(* Ue from position p of a sequence of bits: the value and the position    *)
(* behind it; u(n) bits are Value(SubSeq(bits, p + 1, p + n)).             *)
Ue(bits, p) ==
  LET z == Min({k \in p..Len(bits) : k = Len(bits) \/ At(bits, k) = 1}) - p
      low == Value(SubSeq(bits, p + z + 2, p + 2 * z + 1))
  IN  <<2^z - 1 + low, p + 2 * z + 1>>

Se(bits, p) ==
  LET v == Ue(bits, p)[1] IN IF v % 2 = 0 THEN -(v \div 2) ELSE (v + 1) \div 2

(* H.264 9.1: the code of a number, and which number stands for which      *)
(* signed one.                                                             *)
CodeOf(v) ==
  LET z == Max({k \in 0..8 : 2^k <= v + 1}) IN
  [i \in 1..z |-> 0] \o [i \in 1..(z + 1) |-> ((v + 1) \div 2^(z + 1 - i)) % 2]

SignedCode(x) == CodeOf(IF x > 0 THEN 2 * x - 1 ELSE -2 * x)

(* de_emulation_prevention: the buffer is shifted over a byte that is      *)
(* removed and the scan goes on behind where it stood, to the old end.     *)
(* That is size - 2 in unsigned arithmetic: below two bytes it wraps, and  *)
(* the scan runs out of the buffer.                                        *)
Overrun == <<-1>>

de_emulation_prevention(d) ==
  LET n == Len(d)
      Step(b, i) ==
        IF SubSeq(b.buf, i, i + 2) = <<0, 0, 3>>
        THEN [buf |-> SubSeq(b.buf, 1, i + 1) \o SubSeq(b.buf, i + 3, n)
                        \o <<b.buf[n]>>,
              size |-> b.size - 1]
        ELSE b
      end == FoldLeft(Step, [buf |-> d, size |-> n],
                      [i \in 1..(n - 2) |-> i])
  IN  IF n < 2 THEN Overrun ELSE SubSeq(end.buf, 1, end.size)

(* H.264 7.4.1: a byte up to 3 after two zero bytes is preceded by a 3. *)
Emulated(d) ==
  LET Step(r, x) ==
        LET e == IF r.zeros = 2 /\ x <= 3 THEN <<3>> ELSE <<>> IN
        [out |-> r.out \o e \o <<x>>,
         zeros |-> IF x # 0 THEN 0 ELSE IF e = <<>> THEN r.zeros + 1 ELSE 1]
  IN  FoldLeft(Step, [out |-> <<>>, zeros |-> 0], d).out
=============================================================================
