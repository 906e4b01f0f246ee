--------------------------- MODULE MCConversions ---------------------------
(***************************************************************************)
(* Conversions for TLC, and with them the JSON texts, whose reader and     *)
(* writer are recursive operators.                                         *)
(***************************************************************************)
EXTENDS Conversions

Json == INSTANCE JsonText

(* A message with a string and another value among nested members. *)
Key(c) == <<c>>
Message(s, e) ==
  <<"object", [k \in {Key("u"), Key("p")} |->
     IF k = Key("u") THEN <<"string", s>>
     ELSE <<"object", [j \in {Key("i"), Key("l")} |->
            IF j = Key("i") THEN e
            ELSE <<"array", << <<"string", s>>, <<"bool", TRUE>> >> >>]>>]>>

(* What is written is read back, nested and next to other members, quotes  *)
(* and line ends included.  It is not the same again exactly when a string *)
(* ends in a backslash or has one before a letter of an escape, a number   *)
(* is negative, or a value is null.                                        *)
JsonRoundTrip ==
  kind = "json" =>
    \A e \in {<<"int", 17>>, <<"int", -5>>, <<"bool", FALSE>>, <<"null", 0>>} :
      LET r == Json!read_from_string(Json!WriteValue(Message(input, e)))
          lossy == \/ input # <<>> /\ Last(input) = "\\"
                   \/ \E i \in 1..(Len(input) - 1) :
                        input[i] = "\\" /\ input[i + 1] = "n"
      IN  (r.ok /\ r.v = Message(input, e))
            <=> ~lossy /\ e \notin {<<"int", -5>>, <<"null", 0>>}

(* An array is written in its order up to ten elements, and no further. *)
ArrayOrder ==
  kind = "array" =>
    LET v == <<"array", [i \in DOMAIN input |-> <<"int", i>>]>>
        r == Json!read_from_string(Json!WriteValue(v))
    IN  (r.ok /\ r.v = v) <=> Len(input) <= 10

(* A JSON text is read back as what was written, within these limits. *)
JsonReadBack == JsonRoundTrip /\ ArrayOrder
=============================================================================
