------------------------------- MODULE Protocol -------------------------------
(***************************************************************************)
(* The two kinds of messages of the tunnel (src/src/common/protocol.cpp):  *)
(* data frames, four bytes of sessionId before the payload, and control    *)
(* messages, JSON objects which a small scanner reads.                     *)
(*                                                                         *)
(* A string is a sequence of signs: "quote", "back", "line" and "ctrl" are *)
(* those that jsonEscape spells differently, any other one stands for      *)
(* itself.  A text of a message is a sequence of tokens: the signs of      *)
(* punctuation, <<"str", s>> for a string, <<"num", n>> for a number and   *)
(* <<"word", w>> for true, false or null.                                  *)
(***************************************************************************)
EXTENDS Integers, Sequences, SequencesExt

(* -------------------------------- data frames -------------------------- *)

kDataHeaderLen == 4

CONSTANT Radix      \* how many values a byte has: 256, or fewer for TLC

ASSUME RadixAssumption == Radix \in Nat \ {0, 1}

\* putU32BE, the most significant byte first.
putU32BE(v) ==
  LET v8 == v \div Radix
      v16 == v8 \div Radix
      v24 == v16 \div Radix
  IN <<v24 % Radix, v16 % Radix, v8 % Radix, v % Radix>>

getU32BE(b) == ((b[1] * Radix + b[2]) * Radix + b[3]) * Radix + b[4]

encodeDataFrame(sessionId, payload) == putU32BE(sessionId) \o payload

NoFrame == [valid |-> FALSE, sessionId |-> 0, payload |-> <<>>]

\* decodeDataFrame: what is shorter than the header is no frame.
decodeDataFrame(buf) ==
  IF Len(buf) < kDataHeaderLen THEN NoFrame
  ELSE [valid |-> TRUE, sessionId |-> getU32BE(buf),
        payload |-> SubSeq(buf, kDataHeaderLen + 1, Len(buf))]

(* ---------------------------------- strings ---------------------------- *)

\* One sign as jsonEscape writes it; "ctrl" stands for the byte 1f.
Escaped(sign) ==
  CASE sign = "quote" -> <<"back", "quote">>
    [] sign = "back" -> <<"back", "back">>
    [] sign = "line" -> <<"back", "n">>
    [] sign = "ctrl" -> <<"back", "u", "0", "0", "1", "f">>
    [] OTHER -> <<sign>>

jsonEscape(s) == FoldLeft(LAMBDA out, sign : out \o Escaped(sign), <<>>, s)

\* What a sign after a backslash means to Scanner::string.
Unescaped(sign) == IF sign = "n" THEN "line" ELSE sign

NotClosed == [ok |-> FALSE, out |-> <<>>, next |-> 0]

\* Scanner::string after the opening quote, from position i on: what is read, and
\* the position after the closing quote.  Of the codes \uXXXX only 001f occurs here;
\* a backslash at the very end stands for itself.
ScanString(text) ==
  LET scan[i \in 1 .. Len(text) + 1] ==
        IF i > Len(text) THEN NotClosed
        ELSE LET Then(sign, j) ==
                   IF scan[j].ok
                   THEN [scan[j] EXCEPT !.out = <<sign>> \o @] ELSE NotClosed
             IN IF text[i] = "quote" THEN [ok |-> TRUE, out |-> <<>>, next |-> i + 1]
                ELSE IF text[i] # "back" \/ i = Len(text) THEN Then(text[i], i + 1)
                ELSE IF text[i + 1] # "u" THEN Then(Unescaped(text[i + 1]), i + 2)
                ELSE IF i + 5 <= Len(text) /\ SubSeq(text, i + 2, i + 5) = <<"0", "0", "1", "f">>
                     THEN Then("ctrl", i + 6) ELSE NotClosed
  IN scan[1]

(* ---------------------------------- objects ---------------------------- *)

Tok(sign) == <<sign>>
Str(s) == <<"str", s>>
IsStr(token) == token[1] = "str"
Opens == {Tok("{"), Tok("[")}
Closes == {Tok("}"), Tok("]")}
Skipped == <<"skipped">>        \* a value neither isString nor isNumber

At(text, i) == IF i <= Len(text) THEN text[i] ELSE Tok("end")

\* Scanner::skipValue: where the text goes on after the value that starts at from.
\* Brackets are counted but not told apart; at depth 0 a closing one is swallowed.
skipValue(text, from) ==
  LET skip[i \in from .. Len(text) + 1] == [depth \in Nat |->
        IF i > Len(text) THEN [ok |-> depth = 0, next |-> i]
        ELSE IF text[i] \in Closes /\ depth <= 1 THEN [ok |-> TRUE, next |-> i + 1]
        ELSE IF text[i] = Tok(",") /\ depth = 0 THEN [ok |-> TRUE, next |-> i]
        ELSE skip[i + 1][IF text[i] \in Opens THEN depth + 1
                         ELSE IF text[i] \in Closes THEN depth - 1 ELSE depth]]
  IN skip[from][0]

NoFields == [k \in {} |-> Skipped]
NotRead == [ok |-> FALSE, fields |-> NoFields]

\* Scanner::parseObject: of two entries with one key the later one counts, and what
\* follows the closing bracket is not looked at.
parseObject(text) ==
  LET entry[i \in 1 .. Len(text) + 1] ==
        LET atom == At(text, i + 2)[1] \in {"str", "num"}
            skipped == skipValue(text, i + 2)
            next == IF atom THEN i + 3 ELSE skipped.next
            key == At(text, i)[2]
            value == IF atom THEN text[i + 2] ELSE Skipped
            With(fields) == [k \in DOMAIN fields \cup {key} |->
                               IF k \in DOMAIN fields THEN fields[k] ELSE value]
        IN IF ~IsStr(At(text, i)) \/ At(text, i + 1) # Tok(":") THEN NotRead
           ELSE IF ~atom /\ ~skipped.ok THEN NotRead
           ELSE IF At(text, next) = Tok("}") THEN [ok |-> TRUE, fields |-> With(NoFields)]
           ELSE IF At(text, next) = Tok(",") /\ entry[next + 1].ok
                THEN [ok |-> TRUE, fields |-> With(entry[next + 1].fields)]
           ELSE NotRead
  IN IF At(text, 1) # Tok("{") THEN NotRead
     ELSE IF At(text, 2) = Tok("}") THEN [ok |-> TRUE, fields |-> NoFields]
     ELSE entry[2]

\* parseControlMessage: an object whose type is a string that is not empty.
parseControlMessage(text) ==
  LET object == parseObject(text)
  IN IF object.ok /\ "type" \in DOMAIN object.fields
        /\ IsStr(object.fields["type"]) /\ object.fields["type"] # Str("")
     THEN object ELSE NotRead
=============================================================================
