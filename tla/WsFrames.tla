------------------------------- MODULE WsFrames -------------------------------
(***************************************************************************)
(* The bytes of WebSocket frames (src/src/common/websocket.cpp): what      *)
(* sendFrame writes, what runReadLoop makes of it, and how sendBinary cuts *)
(* a message that is too long for one frame.  What becomes of whole frames *)
(* is the matter of the module WebSocket.                                  *)
(***************************************************************************)
EXTENDS Integers, Sequences, SequencesExt

CONSTANTS
  SendChunk,    \* kWsSendChunk: how many bytes a fragment may have
  MaxPayload    \* the largest payload a reader takes: 64 MiB in the code

ASSUME WsFramesAssumption == SendChunk \in Nat \ {0} /\ MaxPayload \in Nat

kOpContinuation == 0
kOpBinary == 2

Smaller(a, b) == IF a <= b THEN a ELSE b

\* Byte i of n, the lowest one being 0.
Byte(n, i) ==
  LET shifted[k \in 0 .. 7] == IF k = 0 THEN n ELSE shifted[k - 1] \div 256
  IN shifted[i] % 256
Number256(bytes) == FoldLeft(LAMBDA n, byte : n * 256 + byte, 0, bytes)

\* payload[i] ^ key[i % 4], bit by bit.
Xor(a, b) ==
  LET Bit(k) == ((a \div 2 ^ k + b \div 2 ^ k) % 2) * 2 ^ k
  IN Bit(0) + Bit(1) + Bit(2) + Bit(3) + Bit(4) + Bit(5) + Bit(6) + Bit(7)
Masked(payload, key) ==
  [i \in DOMAIN payload |-> Xor(payload[i], key[((i - 1) % 4) + 1])]

(* -------------------------------- writing ------------------------------ *)

(* mutant: 126 is written into the seven bits *)
LengthBytesClose(len) ==
  IF len <= 126 THEN <<len>>
  ELSE IF len <= 65535 THEN <<126, Byte(len, 1), Byte(len, 0)>>
  ELSE <<127>> \o [i \in 1 .. 8 |-> Byte(len, 8 - i)]

\* The length in seven bits, or 126 and two bytes, or 127 and eight bytes.
LengthBytes(len) ==
  IF len < 126 THEN <<len>>
  ELSE IF len <= 65535 THEN <<126, Byte(len, 1), Byte(len, 0)>>
  ELSE <<127>> \o [i \in 1 .. 8 |-> Byte(len, 8 - i)]

\* What sendFrame puts before a payload of len bytes; the client has a key, and for the
\* server key is <<>>.
FrameHead(opcode, len, fin, key) ==
  LET length == LengthBytes(len)
      mask == IF key = <<>> THEN 0 ELSE 128
  IN <<(IF fin THEN 128 ELSE 0) + opcode, mask + length[1]>> \o Tail(length) \o key

sendFrame(opcode, payload, fin, key) ==
  FrameHead(opcode, Len(payload), fin, key)
    \o IF key = <<>> THEN payload ELSE Masked(payload, key)

\* The frames sendBinary makes of len bytes: which opcode, how many bytes, fin.
sendBinary(len) ==
  IF len <= SendChunk THEN <<[op |-> kOpBinary, take |-> len, fin |-> TRUE]>>
  ELSE [n \in 1 .. (len + SendChunk - 1) \div SendChunk |->
          LET off == (n - 1) * SendChunk
          IN [op |-> IF n = 1 THEN kOpBinary ELSE kOpContinuation,
              take |-> Smaller(SendChunk, len - off), fin |-> off + SendChunk >= len]]

(* -------------------------------- reading ------------------------------ *)

TooShort == [kind |-> "short"]
TooLarge == [kind |-> "large"]

\* What runReadLoop reads of one frame: where its payload begins and what unmasks it,
\* or that bytes are missing, or that the payload is too large.
ReadHead(bytes) ==
  LET code == bytes[2] % 128
      extra == IF code = 126 THEN 2 ELSE IF code = 127 THEN 8 ELSE 0
      payloadLen == IF extra = 0 THEN code ELSE Number256(SubSeq(bytes, 3, 2 + extra))
      key == IF bytes[2] \div 128 = 0 THEN 0 ELSE 4
  IN IF Len(bytes) < 2 \/ Len(bytes) < 2 + extra THEN TooShort
     ELSE IF payloadLen > MaxPayload THEN TooLarge
     ELSE IF Len(bytes) < 2 + extra + key THEN TooShort
     ELSE [kind |-> "head", fin |-> bytes[1] \div 128 = 1, opcode |-> bytes[1] % 16,
           len |-> payloadLen, key |-> SubSeq(bytes, 3 + extra, 2 + extra + key),
           next |-> 3 + extra + key]

\* The payload of that frame, unmasked.
ReadPayload(bytes) ==
  LET head == ReadHead(bytes)
      raw == SubSeq(bytes, head.next, head.next + head.len - 1)
  IN IF head.key = <<>> THEN raw ELSE Masked(raw, head.key)
=============================================================================
