------------------------------ MODULE SsrfGuard ------------------------------
(***************************************************************************)
(* The guard of the server's targets (src/src/common/ssrf.cpp): which      *)
(* addresses are refused, in which spellings an address is recognised, and *)
(* what guardTarget lets through.                                          *)
(*                                                                         *)
(* A text is a record, split at the signs its parser splits it at:         *)
(*   form   "dots": numbers between dots,                                  *)
(*          "colons": groups between colons,                               *)
(*          "name": anything without the shape of an address, "empty"      *)
(*   quad   the numbers between the dots, of "colons" those of its last    *)
(*          group; <<>> when that has no dots                              *)
(*   head, tail   the groups before and after ::, or all groups in head    *)
(*   gaps   how often :: occurs                                            *)
(* A group is a pair <<digits, value>>: how many digits, and what they say.*)
(* A zone (% and what follows) is cut off before a text is split at colons *)
(* and keeps one with dots from being an address: that text is a name.     *)
(***************************************************************************)
EXTENDS Integers, Sequences

(* -------------------------------- the blocks --------------------------- *)

\* kIpv4Blocks: the first bytes (the others are 0) and the bits that count.
kIpv4Blocks ==
  { <<<<0, 0>>, 8>>, <<<<10, 0>>, 8>>, <<<<100, 64>>, 10>>, <<<<127, 0>>, 8>>,
    <<<<169, 254>>, 16>>, <<<<172, 16>>, 12>>, <<<<192, 168>>, 16>>,
    <<<<224, 0>>, 4>>, <<<<240, 0>>, 4>> }

Zeros(n) == [i \in 1 .. n |-> 0]

kIpv6Blocks ==
  { <<Zeros(16), 128>>, <<Zeros(15) \o <<1>>, 128>>,
    <<<<0, 100, 255, 155>> \o Zeros(12), 96>>, <<<<32, 2>> \o Zeros(14), 16>>,
    <<<<252>> \o Zeros(15), 7>>, <<<<254, 128>> \o Zeros(14), 10>> }

\* inBlock: whole bytes are compared, then the upper bits of the next one.
inBlock(actual, base, bits) ==
  LET fullBytes == bits \div 8
      restBits == bits % 8
      Upper(byte) == byte \div 2 ^ (8 - restBits)
  IN /\ \A i \in 1 .. fullBytes : actual[i] = base[i]
     /\ restBits > 0 => Upper(actual[fullBytes + 1]) = Upper(base[fullBytes + 1])

(* ------------------------------- the parsers --------------------------- *)

IsByteText(g) == g[1] \in 1 .. 3 /\ g[2] <= 255
IsGroup(g) == g[1] \in 1 .. 4

\* parseIpv4: four numbers of at most three digits and at most 255.
parseIpv4(quad) == Len(quad) = 4 /\ \A i \in 1 .. 4 : IsByteText(quad[i])

\* The last group with dots is written again as two groups.
Mixed(text) ==
  IF text.quad = <<>> THEN <<>>
  ELSE LET Pair(i) == <<4, text.quad[i][2] * 256 + text.quad[i + 1][2]>>
       IN <<Pair(1), Pair(3)>>

\* The groups after :: has been replaced by as many zeros as are missing.
Groups(text) ==
  LET tail == text.tail \o Mixed(text)
      total == Len(text.head) + Len(tail)
  IN IF text.gaps = 0 THEN text.head \o Mixed(text)
     ELSE text.head \o [i \in 1 .. 8 - total |-> <<1, 0>>] \o tail

\* What ipv6ToBytes accepts.
IsIpv6(text) ==
  /\ text.form = "colons"
  /\ text.quad # <<>> => parseIpv4(text.quad)
  /\ text.gaps <= 1
  /\ Len(Groups(text)) = 8
  /\ \A i \in 1 .. 8 : IsGroup(Groups(text)[i])

\* The sixteen bytes it then gives out.
ipv6ToBytes(text) ==
  [i \in 1 .. 16 |->
     LET value == Groups(text)[(i + 1) \div 2][2]
     IN IF i % 2 = 1 THEN value \div 256 ELSE value % 256]

isIpLiteral(text) == (text.form = "dots" /\ parseIpv4(text.quad)) \/ IsIpv6(text)

(* ------------------------------- the verdict --------------------------- *)

IsV4Mapped(bytes) == (\A i \in 1 .. 10 : bytes[i] = 0) /\ bytes[11] = 255 /\ bytes[12] = 255

BlockedV4(bytes) == \E block \in kIpv4Blocks : inBlock(bytes, block[1], block[2])

\* A mapped address has the verdict of the IPv4 address in its last four bytes.
BlockedV6(bytes) ==
  IF IsV4Mapped(bytes) THEN BlockedV4(SubSeq(bytes, 13, 16))
  ELSE \E block \in kIpv6Blocks : inBlock(bytes, block[1], block[2])

\* isBlockedIp: what is no address is refused.
isBlockedIp(text) ==
  IF text.form = "dots" /\ parseIpv4(text.quad) THEN BlockedV4([i \in 1 .. 4 |-> text.quad[i][2]])
  ELSE IF IsIpv6(text) THEN BlockedV6(ipv6ToBytes(text))
  ELSE TRUE

(* -------------------------------- the guard ---------------------------- *)

Refused == [ok |-> FALSE, addresses |-> <<>>]
Admitted(addresses) == [ok |-> TRUE, addresses |-> addresses]

(* mutant: one record outside the blocks is enough *)
guardTargetAny(host, records) ==
  IF host.form = "empty" THEN Refused
  ELSE IF isIpLiteral(host) THEN IF isBlockedIp(host) THEN Refused ELSE Admitted(<<host>>)
  ELSE IF \A i \in DOMAIN records : isBlockedIp(records[i]) THEN Refused
  ELSE Admitted(records)

\* guardTarget: records is what the lookup found, <<>> also when it throws.
guardTarget(host, records) ==
  IF host.form = "empty" THEN Refused
  ELSE IF isIpLiteral(host) THEN IF isBlockedIp(host) THEN Refused ELSE Admitted(<<host>>)
  ELSE IF records = <<>> \/ \E i \in DOMAIN records : isBlockedIp(records[i]) THEN Refused
  ELSE Admitted(records)
=============================================================================
