------------------------------ MODULE GdbPacket ------------------------------
(****************************************************************************)
(* class gdb_packet (gdb-packet.cpp): the incremental parser of a packet of *)
(* the remote serial protocol, and finalize, which completes one the proxy  *)
(* composes itself.  Bytes are their codes, m_csum is eight bits wide.      *)
(****************************************************************************)
EXTENDS Naturals, SequencesExt

Break  == 3
Blank  == 32
Hash   == 35
Dollar == 36
Star   == 42
Plus   == 43
Minus  == 45
Byte   == 0..255

CsumRange == 256   \* uint8_t m_csum

States == {"invalid", "data", "run_length_coding", "crc", "complete"}
Packet == [data : Seq(Byte), state : States, csum : 0..(CsumRange - 1)]

Made(data, state, csum) == [data |-> data, state |-> state, csum |-> csum]
Fresh == Made(<<>>, "invalid", 0)

Starts == {Dollar, Plus, Minus, Break}

(* Only the first byte can be refused: then the packet stays invalid.       *)
Begun(p, ch) ==
  IF ch \notin Starts THEN p
  ELSE Made(<<ch>>, IF ch = Dollar THEN "data" ELSE "complete", p.csum)

Summed(p, ch) == (p.csum + ch) % CsumRange

MutInData(p, ch) ==   \* mutant: the '*' of a run is not summed
  IF ch = Hash THEN Made(Append(p.data, ch), "crc", p.csum)
  ELSE IF ch = Star THEN Made(p.data, "run_length_coding", p.csum)
  ELSE Made(Append(p.data, ch), "data", Summed(p, ch))

InData(p, ch) ==
  IF ch = Hash THEN Made(Append(p.data, ch), "crc", p.csum)
  ELSE IF ch = Star THEN Made(p.data, "run_length_coding", Summed(p, ch))
  ELSE Made(Append(p.data, ch), "data", Summed(p, ch))

MutInRun(p, ch) ==   \* mutant: the character repeated counts once more
  Made(p.data \o [i \in 1..(ch - Blank + 4) |-> Last(p.data)], "data", Summed(p, ch))

(* The count of a run: '*' and the count give way to the repetitions.       *)
InRun(p, ch) ==
  Made(p.data \o [i \in 1..(ch - Blank + 3) |-> Last(p.data)], "data", Summed(p, ch))

(* The second digit is recognised by the '#' two places before it.          *)
InCrc(p, ch) ==
  LET digits == Append(p.data, ch)
  IN  Made(digits, IF digits[Len(digits) - 2] = Hash THEN "complete" ELSE p.state,
           p.csum)

(* One byte of the loop of parse.  A complete packet takes no more.         *)
Fed(p, ch) ==
  CASE p.state = "invalid"           -> Begun(p, ch)
    [] p.state = "data"              -> InData(p, ch)
    [] p.state = "run_length_coding" -> InRun(p, ch)
    [] p.state = "crc"               -> InCrc(p, ch)
    [] p.state = "complete"          -> p

HexDigit(n) == IF n < 10 THEN 48 + n ELSE 87 + n
Nibble(ch)  == IF ch < 58 THEN ch - 48 ELSE ch - 87
Digits(sum) == <<Hash, HexDigit(sum \div 16), HexDigit(sum % 16)>>

MutFinalized(p) ==   \* mutant: the nibbles of the sum are swapped
  IF p.state # "data" THEN p
  ELSE LET sum == Digits(16 * (p.csum % 16) + p.csum \div 16)
       IN  Fed(Fed(Fed(p, sum[1]), sum[2]), sum[3])

Finalized(p) ==
  IF p.state # "data" THEN p
  ELSE LET sum == Digits(p.csum)
       IN  Fed(Fed(Fed(p, sum[1]), sum[2]), sum[3])

(* data(): without the '$' and without "#cc"; data_crc().                   *)
Payload(p) == SubSeq(p.data, 2, Len(p.data) - 3)
DataCrc(p) == LET n == Len(p.data)
              IN  16 * Nibble(p.data[n - 1]) + Nibble(p.data[n])
=============================================================================
