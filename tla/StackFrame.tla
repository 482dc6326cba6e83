------------------------------ MODULE StackFrame ------------------------------
(****************************************************************************)
(* The registers of a MicroBlaze task that is not running, from the context *)
(* FreeRTOS left on its stack (microblaze_non_fpu_stacking and get_thread_  *)
(* registers), and the hexadecimal text they arrive in (gdb_packets.cpp).   *)
(* Characters and bytes are numbers.                                        *)
(****************************************************************************)
EXTENDS Integers, Sequences

(* fromhex: what is no digit counts as zero.                                *)
FromHex(ch) == IF ch \in 48..57 THEN ch - 48
               ELSE IF ch \in 97..102 THEN ch - 87
               ELSE IF ch \in 65..70 THEN ch - 55 ELSE 0
ToHex(n)    == IF n < 10 THEN 48 + n ELSE 87 + n

(* hex2bin: a digit without its pair is dropped.                            *)
Hex2Bin(text) ==
  [i \in 1..(Len(text) \div 2) |-> 16 * FromHex(text[2 * i - 1]) + FromHex(text[2 * i])]
Bin2Hex(bytes) ==
  [i \in 1..(2 * Len(bytes)) |->
     LET b == bytes[(i + 1) \div 2] IN ToHex(IF i % 2 = 1 THEN b \div 16 ELSE b % 16)]

(* Integers in memory are little endian; missing bytes of a word are zero.  *)
WordBytes == 4
ByteOf(word, j) == (word \div 256^j) % 256
Bytes(word)     == [j \in 1..WordBytes |-> ByteOf(word, j - 1)]
WordOf(bytes) ==
  LET byte(j) == IF j <= Len(bytes) THEN bytes[j] ELSE 0
  IN  byte(1) + 256 * byte(2) + 65536 * byte(3) + 16777216 * byte(4)

-----------------------------------------------------------------------------
(* microblaze_regnum and microblaze_non_fpu_registers.                      *)
R1 == 1
R14 == 14
PC == 32
MSR == 33
RegisterNums == 0..58
ContextSize  == 33 * WordBytes

Stacked == 2..MSR   \* the registers that have an offset
Offset(r) ==
  IF r = MSR THEN 32 * WordBytes
  ELSE IF r = PC THEN (32 - R14) * WordBytes
  ELSE (32 - r) * WordBytes

Overread(bin) == \E r \in Stacked : Offset(r) + WordBytes > Len(bin)

(* The reply to g, register by register; the empty value is printed "xx".   *)
MutRegisters(bin, sp) ==   \* mutant: the stack pointer is that of the frame
  [r \in RegisterNums |->
     IF r \in Stacked THEN SubSeq(bin, Offset(r) + 1, Offset(r) + WordBytes)
     ELSE IF r = R1 THEN Bytes(sp)
     ELSE IF r = 0 THEN Bytes(0)
     ELSE <<>>]

Registers(bin, sp) ==
  [r \in RegisterNums |->
     IF r \in Stacked THEN SubSeq(bin, Offset(r) + 1, Offset(r) + WordBytes)
     ELSE IF r = R1 THEN Bytes(sp + ContextSize)
     ELSE IF r = 0 THEN Bytes(0)
     ELSE <<>>]
=============================================================================
