------------------------- MODULE FreeRtosTargetProofs -------------------------
(****************************************************************************)
(* Theorems about what the client of target_mb_freertos is told, for any    *)
(* number of tasks, symbols, lookups and halts, whichever reads fail.       *)
(****************************************************************************)
EXTENDS FreeRtosTarget, ThreadUpdateProofs, SequenceTheorems

-----------------------------------------------------------------------------
(* Registers: the hexadecimal text gives back the bytes it was made from.   *)

LEMMA DigitValue == \A n \in 0..15 : FromHex(ToHex(n)) = n
  BY DEF FromHex, ToHex

LEMMA DigitRange == \A ch : FromHex(ch) \in 0..15
  <1> SUFFICES ASSUME NEW ch PROVE FromHex(ch) \in 0..15  OBVIOUS
  <1>1. CASE ch \in 48..57  BY <1>1 DEF FromHex
  <1>2. CASE ch \in 97..102  BY <1>2 DEF FromHex
  <1>3. CASE ch \in 65..70  BY <1>3 DEF FromHex
  <1>4. CASE ch \notin 48..57 /\ ch \notin 97..102 /\ ch \notin 65..70
    BY <1>4 DEF FromHex
  <1> QED  BY <1>1, <1>2, <1>3, <1>4

LEMMA Halves ==
  \A i \in Nat : i > 0 =>
    /\ ((2 * i - 1) + 1) \div 2 = i /\ (2 * i + 1) \div 2 = i
    /\ (2 * i - 1) % 2 = 1 /\ (2 * i) % 2 = 0 /\ (2 * i) \div 2 = i
  OBVIOUS

LEMMA Nibbles ==
  \A b \in Nat : b < 256 =>
    /\ b \div 16 \in 0..15 /\ b % 16 \in 0..15
    /\ 16 * (b \div 16) + (b % 16) = b
  OBVIOUS

LEMMA HexRoundTrip ==
  ASSUME NEW bytes \in Seq(0..255)
  PROVE  Hex2Bin(Bin2Hex(bytes)) = bytes
  <1> DEFINE n    == Len(bytes)
             text == Bin2Hex(bytes)
  <1>1. n \in Nat /\ bytes \in [1..n -> 0..255]
    BY LenProperties
  <1>2. /\ text = [i \in 1..(2 * n) |->
                     LET b == bytes[(i + 1) \div 2]
                     IN  ToHex(IF i % 2 = 1 THEN b \div 16 ELSE b % 16)]
        /\ Len(text) = 2 * n
    BY <1>1 DEF Bin2Hex
  <1>3. Len(text) \div 2 = n
    <2> HIDE DEF n, text
    <2>1. CASE n = 0  BY <1>2, <2>1
    <2>2. CASE n # 0  BY <1>1, <1>2, <2>2, Halves
    <2> QED  BY <2>1, <2>2
  <1>4. ASSUME NEW i \in 1..n
        PROVE  16 * FromHex(text[2 * i - 1]) + FromHex(text[2 * i]) = bytes[i]
    <2> DEFINE b == bytes[i]
    <2>1. /\ 2 * i - 1 \in 1..(2 * n) /\ 2 * i \in 1..(2 * n)
          /\ ((2 * i - 1) + 1) \div 2 = i /\ (2 * i + 1) \div 2 = i
          /\ (2 * i - 1) % 2 = 1 /\ (2 * i) % 2 # 1
      <3> HIDE DEF n
      <3>1. i \in Nat /\ i > 0 /\ i <= n  BY <1>1
      <3> QED  BY <1>1, <3>1, Halves
    <2>2. text[2 * i - 1] = ToHex(b \div 16) /\ text[2 * i] = ToHex(b % 16)
      <3>1. \A j \in 1..(2 * n) :
              text[j] = ToHex(IF j % 2 = 1 THEN bytes[(j + 1) \div 2] \div 16
                              ELSE bytes[(j + 1) \div 2] % 16)
        BY <1>2
      <3> HIDE DEF text, n
      <3> QED  BY <2>1, <3>1
    <2>3. b \in 0..255  BY <1>1
    <2> HIDE DEF b, text
    <2>4. /\ b \div 16 \in 0..15 /\ b % 16 \in 0..15
          /\ 16 * (b \div 16) + (b % 16) = b
      <3>1. b \in Nat /\ b < 256  BY <2>3
      <3> QED  BY <3>1, Nibbles
    <2>5. FromHex(ToHex(b \div 16)) = b \div 16 /\ FromHex(ToHex(b % 16)) = b % 16
      BY <2>4, DigitValue
    <2>6. FromHex(text[2 * i - 1]) = b \div 16 /\ FromHex(text[2 * i]) = b % 16
      BY <2>2, <2>5
    <2>7. 16 * FromHex(text[2 * i - 1]) + FromHex(text[2 * i]) = b
      BY <2>4, <2>6
    <2> QED  BY <2>7 DEF b
  <1>5. Hex2Bin(text) = [i \in 1..n |-> bytes[i]]
    <2> HIDE DEF text, n
    <2> QED  BY <1>3, <1>4 DEF Hex2Bin
  <1> QED  BY <1>1, <1>5

LEMMA WordOfText ==
  ASSUME NEW text, Len(text) \in Nat
  PROVE  WordOf(Hex2Bin(text)) \in Nat
  <1> DEFINE bin == Hex2Bin(text)
             n   == Len(text) \div 2
  <1>1. n \in Nat  OBVIOUS
  <1>2. bin = [i \in 1..n |-> 16 * FromHex(text[2 * i - 1]) + FromHex(text[2 * i])]
    BY DEF Hex2Bin
  <1>3. Len(bin) = n /\ \A i \in 1..n : bin[i] \in Nat
    <2> HIDE DEF bin, n
    <2>1. Len(bin) = n  BY <1>1, <1>2
    <2>2. ASSUME NEW i \in 1..n PROVE bin[i] \in Nat
      <3>1. bin[i] = 16 * FromHex(text[2 * i - 1]) + FromHex(text[2 * i])  BY <1>2
      <3> DEFINE h == FromHex(text[2 * i - 1])
                 l == FromHex(text[2 * i])
      <3>2. h \in 0..15 /\ l \in 0..15  BY DigitRange
      <3> HIDE DEF h, l
      <3>3. 16 * h + l \in Nat  BY <3>2
      <3> QED  BY <3>1, <3>3 DEF h, l
    <2> QED  BY <2>1, <2>2
  <1> HIDE DEF bin, n
  <1> DEFINE byte(j) == IF j <= Len(bin) THEN bin[j] ELSE 0
  <1>4. byte(1) \in Nat /\ byte(2) \in Nat /\ byte(3) \in Nat /\ byte(4) \in Nat
    BY <1>1, <1>3
  <1>5. WordOf(bin) = byte(1) + 256 * byte(2) + 65536 * byte(3) + 16777216 * byte(4)
    BY DEF WordOf
  <1> HIDE DEF byte
  <1> QED  BY <1>4, <1>5 DEF bin

(* Every register that has an offset lies in the context.                   *)
LEMMA OffsetsInContext ==
  \A r \in Stacked : /\ Offset(r) \in 0..(ContextSize - WordBytes)
                     /\ Offset(r) = IF r = MSR THEN 128
                                    ELSE IF r = PC THEN 72 ELSE 4 * (32 - r)
  BY DEF Stacked, Offset, ContextSize, WordBytes, MSR, PC, R14

LEMMA FrameBytes ==
  ASSUME NEW sp \in Nat
  PROVE  /\ Memory(sp, ContextSize) \in Seq(0..255)
         /\ Len(Memory(sp, ContextSize)) = ContextSize
         /\ \A k \in 1..ContextSize : Memory(sp, ContextSize)[k] = (sp + k) % 251
  <1>1. ContextSize \in Nat  BY DEF ContextSize, WordBytes
  <1>2. \A k \in 1..ContextSize : (sp + k) % 251 \in 0..255  BY <1>1
  <1> QED  BY <1>1, <1>2 DEF Memory

LEMMA WordAt ==
  ASSUME NEW sp \in Nat, NEW off \in 0..(ContextSize - WordBytes)
  PROVE  SubSeq(Memory(sp, ContextSize), off + 1, off + WordBytes) = Word(sp + off)
  <1> DEFINE m == Memory(sp, ContextSize)
             c == ContextSize
  <1>1. c = 132 /\ WordBytes = 4 /\ off \in 0..128
    BY DEF ContextSize, WordBytes
  <1>2. m \in Seq(0..255) /\ Len(m) = c /\ \A k \in 1..c : m[k] = (sp + k) % 251
    BY FrameBytes
  <1> HIDE DEF m, c
  <1>3. SubSeq(m, off + 1, off + 4) = [j \in 1..4 |-> m[off + j]]
    <2> DEFINE p == off + 1
               q == off + 4
               t == SubSeq(m, p, q)
    <2>1. /\ p \in Int /\ q \in Int /\ p <= q /\ q - p + 1 = 4
          /\ \A j \in 1..4 : p + j - 1 = off + j
      BY <1>1
    <2>2. ASSUME NEW i \in p..q PROVE m[i] \in 0..255
      <3> DEFINE value(k) == (sp + k) % 251
      <3>1. i \in 1..132  BY <1>1
      <3>2. i \in 1..c  BY <1>1, <3>1
      <3>3. \A k \in 1..c : m[k] = value(k)  BY <1>2
      <3>4. value(i) \in 0..255  BY <3>1
      <3> HIDE DEF value
      <3>5. m[i] = value(i)  BY <3>2, <3>3
      <3> QED  BY <3>4, <3>5
    <2> HIDE DEF p, q
    <2>3. /\ t \in Seq(0..255)
          /\ Len(t) = (IF p <= q THEN q - p + 1 ELSE 0)
          /\ \A j \in 1..(q - p + 1) : t[j] = m[p + j - 1]
      BY <2>1, <2>2, SubSeqProperties
    <2> HIDE DEF t
    <2>4. Len(t) = 4 /\ \A j \in 1..4 : t[j] = m[off + j]  BY <2>1, <2>3
    <2>5. t = [j \in 1..4 |-> t[j]]  BY <2>3, <2>4, LenProperties
    <2>6. t = [j \in 1..4 |-> m[off + j]]  BY <2>4, <2>5
    <2> QED  BY <2>6 DEF t, p, q
  <1>4. \A j \in 1..4 : m[off + j] = ((sp + off) + j) % 251
    <2> SUFFICES ASSUME NEW j \in 1..4 PROVE m[off + j] = ((sp + off) + j) % 251
      OBVIOUS
    <2>1. off + j \in 1..c /\ sp + (off + j) = (sp + off) + j
      BY <1>1
    <2>2. m[off + j] = (sp + (off + j)) % 251  BY <1>2, <2>1
    <2> QED  BY <2>1, <2>2
  <1>5. Word(sp + off) = [j \in 1..4 |-> ((sp + off) + j) % 251]
    BY <1>1 DEF Word
  <1> QED  BY <1>1, <1>3, <1>4, <1>5 DEF m

-----------------------------------------------------------------------------
(* The client is told the state of the last halt.                           *)

Reported ==
  /\ stops \in Nat
  /\ cursor # 0 => halted
  /\ ~halted \/ cursor # 0 => awaited = "none"
  /\ announced = IF awaited = "none" THEN stops ELSE stops - 1

Resolved ==
  /\ known \subseteq table
  /\ awaited # "none" => rtosAvail
  /\ rtosAvail => Required \subseteq known

Agreed == (made => multiprocess) /\ (multiprocess => clientMulti)

Fetched ==
  /\ stackPtr \in Nat
  /\ fetching # "none" => halted /\ awaited = "none" /\ cursor = 0

TInv == IInv /\ Reported /\ Resolved /\ Agreed /\ Fetched

LEMMA TInvInit == Init => TInv
  <1> SUFFICES ASSUME Init PROVE TInv  OBVIOUS
  <1>1. IInv  BY InductiveInit DEF Init
  <1>2. Reported /\ Resolved /\ Agreed /\ Fetched
    BY DEF Init, UpdateInit, Reported, Resolved, Agreed, Fetched
  <1> QED  BY <1>1, <1>2 DEF TInv

LEMMA IInvStable == IInv /\ UNCHANGED updateVars => IInv'
  BY DEF IInv, Readable, Recorded, Tracked, updateVars, rtosVars, threadVars

(* A step that touches neither the update nor what was reported.            *)
LEMMA LocalKeeps ==
  TInv /\ UNCHANGED <<updateVars, symbolVars, modeVars, made, halted, announced>>
       /\ Fetched' => TInv'
  <1> SUFFICES ASSUME TInv, Fetched',
                      UNCHANGED <<updateVars, symbolVars, modeVars, made, halted,
                                  announced>>
               PROVE  TInv'
    OBVIOUS
  <1>1. IInv'  BY IInvStable DEF TInv
  <1>2. Reported' /\ Resolved' /\ Agreed'
    BY DEF TInv, Reported, Resolved, Agreed, updateVars, rtosVars, symbolVars, modeVars
  <1> QED  BY <1>1, <1>2 DEF TInv

LEMMA NextKeeps == TInv /\ Next => TInv'
  <1> SUFFICES ASSUME TInv, Next PROVE TInv'  OBVIOUS
  <1> USE DEF TInv
  <1>1. CASE QuerySupported
    <2>1. UNCHANGED <<updateVars, symbolVars, fetchVars, made, halted, announced>>
      BY <1>1 DEF QuerySupported
    <2>2. IInv'  BY <2>1, IInvStable
    <2>3. Reported' /\ Resolved' /\ Fetched'
      BY <2>1 DEF Reported, Resolved, Fetched, updateVars, rtosVars, symbolVars, fetchVars
    <2>4. ~multiprocess /\ ~made  BY <1>1 DEF QuerySupported, Agreed
    <2>5. PICK place \in {"absent", "first", "later"} :
            /\ clientMulti' = (place # "absent")
            /\ multiprocess' = (multiprocess \/ place = "later")
      BY <1>1 DEF QuerySupported
    <2>6. place = "later" => place # "absent"  OBVIOUS
    <2>7. multiprocess' => clientMulti'  BY <2>4, <2>5, <2>6
    <2>8. Agreed'  BY <2>1, <2>4, <2>7 DEF Agreed
    <2> QED  BY <2>2, <2>3, <2>8
  <1>2. CASE QuerySymbols
    <2>1. UNCHANGED <<updateVars, fetchVars, modeVars, made, halted, announced>>
          /\ awaited = "none" /\ halted /\ fetching = "none" /\ rtosAvail' = FALSE /\ known' = {}
      BY <1>2 DEF QuerySymbols, ClientTurn
    <2>2. IInv'  BY <2>1, IInvStable
    <2>3. Reported' /\ Resolved' /\ Agreed' /\ Fetched'
      BY <2>1 DEF Reported, Resolved, Agreed, Fetched, updateVars, rtosVars, fetchVars,
                  modeVars
    <2> QED  BY <2>2, <2>3
  <1>3. CASE SymbolReply
    <2>1. UNCHANGED <<table, updateVars, fetchVars, modeVars, made, halted, announced>>
          /\ cursor # 0 /\ known' = known \cup ({cursor} \cap table)
          /\ (cursor' # 0 => cursor # 0)
          /\ (rtosAvail' => rtosAvail \/ Required \subseteq known')
      BY <1>3 DEF SymbolReply
    <2>2. IInv'  BY <2>1, IInvStable
    <2>3. Reported' /\ Agreed' /\ Fetched'
      BY <2>1 DEF Reported, Agreed, Fetched, updateVars, rtosVars, fetchVars, modeVars
    <2>4. awaited = "none" /\ awaited' = awaited
      BY <2>1 DEF Reported, updateVars
    <2>5. known \subseteq known' /\ known' \subseteq table'
      BY <2>1 DEF Resolved
    <2>6. Resolved'  BY <2>1, <2>4, <2>5 DEF Resolved
    <2> QED  BY <2>2, <2>3, <2>6
  <1>4. CASE Resume
    <2>1. UNCHANGED <<updateVars, symbolVars, fetchVars, modeVars, made, announced>>
          /\ awaited = "none" /\ cursor = 0 /\ fetching = "none"
      BY <1>4 DEF Resume, ClientTurn
    <2>2. IInv'  BY <2>1, IInvStable
    <2>3. Reported' /\ Resolved' /\ Agreed' /\ Fetched'
      BY <2>1 DEF Reported, Resolved, Agreed, Fetched, updateVars, rtosVars,
                  symbolVars, fetchVars, modeVars
    <2> QED  BY <2>2, <2>3
  <1>5. CASE Halt
    <2>1. /\ UNCHANGED <<symbolVars, fetchVars, modeVars>>
          /\ made' = (IF rtosAvail THEN multiprocess ELSE made)
          /\ Halted /\ awaited = "none" /\ stops' = stops + 1 /\ halted'
          /\ \/ rtosAvail /\ Begin /\ announced' = announced
             \/ ~rtosAvail /\ UNCHANGED <<awaited, threadVars>>
                /\ announced' = announced + 1
      BY <1>5 DEF Halt, Halted, Announce
    <2>2. IInv'  BY <2>1, BeginKeeps, HaltKeeps
    <2>3. fetching' = fetching /\ cursor' = cursor /\ known' = known /\ table' = table /\ rtosAvail' = rtosAvail
          /\ stackPtr' = stackPtr /\ multiprocess' = multiprocess
          /\ clientMulti' = clientMulti
      BY <2>1 DEF symbolVars, fetchVars, modeVars
    <2>4. cursor = 0 /\ fetching = "none"
      BY <1>5 DEF Halt, Reported, Fetched
    <2>5. Resolved' /\ Agreed' /\ Fetched'
      BY <2>1, <2>3, <2>4 DEF Resolved, Agreed, Fetched
    <2>6. Reported'
      BY <2>1, <2>3, <2>4 DEF Reported, Begin
    <2> QED  BY <2>2, <2>5, <2>6
  <1>6. CASE Update
    <2>1. /\ ReadReply /\ UNCHANGED <<symbolVars, fetchVars, modeVars, made, halted>>
          /\ announced' = IF awaited' = "none" THEN announced + 1 ELSE announced
      BY <1>6 DEF Update, Announce
    <2>2. IInv'  BY <2>1, ChainKeeps
    <2>3. awaited # "none"
      BY <2>1 DEF ReadReply, CountRead, CurrentRead, TopRead, ItemsRead, FirstRead,
                  OwnerRead, NameRead, NextRead
    <2>4. stops' = stops  BY <2>1 DEF ReadReply, rtosVars
    <2>5. Resolved' /\ Agreed' /\ Fetched'
      BY <2>1, <2>3 DEF Resolved, Agreed, Fetched, symbolVars, fetchVars, modeVars
    <2>6. Reported'
      BY <2>1, <2>3, <2>4 DEF Reported, symbolVars
    <2> QED  BY <2>2, <2>5, <2>6
  <1>7. CASE ThreadRequest
    <2>1. /\ UNCHANGED <<updateVars, symbolVars, modeVars, made, halted, announced>>
          /\ stackPtr' = stackPtr
          /\ halted /\ awaited = "none" /\ cursor = 0
      BY <1>7 DEF ThreadRequest, SelectThread, ThreadAlive, ExtraInfo, ReadRegisters,
                  CurrentThread, ListThreads, Local, fetchVars, ClientTurn
    <2> QED  BY <2>1, LocalKeeps DEF Fetched, updateVars, symbolVars
  <1>8. CASE PointerRead
    <2>1. PICK text \in {ErrorText} \cup {Bin2Hex(Bytes(w)) : w \in StackTops} :
            stackPtr' = WordOf(Hex2Bin(text))
      BY <1>8 DEF PointerRead
    <2>2. Len(text) \in Nat
      <3>1. CASE text = ErrorText  BY <3>1 DEF ErrorText
      <3>2. ASSUME NEW w \in StackTops, text = Bin2Hex(Bytes(w)) PROVE Len(text) \in Nat
        <4>1. Len(Bytes(w)) = 4  BY DEF Bytes, WordBytes
        <4> HIDE DEF Bytes
        <4> QED  BY <3>2, <4>1 DEF Bin2Hex
      <3> QED  BY <3>1, <3>2
    <2>3. stackPtr' \in Nat  BY <2>1, <2>2, WordOfText
    <2>4. UNCHANGED <<updateVars, symbolVars, modeVars, made, halted, announced>>
          /\ fetching = "pointer"
      BY <1>8 DEF PointerRead, Local
    <2> QED  BY <2>3, <2>4, LocalKeeps DEF Fetched, updateVars, symbolVars
  <1>9. CASE FrameRead
    BY <1>9, LocalKeeps DEF FrameRead, Local, Fetched
  <1> QED
    BY <1>1, <1>2, <1>3, <1>4, <1>5, <1>6, <1>7, <1>8, <1>9 DEF Next

LEMMA TInvHolds == Spec => []TInv
  <1>1. TInv /\ UNCHANGED vars => TInv'
    <2> SUFFICES ASSUME TInv, UNCHANGED vars PROVE TInv'  OBVIOUS
    <2>1. UNCHANGED <<updateVars, symbolVars, modeVars, made, halted, announced>>
          /\ UNCHANGED fetchVars
      BY DEF vars, targetVars
    <2> QED  BY <2>1, LocalKeeps DEF TInv, Fetched, fetchVars, updateVars, symbolVars
  <1>2. TInv /\ [Next]_vars => TInv'  BY <1>1, NextKeeps
  <1> QED  BY TInvInit, <1>2, PTL DEF Spec

-----------------------------------------------------------------------------
(* Each halt is reported once, after the update, however many there are.    *)
THEOREM HaltsReportedOnce == Spec => []OneReplyPerHalt
  <1>1. TInv => OneReplyPerHalt  BY DEF TInv, Reported, OneReplyPerHalt
  <1> QED  BY <1>1, TInvHolds, PTL

(* The RTOS of an earlier program is never read, whatever the symbols.      *)
THEOREM SymbolsOfThisProgram == Spec => []SymbolsResolved
  <1>1. TInv => SymbolsResolved  BY DEF TInv, Resolved, SymbolsResolved
  <1> QED  BY <1>1, TInvHolds, PTL

(* Whatever was found, by reads that failed too, the proxy answers for it   *)
(* in the notation the client uses: an id without a process matches any, and*)
(* ids only have one when the client writes it.                             *)
THEOREM ShownIsAnswered == Spec => []ListedAnswered
  <1>1. TInv => ListedAnswered
    <2> SUFFICES ASSUME TInv, NEW i \in 1..Len(found)
                 PROVE  LET id == Parsed(Written(found[i].id))
                        IN  Alive(id) # "E01" /\ Extra(id) # "E01"
      BY DEF ListedAnswered
    <2> DEFINE n  == found[i].id
               id == Parsed(Written(n))
    <2>1. n \in Nat \ {0}
      <3>1. found \in Seq(Infos)  BY DEF TInv, IInv, Recorded
      <3>2. found[i] \in Infos  BY <3>1
      <3> QED  BY <3>2 DEF Infos
    <2>2. /\ MakeId(n) = Numeral(FALSE, n) /\ MakeId(n) # None
          /\ ParseId(MakeId(n)) = n
      BY <2>1 DEF MakeId, Numeral, None, Malformed, ParseId
    <2>3. Numeral(FALSE, 1) # None /\ ParseId(Numeral(FALSE, 1)) = 1
      BY DEF Numeral, None, Malformed, ParseId
    <2>4. /\ id.tid = n
          /\ id.multi = clientMulti \/ ~id.multi
          /\ clientMulti => id.multi /\ id.pid = 1
          /\ ~clientMulti => ~id.multi
      <3>1. CASE clientMulti
        <4>1. Written(n) = Text(Numeral(FALSE, 1), MakeId(n))
          BY <2>1, <3>1 DEF Written, AnyThread
        <4>2. Written(n).proc = Numeral(FALSE, 1) /\ Written(n).thread = MakeId(n)
          BY <4>1 DEF Text
        <4> HIDE DEF n
        <4>3. id = Id(TRUE, 1, n)  BY <2>2, <2>3, <4>2 DEF Parsed
        <4> HIDE DEF id
        <4> QED  BY <3>1, <4>3 DEF Id
      <3>2. CASE ~clientMulti
        <4>1. Written(n) = Text(None, MakeId(n))
          BY <3>2 DEF Written
        <4>2. Written(n).proc = None /\ Written(n).thread = MakeId(n)
          BY <4>1 DEF Text
        <4> HIDE DEF n
        <4>3. id = Id(FALSE, 0, n)  BY <2>2, <4>2 DEF Parsed
        <4> HIDE DEF id
        <4> QED  BY <3>2, <4>3 DEF Id
      <3> QED  BY <3>1, <3>2
    <2>5. Listed(i).tid = n /\ Listed(i).pid = 1 /\ Listed(i).multi = made
      BY DEF Listed, Id
    <2>6. made => clientMulti  BY DEF TInv, Agreed
    <2> HIDE DEF id, n
    <2>7. SameThread(Listed(i), id) /\ SameThread(id, Listed(i))
      BY <2>4, <2>5, <2>6 DEF SameThread
    <2> QED  BY <2>7 DEF Alive, Extra, id, n
  <1> QED  BY <1>1, TInvHolds, PTL

(* The registers of a thread that is not running, for any stack: each is    *)
(* read from where FreeRTOS pushed it, through the hexadecimal text of the  *)
(* reply, and a reply that is too short is never taken for a whole frame.   *)
THEOREM StackedRegisters == Spec => RegistersRestored
  <1> DEFINE Restored(regs) ==
        /\ \A k \in 1..30 : regs[32 - k] = Word(stackPtr + 4 * k)
        /\ regs[MSR] = Word(stackPtr + 128)
        /\ regs[PC] = regs[R14]
        /\ regs[R1] = Bytes(stackPtr + 132)
        /\ \A r \in 34..58 : regs[r] = <<>>
  <1>1. ASSUME stackPtr \in Nat
        PROVE  Restored(Registers(Memory(stackPtr, ContextSize), stackPtr))
    <2> DEFINE m    == Memory(stackPtr, ContextSize)
               regs == Registers(m, stackPtr)
    <2>1. regs = [r \in 0..58 |->
                    IF r \in 2..33 THEN SubSeq(m, Offset(r) + 1, Offset(r) + WordBytes)
                    ELSE IF r = 1 THEN Bytes(stackPtr + ContextSize)
                    ELSE IF r = 0 THEN Bytes(0)
                    ELSE <<>>]
      BY DEF Registers, RegisterNums, Stacked, R1, MSR
    <2>2. ContextSize = 132  BY DEF ContextSize, WordBytes
    <2>3. ASSUME NEW r \in 2..33 PROVE regs[r] = Word(stackPtr + Offset(r))
      <3>1. Offset(r) \in 0..(ContextSize - WordBytes)
        BY OffsetsInContext DEF Stacked, MSR
      <3>2. regs[r] = SubSeq(m, Offset(r) + 1, Offset(r) + WordBytes)
        <4> DEFINE part(q) == SubSeq(m, Offset(q) + 1, Offset(q) + WordBytes)
                   one     == Bytes(stackPtr + ContextSize)
                   zero    == Bytes(0)
        <4>1. regs = [q \in 0..58 |-> IF q \in 2..33 THEN part(q)
                                      ELSE IF q = 1 THEN one
                                      ELSE IF q = 0 THEN zero ELSE <<>>]
          BY <2>1
        <4> HIDE DEF regs, m, part, one, zero
        <4>2. r \in 0..58 /\ r \in 2..33  OBVIOUS
        <4>3. regs[r] = part(r)  BY <4>1, <4>2, Zenon
        <4> QED  BY <4>3 DEF part
      <3> QED  BY <1>1, <3>1, <3>2, WordAt
    <2>4. \A r \in 2..33 : Offset(r) = IF r = 33 THEN 128
                                       ELSE IF r = 32 THEN 72 ELSE 4 * (32 - r)
      BY OffsetsInContext DEF Stacked, MSR, PC
    <2>5. /\ regs[1] = Bytes(stackPtr + 132)
          /\ \A r \in 34..58 : regs[r] = <<>>
      <3> HIDE DEF regs, m
      <3> QED  BY <2>1, <2>2
    <2> HIDE DEF regs
    <2>6. ASSUME NEW k \in 1..30 PROVE regs[32 - k] = Word(stackPtr + 4 * k)
      <3>1. 32 - k \in 2..31 /\ 4 * (32 - (32 - k)) = 4 * k  OBVIOUS
      <3>2. Offset(32 - k) = 4 * k  BY <2>4, <3>1
      <3>3. regs[32 - k] = Word(stackPtr + Offset(32 - k))  BY <2>3, <3>1
      <3> QED  BY <3>2, <3>3
    <2>7. regs[33] = Word(stackPtr + 128)
      <3>1. Offset(33) = 128  BY <2>4
      <3> QED  BY <2>3, <3>1
    <2>8. regs[32] = regs[14]
      <3>1. Offset(32) = 72 /\ Offset(14) = 72  BY <2>4
      <3> QED  BY <2>3, <3>1
    <2>9. Restored(regs)  BY <2>5, <2>6, <2>7, <2>8 DEF MSR, PC, R14, R1
    <2> QED  BY <2>9 DEF regs
  <1>2. TInv /\ Next /\ fetching = "frame" /\ answer'.what = "stack"
          => Restored(answer'.regs)
    <2> SUFFICES ASSUME TInv, Next, fetching = "frame", answer'.what = "stack"
                 PROVE  Restored(answer'.regs)
      OBVIOUS
    <2>1. CASE FrameRead
      <3>1. PICK text \in {ErrorText, Bin2Hex(Memory(stackPtr, ContextSize))} :
              LET bin == Hex2Bin(text)
              IN  answer' = IF Overread(bin)
                            THEN Answer("g", "garbage", selected.tid)
                            ELSE [to |-> "g", what |-> "stack", n |-> selected.tid,
                                  regs |-> Registers(bin, stackPtr)]
        BY <2>1 DEF FrameRead
      <3>2. ~Overread(Hex2Bin(text))
        <4>1. Answer("g", "garbage", selected.tid).what = "garbage"  BY DEF Answer
        <4> QED  BY <3>1, <4>1
      <3>3. text # ErrorText
        <4> SUFFICES ASSUME text = ErrorText PROVE Overread(Hex2Bin(text))
          BY <3>2
        <4>1. Len(Hex2Bin(text)) = 1
          <5>1. Len(ErrorText) \div 2 = 1  BY DEF ErrorText
          <5> DEFINE digit(k) == FromHex(ErrorText[k])
          <5>2. Hex2Bin(text) = [k \in 1..1 |-> 16 * digit(2 * k - 1) + digit(2 * k)]
            BY <5>1 DEF Hex2Bin
          <5> HIDE DEF digit
          <5> QED  BY <5>2
        <4>2. 2 \in Stacked /\ Offset(2) = 120 /\ WordBytes = 4
          BY OffsetsInContext DEF Stacked, MSR, PC, WordBytes
        <4> QED  BY <4>1, <4>2 DEF Overread
      <3>4. Hex2Bin(text) = Memory(stackPtr, ContextSize)
        <4>1. stackPtr \in Nat  BY DEF TInv, Fetched
        <4> QED  BY <3>1, <3>3, <4>1, FrameBytes, HexRoundTrip
      <3>5. answer'.regs = Registers(Memory(stackPtr, ContextSize), stackPtr)
        BY <3>1, <3>2, <3>4
      <3> HIDE DEF Restored
      <3> QED  BY <1>1, <3>5 DEF TInv, Fetched
    <2>2. CASE ~FrameRead
      <3>1. halted /\ awaited = "none" /\ cursor = 0  BY DEF TInv, Fetched
      <3>2. ~ClientTurn  BY DEF ClientTurn
      <3>3. ~QuerySupported /\ ~QuerySymbols /\ ~Resume /\ ~ThreadRequest /\ ~PointerRead
        BY <3>2 DEF QuerySupported, QuerySymbols, Resume, ThreadRequest, SelectThread,
                    ThreadAlive, ExtraInfo, ReadRegisters, CurrentThread, ListThreads,
                    PointerRead
      <3>4. ~SymbolReply /\ ~Halt  BY <3>1 DEF SymbolReply, Halt
      <3>5. ~Update
        BY <3>1 DEF Update, ReadReply, CountRead, CurrentRead, TopRead, ItemsRead,
                    FirstRead, OwnerRead, NameRead, NextRead
      <3> QED  BY <2>2, <3>3, <3>4, <3>5 DEF Next
    <2> QED  BY <2>1, <2>2
  <1> DEFINE Step == fetching = "frame" /\ answer'.what = "stack" => Restored(answer'.regs)
  <1> HIDE DEF Restored
  <1>3. TInv /\ [Next]_vars => [Step]_vars  BY <1>2
  <1>4. Spec => [][Step]_vars  BY <1>3, TInvHolds, PTL DEF Spec
  <1>5. RegistersRestored <=> [][Step]_vars  BY DEF RegistersRestored, Step, Restored
  <1> QED  BY <1>4, <1>5

-----------------------------------------------------------------------------
(* An id the proxy prints, the client sends back as it is and the proxy     *)
(* reads is the same thread, on either side of the comparison: one thread,  *)
(* all of them or any, of every process that is not below -1 (all), with and*)
(* without the notation that names it.  Where it is not named, as in the ids*)
(* make_threadid makes before the feature is known, the process number is   *)
(* read as 0, and the comparison is what makes up for it.                   *)
THEOREM PrintedIdsAreRead ==
  ASSUME NEW multi \in BOOLEAN, NEW pid \in Int, NEW tid \in Int,
         pid >= AllThreads, tid >= AllThreads
  PROVE  LET id   == Id(multi, pid, tid)
             read == Parsed(Printed(id))
         IN  /\ read = Id(multi, IF multi THEN pid ELSE 0, tid)
             /\ SameThread(id, read) /\ SameThread(read, id)
  <1>1. ASSUME NEW n \in Int, n >= AllThreads
        PROVE  MakeId(n) # None /\ ParseId(MakeId(n)) = n
    <2>1. CASE n = AllThreads
      <3>1. MakeId(n) = Numeral(TRUE, 1)  BY <2>1 DEF MakeId, AllThreads
      <3>2. LeadingOne(1)
        <4>1. 1 \div 1 = 1  OBVIOUS
        <4> QED  BY <4>1 DEF LeadingOne
      <3> QED
        BY <2>1, <3>1, <3>2 DEF ParseId, Numeral, None, Malformed, AllThreads
    <2>2. CASE n \in Nat
      <3>1. ~(n < 0) /\ n # 0 - 1 /\ n # 0 - 2  BY <2>2
      <3>2. MakeId(n) = Numeral(FALSE, n)  BY <3>1 DEF MakeId
      <3> QED  BY <3>1, <3>2 DEF ParseId, Numeral, None, Malformed
    <2> QED  BY <1>1, <2>1, <2>2 DEF AllThreads
  <1> DEFINE id   == Id(multi, pid, tid)
             read == Parsed(Printed(id))
  <1>2. CASE multi
    <2>1. read = id  BY <1>1, <1>2 DEF Parsed, Printed, Text, Id
    <2>2. read = Id(multi, IF multi THEN pid ELSE 0, tid)  BY <1>2, <2>1
    <2> HIDE DEF id, read
    <2>3. SameThread(id, read) /\ SameThread(read, id)  BY <2>1 DEF SameThread
    <2> QED  BY <2>2, <2>3 DEF id, read
  <1>3. CASE ~multi
    <2>1. read = Id(FALSE, 0, tid)  BY <1>1, <1>3 DEF Parsed, Printed, Text, Id
    <2>2. id = Id(FALSE, pid, tid)  BY <1>3
    <2> HIDE DEF id, read
    <2>3. ~id.multi /\ ~read.multi /\ id.tid = tid /\ read.tid = tid
      BY <2>1, <2>2 DEF Id
    <2>4. read = Id(multi, IF multi THEN pid ELSE 0, tid)  BY <1>3, <2>1
    <2>5. SameThread(id, read) /\ SameThread(read, id)  BY <2>3 DEF SameThread
    <2> QED  BY <2>4, <2>5 DEF id, read
  <1> QED  BY <1>2, <1>3 DEF id, read

-----------------------------------------------------------------------------
(* The variables of the requests, and what the last update left.            *)

IdRecord == [multi : BOOLEAN, pid : Int, tid : Int]

RequestTypes ==
  /\ halted \in BOOLEAN /\ rtosAvail \in BOOLEAN
  /\ table \subseteq 1..Symbols /\ known \subseteq 1..Symbols
  /\ cursor \in 0..Symbols
  /\ lookups \in Nat /\ forwarded \in Nat /\ announced \in Nat
  /\ clientMulti \in BOOLEAN /\ multiprocess \in BOOLEAN /\ made \in BOOLEAN
  /\ selected \in IdRecord
  /\ fetching \in {"none", "pointer", "frame"}

TypedTarget == Typed /\ RequestTypes

LEMMA ParsedNumeral == \A n \in Int : ParseId(MakeId(n)) \in Int /\ ParseId(None) \in Int
  <1>1. ASSUME NEW neg \in BOOLEAN, NEW mag \in Int PROVE ParseId(Numeral(neg, mag)) \in Int
    BY MaskAssumption DEF ParseId, Numeral, None, Malformed, AnyThread, AllThreads
  <1>2. ASSUME NEW n \in Int PROVE ParseId(MakeId(n)) \in Int
    <2>1. CASE n < 0
      <3>1. MakeId(n) = Numeral(TRUE, 0 - n) /\ 0 - n \in Int  BY <2>1 DEF MakeId
      <3> QED  BY <1>1, <3>1
    <2>2. CASE ~(n < 0)
      <3>1. MakeId(n) = Numeral(FALSE, n)  BY <2>2 DEF MakeId
      <3> QED  BY <1>1, <3>1
    <2> QED  BY <2>1, <2>2
  <1>3. ParseId(None) \in Int
    <2>1. 0 - 1 \in Int /\ FALSE \in BOOLEAN  OBVIOUS
    <2> QED  BY <1>1, <2>1 DEF None
  <1> QED  BY <1>2, <1>3

(* What the client writes is an id.                                         *)
LEMMA ParsedNames ==
  ASSUME IInv, Typed, NEW text \in Names
  PROVE  Parsed(text) \in IdRecord
  <1>1. PICK n \in Ids \cup {AnyThread, AllThreads, current.id} : text = Written(n)
    BY DEF Names
  <1>2. n \in Int
    <2>1. Ids \subseteq Int
      <3>1. \A i \in 1..Len(found) : found[i] \in Infos
        BY ElementOfSeq DEF IInv, Recorded
      <3> QED  BY <3>1 DEF Ids, Infos
    <2> QED  BY <1>1, <2>1 DEF Typed, UpdateTypeOK, AnyThread, AllThreads
  <1>3. ASSUME NEW m \in {0, 1} PROVE ParseId(Numeral(FALSE, m)) \in Int
    BY DEF ParseId, Numeral, None, Malformed
  <1> DEFINE proc == IF ~clientMulti THEN None ELSE Numeral(FALSE, IF n = AnyThread THEN 0 ELSE 1)
  <1>4. text = Text(proc, MakeId(n))  BY <1>1 DEF Written
  <1>5. ParseId(proc) \in Int
    <2>1. ParseId(None) \in Int  BY ParsedNumeral
    <2> QED  BY <1>3, <2>1
  <1> HIDE DEF proc
  <1>6. text.proc = proc /\ text.thread = MakeId(n)  BY <1>4 DEF Text
  <1>7. ParseId(MakeId(n)) \in Int /\ AllThreads \in Int
    BY <1>2, ParsedNumeral DEF AllThreads
  <1>8. \A b \in BOOLEAN, p, t \in Int : Id(b, p, t) \in IdRecord
    BY DEF Id, IdRecord
  <1>9. CASE text.proc = None
    <2>1. Parsed(text) = Id(FALSE, 0, ParseId(MakeId(n)))  BY <1>6, <1>9 DEF Parsed
    <2>2. FALSE \in BOOLEAN /\ 0 \in Int  OBVIOUS
    <2> QED  BY <1>7, <1>8, <2>1, <2>2
  <1>10. CASE text.proc # None
    <2> DEFINE tid == IF MakeId(n) = None THEN AllThreads ELSE ParseId(MakeId(n))
    <2>1. Parsed(text) = Id(TRUE, ParseId(proc), tid)  BY <1>6, <1>10 DEF Parsed
    <2>2. tid \in Int /\ TRUE \in BOOLEAN  BY <1>7
    <2> HIDE DEF tid
    <2> QED  BY <1>5, <1>8, <2>1, <2>2
  <1> QED  BY <1>9, <1>10

LEMMA TypedTargetInit == Init => TypedTarget
  <1> SUFFICES ASSUME Init PROVE TypedTarget  OBVIOUS
  <1>1. Typed  BY TypedInit DEF Init
  <1>2. selected \in IdRecord
    BY DEF Init, Id, IdRecord, CurrentExecution
  <1>3. RequestTypes
    <2>1. 0 \in 0..Symbols /\ Symbols \in Nat  BY TargetAssumption
    <2> DEFINE S == 1..Symbols
               C == 0..Symbols
    <2>2. {} \subseteq S /\ 0 \in C  BY <2>1
    <2> HIDE DEF S, C
    <2> QED  BY <1>2, <2>2 DEF Init, RequestTypes, S, C
  <1> QED  BY <1>1, <1>3 DEF TypedTarget

LEMMA TypedTargetStep == TInv /\ TypedTarget /\ Next => TypedTarget'
  <1> SUFFICES ASSUME TInv, TypedTarget, Next PROVE TypedTarget'  OBVIOUS
  <1> USE DEF TypedTarget
  <1>1. IInv /\ Typed /\ RequestTypes  BY DEF TInv
  <1>2. UNCHANGED updateVars => Typed'  BY TypedStable
  <1>3. CASE QuerySupported
    BY <1>2, <1>3 DEF QuerySupported, RequestTypes, symbolVars, fetchVars
  <1>4. CASE QuerySymbols
    <2>1. Symbols \in Nat \ {0} /\ 1 \in 0..Symbols  BY TargetAssumption
    <2>2. table' \subseteq 1..Symbols /\ cursor' = 1 /\ known' = {} /\ rtosAvail' = FALSE
          /\ lookups' = lookups + 1
      BY <1>4 DEF QuerySymbols
    <2>3. /\ UNCHANGED <<forwarded, updateVars, made, halted, selected, announced>>
          /\ UNCHANGED <<fetching, clientMulti, multiprocess>>
      BY <1>4 DEF QuerySymbols, fetchVars, modeVars
    <2>4. lookups' \in Nat  BY <2>2 DEF RequestTypes
    <2> QED  BY <1>2, <2>1, <2>2, <2>3, <2>4 DEF RequestTypes
  <1>5. CASE SymbolReply
    <2>1. Symbols \in Nat \ {0}  BY TargetAssumption
    <2>2. /\ cursor # 0 /\ known' = known \cup ({cursor} \cap table)
          /\ \/ cursor < Symbols /\ cursor' = cursor + 1 /\ UNCHANGED <<rtosAvail, forwarded>>
             \/ /\ cursor' = 0 /\ rtosAvail' = (Required \subseteq known')
                /\ forwarded' = forwarded + 1
          /\ UNCHANGED <<table, lookups, updateVars, made, halted, selected, announced>>
          /\ UNCHANGED <<fetching, clientMulti, multiprocess>>
      BY <1>5 DEF SymbolReply, fetchVars, modeVars
    <2>3. cursor \in 0..Symbols /\ known \subseteq 1..Symbols /\ table \subseteq 1..Symbols
          /\ forwarded \in Nat
      BY DEF RequestTypes
    <2>4. known' \subseteq 1..Symbols  BY <2>2, <2>3
    <2>5. cursor' \in 0..Symbols /\ rtosAvail' \in BOOLEAN /\ forwarded' \in Nat
      <3>1. rtosAvail \in BOOLEAN  BY DEF RequestTypes
      <3>2. CASE cursor < Symbols /\ cursor' = cursor + 1 /\ UNCHANGED <<rtosAvail, forwarded>>
        BY <2>1, <2>3, <3>1, <3>2
      <3>3. CASE cursor' = 0 /\ rtosAvail' = (Required \subseteq known')
                 /\ forwarded' = forwarded + 1
        BY <2>1, <2>3, <3>3
      <3> QED  BY <2>2, <3>2, <3>3
    <2> QED  BY <1>2, <2>2, <2>4, <2>5 DEF RequestTypes
  <1>6. CASE Resume
    BY <1>2, <1>6 DEF Resume, RequestTypes, symbolVars, fetchVars, modeVars
  <1>7. CASE Halt
    <2>1. Typed'  BY <1>7, TypedBegin, TypedHalt DEF Halt
    <2> QED
      BY <1>7, <2>1 DEF Halt, Announce, RequestTypes, symbolVars, fetchVars, modeVars
  <1>8. CASE Update
    <2>1. Typed'  BY <1>1, <1>8, TypedStep DEF Update
    <2> QED
      BY <1>8, <2>1 DEF Update, Announce, RequestTypes, symbolVars, fetchVars, modeVars
  <1>9. CASE ThreadRequest
    <2>1. ASSUME NEW text \in Names, SelectThread(text) PROVE TypedTarget'
      <3>1. selected' \in IdRecord  BY <1>1, <2>1, ParsedNames DEF SelectThread
      <3> QED
        BY <1>2, <2>1, <3>1
           DEF SelectThread, Local, RequestTypes, symbolVars, fetchVars, modeVars
    <2>2. ASSUME NEW text \in Names, ThreadAlive(text) \/ ExtraInfo(text) PROVE TypedTarget'
      BY <1>2, <2>2
         DEF ThreadAlive, ExtraInfo, Local, RequestTypes, symbolVars, fetchVars, modeVars
    <2>3. CASE ReadRegisters
      BY <1>2, <2>3 DEF ReadRegisters, Local, RequestTypes, symbolVars, modeVars
    <2>4. CASE CurrentThread \/ ListThreads
      BY <1>2, <2>4
         DEF CurrentThread, ListThreads, Local, RequestTypes, symbolVars, fetchVars, modeVars
    <2> QED  BY <1>9, <2>1, <2>2, <2>3, <2>4 DEF ThreadRequest
  <1>10. CASE PointerRead
    BY <1>2, <1>10 DEF PointerRead, Local, RequestTypes, symbolVars, modeVars
  <1>11. CASE FrameRead
    BY <1>2, <1>11 DEF FrameRead, Local, RequestTypes, symbolVars, modeVars
  <1> QED
    BY <1>3, <1>4, <1>5, <1>6, <1>7, <1>8, <1>9, <1>10, <1>11 DEF Next

LEMMA TypedTargetHolds == Spec => []TypedTarget
  <1>1. TypedTarget /\ UNCHANGED vars => TypedTarget'
    BY TypedStable
       DEF TypedTarget, RequestTypes, vars, targetVars, symbolVars, fetchVars, modeVars
  <1>2. TInv /\ TypedTarget /\ [Next]_vars => TypedTarget'  BY <1>1, TypedTargetStep
  <1> QED  BY TypedTargetInit, TInvHolds, <1>2, PTL DEF Spec

(* Every variable stays in its domain, the selected thread included, which  *)
(* the client sets from what it was shown; of the thread update too, for    *)
(* halts with and without an RTOS.                                          *)
THEOREM TargetTypeCorrect == Spec => []TypeOK
  <1>1. TInv /\ TypedTarget => TypeOK
    BY DEF TInv, Fetched, TypedTarget, Typed, RequestTypes, IdRecord, TypeOK
  <1> QED  BY <1>1, TInvHolds, TypedTargetHolds, PTL

-----------------------------------------------------------------------------
(* The running task.                                                        *)

LEMMA PublishedCurrent ==
  IInv /\ Typed /\ Current /\ Published => CurrentListed
  <1> SUFFICES ASSUME IInv, Typed, Current, Published, current.tcb # 0
               PROVE  /\ \E i \in 1..Len(found) : found[i].tcb = current.tcb
                      /\ \A i \in 2..Len(found) :
                           found[i].running <=> found[i].tcb = current.tcb
    BY DEF CurrentListed
  <1> DEFINE t == TcbSeq(found)
             e == <<CurrentExecution>>
             N == Len(Listing)
  <1>1. /\ Heap(items) /\ found \in Seq(Infos) /\ current.tcb = running
        /\ Comes(found, <<>>) /\ Marked(found, 0)
    BY DEF IInv, Recorded, Typed, Published
  <1>2. Listing \in Seq(Nat) /\ N \in Nat /\ DOMAIN Listing = 1..N
    BY <1>1, ListingIsFlat, LenProperties DEF Listing
  <1>3. PICK j \in 1..N : Listing[j] = running
    BY <1>1, <1>2, ListingComplete DEF Current, Listing
  <1>4. t \in Seq(Nat) /\ Len(t) = Len(found) /\ \A i \in 1..Len(found) : t[i] = found[i].tcb
    BY <1>1, TcbSeqFacts
  <1>5. e \in Seq(Nat) /\ Len(e) = 1  BY DEF CurrentExecution
  <1> HIDE DEF t, e, N
  <1>6. t = e \o Listing
    <2>1. t \o <<>> = t  BY <1>4, ConcatEmptySeq
    <2> QED  BY <1>1, <2>1 DEF Comes, t, e
  <1>7. Len(t) = 1 + N /\ \A i \in 1..(1 + N) : t[i] = IF i <= 1 THEN e[i] ELSE Listing[i - 1]
    <2>1. /\ Len(e \o Listing) = Len(e) + Len(Listing)
          /\ \A i \in 1..(Len(e) + Len(Listing)) :
               (e \o Listing)[i] = IF i <= Len(e) THEN e[i] ELSE Listing[i - Len(e)]
      BY <1>2, <1>5, ConcatProperties
    <2> QED  BY <1>5, <1>6, <2>1 DEF N
  <1>8. j + 1 \in 1..(1 + N) /\ ~(j + 1 <= 1) /\ (j + 1) - 1 = j  BY <1>2
  <1>9. found[j + 1].tcb = running /\ j + 1 \in 1..Len(found)
    BY <1>3, <1>4, <1>7, <1>8
  <1>10. \A i \in 2..Len(found) : i \in 1..Len(found) /\ i # 0
    BY <1>1, LenProperties
  <1> QED  BY <1>1, <1>9, <1>10 DEF Marked

CurrentInv == TypedTarget /\ (~failed => Walked) /\ Current /\ CurrentListed

LEMMA CurrentInit == Init => CurrentInv
  <1> SUFFICES ASSUME Init PROVE CurrentInv  OBVIOUS
  <1> DEFINE x == Thread(CurrentExecution, CurrentExecution, FALSE)
  <1>1. UpdateInit /\ TypedTarget /\ Shows /\ Current
    BY TypedTargetInit, ShowsInit DEF Init
  <1>2. found = <<x>> /\ current.tcb = CurrentExecution  BY <1>1 DEF UpdateInit
  <1>3. Len(<<x>>) = 1 /\ <<x>>[1] = x /\ x.tcb = CurrentExecution  BY FirstShown
  <1> HIDE DEF x
  <1>4. 1 \in 1..Len(found) /\ \A i \in 2..Len(found) : FALSE  BY <1>2, <1>3
  <1> QED  BY <1>1, <1>2, <1>3, <1>4 DEF CurrentInv, Shows, CurrentListed

LEMMA WalkStable ==
  ASSUME CurrentInv, UNCHANGED updateVars
  PROVE  (~failed => Walked)' /\ Current' /\ CurrentListed'
  <1>1. UNCHANGED <<rtosVars, awaited, failed, total, current, found, todo, left, elem, last>>
    BY DEF updateVars, threadVars, listVars
  <1>2. Listing' = Listing  BY <1>1, SameListing
  <1>3. Current'  BY <1>1 DEF CurrentInv, Current, rtosVars, Tasks
  <1>4. Here' = Here  BY <1>1 DEF Here, rtosVars
  <1>5. Walked' <=> Walked
    BY <1>1, <1>2, <1>4 DEF Walked, Comes, Marked, Rest, rtosVars, Tasks
  <1> QED  BY <1>1, <1>3, <1>5 DEF CurrentInv, CurrentListed

LEMMA CurrentStep ==
  ASSUME TInv, TInv', CurrentInv, TypedTarget', ~TopKnown, [Next]_vars
  PROVE  CurrentInv'
  <1>1. IInv /\ Typed /\ IInv' /\ Typed'
    BY DEF TInv, CurrentInv, TypedTarget
  <1>2. CASE UNCHANGED updateVars  BY <1>2, WalkStable DEF CurrentInv
  <1>3. CASE Halt
    <2>1. Halted /\ awaited = "none" /\ stops \in Nat
      BY <1>1, <1>3 DEF Halt, Halted, Typed, UpdateTypeOK
    <2>2. running' # 0 => running' \in Tasks(items')  BY <2>1, HaltedHeap
    <2>3. Current'  BY <2>2 DEF Current, Tasks
    <2>4. CASE Begin
      <3>1. awaited' = "count" /\ found' = <<>>  BY <2>4 DEF Begin
      <3> QED  BY <2>3, <3>1 DEF CurrentInv, Walked, Walks, CurrentListed
    <2>5. CASE UNCHANGED <<awaited, failed, threadVars, listVars>>
      <3>1. awaited' = "none" /\ failed' = failed /\ found' = found /\ current' = current
        BY <2>1, <2>5 DEF threadVars
      <3>2. Walked'  BY <3>1 DEF Walked, Walks
      <3> QED  BY <2>1, <2>3, <3>1, <3>2 DEF CurrentInv, CurrentListed
    <2> QED  BY <1>3, <2>4, <2>5 DEF Halt
  <1>4. CASE Update
    <2>1. ReadReply  BY <1>4 DEF Update
    <2>2. Current'  BY <2>1 DEF CurrentInv, ReadReply, rtosVars, Current, Tasks
    <2>3. ~failed' => Goes'  BY <1>1, <2>1, WalkedStep DEF CurrentInv
    <2>4. (IInv /\ Typed /\ Current /\ Published => CurrentListed)'
      BY PublishedCurrent, PTL
    <2>5. CurrentListed'
      <3>1. CASE failed' \/ awaited' # "none"  BY <3>1 DEF CurrentListed
      <3>2. CASE ~failed' /\ awaited' = "none"
        BY <1>1, <2>2, <2>3, <2>4, <3>2 DEF Goes
      <3> QED  BY <3>1, <3>2
    <2> QED  BY <2>2, <2>3, <2>5 DEF CurrentInv, Goes
  <1> QED
    BY <1>2, <1>3, <1>4
       DEF Next, QuerySupported, QuerySymbols, SymbolReply, Resume, ThreadRequest,
           SelectThread, ThreadAlive, ExtraInfo, ReadRegisters, CurrentThread,
           ListThreads, PointerRead, FrameRead, Local, vars

(* The task that was running when the target halted is among the threads the*)
(* client is shown and is the one marked, whichever halts come without an   *)
(* RTOS in between, unless a read of the update failed.                     *)
THEOREM RunningTaskShown == ~TopKnown => (Spec => []CurrentListed)
  <1>1. TInv /\ TInv' /\ CurrentInv /\ TypedTarget' /\ ~TopKnown /\ [Next]_vars
          => CurrentInv'
    BY CurrentStep
  <1>2. CurrentInv => CurrentListed  BY DEF CurrentInv
  <1>3. CASE ~TopKnown
    BY <1>1, <1>2, <1>3, CurrentInit, TInvHolds, TypedTargetHolds, PTL DEF Spec
  <1> QED  BY <1>3

-----------------------------------------------------------------------------
(* The lookup: what is known are the symbols of the program among those     *)
(* that were asked for so far.                                              *)
LookedUp == IF cursor = 0 THEN 1..Symbols ELSE 1..(cursor - 1)

Lookup ==
  /\ lookups \in Nat /\ cursor \in 0..Symbols
  /\ table \subseteq 1..Symbols /\ known = table \cap LookedUp
  /\ cursor # 0 => lookups > 0
  /\ LookupExact

LEMMA LookupStill ==
  ASSUME Lookup, UNCHANGED symbolVars
  PROVE  Lookup'
  BY DEF Lookup, LookedUp, LookupExact, symbolVars

LEMMA LookupStep == Lookup /\ [Next]_vars => Lookup'
  <1> SUFFICES ASSUME Lookup, [Next]_vars PROVE Lookup'  OBVIOUS
  <1>1. Symbols \in Nat \ {0} /\ Required \subseteq 1..Symbols  BY TargetAssumption
  <1>2. CASE QuerySymbols
    <2>1. /\ table' \subseteq 1..Symbols /\ lookups' = lookups + 1
          /\ cursor' = 1 /\ known' = {} /\ forwarded' = forwarded
      BY <1>2 DEF QuerySymbols
    <2>2. cursor = 0 /\ forwarded = lookups
      BY <1>2 DEF QuerySymbols, ClientTurn, Lookup, LookupExact
    <2>3. LookedUp' = {}  BY <2>1 DEF LookedUp
    <2> QED  BY <1>1, <2>1, <2>2, <2>3 DEF Lookup, LookupExact
  <1>3. CASE SymbolReply
    <2>1. /\ cursor \in 1..Symbols /\ known' = known \cup ({cursor} \cap table)
          /\ table' = table /\ lookups' = lookups
      BY <1>3 DEF SymbolReply, Lookup
    <2>2. LookedUp = 1..(cursor - 1)  BY <2>1 DEF LookedUp
    <2>3. known' = table \cap 1..cursor
      <3>1. \A i : i \in 1..cursor <=> i \in 1..(cursor - 1) \/ i = cursor
        BY <1>1, <2>1
      <3> QED  BY <2>1, <2>2, <3>1 DEF Lookup
    <2>4. CASE cursor < Symbols
      <3>1. cursor' = cursor + 1 /\ forwarded' = forwarded
        BY <1>3, <2>4 DEF SymbolReply
      <3>2. LookedUp' = 1..cursor  BY <2>1, <3>1 DEF LookedUp
      <3>3. cursor' \in 0..Symbols /\ cursor' # 0 /\ cursor # 0
        BY <1>1, <2>1, <2>4, <3>1
      <3> QED  BY <2>1, <2>3, <3>1, <3>2, <3>3 DEF Lookup, LookupExact
    <2>5. CASE ~(cursor < Symbols)
      <3>1. /\ cursor' = 0 /\ forwarded' = forwarded + 1
            /\ rtosAvail' = (Required \subseteq known')
        BY <1>3, <2>5 DEF SymbolReply
      <3>2. cursor = Symbols /\ cursor # 0  BY <1>1, <2>1, <2>5
      <3>3. LookedUp' = 1..Symbols /\ known' = table
        BY <2>3, <3>1, <3>2 DEF LookedUp, Lookup
      <3>4. forwarded' = lookups
        BY <3>1, <3>2 DEF Lookup, LookupExact
      <3>5. rtosAvail' <=> Required \subseteq table'  BY <2>1, <3>1, <3>3
      <3>6. LookupExact'  BY <2>1, <3>1, <3>4, <3>5 DEF LookupExact
      <3>7. table \subseteq 1..Symbols /\ lookups \in Nat  BY DEF Lookup
      <3>8. known' = table' \cap LookedUp'  BY <2>1, <3>3, <3>7
      <3>9. cursor' \in 0..Symbols  BY <1>1, <3>1
      <3> QED  BY <2>1, <3>1, <3>6, <3>7, <3>8, <3>9 DEF Lookup
    <2> QED  BY <2>4, <2>5
  <1>4. CASE UNCHANGED symbolVars  BY <1>4, LookupStill
  <1>5. QuerySymbols \/ SymbolReply \/ UNCHANGED symbolVars
    <2>1. CASE ThreadRequest
      BY <2>1 DEF ThreadRequest, SelectThread, ThreadAlive, ExtraInfo, ReadRegisters,
                  CurrentThread, ListThreads, Local
    <2>2. CASE Next /\ ~ThreadRequest
      BY <2>2 DEF Next, QuerySupported, Resume, Halt, Update, PointerRead, FrameRead, Local
    <2>3. CASE UNCHANGED vars  BY <2>3 DEF vars, targetVars
    <2> QED  BY <2>1, <2>2, <2>3
  <1> QED  BY <1>2, <1>3, <1>4, <1>5

(* A lookup asks for every symbol and gets the program right, however many  *)
(* symbols there are and whichever of them the RTOS requires.               *)
THEOREM LookupsAreExact == Spec => []LookupExact
  <1>1. Init => Lookup
    BY TargetAssumption DEF Init, Lookup, LookedUp, LookupExact
  <1>2. Lookup => LookupExact  BY DEF Lookup
  <1> QED  BY <1>1, <1>2, LookupStep, PTL DEF Spec
=============================================================================
