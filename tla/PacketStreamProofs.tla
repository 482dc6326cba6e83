-------------------------- MODULE PacketStreamProofs --------------------------
(****************************************************************************)
(* Theorems about the packets of a connection: however TCP cuts the stream  *)
(* into reads, the handler is given what the peer sent, for every sequence  *)
(* of packets; and what the proxy composes is well-formed.                  *)
(****************************************************************************)
EXTENDS PacketStream, SequenceInduction

-----------------------------------------------------------------------------
(* The checksum of a text that grows by a byte.                             *)

Csum == 0..(CsumRange - 1)

LEMMA CsumIs == Csum = 0..255 /\ Csum \subseteq Nat /\ Byte = 0..255
  BY DEF Csum, CsumRange, Byte

LEMMA Modulo == \A k \in Nat : k % CsumRange \in Csum
  BY DEF Csum, CsumRange

LEMMA SumOf ==
  ASSUME NEW s \in Seq(Byte)
  PROVE  \E f \in [0..Len(s) -> Csum] :
           /\ f[0] = 0 /\ Sum(s) = f[Len(s)]
           /\ \A i \in 1..Len(s) : f[i] = (f[i - 1] + s[i]) % CsumRange
  <1> DEFINE n    == Len(s)
             step == [i \in 1..n |-> [v \in Csum |-> (v + s[i]) % CsumRange]]
             eq(g) == g = [i \in 0..n |-> IF i = 0 THEN 0 ELSE (g[i - 1] + s[i]) % CsumRange]
  <1>1. n \in Nat /\ \A i \in 1..n : s[i] \in 0..255
    BY LenProperties, ElementOfSeq, CsumIs
  <1>2. step \in [1..n -> [Csum -> Csum]]
    <2>1. \A i \in 1..n, v \in Csum : (v + s[i]) % CsumRange \in Csum
      <3> SUFFICES ASSUME NEW i \in 1..n, NEW v \in Csum
                   PROVE  (v + s[i]) % CsumRange \in Csum
        OBVIOUS
      <3>1. s[i] \in Nat /\ v \in Nat  BY <1>1, CsumIs
      <3>2. \A a, b \in Nat : a + b \in Nat  OBVIOUS
      <3>3. v + s[i] \in Nat  BY ONLY <3>1, <3>2
      <3> QED  BY <3>3, Modulo
    <2> HIDE DEF n
    <2> QED  BY <2>1
  <1>3. 0 \in Csum  BY CsumIs
  <1>4. PICK f \in [0..n -> Csum] : Folded(f, n, 0, step)
    <2> HIDE DEF step, n
    <2> QED  BY <1>1, <1>2, <1>3, Recursion
  <1>5. f[0] = 0 /\ \A i \in 1..n : f[i] = (f[i - 1] + s[i]) % CsumRange
    <2>1. f[0] = 0  BY <1>4 DEF Folded
    <2>2. ASSUME NEW i \in 1..n PROVE f[i] = (f[i - 1] + s[i]) % CsumRange
      <3>1. i - 1 \in 0..n  BY <1>1
      <3>2. f[i - 1] \in Csum  BY <3>1
      <3>3. f[i] = step[i][f[i - 1]]  BY <1>4 DEF Folded
      <3> HIDE DEF n
      <3> QED  BY <3>2, <3>3
    <2> QED  BY <2>1, <2>2
  <1>6. eq(f)
    <2>1. \A i \in 0..n : f[i] = IF i = 0 THEN 0 ELSE (f[i - 1] + s[i]) % CsumRange
      <3> SUFFICES ASSUME NEW i \in 0..n
                   PROVE  f[i] = IF i = 0 THEN 0 ELSE (f[i - 1] + s[i]) % CsumRange
        OBVIOUS
      <3>1. i # 0 => i \in 1..n  BY <1>1
      <3> HIDE DEF n
      <3> QED  BY <1>5, <3>1
    <2> HIDE DEF n
    <2> QED  BY <2>1
  <1> DEFINE sum == CHOOSE g : eq(g)
  <1>7. eq(sum)
    <2> HIDE DEF eq
    <2> QED  BY <1>6
  <1>8. Sum(s) = sum[n]  BY DEF Sum
  <1> HIDE DEF sum
  <1>9. sum[n] = f[n]
    <2> DEFINE S == {i \in 0..n : sum[i] = f[i]}
    <2>0. \A i \in 0..n : sum[i] = IF i = 0 THEN 0 ELSE (sum[i - 1] + s[i]) % CsumRange
      <3> HIDE DEF n
      <3> QED  BY <1>7
    <2>1. 0 \in S
      <3>1. 0 \in 0..n  BY <1>1
      <3> HIDE DEF n
      <3> QED  BY <1>5, <2>0, <3>1
    <2>2. ASSUME NEW i \in 0..(n - 1), i \in S PROVE i + 1 \in S
      <3>1. i + 1 \in 1..n /\ i + 1 \in 0..n /\ (i + 1) - 1 = i /\ i + 1 # 0  BY <1>1
      <3> HIDE DEF n
      <3>2. sum[i + 1] = (sum[(i + 1) - 1] + s[i + 1]) % CsumRange  BY <2>0, <3>1
      <3>3. f[i + 1] = (f[(i + 1) - 1] + s[i + 1]) % CsumRange  BY <1>5, <3>1
      <3>4. sum[i] = f[i]  BY <2>2
      <3>5. sum[i + 1] = f[i + 1]  BY ONLY <3>1, <3>2, <3>3, <3>4
      <3> QED  BY <3>1, <3>5
    <2>3. \A i \in 0..n : i \in S
      <3> HIDE DEF S, n
      <3> QED  BY <1>1, <2>1, <2>2, Induction
    <2>4. n \in 0..n  BY <1>1
    <2> QED  BY <2>3, <2>4
  <1> QED  BY <1>5, <1>8, <1>9

LEMMA SumFacts ==
  /\ Sum(<<>>) = 0
  /\ \A s \in Seq(Byte) : Sum(s) \in Csum
  /\ \A s \in Seq(Byte), c \in Byte : Sum(Append(s, c)) = (Sum(s) + c) % CsumRange
  <1>1. Sum(<<>>) = 0
    <2>1. <<>> \in Seq(Byte) /\ Len(<<>>) = 0  OBVIOUS
    <2> HIDE DEF Sum
    <2> QED  BY <2>1, SumOf
  <1>2. ASSUME NEW s \in Seq(Byte) PROVE Sum(s) \in Csum
    <2>1. Len(s) \in 0..Len(s)  BY LenProperties
    <2> QED  BY <2>1, SumOf
  <1>3. ASSUME NEW s \in Seq(Byte), NEW c \in Byte
        PROVE  Sum(Append(s, c)) = (Sum(s) + c) % CsumRange
    <2> DEFINE t == Append(s, c)
               n == Len(s)
    <2>1. t \in Seq(Byte) /\ Len(t) = n + 1 /\ n \in Nat /\ t[n + 1] = c
          /\ \A i \in 1..n : t[i] = s[i]
      BY AppendProperties, LenProperties
    <2> HIDE DEF t, n
    <2>2. PICK f \in [0..n -> Csum] :
            /\ f[0] = 0 /\ Sum(s) = f[n]
            /\ \A i \in 1..n : f[i] = (f[i - 1] + s[i]) % CsumRange
      BY SumOf DEF n
    <2>3. PICK g \in [0..(n + 1) -> Csum] :
            /\ g[0] = 0 /\ Sum(t) = g[n + 1]
            /\ \A i \in 1..(n + 1) : g[i] = (g[i - 1] + t[i]) % CsumRange
      <3>1. \E g \in [0..Len(t) -> Csum] :
              /\ g[0] = 0 /\ Sum(t) = g[Len(t)]
              /\ \A i \in 1..Len(t) : g[i] = (g[i - 1] + t[i]) % CsumRange
        BY <2>1, SumOf
      <3> QED  BY <2>1, <3>1
    <2> DEFINE S == {i \in 0..n : f[i] = g[i]}
    <2>4. 0 \in S  BY <2>1, <2>2, <2>3
    <2>5. ASSUME NEW i \in 0..(n - 1), i \in S PROVE i + 1 \in S
      <3>1. i + 1 \in 1..n /\ i + 1 \in 1..(n + 1) /\ i + 1 \in 0..n /\ (i + 1) - 1 = i
        BY <2>1
      <3>2. f[i + 1] = (f[(i + 1) - 1] + s[i + 1]) % CsumRange  BY <2>2, <3>1
      <3>3. g[i + 1] = (g[(i + 1) - 1] + t[i + 1]) % CsumRange  BY <2>3, <3>1
      <3>4. f[i] = g[i] /\ t[i + 1] = s[i + 1]  BY <2>1, <2>5, <3>1
      <3>5. f[i + 1] = g[i + 1]  BY ONLY <3>1, <3>2, <3>3, <3>4
      <3> QED  BY <3>1, <3>5
    <2>6. \A i \in 0..n : i \in S
      <3> HIDE DEF S
      <3> QED  BY <2>1, <2>4, <2>5, Induction
    <2>7. f[n] = g[n]
      <3>1. n \in 0..n  BY <2>1
      <3> QED  BY <2>6, <3>1
    <2>8. g[n + 1] = (g[n] + c) % CsumRange
      <3>1. n + 1 \in 1..(n + 1) /\ (n + 1) - 1 = n  BY <2>1
      <3>2. g[n + 1] = (g[(n + 1) - 1] + t[n + 1]) % CsumRange  BY <2>3, <3>1
      <3> QED  BY ONLY <2>1, <3>1, <3>2
    <2> QED  BY ONLY <2>2, <2>3, <2>7, <2>8 DEF t
  <1> QED  BY <1>1, <1>2, <1>3

-----------------------------------------------------------------------------
(* What the parser makes of a byte.                                         *)

LEMMA MadeIs ==
  ASSUME NEW d \in Seq(Byte), NEW st \in States, NEW c \in Csum
  PROVE  Made(d, st, c) \in Packet
  BY DEF Made, Packet, Csum

LEMMA CodesApart ==
  /\ Hash \in Byte /\ Star \in Byte /\ Dollar \in Byte
  /\ Hash # Star /\ Hash # Dollar /\ Star # Dollar /\ Dollar \in Starts
  BY DEF Hash, Star, Dollar, Byte, Starts

LEMMA SummedIs ==
  ASSUME NEW c \in Csum, NEW ch \in Byte
  PROVE  (c + ch) % CsumRange \in Csum
  <1>1. c \in Nat /\ ch \in Nat  BY CsumIs
  <1>2. \A a, b \in Nat : a + b \in Nat  OBVIOUS
  <1>3. c + ch \in Nat  BY ONLY <1>1, <1>2
  <1> QED  BY <1>3, Modulo

LEMMA FedData ==
  ASSUME NEW d, NEW c, NEW ch
  PROVE  Fed(Made(d, "data", c), ch) =
           IF ch = Hash THEN Made(Append(d, ch), "crc", c)
           ELSE IF ch = Star THEN Made(d, "run_length_coding", (c + ch) % CsumRange)
           ELSE Made(Append(d, ch), "data", (c + ch) % CsumRange)
  <1> DEFINE p == Made(d, "data", c)
  <1>1. p.state = "data" /\ p.data = d /\ p.csum = c  BY DEF Made
  <1>2. Fed(p, ch) = InData(p, ch)
    <2> HIDE DEF p
    <2> QED  BY <1>1 DEF Fed
  <1>3. InData(p, ch) =
          IF ch = Hash THEN Made(Append(d, ch), "crc", c)
          ELSE IF ch = Star THEN Made(d, "run_length_coding", (c + ch) % CsumRange)
          ELSE Made(Append(d, ch), "data", (c + ch) % CsumRange)
    BY DEF InData, Summed, Made
  <1> QED  BY <1>2, <1>3

LEMMA FedRun ==
  ASSUME NEW d, NEW c, NEW ch
  PROVE  Fed(Made(d, "run_length_coding", c), ch) =
           Made(d \o [i \in 1..(ch - Blank + 3) |-> Last(d)], "data", (c + ch) % CsumRange)
  <1> DEFINE p == Made(d, "run_length_coding", c)
  <1>1. p.state = "run_length_coding" /\ p.data = d /\ p.csum = c  BY DEF Made
  <1>2. Fed(p, ch) = InRun(p, ch)
    <2> HIDE DEF p
    <2> QED  BY <1>1 DEF Fed
  <1>3. InRun(p, ch) =
          Made(d \o [i \in 1..(ch - Blank + 3) |-> Last(d)], "data", (c + ch) % CsumRange)
    BY DEF InRun, Summed, Made
  <1> QED  BY <1>2, <1>3

LEMMA FedCrc ==
  ASSUME NEW d, NEW c, NEW ch
  PROVE  Fed(Made(d, "crc", c), ch) =
           Made(Append(d, ch),
                IF Append(d, ch)[Len(Append(d, ch)) - 2] = Hash THEN "complete" ELSE "crc", c)
  <1> DEFINE p == Made(d, "crc", c)
  <1>1. p.state = "crc" /\ p.data = d /\ p.csum = c  BY DEF Made
  <1>2. Fed(p, ch) = InCrc(p, ch)
    <2> HIDE DEF p
    <2> QED  BY <1>1 DEF Fed
  <1>3. InCrc(p, ch) =
          Made(Append(d, ch),
               IF Append(d, ch)[Len(Append(d, ch)) - 2] = Hash THEN "complete" ELSE "crc", c)
    BY DEF InCrc, Made
  <1> QED  BY <1>2, <1>3

LEMMA FreshIs == Fresh \in Packet /\ Fresh.state = "invalid"
  BY DEF Fresh, Made, Packet, States, CsumRange

LEMMA FedFirst ==
  ASSUME NEW ch
  PROVE  Fed(Fresh, ch) =
           IF ch \notin Starts THEN Fresh
           ELSE Made(<<ch>>, IF ch = Dollar THEN "data" ELSE "complete", 0)
  <1>1. Fed(Fresh, ch) = Begun(Fresh, ch)  BY FreshIs DEF Fed
  <1>2. Begun(Fresh, ch) =
          IF ch \notin Starts THEN Fresh
          ELSE Made(<<ch>>, IF ch = Dollar THEN "data" ELSE "complete", 0)
    BY DEF Begun, Fresh, Made
  <1> QED  BY <1>1, <1>2

-----------------------------------------------------------------------------
(* What it makes of a text.  A packet in the making takes every byte.       *)

Going == {"data", "run_length_coding", "crc"}

Parses(P, s) ==
  /\ P \in [0..Len(s) -> Packet] /\ P[0] = Fresh
  /\ \A i \in 1..Len(s) : P[i] = Fed(P[i - 1], s[i])
  /\ \A i \in 1..(Len(s) - 1) : P[i].state \in Going

ParsesTo(s, p) == \E P : Parses(P, s) /\ P[Len(s)] = p

LEMMA ParseNothing == ParsesTo(<<>>, Fresh)
  <1> DEFINE P == [i \in 0..0 |-> Fresh]
  <1>1. P \in [0..0 -> Packet] /\ P[0] = Fresh  BY FreshIs
  <1>2. Len(<<>>) = 0  OBVIOUS
  <1> HIDE DEF P
  <1>3. Parses(P, <<>>)  BY <1>1, <1>2 DEF Parses
  <1> QED  BY <1>1, <1>2, <1>3 DEF ParsesTo

LEMMA ParseNext ==
  ASSUME NEW s \in Seq(Byte), NEW p, ParsesTo(s, p), s = <<>> \/ p.state \in Going,
         NEW ch \in Byte, NEW q \in Packet, q = Fed(p, ch)
  PROVE  ParsesTo(Append(s, ch), q)
  <1> DEFINE t == Append(s, ch)
             n == Len(s)
  <1>1. /\ Len(t) = n + 1 /\ n \in Nat /\ t[n + 1] = ch
        /\ \A i \in 1..n : t[i] = s[i]
    BY AppendProperties, LenProperties
  <1>2. n # 0 => p.state \in Going  BY EmptySeq
  <1> HIDE DEF t, n
  <1>3. PICK P : Parses(P, s) /\ P[n] = p  BY DEF ParsesTo, n
  <1>4. /\ P \in [0..n -> Packet] /\ P[0] = Fresh
        /\ \A i \in 1..n : P[i] = Fed(P[i - 1], s[i])
        /\ \A i \in 1..(n - 1) : P[i].state \in Going
    BY <1>3 DEF Parses, n
  <1> DEFINE Q == [i \in 0..(n + 1) |-> IF i <= n THEN P[i] ELSE q]
  <1>5. Q \in [0..(n + 1) -> Packet]
    <2>1. \A i \in 0..(n + 1) : i <= n => i \in 0..n  BY <1>1
    <2>2. \A i \in 0..(n + 1) : (IF i <= n THEN P[i] ELSE q) \in Packet
      BY <1>4, <2>1
    <2> QED  BY <2>2
  <1>6. Q[n + 1] = q /\ Q[0] = Fresh /\ \A i \in 0..n : Q[i] = P[i]
    <2>1. /\ n + 1 \in 0..(n + 1) /\ ~(n + 1 <= n) /\ 0 \in 0..(n + 1) /\ 0 <= n
          /\ \A i \in 0..n : i \in 0..(n + 1) /\ i <= n
      BY <1>1
    <2> QED  BY <1>4, <2>1
  <1> HIDE DEF Q
  <1>7. ASSUME NEW i \in 1..(n + 1) PROVE Q[i] = Fed(Q[i - 1], t[i])
    <2>1. CASE i \in 1..n
      <3>1. i \in 0..n /\ i - 1 \in 0..n  BY <1>1, <2>1
      <3> QED  BY <1>1, <1>4, <1>6, <2>1, <3>1
    <2>2. CASE i = n + 1
      <3>1. n \in 0..n /\ i - 1 = n  BY <1>1, <2>2
      <3>2. Q[i - 1] = p  BY <1>3, <1>6, <3>1
      <3> QED  BY <1>1, <1>6, <2>2, <3>2
    <2>3. i \in 1..n \/ i = n + 1  BY <1>1
    <2> QED  BY <2>1, <2>2, <2>3
  <1>8. ASSUME NEW i \in 1..((n + 1) - 1) PROVE Q[i].state \in Going
    <2>1. i \in 0..n  BY <1>1
    <2>2. CASE i = n
      <3>1. n # 0  BY <1>1, <2>2
      <3> QED  BY <1>2, <1>3, <1>6, <2>1, <2>2, <3>1
    <2>3. CASE i # n
      <3>1. i \in 1..(n - 1)  BY <1>1, <2>3
      <3> QED  BY <1>4, <1>6, <2>1, <3>1
    <2> QED  BY <2>2, <2>3
  <1>9. Parses(Q, t)  BY <1>1, <1>5, <1>6, <1>7, <1>8 DEF Parses
  <1> QED  BY <1>1, <1>6, <1>9 DEF ParsesTo, t

-----------------------------------------------------------------------------
(* What it makes of a data packet, of each byte and of each run.            *)

LEMMA PlainIs ==
  /\ PlainByte \subseteq Byte
  /\ \A c \in PlainByte : c # Hash /\ c # Star /\ c # Dollar
  BY DEF PlainByte

LEMMA Dollared ==
  ASSUME NEW s \in Seq(Byte), NEW c \in Byte
  PROVE  /\ <<Dollar>> \o s \in Seq(Byte) /\ <<Dollar>> \o s # <<>>
         /\ Append(<<Dollar>> \o s, c) = <<Dollar>> \o Append(s, c)
  <1>1. <<Dollar>> \in Seq(Byte) /\ <<c>> \in Seq(Byte) /\ Len(<<Dollar>>) = 1
    BY CodesApart
  <1> DEFINE one == <<Dollar>>
             two == <<c>>
  <1> HIDE DEF one, two
  <1>2. one \o s \in Seq(Byte) /\ Len(one \o s) = 1 + Len(s)
    BY <1>1, ConcatProperties DEF one
  <1>3. one \o s # <<>>
    <2>1. Len(s) \in Nat  BY LenProperties
    <2>2. Len(one \o s) # 0  BY <1>2, <2>1
    <2> QED  BY <2>2, EmptySeq
  <1>4. Append(one \o s, c) = (one \o s) \o two
    BY <1>2, AppendIsConcat DEF two
  <1>5. Append(s, c) = s \o two  BY AppendIsConcat DEF two
  <1>6. (one \o s) \o two = one \o (s \o two)
    BY <1>1, ConcatAssociative DEF one, two
  <1> QED  BY <1>2, <1>3, <1>4, <1>5, <1>6 DEF one

InText(s, d)  == ParsesTo(<<Dollar>> \o s, Made(<<Dollar>> \o d, "data", Sum(s)))
InCount(s, d) ==
  ParsesTo(<<Dollar>> \o s, Made(<<Dollar>> \o d, "run_length_coding", Sum(s)))

LEMMA TextStarts == InText(<<>>, <<>>)
  <1>1. ParsesTo(<<>>, Fresh)  BY ParseNothing
  <1>2. Fed(Fresh, Dollar) = Made(<<Dollar>>, "data", 0)  BY FedFirst, CodesApart
  <1>3. Made(<<Dollar>>, "data", 0) \in Packet
    <2>1. <<Dollar>> \in Seq(Byte)  BY CodesApart
    <2>2. "data" \in States /\ 0 \in Csum  BY CsumIs DEF States
    <2> QED  BY <2>1, <2>2, MadeIs
  <1>4. <<>> \in Seq(Byte) /\ Dollar \in Byte  BY CodesApart
  <1>5. ParsesTo(Append(<<>>, Dollar), Made(<<Dollar>>, "data", 0))
    BY <1>1, <1>2, <1>3, <1>4, ParseNext
  <1>6. <<Dollar>> \o <<>> = <<Dollar>>
    <2>1. <<Dollar>> \in Seq(Byte)  BY CodesApart
    <2> QED  BY <2>1, ConcatEmptySeq
  <1>7. Append(<<>>, Dollar) = <<Dollar>>  OBVIOUS
  <1> QED  BY <1>5, <1>6, <1>7, SumFacts DEF InText

LEMMA TextByte ==
  ASSUME NEW s \in Seq(Byte), NEW d \in Seq(Byte), InText(s, d), NEW c \in PlainByte
  PROVE  InText(Append(s, c), Append(d, c))
  <1> DEFINE p == Made(<<Dollar>> \o d, "data", Sum(s))
             q == Made(<<Dollar>> \o Append(d, c), "data", Sum(Append(s, c)))
  <1>1. c \in Byte /\ c # Hash /\ c # Star  BY PlainIs
  <1>2. /\ <<Dollar>> \o s \in Seq(Byte)
        /\ Append(<<Dollar>> \o s, c) = <<Dollar>> \o Append(s, c)
        /\ Append(<<Dollar>> \o d, c) = <<Dollar>> \o Append(d, c)
        /\ <<Dollar>> \o Append(d, c) \in Seq(Byte)
    BY <1>1, Dollared, AppendProperties
  <1>3. Sum(s) \in Csum /\ Sum(Append(s, c)) = (Sum(s) + c) % CsumRange
        /\ Sum(Append(s, c)) \in Csum
    BY <1>1, SumFacts, AppendProperties
  <1>4. q = Fed(p, c)
    <2>1. Fed(p, c) = Made(Append(<<Dollar>> \o d, c), "data", (Sum(s) + c) % CsumRange)
      BY <1>1, FedData
    <2> QED  BY ONLY <1>2, <1>3, <2>1
  <1>5. q \in Packet
    <2>1. "data" \in States  BY DEF States
    <2> QED  BY <1>2, <1>3, <2>1, MadeIs
  <1>6. p.state \in Going  BY DEF Made, Going
  <1>7. ParsesTo(<<Dollar>> \o s, p)  BY DEF InText
  <1> HIDE DEF p, q
  <1>8. ParsesTo(Append(<<Dollar>> \o s, c), q)
    BY <1>1, <1>2, <1>4, <1>5, <1>6, <1>7, ParseNext
  <1> QED  BY <1>2, <1>8 DEF InText, q

LEMMA TextStar ==
  ASSUME NEW s \in Seq(Byte), NEW d \in Seq(Byte), InText(s, d)
  PROVE  InCount(Append(s, Star), d)
  <1> DEFINE p == Made(<<Dollar>> \o d, "data", Sum(s))
             q == Made(<<Dollar>> \o d, "run_length_coding", Sum(Append(s, Star)))
  <1>1. Star \in Byte /\ Star # Hash  BY CodesApart
  <1>2. /\ <<Dollar>> \o s \in Seq(Byte)
        /\ Append(<<Dollar>> \o s, Star) = <<Dollar>> \o Append(s, Star)
        /\ <<Dollar>> \o d \in Seq(Byte)
    BY <1>1, Dollared
  <1>3. /\ Sum(Append(s, Star)) = (Sum(s) + Star) % CsumRange
        /\ Sum(Append(s, Star)) \in Csum
    BY <1>1, SumFacts, AppendProperties
  <1>4. q = Fed(p, Star)  BY <1>1, <1>3, FedData
  <1>5. q \in Packet
    <2>1. "run_length_coding" \in States  BY DEF States
    <2> QED  BY <1>2, <1>3, <2>1, MadeIs
  <1>6. p.state \in Going  BY DEF Made, Going
  <1>7. ParsesTo(<<Dollar>> \o s, p)  BY DEF InText
  <1> HIDE DEF p, q
  <1>8. ParsesTo(Append(<<Dollar>> \o s, Star), q)
    BY <1>1, <1>2, <1>4, <1>5, <1>6, <1>7, ParseNext
  <1> QED  BY <1>2, <1>8 DEF InCount, q

Repeat(c, n) == [i \in 1..n |-> c]

LEMMA RepeatIs ==
  ASSUME NEW c \in PlainByte, NEW n \in Nat
  PROVE  /\ Repeat(c, n) \in Seq(PlainByte) /\ Repeat(c, n) \in Seq(Byte)
         /\ <<c>> \o Repeat(c, n) = Repeat(c, n + 1)
  <1> DEFINE one == <<c>>
             r == Repeat(c, n)
             t == Repeat(c, n + 1)
             j == one \o r
  <1>1. one \in Seq(PlainByte) /\ Len(one) = 1 /\ one[1] = c  OBVIOUS
  <1>2. r \in Seq(PlainByte) /\ Len(r) = n /\ \A i \in 1..n : r[i] = c
    BY DEF Repeat
  <1>3. t \in Seq(PlainByte) /\ Len(t) = n + 1 /\ \A i \in 1..(n + 1) : t[i] = c
    BY DEF Repeat
  <1> HIDE DEF one, r, t
  <1>4. /\ j \in Seq(PlainByte) /\ Len(j) = 1 + n
        /\ \A i \in 1..(1 + n) : j[i] = IF i <= 1 THEN one[i] ELSE r[i - 1]
    <2>1. /\ j \in Seq(PlainByte) /\ Len(j) = Len(one) + Len(r)
          /\ \A i \in 1..(Len(one) + Len(r)) :
               j[i] = IF i <= Len(one) THEN one[i] ELSE r[i - Len(one)]
      BY <1>1, <1>2, ConcatProperties
    <2> HIDE DEF j
    <2> QED  BY ONLY <1>1, <1>2, <2>1
  <1> HIDE DEF j
  <1>5. ASSUME NEW i \in 1..(n + 1) PROVE j[i] = t[i]
    <2>1. i <= 1 => i = 1  OBVIOUS
    <2>2. ~(i <= 1) => i - 1 \in 1..n  OBVIOUS
    <2>3. i \in 1..(1 + n)  OBVIOUS
    <2> QED  BY <1>1, <1>2, <1>3, <1>4, <2>1, <2>2, <2>3
  <1>6. j = t  BY <1>3, <1>4, <1>5, SeqEqual
  <1>7. r \in Seq(Byte)  BY <1>2, PlainIs, SeqMonotonic
  <1> QED  BY <1>2, <1>6, <1>7 DEF j, one, r, t

LEMMA TextCount ==
  ASSUME NEW s \in Seq(Byte), NEW d \in Seq(Byte), NEW c \in PlainByte,
         InCount(s, Append(d, c)), NEW k \in Byte, k >= Blank
  PROVE  InText(Append(s, k), Append(d, c) \o Repeat(c, k - Blank + 3))
  <1> DEFINE e == Append(d, c)
             r == Repeat(c, k - Blank + 3)
             f == <<Dollar>> \o e
             p == Made(f, "run_length_coding", Sum(s))
             q == Made(<<Dollar>> \o (e \o r), "data", Sum(Append(s, k)))
  <1>1. c \in Byte /\ k - Blank + 3 \in Nat
    <2>1. k \in Nat  BY CsumIs
    <2> QED  BY <2>1, PlainIs DEF Blank
  <1>2. r \in Seq(Byte)  BY <1>1, RepeatIs
  <1>3. e \in Seq(Byte) /\ Len(e) = Len(d) + 1 /\ Len(d) \in Nat /\ e[Len(d) + 1] = c
    BY <1>1, AppendProperties, LenProperties
  <1>4. /\ <<Dollar>> \o s \in Seq(Byte)
        /\ Append(<<Dollar>> \o s, k) = <<Dollar>> \o Append(s, k)
        /\ f \in Seq(Byte) /\ f = Append(<<Dollar>> \o d, c)
        /\ <<Dollar>> \o d \in Seq(Byte)
    BY <1>1, <1>3, Dollared
  <1>5. Last(f) = c
    <2> DEFINE g == <<Dollar>> \o d
    <2>1. g \in Seq(Byte) /\ f = Append(g, c)  BY <1>4
    <2> HIDE DEF g, f
    <2>2. Len(f) = Len(g) + 1 /\ f[Len(g) + 1] = c  BY <1>1, <2>1, AppendProperties
    <2> QED  BY <2>2 DEF Last
  <1>6. e \o r \in Seq(Byte)  BY <1>2, <1>3, ConcatProperties
  <1>7. <<Dollar>> \o (e \o r) \in Seq(Byte)  BY <1>6, CodesApart, Dollared
  <1>8. f \o r = <<Dollar>> \o (e \o r)
    <2>1. <<Dollar>> \in Seq(Byte)  BY CodesApart
    <2> HIDE DEF e, r
    <2> QED  BY <1>2, <1>3, <2>1, ConcatAssociative
  <1>9. /\ Sum(Append(s, k)) = (Sum(s) + k) % CsumRange
        /\ Sum(Append(s, k)) \in Csum
    BY SumFacts, AppendProperties
  <1>10. q = Fed(p, k)
    <2>1. Fed(p, k) = Made(f \o [i \in 1..(k - Blank + 3) |-> Last(f)], "data",
                           (Sum(s) + k) % CsumRange)
      BY FedRun
    <2>2. [i \in 1..(k - Blank + 3) |-> Last(f)] = r  BY <1>5 DEF Repeat
    <2> QED  BY ONLY <1>8, <1>9, <2>1, <2>2
  <1>11. q \in Packet
    <2>1. "data" \in States  BY DEF States
    <2> QED  BY <1>7, <1>9, <2>1, MadeIs
  <1>12. p.state \in Going  BY DEF Made, Going
  <1>13. ParsesTo(<<Dollar>> \o s, p)  BY DEF InCount
  <1> HIDE DEF p, q
  <1>14. ParsesTo(Append(<<Dollar>> \o s, k), q)
    BY <1>4, <1>10, <1>11, <1>12, <1>13, ParseNext
  <1> QED  BY <1>4, <1>14 DEF InText, q

LEMMA RunIs ==
  ASSUME NEW r \in Run
  PROVE  /\ r.ch \in PlainByte /\ r.more \in Nat
         /\ r.more # 0 => r.more + Blank - 3 \in Byte /\ r.more + Blank - 3 >= Blank
         /\ (r.more + Blank - 3) - Blank + 3 = r.more
         /\ Written(r) = Repeat(r.ch, r.more + 1) /\ Written(r) \in Seq(PlainByte)
         /\ Coded(r) \in Seq(Byte)
  <1>1. r.ch \in PlainByte /\ r.more \in {0} \cup {c - Blank + 3 : c \in Counts}
    BY DEF Run
  <1>2. r.more \in Nat /\ (r.more # 0 => r.more \in 3..97)
    BY <1>1 DEF Counts, Blank
  <1>3. /\ r.more # 0 => r.more + Blank - 3 \in Byte /\ r.more + Blank - 3 >= Blank
        /\ (r.more + Blank - 3) - Blank + 3 = r.more
    BY <1>2 DEF Blank, Byte
  <1>4. Written(r) = Repeat(r.ch, r.more + 1)  BY DEF Written, Repeat
  <1>5. Written(r) \in Seq(PlainByte)
    <2>1. r.more + 1 \in Nat  BY <1>2
    <2> QED  BY <1>1, <1>4, <2>1, RepeatIs
  <1>6. Coded(r) \in Seq(Byte)
    <2>1. r.ch \in Byte /\ Star \in Byte  BY <1>1, PlainIs, CodesApart
    <2>2. CASE r.more = 0  BY <2>1, <2>2 DEF Coded
    <2>3. CASE r.more # 0
      <3> DEFINE k == r.more + Blank - 3
                 c == r.ch
      <3>1. c \in Byte /\ k \in Byte /\ Coded(r) = <<c, Star, k>>
        BY <1>3, <2>1, <2>3 DEF Coded
      <3> HIDE DEF k, c
      <3>2. <<c, Star, k>> \in Seq(Byte)  BY <2>1, <3>1
      <3> QED  BY <3>1, <3>2
    <2> QED  BY <2>2, <2>3
  <1> QED  BY <1>1, <1>2, <1>3, <1>4, <1>5, <1>6

LEMMA AppendThree ==
  ASSUME NEW s \in Seq(Byte), NEW a \in Byte, NEW b \in Byte, NEW c \in Byte
  PROVE  s \o <<a, b, c>> = Append(Append(Append(s, a), b), c)
  <1> DEFINE t == Append(s, a)
             u == Append(t, b)
  <1>1. /\ <<a>> \in Seq(Byte) /\ <<b>> \in Seq(Byte) /\ <<c>> \in Seq(Byte)
        /\ <<a, b>> \in Seq(Byte) /\ <<a>> \o <<b>> = <<a, b>>
        /\ <<a, b>> \o <<c>> = <<a, b, c>>
    <2>1. <<a>> \in Seq(Byte)  OBVIOUS
    <2>2. <<b>> \in Seq(Byte)  OBVIOUS
    <2>3. <<c>> \in Seq(Byte)  OBVIOUS
    <2>4. <<a, b>> \in Seq(Byte)  OBVIOUS
    <2>5. <<a>> \o <<b>> = <<a, b>>
      <3>1. Append(<<a>>, b) = <<a>> \o <<b>>  BY <2>1, AppendIsConcat
      <3> DEFINE x == Append(<<a>>, b)
                 y == <<a, b>>
      <3>2. x \in Seq(Byte) /\ Len(x) = 2 /\ x[1] = a /\ x[2] = b
        <4> DEFINE z == <<a>>
        <4>1. z \in Seq(Byte) /\ Len(z) = 1 /\ z[1] = a /\ 1 + 1 = 2  OBVIOUS
        <4> HIDE DEF z
        <4>2. Append(z, b) \in Seq(Byte) /\ Len(Append(z, b)) = 2
              /\ Append(z, b)[1] = a /\ Append(z, b)[2] = b
          <5>1. /\ Append(z, b) \in Seq(Byte) /\ Len(Append(z, b)) = Len(z) + 1
                /\ Append(z, b)[Len(z) + 1] = b
                /\ \A i \in 1..Len(z) : Append(z, b)[i] = z[i]
            <6>1. z \in Seq(Byte)  BY <4>1
            <6> QED  BY ONLY <6>1, b \in Byte, AppendProperties
          <5> QED  BY ONLY <4>1, <5>1
        <4> QED  BY <4>2 DEF z
      <3>3. y \in Seq(Byte) /\ Len(y) = 2 /\ y[1] = a /\ y[2] = b  OBVIOUS
      <3> HIDE DEF x, y
      <3>4. \A i \in 1..2 : i = 1 \/ i = 2  OBVIOUS
      <3>5. x = y  BY <3>2, <3>3, <3>4, SeqEqual
      <3> QED  BY <3>1, <3>5 DEF x, y
    <2>6. <<a, b>> \o <<c>> = <<a, b, c>>
      <3>1. Append(<<a, b>>, c) = <<a, b>> \o <<c>>  BY <2>4, AppendIsConcat
      <3> DEFINE x == Append(<<a, b>>, c)
                 y == <<a, b, c>>
      <3>2. x \in Seq(Byte) /\ Len(x) = 3 /\ x[1] = a /\ x[2] = b /\ x[3] = c
        <4> DEFINE z == <<a, b>>
        <4>1. z \in Seq(Byte) /\ Len(z) = 2 /\ z[1] = a /\ z[2] = b /\ 2 + 1 = 3  OBVIOUS
        <4> HIDE DEF z
        <4>2. Append(z, c) \in Seq(Byte) /\ Len(Append(z, c)) = 3
              /\ Append(z, c)[1] = a /\ Append(z, c)[2] = b /\ Append(z, c)[3] = c
          <5>1. /\ Append(z, c) \in Seq(Byte) /\ Len(Append(z, c)) = Len(z) + 1
                /\ Append(z, c)[Len(z) + 1] = c
                /\ \A i \in 1..Len(z) : Append(z, c)[i] = z[i]
            <6>1. z \in Seq(Byte)  BY <4>1
            <6> QED  BY ONLY <6>1, c \in Byte, AppendProperties
          <5> QED  BY ONLY <4>1, <5>1
        <4> QED  BY <4>2 DEF z
      <3>3. y \in Seq(Byte) /\ Len(y) = 3 /\ y[1] = a /\ y[2] = b /\ y[3] = c  OBVIOUS
      <3> HIDE DEF x, y
      <3>4. \A i \in 1..3 : i = 1 \/ i = 2 \/ i = 3  OBVIOUS
      <3>5. x = y  BY <3>2, <3>3, <3>4, SeqEqual
      <3> QED  BY <3>1, <3>5 DEF x, y
    <2> QED  BY <2>1, <2>2, <2>3, <2>4, <2>5, <2>6
  <1>2. t \in Seq(Byte) /\ t = s \o <<a>>  BY AppendProperties, AppendIsConcat
  <1> HIDE DEF t
  <1>3. u \in Seq(Byte) /\ u = t \o <<b>>  BY <1>2, AppendProperties, AppendIsConcat
  <1> HIDE DEF u
  <1>4. Append(u, c) = u \o <<c>>  BY <1>3, AppendIsConcat
  <1>5. u = s \o <<a, b>>
    <2>1. (s \o <<a>>) \o <<b>> = s \o (<<a>> \o <<b>>)
      BY <1>1, ConcatAssociative
    <2> QED  BY ONLY <1>1, <1>2, <1>3, <2>1
  <1>6. (s \o <<a, b>>) \o <<c>> = s \o (<<a, b>> \o <<c>>)
    BY <1>1, ConcatAssociative
  <1> QED  BY <1>1, <1>4, <1>5, <1>6 DEF t, u

LEMMA TextRun ==
  ASSUME NEW s \in Seq(Byte), NEW d \in Seq(Byte), InText(s, d), NEW r \in Run
  PROVE  InText(s \o Coded(r), d \o Written(r))
  <1> DEFINE c == r.ch
             k == r.more + Blank - 3
             e == Append(d, c)
             t == Append(s, c)
             u == Append(t, Star)
  <1>1. c \in PlainByte /\ c \in Byte /\ Star \in Byte /\ Blank - 3 \in Nat
    BY RunIs, PlainIs, CodesApart DEF Blank
  <1>2. t \in Seq(Byte) /\ e \in Seq(Byte)  BY <1>1, AppendProperties
  <1>3. InText(t, e)  BY <1>1, TextByte
  <1>4. e = d \o <<c>> /\ t = s \o <<c>>  BY <1>1, AppendIsConcat
  <1>5. CASE r.more = 0
    <2>1. Coded(r) = <<c>>  BY <1>5 DEF Coded
    <2>2. Written(r) = <<c>>
      <3>1. Written(r) = [i \in 1..1 |-> c]  BY <1>5 DEF Written
      <3> HIDE DEF c
      <3>2. [i \in 1..1 |-> c] = <<c>>  OBVIOUS
      <3> QED  BY <3>1, <3>2
    <2> QED  BY ONLY <1>3, <1>4, <2>1, <2>2
  <1>6. CASE r.more # 0
    <2>1. k \in Byte /\ k >= Blank /\ k - Blank + 3 = r.more /\ r.more \in Nat
      BY <1>6, RunIs
    <2>2. Coded(r) = <<c, Star, k>>  BY <1>6 DEF Coded
    <2>3. Written(r) = Repeat(c, r.more + 1)  BY RunIs
    <2> HIDE DEF k, c
    <2>4. InCount(u, e)  BY <1>2, <1>3, TextStar
    <2>5. u \in Seq(Byte)  BY <1>1, <1>2, AppendProperties
    <2>6. s \o <<c, Star, k>> = Append(u, k)  BY <1>1, <2>1, AppendThree
    <2>7. Repeat(c, r.more) \in Seq(Byte) /\ <<c>> \o Repeat(c, r.more) = Repeat(c, r.more + 1)
      BY <1>1, <2>1, RepeatIs
    <2> DEFINE rep == Repeat(c, r.more)
    <2>8. InText(Append(u, k), e \o rep)
      <3> HIDE DEF u
      <3>1. InText(Append(u, k), Append(d, c) \o Repeat(c, k - Blank + 3))
        BY <1>1, <2>1, <2>4, <2>5, TextCount
      <3> QED  BY ONLY <2>1, <3>1
    <2>9. e \o rep = d \o Repeat(c, r.more + 1)
      <3> HIDE DEF rep, e
      <3>1. <<c>> \in Seq(Byte)  BY <1>1
      <3>2. (d \o <<c>>) \o rep = d \o (<<c>> \o rep)
        BY <2>7, <3>1, ConcatAssociative DEF rep
      <3> QED  BY <1>4, <2>7, <3>2 DEF rep
    <2> QED  BY ONLY <2>2, <2>3, <2>6, <2>8, <2>9
  <1> QED  BY <1>5, <1>6

CodedBy   == [r \in Run |-> Coded(r)]
WrittenBy == [r \in Run |-> Written(r)]
Body(runs)    == FlattenSeq(Mapped(CodedBy, runs))
Meaning(runs) == FlattenSeq(Mapped(WrittenBy, runs))

LEMMA BodyIs ==
  /\ Body(<<>>) = <<>> /\ Meaning(<<>>) = <<>>
  /\ \A s \in Seq(Run) : Body(s) \in Seq(Byte) /\ Meaning(s) \in Seq(PlainByte)
  /\ \A s \in Seq(Run), r \in Run :
       /\ Body(Append(s, r)) = Body(s) \o Coded(r)
       /\ Meaning(Append(s, r)) = Meaning(s) \o Written(r)
  <1>1. CodedBy \in [Run -> Seq(Byte)] /\ WrittenBy \in [Run -> Seq(PlainByte)]
    <2>1. \A r \in Run : Coded(r) \in Seq(Byte)  BY RunIs
    <2>2. \A r \in Run : Written(r) \in Seq(PlainByte)  BY RunIs
    <2> QED  BY <2>1, <2>2 DEF CodedBy, WrittenBy
  <1>2. \A r \in Run : CodedBy[r] = Coded(r) /\ WrittenBy[r] = Written(r)
    BY DEF CodedBy, WrittenBy
  <1>3. /\ Body(<<>>) = <<>>
        /\ \A s \in Seq(Run) : Body(s) \in Seq(Byte)
        /\ \A s \in Seq(Run), r \in Run : Body(Append(s, r)) = Body(s) \o CodedBy[r]
    BY <1>1, FlattenMapped DEF Body
  <1>4. /\ Meaning(<<>>) = <<>>
        /\ \A s \in Seq(Run) : Meaning(s) \in Seq(PlainByte)
        /\ \A s \in Seq(Run), r \in Run : Meaning(Append(s, r)) = Meaning(s) \o WrittenBy[r]
    BY <1>1, FlattenMapped DEF Meaning
  <1> QED  BY <1>2, <1>3, <1>4

LEMMA DataIs ==
  ASSUME NEW runs \in Seq(Run)
  PROVE  /\ Data(runs) = [bytes |-> Encoded(Body(runs)), meant |-> Meaning(runs)]
  <1>1. \A i \in DOMAIN runs : runs[i] \in Run
    <2>1. DOMAIN runs = 1..Len(runs)  BY LenProperties
    <2> QED  BY <2>1, ElementOfSeq
  <1>2. [i \in DOMAIN runs |-> Coded(runs[i])] = Mapped(CodedBy, runs)
    BY <1>1 DEF Mapped, CodedBy
  <1>3. [i \in DOMAIN runs |-> Written(runs[i])] = Mapped(WrittenBy, runs)
    BY <1>1 DEF Mapped, WrittenBy
  <1> QED  BY <1>2, <1>3 DEF Data, Body, Meaning

(* However it is run-length encoded, a text is taken for what it means, and  *)
(* its sum is the one of the bytes that were sent.                          *)
LEMMA TextParsed ==
  ASSUME NEW runs \in Seq(Run)
  PROVE  InText(Body(runs), Meaning(runs))
  <1> DEFINE S == {t \in Seq(Run) : InText(Body(t), Meaning(t))}
  <1>1. <<>> \in S
    <2>1. <<>> \in Seq(Run)  OBVIOUS
    <2>2. InText(Body(<<>>), Meaning(<<>>))  BY BodyIs, TextStarts
    <2> QED  BY <2>1, <2>2
  <1>2. ASSUME NEW t \in Seq(Run), NEW r \in Run, t \in S PROVE Append(t, r) \in S
    <2>1. Append(t, r) \in Seq(Run)  BY AppendProperties
    <2>2. Body(t) \in Seq(Byte) /\ Meaning(t) \in Seq(Byte) /\ InText(Body(t), Meaning(t))
      BY <1>2, BodyIs, PlainIs, SeqMonotonic
    <2>3. InText(Body(t) \o Coded(r), Meaning(t) \o Written(r))  BY <2>2, TextRun
    <2>4. InText(Body(Append(t, r)), Meaning(Append(t, r)))  BY <2>3, BodyIs
    <2> QED  BY <2>1, <2>4
  <1>3. Seq(Run) \subseteq S
    <2> HIDE DEF S
    <2> QED  BY <1>1, <1>2, SequenceInduct
  <1> QED  BY <1>3

-----------------------------------------------------------------------------
(* '#' and the two digits of the checksum complete it.                      *)

High(sum) == HexDigit(sum \div 16)
Low(sum)  == HexDigit(sum % 16)

LEMMA DigitsAre ==
  ASSUME NEW sum \in Csum
  PROVE  /\ High(sum) \in Byte /\ Low(sum) \in Byte
         /\ Digits(sum) = <<Hash, High(sum), Low(sum)>>
         /\ 16 * Nibble(High(sum)) + Nibble(Low(sum)) = sum
  <1> DEFINE h == sum \div 16
             l == sum % 16
  <1>1. h \in 0..15 /\ l \in 0..15 /\ 16 * h + l = sum
    <2>1. sum \in 0..255  BY CsumIs
    <2> QED  BY <2>1
  <1>2. \A n \in 0..15 : HexDigit(n) \in Byte /\ Nibble(HexDigit(n)) = n
    BY DEF HexDigit, Nibble, Byte
  <1>3. Digits(sum) = <<Hash, High(sum), Low(sum)>>  BY DEF Digits, High, Low
  <1> HIDE DEF h, l
  <1>4. HexDigit(h) \in Byte /\ HexDigit(l) \in Byte
        /\ Nibble(HexDigit(h)) = h /\ Nibble(HexDigit(l)) = l
    BY <1>1, <1>2
  <1> QED  BY ONLY <1>1, <1>3, <1>4 DEF h, l, High, Low

LEMMA LastOfText ==
  ASSUME NEW d \in Seq(PlainByte)
  PROVE  /\ <<Dollar>> \o d \in Seq(Byte) /\ Len(<<Dollar>> \o d) = Len(d) + 1
         /\ (<<Dollar>> \o d)[1] = Dollar
         /\ \A i \in 1..Len(d) : (<<Dollar>> \o d)[i + 1] = d[i]
         /\ (<<Dollar>> \o d)[Len(d) + 1] # Hash
  <1> DEFINE one == <<Dollar>>
             n == Len(d)
             x == one \o d
  <1>1. one \in Seq(Byte) /\ Len(one) = 1 /\ one[1] = Dollar  BY CodesApart
  <1>2. d \in Seq(Byte) /\ n \in Nat  BY PlainIs, SeqMonotonic, LenProperties
  <1> HIDE DEF one
  <1>3. /\ x \in Seq(Byte) /\ Len(x) = 1 + n
        /\ \A i \in 1..(1 + n) : x[i] = IF i <= 1 THEN one[i] ELSE d[i - 1]
    <2>1. /\ x \in Seq(Byte) /\ Len(x) = Len(one) + n
          /\ \A i \in 1..(Len(one) + n) :
               x[i] = IF i <= Len(one) THEN one[i] ELSE d[i - Len(one)]
      BY <1>1, <1>2, ConcatProperties
    <2> HIDE DEF x, n
    <2> QED  BY ONLY <1>1, <1>2, <2>1
  <1> HIDE DEF x
  <1>4. x[1] = Dollar
    <2>1. 1 \in 1..(1 + n)  BY <1>2
    <2> QED  BY <1>1, <1>3, <2>1
  <1>5. ASSUME NEW i \in 1..n PROVE x[i + 1] = d[i]
    <2>1. i + 1 \in 1..(1 + n) /\ ~(i + 1 <= 1) /\ (i + 1) - 1 = i  BY <1>2
    <2> QED  BY <1>3, <2>1
  <1>6. x[n + 1] # Hash
    <2>1. CASE n = 0  BY <1>4, <2>1, CodesApart
    <2>2. CASE n # 0
      <3>1. n \in 1..n  BY <1>2, <2>2
      <3>2. d[n] \in PlainByte  BY <3>1, ElementOfSeq
      <3> QED  BY <1>5, <3>1, <3>2, PlainIs
    <2> QED  BY <2>1, <2>2
  <1>7. 1 + n = n + 1  BY <1>2
  <1> QED  BY <1>3, <1>4, <1>5, <1>6, <1>7 DEF x, one

Ended(d, sum) == Append(Append(Append(<<Dollar>> \o d, Hash), High(sum)), Low(sum))

LEMMA EndedIs ==
  ASSUME NEW d \in Seq(PlainByte), NEW sum \in Csum
  PROVE  /\ Ended(d, sum) \in Seq(Byte) /\ Len(Ended(d, sum)) = Len(d) + 4
         /\ Ended(d, sum)[1] = Dollar
         /\ \A i \in 1..Len(d) : Ended(d, sum)[i + 1] = d[i]
         /\ Ended(d, sum)[Len(d) + 3] = High(sum)
         /\ Ended(d, sum)[Len(d) + 4] = Low(sum)
         /\ Fed(Made(<<Dollar>> \o d, "data", sum), Hash)
              = Made(Append(<<Dollar>> \o d, Hash), "crc", sum)
         /\ Fed(Made(Append(<<Dollar>> \o d, Hash), "crc", sum), High(sum))
              = Made(Append(Append(<<Dollar>> \o d, Hash), High(sum)), "crc", sum)
         /\ Fed(Made(Append(Append(<<Dollar>> \o d, Hash), High(sum)), "crc", sum), Low(sum))
              = Made(Ended(d, sum), "complete", sum)
  <1> DEFINE n == Len(d)
             x == <<Dollar>> \o d
             high == High(sum)
             low  == Low(sum)
             y == Append(x, Hash)
             z == Append(y, high)
             e == Append(z, low)
  <1>1. high \in Byte /\ low \in Byte /\ Hash \in Byte  BY DigitsAre, CodesApart
  <1>2. n \in Nat  BY LenProperties
  <1>3. /\ x \in Seq(Byte) /\ Len(x) = n + 1 /\ x[1] = Dollar /\ x[n + 1] # Hash
        /\ \A i \in 1..n : x[i + 1] = d[i]
    BY LastOfText
  <1> HIDE DEF n, x, high, low
  <1>4. /\ y \in Seq(Byte) /\ Len(y) = Len(x) + 1 /\ y[Len(x) + 1] = Hash
        /\ \A i \in 1..Len(x) : y[i] = x[i]
    BY <1>1, <1>3, AppendProperties
  <1> HIDE DEF y
  <1>5. /\ z \in Seq(Byte) /\ Len(z) = Len(y) + 1 /\ z[Len(y) + 1] = high
        /\ \A i \in 1..Len(y) : z[i] = y[i]
    BY <1>1, <1>4, AppendProperties
  <1> HIDE DEF z
  <1>6. /\ e \in Seq(Byte) /\ Len(e) = Len(z) + 1 /\ e[Len(z) + 1] = low
        /\ \A i \in 1..Len(z) : e[i] = z[i]
    BY <1>1, <1>5, AppendProperties
  <1> HIDE DEF e
  <1>7. /\ (n + 1) + 1 = n + 2 /\ (n + 2) + 1 = n + 3 /\ (n + 3) + 1 = n + 4
        /\ (n + 3) - 2 = n + 1 /\ (n + 4) - 2 = n + 2
        /\ n + 1 \in 1..(n + 1) /\ n + 1 \in 1..(n + 2) /\ n + 2 \in 1..(n + 2)
        /\ n + 2 \in 1..(n + 3) /\ n + 3 \in 1..(n + 3)
        /\ 1 \in 1..(n + 1) /\ 1 \in 1..(n + 2) /\ 1 \in 1..(n + 3)
        /\ \A i \in 1..n : i + 1 \in 1..(n + 1) /\ i + 1 \in 1..(n + 2) /\ i + 1 \in 1..(n + 3)
    BY <1>2
  <1>8. Len(y) = n + 2 /\ Len(z) = n + 3 /\ Len(e) = n + 4
    BY ONLY <1>3, <1>4, <1>5, <1>6, <1>7
  <1>9. e[1] = Dollar /\ e[n + 3] = high /\ e[n + 4] = low /\ e[n + 2] = Hash
    BY ONLY <1>3, <1>4, <1>5, <1>6, <1>7, <1>8
  <1>10. ASSUME NEW i \in 1..n PROVE e[i + 1] = d[i]
    <2>1. i + 1 \in 1..Len(x) /\ i + 1 \in 1..Len(y) /\ i + 1 \in 1..Len(z)
      BY ONLY <1>3, <1>7, <1>8, i \in 1..n
    <2> QED  BY ONLY <1>3, <1>4, <1>5, <1>6, <2>1, i \in 1..n
  <1>11. z[n + 1] # Hash
    BY ONLY <1>3, <1>4, <1>5, <1>7, <1>8
  <1>12. Fed(Made(x, "data", sum), Hash) = Made(y, "crc", sum)
    BY FedData DEF y
  <1>13. Fed(Made(y, "crc", sum), high) = Made(z, "crc", sum)
    <2>1. Append(y, high) = z  BY DEF z
    <2>2. Fed(Made(y, "crc", sum), high) =
            Made(Append(y, high),
                 IF Append(y, high)[Len(Append(y, high)) - 2] = Hash
                 THEN "complete" ELSE "crc", sum)
      BY FedCrc
    <2> QED  BY ONLY <1>7, <1>8, <1>11, <2>1, <2>2
  <1>14. Fed(Made(z, "crc", sum), low) = Made(e, "complete", sum)
    <2>1. Append(z, low) = e  BY DEF e
    <2>2. Fed(Made(z, "crc", sum), low) =
            Made(Append(z, low),
                 IF Append(z, low)[Len(Append(z, low)) - 2] = Hash
                 THEN "complete" ELSE "crc", sum)
      BY FedCrc
    <2> QED  BY ONLY <1>7, <1>8, <1>9, <2>1, <2>2
  <1>15. e = Ended(d, sum)  BY DEF Ended, e, z, y, x, high, low
  <1> QED
    BY ONLY <1>6, <1>8, <1>9, <1>10, <1>12, <1>13, <1>14, <1>15 DEF n, x, y, z, high, low

LEMMA EncodedIs ==
  ASSUME NEW s \in Seq(Byte)
  PROVE  /\ Encoded(s) = Append(Append(Append(<<Dollar>> \o s, Hash), High(Sum(s))), Low(Sum(s)))
         /\ Sum(s) \in Csum
  <1>1. Sum(s) \in Csum  BY SumFacts
  <1>2. High(Sum(s)) \in Byte /\ Low(Sum(s)) \in Byte /\ Hash \in Byte
        /\ Digits(Sum(s)) = <<Hash, High(Sum(s)), Low(Sum(s))>>
    BY <1>1, DigitsAre, CodesApart
  <1>3. <<Dollar>> \o s \in Seq(Byte)  BY CodesApart, Dollared
  <1>4. (<<Dollar>> \o s) \o <<Hash, High(Sum(s)), Low(Sum(s))>>
          = Append(Append(Append(<<Dollar>> \o s, Hash), High(Sum(s))), Low(Sum(s)))
    BY <1>2, <1>3, AppendThree
  <1>5. Encoded(s) = (<<Dollar>> \o s) \o Digits(Sum(s))  BY DEF Encoded
  <1> QED  BY ONLY <1>1, <1>2, <1>4, <1>5

Accepts(P, m) ==
  /\ Parses(P, m.bytes)
  /\ P[Len(m.bytes)].state = "complete"
  /\ Contents(P[Len(m.bytes)]) = m.meant
  /\ P[Len(m.bytes)].data[1] = Dollar =>
       P[Len(m.bytes)].csum = DataCrc(P[Len(m.bytes)])

LEMMA EndedContents ==
  ASSUME NEW d \in Seq(PlainByte), NEW sum \in Csum
  PROVE  /\ Contents(Made(Ended(d, sum), "complete", sum)) = d
         /\ DataCrc(Made(Ended(d, sum), "complete", sum)) = sum
  <1> DEFINE e == Ended(d, sum)
             n == Len(d)
             p == Made(e, "complete", sum)
  <1>1. /\ e \in Seq(Byte) /\ Len(e) = n + 4 /\ e[1] = Dollar
        /\ \A i \in 1..n : e[i + 1] = d[i]
        /\ e[n + 3] = High(sum) /\ e[n + 4] = Low(sum)
    BY EndedIs
  <1>2. n \in Nat /\ (n + 4) - 1 = n + 3 /\ (n + 4) - 3 = n + 1  BY LenProperties
  <1> HIDE DEF e, n
  <1>3. p.data = e  BY DEF Made
  <1> HIDE DEF p
  <1>4. DataCrc(p) = 16 * Nibble(High(sum)) + Nibble(Low(sum))
    <2>1. DataCrc(p) = 16 * Nibble(e[Len(e) - 1]) + Nibble(e[Len(e)])
      BY <1>3 DEF DataCrc
    <2> QED  BY ONLY <1>1, <1>2, <2>1
  <1>5. Payload(p) = SubSeq(e, 2, n + 1)
    BY ONLY <1>1, <1>2, <1>3 DEF Payload
  <1>6. SubSeq(e, 2, n + 1) = d
    <2> DEFINE x == SubSeq(e, 2, n + 1)
    <2>1. /\ 2 \in Int /\ n + 1 \in Int /\ (n + 1) - 2 + 1 = n
          /\ (2 <= n + 1 => n = n) /\ (~(2 <= n + 1) => n = 0)
          /\ \A i \in 1..n : 2 + i - 1 = i + 1
          /\ \A i \in 2..(n + 1) : i \in 1..(n + 4)
      BY <1>2
    <2>2. \A i \in 2..(n + 1) : e[i] \in Byte
      <3>1. \A i \in 1..Len(e) : e[i] \in Byte  BY <1>1, ElementOfSeq
      <3> QED  BY ONLY <1>1, <2>1, <3>1
    <2>3. /\ x \in Seq(Byte)
          /\ Len(x) = IF 2 <= n + 1 THEN (n + 1) - 2 + 1 ELSE 0
          /\ \A i \in 1..((n + 1) - 2 + 1) : x[i] = e[2 + i - 1]
      BY <2>1, <2>2, SubSeqProperties
    <2> HIDE DEF x
    <2>4. Len(x) = n /\ \A i \in 1..n : x[i] = d[i]
      BY ONLY <1>1, <2>1, <2>3
    <2>5. d \in Seq(Byte)  BY PlainIs, SeqMonotonic
    <2>6. x = d
      <3>1. Len(x) = Len(d)  BY <2>4 DEF n
      <3>2. \A i \in 1..Len(x) : x[i] = d[i]  BY <2>4
      <3> QED  BY <2>3, <2>5, <3>1, <3>2, SeqEqual
    <2> QED  BY <2>6 DEF x
  <1>7. Contents(p) = d
    <2>1. p.data[1] = Dollar  BY <1>1, <1>3
    <2> QED  BY <1>5, <1>6, <2>1 DEF Contents
  <1> QED  BY <1>4, <1>7, DigitsAre DEF p, e

(* A well-formed packet is complete with its last byte and not before, and  *)
(* holds what its sender meant under the sum its sender declared.           *)
LEMMA DataAccepted ==
  ASSUME NEW runs \in Seq(Run)
  PROVE  /\ Data(runs).bytes \in Seq(Byte) /\ Data(runs).bytes # <<>>
         /\ \E P : Accepts(P, Data(runs))
  <1> DEFINE s   == Body(runs)
             d   == Meaning(runs)
             sum == Sum(s)
             high == High(sum)
             low == Low(sum)
             s0 == <<Dollar>> \o s
             s1 == Append(s0, Hash)
             s2 == Append(s1, high)
             s3 == Append(s2, low)
             d0 == <<Dollar>> \o d
             d1 == Append(d0, Hash)
             d2 == Append(d1, high)
             p == Made(Ended(d, sum), "complete", sum)
  <1>1. s \in Seq(Byte) /\ d \in Seq(PlainByte) /\ InText(s, d)
    BY BodyIs, TextParsed
  <1>2. Data(runs) = [bytes |-> Encoded(s), meant |-> d]  BY DataIs
  <1> HIDE DEF s, d
  <1>3. sum \in Csum /\ Encoded(s) = s3  BY <1>1, EncodedIs
  <1>4. high \in Byte /\ low \in Byte /\ Hash \in Byte
    BY <1>3, DigitsAre, CodesApart
  <1>5. ParsesTo(s0, Made(d0, "data", sum))  BY <1>1 DEF InText
  <1>6. /\ Fed(Made(d0, "data", sum), Hash) = Made(d1, "crc", sum)
        /\ Fed(Made(d1, "crc", sum), high) = Made(d2, "crc", sum)
        /\ Fed(Made(d2, "crc", sum), low) = p
        /\ p \in Packet
    <2>1. "complete" \in States  BY DEF States
    <2>2. Ended(d, sum) \in Seq(Byte)  BY <1>1, <1>3, EndedIs
    <2>3. p \in Packet
      <3> HIDE DEF sum
      <3> QED  BY <1>3, <2>1, <2>2, MadeIs
    <2>4. Fed(Made(d0, "data", sum), Hash) = Made(d1, "crc", sum)
      BY <1>1, <1>3, EndedIs
    <2>5. Fed(Made(d1, "crc", sum), high) = Made(d2, "crc", sum)
      BY <1>1, <1>3, EndedIs
    <2>6. Fed(Made(d2, "crc", sum), low) = p
      BY <1>1, <1>3, EndedIs
    <2> QED  BY <2>3, <2>4, <2>5, <2>6
  <1>7. d0 \in Seq(Byte)
    BY <1>1, LastOfText
  <1>8. s0 \in Seq(Byte)  BY <1>1, CodesApart, Dollared
  <1>9. p.state = "complete" /\ Contents(p) = d /\ p.csum = DataCrc(p)
    <2>1. p.state = "complete" /\ p.csum = sum  BY DEF Made
    <2>2. Contents(p) = d /\ DataCrc(p) = sum
      <3> HIDE DEF sum
      <3> QED  BY <1>1, <1>3, EndedContents
    <2> QED  BY <2>1, <2>2
  <1> HIDE DEF sum, high, low, s0, d0, p
  <1>10. d1 \in Seq(Byte) /\ s1 \in Seq(Byte)  BY <1>4, <1>7, <1>8, AppendProperties
  <1>11. Made(d1, "crc", sum) \in Packet /\ Made(d1, "crc", sum).state \in Going
         /\ Made(d0, "data", sum).state \in Going
    <2>1. "crc" \in States  BY DEF States
    <2>2. Made(d1, "crc", sum) \in Packet
      <3> HIDE DEF d1
      <3> QED  BY <1>3, <1>10, <2>1, MadeIs
    <2>3. Made(d1, "crc", sum).state \in Going /\ Made(d0, "data", sum).state \in Going
      BY DEF Made, Going
    <2> QED  BY <2>2, <2>3
  <1>12. ParsesTo(s1, Made(d1, "crc", sum))
    BY <1>4, <1>5, <1>6, <1>8, <1>11, ParseNext
  <1> HIDE DEF s1, d1
  <1>13. d2 \in Seq(Byte) /\ s2 \in Seq(Byte)  BY <1>4, <1>10, AppendProperties
  <1>14. Made(d2, "crc", sum) \in Packet /\ Made(d2, "crc", sum).state \in Going
    <2>1. "crc" \in States  BY DEF States
    <2>2. Made(d2, "crc", sum) \in Packet
      <3> HIDE DEF d2
      <3> QED  BY <1>3, <1>13, <2>1, MadeIs
    <2>3. Made(d2, "crc", sum).state \in Going
      BY DEF Made, Going
    <2> QED  BY <2>2, <2>3
  <1>15. ParsesTo(s2, Made(d2, "crc", sum))
    BY <1>4, <1>6, <1>10, <1>11, <1>12, <1>14, ParseNext
  <1> HIDE DEF s2, d2
  <1>16. ParsesTo(s3, p)
    BY <1>4, <1>6, <1>13, <1>14, <1>15, ParseNext
  <1>17. s3 \in Seq(Byte) /\ s3 # <<>>  BY <1>4, <1>13, AppendProperties
  <1> HIDE DEF s3
  <1>18. PICK P : Parses(P, s3) /\ P[Len(s3)] = p  BY <1>16 DEF ParsesTo
  <1>19. Data(runs).bytes = s3 /\ Data(runs).meant = d  BY <1>2, <1>3
  <1>20. Accepts(P, Data(runs))  BY <1>9, <1>18, <1>19 DEF Accepts
  <1> QED  BY <1>17, <1>19, <1>20

LEMMA SingleIs ==
  ASSUME NEW c \in Byte
  PROVE  /\ Single(c).bytes = <<c>> /\ Single(c).bytes \in Seq(Byte)
         /\ Single(c).bytes # <<>> /\ Len(Single(c).bytes) = 1
  <1>1. Single(c).bytes = <<c>>  BY DEF Single
  <1>2. <<c>> \in Seq(Byte) /\ <<c>> # <<>> /\ Len(<<c>>) = 1  OBVIOUS
  <1> QED  BY <1>1, <1>2

LEMMA SignalAccepted ==
  ASSUME NEW c \in Starts \ {Dollar}
  PROVE  \E P : Accepts(P, Single(c))
  <1> DEFINE p == Made(<<c>>, "complete", 0)
             b == Single(c).bytes
  <1>1. c \in Byte /\ c # Dollar /\ c \in Starts
    BY DEF Starts, Dollar, Plus, Minus, Break, Byte
  <1>2. b = <<c>> /\ Single(c).meant = <<c>>  BY DEF Single
  <1>3. Fed(Fresh, c) = p  BY <1>1, FedFirst
  <1>4. p \in Packet
    <2>1. "complete" \in States /\ 0 \in Csum  BY CsumIs DEF States
    <2>2. <<c>> \in Seq(Byte)  BY <1>1
    <2> QED  BY <2>1, <2>2, MadeIs
  <1>5. p.state = "complete" /\ p.data = <<c>>  BY DEF Made
  <1>6. Contents(p) = <<c>> /\ p.data[1] # Dollar
    <2> HIDE DEF p
    <2>1. p.data[1] = c  BY <1>5
    <2> QED  BY <1>1, <1>5, <2>1 DEF Contents
  <1> HIDE DEF p, b
  <1>7. ParsesTo(Append(<<>>, c), p)
    <2>1. <<>> \in Seq(Byte)  OBVIOUS
    <2> QED  BY <1>1, <1>3, <1>4, <2>1, ParseNothing, ParseNext
  <1>8. Append(<<>>, c) = <<c>>  OBVIOUS
  <1>9. PICK P : Parses(P, b) /\ P[Len(b)] = p  BY <1>2, <1>7, <1>8 DEF ParsesTo
  <1>10. Accepts(P, Single(c))  BY <1>2, <1>5, <1>6, <1>9 DEF Accepts, b
  <1> QED  BY <1>10

-----------------------------------------------------------------------------
(* What the peer sends, one after the other.                                *)

Messages == {Data(runs) : runs \in Payloads} \cup {Single(c) : c \in Signals}
Strays   == {Single(c) : c \in Stray}
Sendable == Messages \cup Strays

LEMMA SendableIs ==
  /\ \A m \in Sendable : m.bytes \in Seq(Byte) /\ m.bytes # <<>>
  /\ \A m \in Messages : \E P : Accepts(P, m)
  /\ \A m \in Strays : Len(m.bytes) = 1 /\ Fed(Fresh, m.bytes[1]) = Fresh
  <1>1. ASSUME NEW runs \in Payloads
        PROVE  /\ Data(runs).bytes \in Seq(Byte) /\ Data(runs).bytes # <<>>
               /\ \E P : Accepts(P, Data(runs))
    <2>1. runs \in Seq(Run)  BY StreamAssumption
    <2> QED  BY <2>1, DataAccepted
  <1>2. ASSUME NEW c \in Signals \cup Stray
        PROVE  Single(c).bytes \in Seq(Byte) /\ Single(c).bytes # <<>>
    <2>1. c \in Byte
      BY StreamAssumption DEF Starts, Dollar, Plus, Minus, Break, Byte
    <2> QED  BY <2>1, SingleIs
  <1>3. ASSUME NEW c \in Signals PROVE \E P : Accepts(P, Single(c))
    BY SignalAccepted, StreamAssumption
  <1>4. ASSUME NEW c \in Stray
        PROVE  Len(Single(c).bytes) = 1 /\ Fed(Fresh, Single(c).bytes[1]) = Fresh
    <2>1. c \in Byte /\ c \notin Starts  BY StreamAssumption
    <2>2. Single(c).bytes = <<c>> /\ Len(Single(c).bytes) = 1  BY <2>1, SingleIs
    <2>3. Single(c).bytes[1] = c  BY <2>2
    <2> QED  BY <2>1, <2>2, <2>3, FedFirst
  <1> QED  BY <1>1, <1>2, <1>3, <1>4 DEF Messages, Strays, Sendable

BytesOf == [m \in Sendable |-> m.bytes]
Stream(ms) == FlattenSeq(Mapped(BytesOf, ms))
Drop(s, k) == SubSeq(s, k + 1, Len(s))

LEMMA StreamIs ==
  /\ Stream(<<>>) = <<>>
  /\ \A ms \in Seq(Sendable) : Stream(ms) \in Seq(Byte)
  /\ \A ms \in Seq(Sendable), m \in Sendable :
       Stream(Append(ms, m)) = Stream(ms) \o m.bytes
  /\ \A ms \in Seq(Sendable) :
       ms # <<>> => Stream(ms) = Head(ms).bytes \o Stream(Tail(ms))
  <1>1. BytesOf \in [Sendable -> Seq(Byte)]
        /\ \A m \in Sendable : BytesOf[m] = m.bytes
    BY SendableIs DEF BytesOf
  <1>2. /\ Stream(<<>>) = <<>>
        /\ \A ms \in Seq(Sendable) : Stream(ms) \in Seq(Byte)
        /\ \A ms \in Seq(Sendable), m \in Sendable :
             Stream(Append(ms, m)) = Stream(ms) \o BytesOf[m]
        /\ \A ms \in Seq(Sendable) :
             ms # <<>> => Stream(ms) = BytesOf[Head(ms)] \o Stream(Tail(ms))
    BY <1>1, FlattenMapped DEF Stream
  <1>3. \A ms \in Seq(Sendable) : ms # <<>> => Head(ms) \in Sendable
    BY HeadTailProperties
  <1> QED  BY <1>1, <1>2, <1>3

LEMMA DropIs ==
  ASSUME NEW E, NEW s \in Seq(E), NEW k \in 0..Len(s)
  PROVE  /\ Drop(s, k) \in Seq(E) /\ Len(Drop(s, k)) = Len(s) - k
         /\ Drop(s, k) = <<>> <=> k = Len(s)
         /\ k < Len(s) => /\ Head(Drop(s, k)) = s[k + 1]
                          /\ Tail(Drop(s, k)) = Drop(s, k + 1)
         /\ \A e \in E : Drop(Append(s, e), k) = Append(Drop(s, k), e)
         /\ Drop(s, 0) = s
  <1> DEFINE n == Len(s)
             d == Drop(s, k)
  <1>1. n \in Nat /\ k \in Nat /\ k <= n  BY LenProperties
  <1>2. \A i \in 1..n : s[i] \in E  BY ElementOfSeq
  <1>3. /\ d \in Seq(E) /\ Len(d) = n - k
        /\ \A i \in 1..(n - k) : d[i] = s[k + i]
    <2> HIDE DEF n
    <2>1. /\ k + 1 \in Int /\ n \in Int
          /\ \A i \in (k + 1)..n : i \in 1..n
          /\ n - (k + 1) + 1 = n - k /\ (k + 1 <= n => n - (k + 1) + 1 = n - k)
          /\ (~(k + 1 <= n) => n - k = 0)
          /\ \A i \in 1..(n - k) : (k + 1) + i - 1 = k + i
      BY <1>1
    <2>2. \A i \in (k + 1)..n : s[i] \in E  BY <1>2, <2>1
    <2> DEFINE e == SubSeq(s, k + 1, n)
    <2>3. /\ e \in Seq(E)
          /\ Len(e) = IF k + 1 <= n THEN n - (k + 1) + 1 ELSE 0
          /\ \A i \in 1..(n - (k + 1) + 1) : e[i] = s[(k + 1) + i - 1]
      BY <2>1, <2>2, SubSeqProperties
    <2>4. d = e  BY DEF Drop, n
    <2> HIDE DEF d, e
    <2> QED  BY ONLY <2>1, <2>3, <2>4
  <1>4. d = <<>> <=> k = n
    <2> HIDE DEF d, n
    <2>1. d = <<>> => Len(d) = 0  BY EmptySeq
    <2>2. d # <<>> => Len(d) # 0  BY <1>3, EmptySeq
    <2> QED  BY <1>1, <1>3, <2>1, <2>2
  <1>5. ASSUME k < n PROVE Head(d) = s[k + 1] /\ Tail(d) = Drop(s, k + 1)
    <2>1. k + 1 \in 1..n /\ n \in (k + 1)..n /\ (k + 1) + 1 = k + 2  BY <1>1, <1>5
    <2>2. /\ Head(SubSeq(s, k + 1, n)) = s[k + 1]
          /\ Tail(SubSeq(s, k + 1, n)) = SubSeq(s, (k + 1) + 1, n)
      BY <2>1, HeadTailOfSubSeq
    <2> QED  BY <2>2 DEF Drop
  <1>6. ASSUME NEW e \in E PROVE Drop(Append(s, e), k) = Append(d, e)
    <2> DEFINE a == Append(s, e)
               x == Drop(a, k)
               y == Append(d, e)
    <2>1. a \in Seq(E) /\ Len(a) = n + 1 /\ a[n + 1] = e /\ \A i \in 1..n : a[i] = s[i]
      BY AppendProperties
    <2> HIDE DEF n, d, a
    <2>2. /\ k + 1 \in Int /\ n + 1 \in Int /\ k + 1 <= n + 1
          /\ (n + 1) - (k + 1) + 1 = n - k + 1
          /\ \A i \in (k + 1)..(n + 1) : i \in 1..(n + 1)
          /\ \A i \in 1..(n - k + 1) : (k + 1) + i - 1 = k + i
      BY <1>1
    <2>3. \A i \in (k + 1)..(n + 1) : a[i] \in E
      <3>1. \A i \in 1..Len(a) : a[i] \in E  BY <2>1, ElementOfSeq
      <3> QED  BY ONLY <2>1, <2>2, <3>1
    <2>4. /\ x \in Seq(E) /\ Len(x) = n - k + 1
          /\ \A i \in 1..(n - k + 1) : x[i] = a[k + i]
      <3> DEFINE u == SubSeq(a, k + 1, n + 1)
      <3>1. /\ u \in Seq(E)
            /\ Len(u) = IF k + 1 <= n + 1 THEN (n + 1) - (k + 1) + 1 ELSE 0
            /\ \A i \in 1..((n + 1) - (k + 1) + 1) : u[i] = a[(k + 1) + i - 1]
        BY <2>2, <2>3, SubSeqProperties
      <3>2. x = u  BY <2>1 DEF Drop
      <3> HIDE DEF x, u
      <3> QED  BY ONLY <2>2, <3>1, <3>2
    <2> HIDE DEF x
    <2>5. /\ y \in Seq(E) /\ Len(y) = Len(d) + 1 /\ y[Len(d) + 1] = e
          /\ \A i \in 1..Len(d) : y[i] = d[i]
      BY <1>3, AppendProperties
    <2> HIDE DEF y
    <2>6. ASSUME NEW i \in 1..(n - k + 1) PROVE x[i] = y[i]
      <3>1. CASE i \in 1..(n - k)
        <4>1. k + i \in 1..n  BY <1>1, <3>1
        <4> QED  BY <1>3, <2>1, <2>4, <2>5, <3>1, <4>1
      <3>2. CASE i = n - k + 1
        <4>1. k + i = n + 1  BY <1>1, <3>2
        <4> QED  BY ONLY <1>3, <2>1, <2>4, <2>5, <3>2, <4>1, i \in 1..(n - k + 1)
      <3>3. i \in 1..(n - k) \/ i = n - k + 1  BY <1>1
      <3> QED  BY <3>1, <3>2, <3>3
    <2>7. x = y
      <3>1. Len(x) = Len(y)  BY ONLY <1>3, <2>4, <2>5
      <3>2. \A i \in 1..Len(x) : x[i] = y[i]  BY <2>4, <2>6
      <3> QED  BY <2>4, <2>5, <3>1, <3>2, SeqEqual
    <2> QED  BY <2>7 DEF a, d, x, y
  <1>7. Drop(s, 0) = s  BY SubSeqFull DEF Drop
  <1> QED  BY <1>3, <1>4, <1>5, <1>6, <1>7

-----------------------------------------------------------------------------
(* The invariant.  What is not parsed yet is the rest of the stream: of the *)
(* packets that are not delivered, and of the one in the making.            *)

Unread == buffer \o wire
Taken  == Len(delivered)

Between == packet = Fresh /\ Unread = Stream(Drop(sent, Taken))

Within(j) ==
  /\ Taken < Len(sent) /\ sent[Taken + 1] \in Messages
  /\ j \in 0..(Len(sent[Taken + 1].bytes) - 1)
  /\ \E P : Accepts(P, sent[Taken + 1]) /\ packet = P[j]
  /\ Unread = Drop(sent[Taken + 1].bytes, j) \o Stream(Drop(sent, Taken + 1))

Position == Between \/ \E j \in Nat \ {0} : Within(j)

GoodPackets ==
  /\ delivered \in Seq(Packet) /\ Taken <= Len(sent)
  /\ \A i \in 1..Taken :
       /\ Contents(delivered[i]) = sent[i].meant
       /\ delivered[i].data[1] = Dollar => delivered[i].csum = DataCrc(delivered[i])

Bytes ==
  /\ wire \in Seq(Byte) /\ buffer \in Seq(Byte) /\ Len(buffer) <= BufSize
  /\ sent \in Seq(Sendable) /\ status \in {"ok", "aborted"}

StreamInv == Bytes /\ Position /\ GoodPackets /\ AbortsOnStray

LEMMA WithinIs ==
  ASSUME Bytes, GoodPackets, NEW j, Within(j)
  PROVE  packet \in Packet /\ (j # 0 => packet.state \in Going) /\ Unread # <<>>
  <1> DEFINE m == sent[Taken + 1]
             n == Len(m.bytes)
             rest == Stream(Drop(sent, Taken + 1))
  <1>1. Taken \in Nat /\ Len(sent) \in Nat /\ Taken + 1 \in 1..Len(sent)
    <2>1. Taken \in Nat /\ Len(sent) \in Nat
      BY LenProperties DEF GoodPackets, Bytes, Taken
    <2> QED  BY <2>1 DEF Within
  <1>2. m \in Sendable  BY <1>1, ElementOfSeq DEF Bytes
  <1>3. m.bytes \in Seq(Byte)  BY <1>2, SendableIs
  <1>4. n \in Nat /\ j \in 0..(n - 1)  BY <1>3, LenProperties DEF Within
  <1>5. PICK P : Accepts(P, m) /\ packet = P[j]  BY DEF Within
  <1>6. /\ P \in [0..n -> Packet]
        /\ \A i \in 1..(n - 1) : P[i].state \in Going
    BY <1>5 DEF Accepts, Parses
  <1>7. rest \in Seq(Byte)
    <2>1. Taken + 1 \in 0..Len(sent)  BY <1>1
    <2>2. Drop(sent, Taken + 1) \in Seq(Sendable)  BY <2>1, DropIs DEF Bytes
    <2> QED  BY <2>2, StreamIs
  <1> DEFINE d == Drop(m.bytes, j)
  <1>8. d \in Seq(Byte) /\ d # <<>>
    <2>1. j \in 0..Len(m.bytes) /\ j # Len(m.bytes)  BY <1>4
    <2> QED  BY <1>3, <2>1, DropIs
  <1>9. Unread = d \o rest  BY DEF Within
  <1> HIDE DEF m, n, d, rest
  <1>10. Unread # <<>>  BY <1>7, <1>8, <1>9, ConcatEqualIffEmpty
  <1>11. j \in 0..n /\ (j # 0 => j \in 1..(n - 1))  BY <1>4
  <1> QED  BY <1>5, <1>6, <1>10, <1>11

LEMMA PositionIs ==
  ASSUME Bytes, GoodPackets, Position
  PROVE  /\ packet \in Packet /\ packet.state # "complete"
         /\ Unread = <<>> => Taken = Len(sent)
  <1>1. CASE Between
    <2>1. packet \in Packet /\ packet.state # "complete"
      BY <1>1, FreshIs DEF Between
    <2>2. ASSUME Taken # Len(sent) PROVE Unread # <<>>
      <3> DEFINE ms == Drop(sent, Taken)
      <3>1. Taken \in 0..Len(sent)
        <4>1. Taken \in Nat /\ Len(sent) \in Nat
          BY LenProperties DEF GoodPackets, Bytes, Taken
        <4> QED  BY <4>1 DEF GoodPackets
      <3>2. ms \in Seq(Sendable) /\ ms # <<>>
        BY <2>2, <3>1, DropIs DEF Bytes
      <3>3. Unread = Stream(ms)  BY <1>1 DEF Between
      <3> HIDE DEF ms
      <3>4. Stream(ms) = Head(ms).bytes \o Stream(Tail(ms))  BY <3>2, StreamIs
      <3>5. Head(ms) \in Sendable /\ Tail(ms) \in Seq(Sendable)
        BY <3>2, HeadTailProperties
      <3>6. Head(ms).bytes \in Seq(Byte) /\ Head(ms).bytes # <<>>
            /\ Stream(Tail(ms)) \in Seq(Byte)
        BY <3>5, SendableIs, StreamIs
      <3> DEFINE a == Head(ms).bytes
                 b == Stream(Tail(ms))
      <3> HIDE DEF a, b
      <3>7. a \o b # <<>>  BY <3>6, ConcatEqualIffEmpty DEF a, b
      <3> QED  BY <3>3, <3>4, <3>7 DEF a, b
    <2> QED  BY <2>1, <2>2
  <1>2. ASSUME NEW j \in Nat \ {0}, Within(j)
        PROVE  packet \in Packet /\ packet.state # "complete" /\ Unread # <<>>
    <2>1. packet \in Packet /\ packet.state \in Going /\ Unread # <<>>
      BY <1>2, WithinIs
    <2> QED  BY <2>1 DEF Going
  <1> QED  BY <1>1, <1>2 DEF Position

LEMMA Sizes ==
  ASSUME Bytes, GoodPackets
  PROVE  /\ Taken \in Nat /\ Len(sent) \in Nat /\ Taken \in 0..Len(sent)
         /\ Taken # Len(sent) => Taken + 1 \in 1..Len(sent) /\ Taken + 1 \in 0..Len(sent)
         /\ Unread \in Seq(Byte)
  <1>1. Taken \in Nat /\ Len(sent) \in Nat
    BY LenProperties DEF GoodPackets, Bytes, Taken
  <1>2. Taken <= Len(sent)  BY DEF GoodPackets
  <1>3. Unread \in Seq(Byte)  BY ConcatProperties DEF Unread, Bytes
  <1> QED  BY <1>1, <1>2, <1>3

LEMMA InitStream == Init => StreamInv
  <1> SUFFICES ASSUME Init PROVE StreamInv  OBVIOUS
  <1>1. /\ sent = <<>> /\ wire = <<>> /\ buffer = <<>>
        /\ packet = Fresh /\ delivered = <<>> /\ status = "ok"
    BY DEF Init
  <1>2. Bytes
    <2>1. <<>> \in Seq(Byte) /\ <<>> \in Seq(Sendable) /\ Len(<<>>) = 0  OBVIOUS
    <2>2. 0 <= BufSize  BY StreamAssumption
    <2> QED  BY <1>1, <2>1, <2>2 DEF Bytes
  <1>3. Taken = 0 /\ Len(sent) = 0  BY <1>1 DEF Taken
  <1>4. GoodPackets
    <2>1. delivered \in Seq(Packet)  BY <1>1
    <2>2. 1..Taken = {}  BY <1>3
    <2> QED  BY <1>3, <2>1, <2>2 DEF GoodPackets
  <1>5. Between
    <2>1. Unread = <<>>
      <3>1. <<>> \in Seq(Byte)  OBVIOUS
      <3> QED  BY <1>1, <3>1, ConcatEmptySeq DEF Unread
    <2>2. Drop(sent, Taken) = <<>>
      <3>1. sent \in Seq(Sendable) /\ Taken \in 0..Len(sent)  BY <1>1, <1>3
      <3>2. Drop(sent, Taken) = <<>> <=> Taken = Len(sent)  BY <3>1, DropIs
      <3> QED  BY <1>3, <3>2
    <2> QED  BY <1>1, <2>1, <2>2, StreamIs DEF Between
  <1>6. AbortsOnStray  BY <1>1 DEF AbortsOnStray
  <1> QED  BY <1>2, <1>4, <1>5, <1>6 DEF StreamInv, Position

LEMMA SendStream ==
  ASSUME StreamInv, NEW m \in Sendable,
         sent' = Append(sent, m), wire' = wire \o m.bytes,
         UNCHANGED <<buffer, packet, delivered, status>>
  PROVE  StreamInv'
  <1> DEFINE n == Len(sent)
  <1>1. Bytes /\ Position /\ GoodPackets /\ AbortsOnStray  BY DEF StreamInv
  <1>2. Taken \in Nat /\ n \in Nat /\ Taken \in 0..n /\ Taken' = Taken
        /\ Unread \in Seq(Byte)
    BY <1>1, Sizes DEF Taken
  <1>3. m.bytes \in Seq(Byte)  BY SendableIs
  <1>4. /\ sent \in Seq(Sendable) /\ sent' \in Seq(Sendable) /\ Len(sent') = n + 1
        /\ \A i \in 1..n : sent'[i] = sent[i]
    BY <1>1, AppendProperties DEF Bytes
  <1>5. wire \in Seq(Byte) /\ buffer \in Seq(Byte)  BY <1>1 DEF Bytes
  <1>6. wire' \in Seq(Byte)  BY <1>3, <1>5, ConcatProperties
  <1>7. Unread' = Unread \o m.bytes
    <2> DEFINE b == m.bytes
    <2>1. b \in Seq(Byte)  BY <1>3
    <2> HIDE DEF b
    <2>2. (buffer \o wire) \o b = buffer \o (wire \o b)
      BY <1>5, <2>1, ConcatAssociative
    <2> QED  BY <2>2 DEF Unread, b
  <1>8. Bytes'  BY <1>1, <1>4, <1>6 DEF Bytes
  <1>9. GoodPackets'
    <2>1. Taken <= n + 1 /\ \A i \in 1..Taken : i \in 1..n  BY <1>2
    <2> HIDE DEF n
    <2>2. \A i \in 1..Taken : sent'[i] = sent[i]  BY <1>4, <2>1
    <2> QED  BY <1>1, <1>2, <1>4, <2>1, <2>2 DEF GoodPackets
  <1>10. AbortsOnStray'
    <2>1. Taken < n => Taken < n + 1 /\ Taken + 1 \in 1..n  BY <1>2
    <2> SUFFICES ASSUME status' = "aborted"
                 PROVE  /\ Len(delivered') < Len(sent')
                        /\ \E c \in Stray : sent'[Len(delivered') + 1] = Single(c)
      BY DEF AbortsOnStray
    <2>2. Taken < n /\ \E c \in Stray : sent[Taken + 1] = Single(c)
      BY <1>1 DEF AbortsOnStray, Taken
    <2> HIDE DEF n
    <2> QED  BY <1>4, <2>1, <2>2 DEF Taken
  <1>11. CASE Between
    <2>1. Drop(sent', Taken) = Append(Drop(sent, Taken), m)
      BY <1>2, <1>4, DropIs
    <2>2. Drop(sent, Taken) \in Seq(Sendable)  BY <1>2, <1>4, DropIs
    <2>3. Stream(Drop(sent', Taken)) = Stream(Drop(sent, Taken)) \o m.bytes
      BY <2>1, <2>2, StreamIs
    <2>4. Between'  BY <1>2, <1>7, <1>11, <2>3 DEF Between
    <2> QED  BY <1>8, <1>9, <1>10, <2>4 DEF StreamInv, Position
  <1>12. ASSUME NEW j \in Nat \ {0}, Within(j) PROVE Within(j)'
    <2>1. Taken < n /\ Taken + 1 \in 1..n /\ Taken + 1 \in 0..n /\ Taken < n + 1
      BY <1>2, <1>12 DEF Within
    <2>2. sent'[Taken + 1] = sent[Taken + 1]  BY <1>4, <2>1
    <2> DEFINE x == sent[Taken + 1]
               r == Drop(sent, Taken + 1)
               d == Drop(x.bytes, j)
    <2>3. x \in Sendable  BY <1>4, <2>1, ElementOfSeq
    <2>4. x.bytes \in Seq(Byte)  BY <2>3, SendableIs
    <2>5. d \in Seq(Byte)
      <3>1. Len(x.bytes) \in Nat  BY <2>4, LenProperties
      <3>2. j \in 0..Len(x.bytes)  BY <1>12, <3>1 DEF Within
      <3> QED  BY <2>4, <3>2, DropIs
    <2>6. r \in Seq(Sendable) /\ Drop(sent', Taken + 1) = Append(r, m)
      BY <1>4, <2>1, DropIs
    <2>7. Stream(r) \in Seq(Byte) /\ Stream(Append(r, m)) = Stream(r) \o m.bytes
      BY <2>6, StreamIs
    <2>8. Unread = d \o Stream(r)  BY <1>12 DEF Within
    <2> HIDE DEF d, r, x
    <2>9. Unread' = d \o Stream(Append(r, m))
      <3> DEFINE a == Stream(r)
                 b == m.bytes
      <3>1. a \in Seq(Byte) /\ b \in Seq(Byte)  BY <1>3, <2>7
      <3> HIDE DEF a, b
      <3>2. (d \o a) \o b = d \o (a \o b)
        BY <2>5, <3>1, ConcatAssociative
      <3> QED  BY <1>7, <2>7, <2>8, <3>2 DEF a, b
    <2>10. Len(sent') = n + 1 /\ packet' = packet  BY <1>4
    <2> QED  BY <1>2, <1>12, <2>1, <2>2, <2>6, <2>9, <2>10 DEF Within, d, r, x
  <1>13. CASE \E j \in Nat \ {0} : Within(j)
    BY <1>8, <1>9, <1>10, <1>12, <1>13 DEF StreamInv, Position
  <1> QED  BY <1>1, <1>11, <1>13 DEF Position

LEMMA ReadStream ==
  ASSUME StreamInv, Read
  PROVE  StreamInv'
  <1> DEFINE n == Len(wire)
  <1>1. Bytes /\ Position /\ GoodPackets /\ AbortsOnStray  BY DEF StreamInv
  <1>2. buffer = <<>> /\ UNCHANGED <<sent, delivered, status, packet>>  BY DEF Read
  <1>3. PICK k \in 1..n : /\ k <= BufSize /\ buffer' = SubSeq(wire, 1, k)
                          /\ wire' = SubSeq(wire, k + 1, n)
    BY DEF Read
  <1>4. wire \in Seq(Byte) /\ n \in Nat  BY <1>1, LenProperties DEF Bytes
  <1>5. k \in 0..n /\ k \in Nat /\ 1 \in 1..(n + 1) /\ k \in (1 - 1)..n /\ n \in k..n
    BY <1>4
  <1>6. buffer' \o wire' = wire
    <2>1. SubSeq(wire, 1, k) \o SubSeq(wire, k + 1, n) = SubSeq(wire, 1, n)
      BY <1>4, <1>5, ConcatAdjacentSubSeq
    <2> QED  BY <1>3, <1>4, <2>1, SubSeqFull
  <1>7. Unread' = Unread
    BY <1>2, <1>4, <1>6, ConcatEmptySeq DEF Unread
  <1>8. buffer' \in Seq(Byte) /\ Len(buffer') = k
    <2>1. \A i \in 1..n : wire[i] \in Byte  BY <1>4, ElementOfSeq
    <2>2. 1 \in Int /\ k \in Int /\ \A i \in 1..k : i \in 1..n  BY <1>4
    <2>3. \A i \in 1..k : wire[i] \in Byte  BY <2>1, <2>2
    <2>4. 1 <= k /\ k - 1 + 1 = k  BY <1>5
    <2> HIDE DEF n
    <2>5. /\ SubSeq(wire, 1, k) \in Seq(Byte)
          /\ Len(SubSeq(wire, 1, k)) = IF 1 <= k THEN k - 1 + 1 ELSE 0
      BY <2>2, <2>3, SubSeqProperties
    <2> QED  BY ONLY <1>3, <2>4, <2>5
  <1>9. wire' \in Seq(Byte)
    <2>1. Drop(wire, k) \in Seq(Byte)  BY <1>4, <1>5, DropIs
    <2> QED  BY <1>3, <2>1 DEF Drop
  <1>10. Bytes'  BY <1>1, <1>2, <1>3, <1>8, <1>9 DEF Bytes
  <1>11. Taken' = Taken  BY <1>2 DEF Taken
  <1>12. GoodPackets' /\ AbortsOnStray'
    BY <1>1, <1>2, <1>11 DEF GoodPackets, AbortsOnStray
  <1>13. Between => Between'  BY <1>2, <1>7, <1>11 DEF Between
  <1>14. ASSUME NEW j \in Nat, Within(j) PROVE Within(j)'
    BY <1>2, <1>7, <1>11, <1>14 DEF Within
  <1> QED  BY <1>1, <1>10, <1>12, <1>13, <1>14 DEF StreamInv, Position

(* The next byte.  Before a packet nothing of it is taken: the same step     *)
(* covers its first byte and every later one.                               *)
LEMMA FrontIs ==
  ASSUME Bytes, GoodPackets, Between, Unread # <<>>
  PROVE  /\ Taken < Len(sent)
         /\ \/ Within(0)
            \/ sent[Taken + 1] \in Strays /\ Unread[1] = sent[Taken + 1].bytes[1]
  <1> DEFINE ms == Drop(sent, Taken)
             m  == sent[Taken + 1]
  <1>1. sent \in Seq(Sendable) /\ Taken \in 0..Len(sent) /\ Taken \in Nat /\ Len(sent) \in Nat
    BY Sizes DEF Bytes
  <1>2. Unread = Stream(ms)  BY DEF Between
  <1>3. Taken # Len(sent)
    <2>1. ms = <<>> <=> Taken = Len(sent)  BY <1>1, DropIs
    <2> QED  BY <1>2, <2>1, StreamIs
  <1>4. Taken < Len(sent) /\ Taken + 1 \in 1..Len(sent) /\ Taken + 1 \in 0..Len(sent)
    BY <1>1, <1>3
  <1>5. /\ ms \in Seq(Sendable) /\ ms # <<>>
        /\ Head(ms) = m /\ Tail(ms) = Drop(sent, Taken + 1)
    BY <1>1, <1>3, <1>4, DropIs
  <1>6. m \in Sendable /\ Drop(sent, Taken + 1) \in Seq(Sendable)
    BY <1>1, <1>4, ElementOfSeq, DropIs
  <1> DEFINE rest == Stream(Drop(sent, Taken + 1))
             b == m.bytes
  <1>7. Unread = b \o rest
    <2> HIDE DEF ms
    <2>1. Stream(ms) = Head(ms).bytes \o Stream(Tail(ms))  BY <1>5, StreamIs
    <2> QED  BY <1>2, <1>5, <2>1
  <1>8. b \in Seq(Byte) /\ b # <<>> /\ rest \in Seq(Byte)
    BY <1>6, SendableIs, StreamIs
  <1>9. CASE m \in Messages
    <2>1. PICK P : Accepts(P, m)  BY <1>9, SendableIs
    <2>2. packet = P[0]  BY <2>1 DEF Accepts, Parses, Between
    <2>3. 0 \in 0..(Len(b) - 1) /\ 0 \in 0..Len(b)
      <3>1. Len(b) \in Nat \ {0}  BY <1>8, EmptySeq
      <3> QED  BY <3>1
    <2>4. Drop(b, 0) = b  BY <1>8, <2>3, DropIs
    <2> QED  BY <1>4, <1>7, <1>9, <2>1, <2>2, <2>3, <2>4 DEF Within
  <1>10. CASE m \in Strays
    <2>1. Len(b) = 1  BY <1>10, SendableIs
    <2> HIDE DEF b, rest
    <2>2. Len(rest) \in Nat  BY <1>8, LenProperties
    <2>3. 1 \in 1..(Len(b) + Len(rest)) /\ 1 <= Len(b)  BY <2>1, <2>2
    <2>4. (b \o rest)[1] = b[1]  BY <1>8, <2>3, ConcatProperties
    <2> QED  BY <1>4, <1>7, <1>10, <2>4 DEF b
  <1> QED  BY <1>6, <1>9, <1>10 DEF Sendable

LEMMA HeadTailConcat ==
  ASSUME NEW b \in Seq(Byte), NEW w \in Seq(Byte), b # <<>>
  PROVE  /\ Head(b) \in Byte /\ Head(b) = b[1]
         /\ Tail(b) \in Seq(Byte) /\ Len(Tail(b)) = Len(b) - 1
         /\ b \o w # <<>> /\ (b \o w)[1] = b[1]
         /\ Tail(b \o w) = Tail(b) \o w
  <1> DEFINE u == b \o w
             t == Tail(b) \o w
  <1>1. b \in Seq(Byte) /\ w \in Seq(Byte) /\ b # <<>>  OBVIOUS
  <1>2. Len(b) \in Nat \ {0} /\ Len(w) \in Nat  BY <1>1, EmptySeq, LenProperties
  <1>3. /\ Head(b) \in Byte /\ Tail(b) \in Seq(Byte) /\ Len(Tail(b)) = Len(b) - 1
        /\ \A i \in 1..Len(Tail(b)) : Tail(b)[i] = b[i + 1]
    BY <1>1, HeadTailProperties
  <1>4. Head(b) = b[1]  BY <1>1
  <1>5. /\ u \in Seq(Byte) /\ Len(u) = Len(b) + Len(w)
        /\ \A i \in 1..(Len(b) + Len(w)) :
             u[i] = IF i <= Len(b) THEN b[i] ELSE w[i - Len(b)]
    BY <1>1, ConcatProperties
  <1> DEFINE h == Tail(b)
             nb == Len(b)
             nw == Len(w)
  <1> HIDE DEF h
  <1>6. /\ t \in Seq(Byte) /\ Len(t) = Len(h) + Len(w)
        /\ \A i \in 1..(Len(h) + Len(w)) :
             t[i] = IF i <= Len(h) THEN h[i] ELSE w[i - Len(h)]
    BY <1>1, <1>3, ConcatProperties DEF h
  <1> HIDE DEF u, t, nb, nw
  <1>7. u # <<>> /\ u[1] = b[1]
    <2>1. 1 \in 1..(Len(b) + Len(w)) /\ 1 <= Len(b) /\ Len(b) + Len(w) # 0
      BY <1>2
    <2> QED  BY <1>5, <2>1, EmptySeq
  <1>8. /\ Tail(u) \in Seq(Byte) /\ Len(Tail(u)) = Len(u) - 1
        /\ \A i \in 1..Len(Tail(u)) : Tail(u)[i] = u[i + 1]
    BY <1>5, <1>7, HeadTailProperties
  <1>9. Tail(u) = t
    <2>1. /\ nb \in Nat \ {0} /\ nw \in Nat /\ Len(h) = nb - 1
          /\ Len(u) = nb + nw /\ Len(t) = (nb - 1) + nw
          /\ Len(Tail(u)) = (nb + nw) - 1
      BY ONLY <1>2, <1>3, <1>5, <1>6, <1>8 DEF nb, nw, h
    <2>2. Len(Tail(u)) = Len(t)  BY ONLY <2>1
    <2>3. ASSUME NEW i \in 1..Len(t) PROVE Tail(u)[i] = t[i]
      <3>1. /\ i \in 1..((nb - 1) + nw) /\ i + 1 \in 1..(nb + nw)
            /\ (i <= nb - 1 <=> i + 1 <= nb) /\ (i + 1) - nb = i - (nb - 1)
            /\ (i <= nb - 1 => i \in 1..(nb - 1))
        BY ONLY <2>1, i \in 1..Len(t)
      <3>2. Tail(u)[i] = u[i + 1]  BY <1>8, <2>2, <2>3
      <3>3. u[i + 1] = IF i + 1 <= nb THEN b[i + 1] ELSE w[(i + 1) - nb]
        BY ONLY <1>5, <3>1 DEF nb, nw
      <3>4. t[i] = IF i <= nb - 1 THEN h[i] ELSE w[i - (nb - 1)]
        BY ONLY <1>6, <2>1, <3>1 DEF nw
      <3>5. i <= nb - 1 => h[i] = b[i + 1]
        BY ONLY <1>3, <2>1, <3>1 DEF h
      <3> QED  BY ONLY <3>1, <3>2, <3>3, <3>4, <3>5
    <2> QED  BY <1>6, <1>8, <2>2, <2>3, SeqEqual
  <1> QED  BY <1>3, <1>4, <1>7, <1>9 DEF u, t, h
LEMMA NextByte ==
  ASSUME Bytes, GoodPackets, NEW j \in Nat, Within(j), buffer # <<>>,
         NEW m, m = sent[Taken + 1],
         NEW fed, fed = Fed(packet, Head(buffer))
  PROVE  /\ fed \in Packet
         /\ \/ /\ j + 1 \in 0..(Len(m.bytes) - 1) /\ fed.state \in Going
               /\ \E P : Accepts(P, m) /\ fed = P[j + 1]
               /\ Tail(buffer) \o wire
                    = Drop(m.bytes, j + 1) \o Stream(Drop(sent, Taken + 1))
            \/ /\ fed.state = "complete" /\ Contents(fed) = m.meant
               /\ fed.data[1] = Dollar => fed.csum = DataCrc(fed)
               /\ Tail(buffer) \o wire = Stream(Drop(sent, Taken + 1))
  <1> DEFINE b == m.bytes
             n == Len(b)
             rest == Stream(Drop(sent, Taken + 1))
             d == Drop(b, j)
             ch == Head(buffer)
  <1>1. Taken < Len(sent) /\ Taken + 1 \in 1..Len(sent) /\ Taken + 1 \in 0..Len(sent)
    <2>1. Taken # Len(sent) /\ Taken < Len(sent)  BY Sizes DEF Within
    <2> QED  BY <2>1, Sizes
  <1>2. m \in Sendable /\ Drop(sent, Taken + 1) \in Seq(Sendable)
    BY <1>1, ElementOfSeq, DropIs DEF Bytes
  <1>3. b \in Seq(Byte) /\ n \in Nat /\ rest \in Seq(Byte)
    <2>1. b \in Seq(Byte) /\ rest \in Seq(Byte)  BY <1>2, SendableIs, StreamIs
    <2> QED  BY <2>1, LenProperties
  <1>4. j \in 0..(n - 1)  BY DEF Within
  <1>5. j \in 0..n /\ j # n /\ j < n /\ j + 1 \in 1..n /\ (j + 1) - 1 = j /\ j + 1 \in 0..n
    BY <1>3, <1>4
  <1>6. /\ d \in Seq(Byte) /\ d # <<>> /\ Head(d) = b[j + 1] /\ Tail(d) = Drop(b, j + 1)
    <2> HIDE DEF b
    <2>1. j \in 0..Len(b) /\ j # Len(b) /\ j < Len(b)  BY <1>5
    <2>2. d \in Seq(Byte) /\ (d = <<>> <=> j = Len(b))  BY <1>3, <2>1, DropIs
    <2>3. j < Len(b) => Head(d) = b[j + 1] /\ Tail(d) = Drop(b, j + 1)
      BY <1>3, <2>1, DropIs
    <2> QED  BY <2>1, <2>2, <2>3
  <1>7. Unread = d \o rest  BY DEF Within
  <1>8. PICK P : Accepts(P, m) /\ packet = P[j]  BY DEF Within
  <1>9. /\ P \in [0..n -> Packet]
        /\ \A i \in 1..n : P[i] = Fed(P[i - 1], b[i])
        /\ \A i \in 1..(n - 1) : P[i].state \in Going
        /\ P[n].state = "complete" /\ Contents(P[n]) = m.meant
        /\ P[n].data[1] = Dollar => P[n].csum = DataCrc(P[n])
    BY <1>8 DEF Accepts, Parses
  <1>10. ch = Unread[1] /\ Tail(Unread) = Tail(buffer) \o wire
    BY HeadTailConcat DEF Bytes, Unread
  <1> HIDE DEF d, rest
  <1>11. Unread[1] = b[j + 1] /\ Tail(Unread) = Drop(b, j + 1) \o rest
    <2>1. /\ Head(d) = d[1] /\ (d \o rest)[1] = d[1]
          /\ Tail(d \o rest) = Tail(d) \o rest
      BY <1>3, <1>6, HeadTailConcat
    <2> QED  BY ONLY <1>6, <1>7, <2>1
  <1> HIDE DEF b, n, ch
  <1>12. fed = P[j + 1]
    <2>1. P[j + 1] = Fed(P[(j + 1) - 1], b[j + 1])  BY <1>5, <1>9
    <2>2. fed = Fed(packet, ch)  BY DEF ch
    <2> QED  BY ONLY <1>5, <1>8, <1>10, <1>11, <2>1, <2>2
  <1>13. fed \in Packet  BY <1>5, <1>9, <1>12
  <1>14. CASE j + 1 = n
    <2>1. Drop(b, n) = <<>>
      <3>1. n \in 0..Len(b) /\ n = Len(b)  BY <1>3 DEF n
      <3>2. Drop(b, n) = <<>> <=> n = Len(b)  BY <1>3, <3>1, DropIs
      <3> QED  BY <3>1, <3>2
    <2>2. <<>> \o rest = rest  BY <1>3, ConcatEmptySeq
    <2>3. Tail(buffer) \o wire = rest
      BY ONLY <1>10, <1>11, <1>14, <2>1, <2>2
    <2> QED  BY <1>9, <1>12, <1>13, <1>14, <2>3 DEF rest
  <1>15. CASE j + 1 # n
    <2>1. j + 1 \in 1..(n - 1) /\ j + 1 \in 0..(n - 1)  BY <1>3, <1>5, <1>15
    <2>2. fed.state \in Going  BY <1>9, <1>12, <2>1
    <2>3. Tail(buffer) \o wire = Drop(b, j + 1) \o rest
      BY ONLY <1>10, <1>11
    <2> QED  BY <1>8, <1>12, <1>13, <2>1, <2>2, <2>3 DEF b, n, rest
  <1> QED  BY <1>14, <1>15

LEMMA TakeStream ==
  ASSUME StreamInv, Take
  PROVE  StreamInv'
  <1> DEFINE fed == Fed(packet, Head(buffer))
             m   == sent[Taken + 1]
  <1>1. Bytes /\ Position /\ GoodPackets /\ AbortsOnStray  BY DEF StreamInv
  <1>2. status = "ok" /\ buffer # <<>> /\ UNCHANGED <<sent, wire>>  BY DEF Take
  <1>3. \/ /\ fed.state = "invalid" /\ status' = "aborted"
           /\ UNCHANGED <<buffer, packet, delivered>>
        \/ /\ fed.state = "complete" /\ buffer' = Tail(buffer) /\ status' = status
           /\ packet' = Fresh /\ delivered' = Append(delivered, fed)
        \/ /\ fed.state \notin {"invalid", "complete"} /\ buffer' = Tail(buffer)
           /\ packet' = fed /\ UNCHANGED <<delivered, status>>
    BY DEF Take
  <1>4. /\ Tail(buffer) \in Seq(Byte) /\ Len(Tail(buffer)) <= BufSize
        /\ Head(buffer) = Unread[1] /\ Unread # <<>>
    <2>1. buffer \in Seq(Byte) /\ wire \in Seq(Byte) /\ Len(buffer) <= BufSize
      BY <1>1 DEF Bytes
    <2>2. /\ Head(buffer) = buffer[1] /\ Tail(buffer) \in Seq(Byte)
          /\ Len(Tail(buffer)) = Len(buffer) - 1
          /\ buffer \o wire # <<>> /\ (buffer \o wire)[1] = buffer[1]
      BY <1>2, <2>1, HeadTailConcat
    <2>3. Len(Tail(buffer)) <= BufSize
      <3>1. Len(buffer) \in Nat /\ BufSize \in Nat
        BY <2>1, LenProperties, StreamAssumption
      <3> QED  BY ONLY <2>1, <2>2, <3>1
    <2> QED  BY <2>2, <2>3 DEF Unread
  <1>5. Taken \in Nat /\ Len(sent) \in Nat  BY <1>1, Sizes
  <1>6. ASSUME NEW j \in Nat, Within(j) PROVE StreamInv'
    <2>1. Taken < Len(sent) /\ m \in Messages  BY <1>6 DEF Within
    <2>2. /\ fed \in Packet
          /\ \/ /\ j + 1 \in 0..(Len(m.bytes) - 1) /\ fed.state \in Going
                /\ \E P : Accepts(P, m) /\ fed = P[j + 1]
                /\ Tail(buffer) \o wire
                     = Drop(m.bytes, j + 1) \o Stream(Drop(sent, Taken + 1))
             \/ /\ fed.state = "complete" /\ Contents(fed) = m.meant
                /\ fed.data[1] = Dollar => fed.csum = DataCrc(fed)
                /\ Tail(buffer) \o wire = Stream(Drop(sent, Taken + 1))
      BY <1>1, <1>2, <1>6, NextByte
    <2> HIDE DEF fed
    <2>3. CASE fed.state \in Going
      <3>1. fed.state \notin {"invalid", "complete"}  BY <2>3 DEF Going
      <3>2. buffer' = Tail(buffer) /\ packet' = fed /\ UNCHANGED <<delivered, status>>
        BY <1>3, <3>1
      <3>3. Taken' = Taken  BY <3>2 DEF Taken
      <3>4. Bytes'  BY <1>1, <1>2, <1>4, <3>2 DEF Bytes
      <3>5. GoodPackets' /\ AbortsOnStray'
        BY <1>1, <1>2, <3>2, <3>3 DEF GoodPackets, AbortsOnStray
      <3>6. Unread' = Tail(buffer) \o wire  BY <1>2, <3>2 DEF Unread
      <3>7. m' = m  BY <1>2, <3>3
      <3>8. Within(j + 1)'
        <4>1. /\ j + 1 \in 0..(Len(m.bytes) - 1)
              /\ \E P : Accepts(P, m) /\ fed = P[j + 1]
              /\ Tail(buffer) \o wire
                   = Drop(m.bytes, j + 1) \o Stream(Drop(sent, Taken + 1))
          BY <2>2, <2>3 DEF Going
        <4> QED  BY <1>2, <2>1, <3>2, <3>3, <3>6, <4>1 DEF Within
      <3>9. j + 1 \in Nat \ {0}  OBVIOUS
      <3> QED  BY <3>4, <3>5, <3>8, <3>9 DEF StreamInv, Position
    <2>4. CASE fed.state \notin Going
      <3>1. /\ fed.state = "complete" /\ Contents(fed) = m.meant
            /\ fed.data[1] = Dollar => fed.csum = DataCrc(fed)
            /\ Tail(buffer) \o wire = Stream(Drop(sent, Taken + 1))
        BY <2>2, <2>4
      <3>2. /\ buffer' = Tail(buffer) /\ packet' = Fresh
            /\ delivered' = Append(delivered, fed) /\ status' = "ok"
        BY <1>2, <1>3, <3>1
      <3>3. /\ delivered' \in Seq(Packet) /\ Taken' = Taken + 1
            /\ delivered'[Taken + 1] = fed
            /\ \A i \in 1..Taken : delivered'[i] = delivered[i]
        BY <1>1, <2>2, <3>2, AppendProperties DEF GoodPackets, Taken
      <3>4. Bytes'  BY <1>1, <1>2, <1>4, <3>2 DEF Bytes
      <3>5. GoodPackets'
        <4>1. Taken + 1 <= Len(sent) /\ \A i \in 1..(Taken + 1) : i \in 1..Taken \/ i = Taken + 1
          BY <1>5, <2>1
        <4>2. ASSUME NEW i \in 1..(Taken + 1)
              PROVE  /\ Contents(delivered'[i]) = sent[i].meant
                     /\ delivered'[i].data[1] = Dollar =>
                          delivered'[i].csum = DataCrc(delivered'[i])
          <5>1. CASE i \in 1..Taken  BY <1>1, <3>3, <5>1 DEF GoodPackets
          <5>2. CASE i = Taken + 1  BY <3>1, <3>3, <5>2
          <5> QED  BY <4>1, <5>1, <5>2
        <4> QED  BY <1>2, <3>3, <4>1, <4>2 DEF GoodPackets
      <3>6. AbortsOnStray'  BY <3>2 DEF AbortsOnStray
      <3>7. Between'
        <4>1. Unread' = Tail(buffer) \o wire  BY <1>2, <3>2 DEF Unread
        <4> QED  BY <1>2, <3>1, <3>2, <3>3, <4>1 DEF Between
      <3> QED  BY <3>4, <3>5, <3>6, <3>7 DEF StreamInv, Position
    <2> QED  BY <2>3, <2>4
  <1>7. CASE Between
    <2>1. /\ Taken < Len(sent)
          /\ Within(0) \/ (m \in Strays /\ Unread[1] = m.bytes[1])
      BY <1>1, <1>4, <1>7, FrontIs
    <2>2. CASE Within(0)
      <3>1. 0 \in Nat  OBVIOUS
      <3> QED  BY <1>6, <2>2, <3>1
    <2>3. CASE m \in Strays /\ Unread[1] = m.bytes[1]
      <3>1. fed = Fresh
        <4>1. Fed(Fresh, m.bytes[1]) = Fresh  BY <2>3, SendableIs
        <4> QED  BY <1>4, <1>7, <2>3, <4>1 DEF Between
      <3>2. fed.state = "invalid"  BY <3>1, FreshIs
      <3> HIDE DEF fed
      <3>3. status' = "aborted" /\ UNCHANGED <<buffer, packet, delivered>>
        BY <1>3, <3>2
      <3>4. Taken' = Taken /\ Unread' = Unread  BY <1>2, <3>3 DEF Taken, Unread
      <3>5. Bytes' /\ GoodPackets'
        BY <1>1, <1>2, <3>3, <3>4 DEF Bytes, GoodPackets
      <3>6. Between'  BY <1>2, <1>7, <3>3, <3>4 DEF Between
      <3>7. AbortsOnStray'
        <4>1. \E c \in Stray : m = Single(c)  BY <2>3 DEF Strays
        <4> QED  BY <1>2, <2>1, <3>3, <4>1 DEF AbortsOnStray, Taken
      <3> QED  BY <3>5, <3>6, <3>7 DEF StreamInv, Position
    <2> QED  BY <2>1, <2>2, <2>3
  <1>8. CASE \E j \in Nat \ {0} : Within(j)  BY <1>6, <1>8
  <1> QED  BY <1>1, <1>7, <1>8 DEF Position

-----------------------------------------------------------------------------
(* The packet the proxy composes.                                           *)

OwnInv ==
  /\ text \in Seq(PlainByte)
  /\ \/ own = Made(<<Dollar>> \o text, "data", Sum(text))
     \/ own = Made(Encoded(text), "complete", Sum(text))

LEMMA OwnIs ==
  ASSUME OwnInv
  PROVE  /\ text \in Seq(Byte) /\ own \in Packet
         /\ own.state = "data" => own = Made(<<Dollar>> \o text, "data", Sum(text))
         /\ own.state # "data" => own.state = "complete" /\ own.data = Encoded(text)
  <1>1. text \in Seq(Byte)  BY PlainIs, SeqMonotonic DEF OwnInv
  <1>2. Sum(text) \in Csum  BY <1>1, SumFacts
  <1>3. <<Dollar>> \o text \in Seq(Byte)  BY LastOfText DEF OwnInv
  <1>4. Encoded(text) = Ended(text, Sum(text))  BY <1>1, EncodedIs DEF Ended
  <1>5. Encoded(text) \in Seq(Byte)  BY <1>2, <1>4, EndedIs DEF OwnInv
  <1>6. "data" \in States /\ "complete" \in States  BY DEF States
  <1>7. CASE own = Made(<<Dollar>> \o text, "data", Sum(text))
    <2>1. own \in Packet  BY <1>2, <1>3, <1>6, <1>7, MadeIs
    <2>2. own.state = "data"  BY <1>7 DEF Made
    <2> QED  BY <1>1, <1>7, <2>1, <2>2
  <1>8. CASE own = Made(Encoded(text), "complete", Sum(text))
    <2>1. own \in Packet  BY <1>2, <1>5, <1>6, <1>8, MadeIs
    <2>2. own.state = "complete" /\ own.data = Encoded(text)  BY <1>8 DEF Made
    <2> QED  BY <1>1, <2>1, <2>2
  <1> QED  BY <1>7, <1>8 DEF OwnInv

LEMMA InitOwn == Init => OwnInv
  <1> SUFFICES ASSUME Init PROVE OwnInv  OBVIOUS
  <1>1. text = <<>> /\ own = Begun(Fresh, Dollar)  BY DEF Init
  <1>2. Fed(Fresh, Dollar) = Begun(Fresh, Dollar)  BY FreshIs DEF Fed
  <1>3. Fed(Fresh, Dollar) = Made(<<Dollar>>, "data", 0)  BY FedFirst, CodesApart
  <1>4. <<Dollar>> \o <<>> = <<Dollar>>
    <2>1. <<Dollar>> \in Seq(Byte)  BY CodesApart
    <2> QED  BY <2>1, ConcatEmptySeq
  <1>5. text \in Seq(PlainByte)  BY <1>1
  <1>6. Sum(<<>>) = 0  BY SumFacts
  <1> QED  BY ONLY <1>1, <1>2, <1>3, <1>4, <1>5, <1>6 DEF OwnInv

LEMMA PutOwn ==
  ASSUME OwnInv, Put
  PROVE  OwnInv'
  <1>1. own.state = "data"  BY DEF Put
  <1>2. PICK c \in Alphabet : text' = Append(text, c) /\ own' = Fed(own, c)
    BY DEF Put
  <1>3. c \in PlainByte /\ c \in Byte /\ c # Hash /\ c # Star
    BY StreamAssumption, PlainIs
  <1>4. text' \in Seq(PlainByte)  BY <1>2, <1>3, AppendProperties DEF OwnInv
  <1>5. text \in Seq(Byte) /\ own = Made(<<Dollar>> \o text, "data", Sum(text))
    BY <1>1, OwnIs
  <1>6. Append(<<Dollar>> \o text, c) = <<Dollar>> \o Append(text, c)
    BY <1>3, <1>5, Dollared
  <1>7. Sum(Append(text, c)) = (Sum(text) + c) % CsumRange
    BY <1>3, <1>5, SumFacts
  <1>8. own' = Made(Append(<<Dollar>> \o text, c), "data", (Sum(text) + c) % CsumRange)
    BY <1>2, <1>3, <1>5, FedData
  <1>9. own' = Made(<<Dollar>> \o text', "data", Sum(text'))
    BY ONLY <1>2, <1>6, <1>7, <1>8
  <1> QED  BY <1>4, <1>9 DEF OwnInv

LEMMA FinalizeOwn ==
  ASSUME OwnInv, Finalize
  PROVE  OwnInv'
  <1> DEFINE sum == Sum(text)
             high == High(sum)
             low == Low(sum)
             d0 == <<Dollar>> \o text
             d1 == Append(d0, Hash)
             d2 == Append(d1, high)
  <1>1. own.state = "data" /\ own' = Finalized(own) /\ text' = text  BY DEF Finalize
  <1>2. text \in Seq(Byte) /\ own = Made(d0, "data", sum)  BY <1>1, OwnIs
  <1>3. sum \in Csum /\ text \in Seq(PlainByte)  BY <1>2, SumFacts DEF OwnInv
  <1>4. Digits(sum) = <<Hash, high, low>>  BY <1>3, DigitsAre
  <1>5. own.csum = sum  BY <1>2 DEF Made
  <1> HIDE DEF sum
  <1>6. /\ Fed(Made(d0, "data", sum), Hash) = Made(d1, "crc", sum)
        /\ Fed(Made(d1, "crc", sum), high) = Made(d2, "crc", sum)
        /\ Fed(Made(d2, "crc", sum), low) = Made(Ended(text, sum), "complete", sum)
    BY <1>3, EndedIs
  <1> HIDE DEF high, low, d0, d1, d2
  <1>7. Finalized(own) = Fed(Fed(Fed(own, Digits(sum)[1]), Digits(sum)[2]), Digits(sum)[3])
    BY <1>1, <1>5 DEF Finalized
  <1>8. Digits(sum)[1] = Hash /\ Digits(sum)[2] = high /\ Digits(sum)[3] = low
    BY <1>4
  <1>9. Finalized(own) = Made(Ended(text, sum), "complete", sum)
    BY ONLY <1>2, <1>6, <1>7, <1>8
  <1>10. Encoded(text) = Ended(text, sum)  BY <1>2, EncodedIs DEF Ended, sum
  <1>11. own' = Made(Encoded(text'), "complete", Sum(text'))
    BY ONLY <1>1, <1>9, <1>10 DEF sum
  <1> QED  BY <1>1, <1>3, <1>11 DEF OwnInv

-----------------------------------------------------------------------------
(* The theorems.                                                            *)

Inv == StreamInv /\ OwnInv

LEMMA InitInv == Init => Inv
  BY InitStream, InitOwn DEF Inv

LEMMA StreamKept ==
  ASSUME StreamInv, UNCHANGED inVars
  PROVE  StreamInv'
  BY DEF StreamInv, Bytes, Position, Between, Within, GoodPackets, AbortsOnStray,
         Unread, Taken, inVars

LEMMA OwnKept ==
  ASSUME OwnInv, UNCHANGED ownVars
  PROVE  OwnInv'
  BY DEF OwnInv, ownVars

LEMMA StepInv ==
  ASSUME Inv, [Next]_vars
  PROVE  Inv'
  <1> USE DEF Inv
  <1>1. CASE Send
    <2>1. PICK m \in {Data(runs) : runs \in Payloads} \cup {Single(c) : c \in Signals \cup Stray} :
            sent' = Append(sent, m) /\ wire' = wire \o m.bytes
      BY <1>1 DEF Send
    <2>2. m \in Sendable  BY <2>1 DEF Sendable, Messages, Strays
    <2>3. UNCHANGED <<buffer, packet, delivered, status>> /\ UNCHANGED ownVars
      BY <1>1 DEF Send
    <2> QED  BY <2>1, <2>2, <2>3, SendStream, OwnKept
  <1>2. CASE Read
    <2>1. UNCHANGED ownVars  BY <1>2 DEF Read
    <2> QED  BY <1>2, <2>1, ReadStream, OwnKept
  <1>3. CASE Take
    <2>1. UNCHANGED ownVars  BY <1>3 DEF Take
    <2> QED  BY <1>3, <2>1, TakeStream, OwnKept
  <1>4. CASE Put
    <2>1. UNCHANGED inVars  BY <1>4 DEF Put
    <2> QED  BY <1>4, <2>1, PutOwn, StreamKept
  <1>5. CASE Finalize
    <2>1. UNCHANGED inVars  BY <1>5 DEF Finalize, inVars
    <2> QED  BY <1>5, <2>1, FinalizeOwn, StreamKept
  <1>6. CASE UNCHANGED vars
    <2>1. UNCHANGED inVars /\ UNCHANGED ownVars  BY <1>6 DEF vars, inVars, ownVars
    <2> QED  BY <2>1, StreamKept, OwnKept
  <1> QED  BY <1>1, <1>2, <1>3, <1>4, <1>5, <1>6 DEF Next

(* Every reachable state satisfies the invariant.                           *)
LEMMA Invariance == Spec => []Inv
  BY InitInv, StepInv, PTL DEF Spec

(* Every variable stays in its domain: the sum in its eight bits, the read  *)
(* in the buffer, and m_packet is never kept when it is complete.           *)
THEOREM TypeCorrect == Spec => []TypeOK
  <1>1. ASSUME Inv PROVE TypeOK
    <2>1. packet \in Packet /\ packet.state # "complete"
      BY <1>1, PositionIs DEF Inv, StreamInv
    <2>2. text \in Seq(Byte) /\ own \in Packet  BY <1>1, OwnIs DEF Inv
    <2> QED  BY <1>1, <2>1, <2>2 DEF Inv, StreamInv, Bytes, GoodPackets, TypeOK
  <1> QED  BY <1>1, Invariance, PTL

(* For every sequence of packets and every way TCP cuts it into reads, the  *)
(* handler gets the packets in order, each once and as it was meant, and    *)
(* process_data leaves none behind once all bytes are read.                 *)
THEOREM PacketsAreFramed == Spec => []Framed
  <1>1. ASSUME Inv PROVE Framed
    <2>1. Len(delivered) <= Len(sent)
          /\ \A i \in 1..Len(delivered) : Contents(delivered[i]) = sent[i].meant
      BY <1>1 DEF Inv, StreamInv, GoodPackets, Taken
    <2>2. ASSUME wire = <<>>, buffer = <<>> PROVE Len(delivered) = Len(sent)
      <3>1. Unread = <<>>
        <4>1. <<>> \in Seq(Byte)  OBVIOUS
        <4> QED  BY <2>2, <4>1, ConcatEmptySeq DEF Unread
      <3>2. Taken = Len(sent)  BY <1>1, <3>1, PositionIs DEF Inv, StreamInv
      <3> QED  BY <3>2 DEF Taken
    <2> QED  BY <2>1, <2>2 DEF Framed
  <1> QED  BY <1>1, Invariance, PTL

(* calc_crc() of every packet the handler gets is its data_crc(): the sum   *)
(* is that of the bytes as they were sent, runs not written out.            *)
THEOREM SumsAreVerified == Spec => []ChecksumVerified
  <1>1. ASSUME Inv PROVE ChecksumVerified
    BY <1>1 DEF Inv, StreamInv, GoodPackets, Taken, ChecksumVerified
  <1> QED  BY <1>1, Invariance, PTL

(* The assertion of process_data can fail for a stray byte between packets  *)
(* and for nothing else: in a packet every byte is taken.                   *)
THEOREM OnlyStrayAborts == Spec => []AbortsOnStray
  <1>1. ASSUME Inv PROVE AbortsOnStray
    BY <1>1 DEF Inv, StreamInv
  <1> QED  BY <1>1, Invariance, PTL

(* What the proxy composes with parse and finalize is the well-formed       *)
(* packet of its text, whatever that is.                                    *)
THEOREM ComposesWellFormed == Spec => []WellComposed
  <1>1. ASSUME Inv PROVE WellComposed
    BY <1>1, OwnIs DEF Inv, WellComposed
  <1> QED  BY <1>1, Invariance, PTL
=============================================================================
