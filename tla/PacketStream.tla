----------------------------- MODULE PacketStream -----------------------------
(****************************************************************************)
(* One direction of a connection as the bytes see it: channel::start_read   *)
(* and channel::process_data cut the packets out of a TCP stream, which     *)
(* delivers the bytes in order but in reads of any size; and a packet the   *)
(* proxy composes itself.  The peer is external: it sends well-formed       *)
(* packets, run-length encoded or not, and now and then a stray byte.       *)
(*                                                                          *)
(* process_data consumes a read without being interrupted, and what it does *)
(* touches nothing but the channel until a packet is complete, so that each *)
(* byte may be a step.                                                      *)
(****************************************************************************)
EXTENDS GdbPacket

(* What a well-formed packet contains is a sequence of runs: a byte, and how *)
(* often it is repeated after that.  The count of a run is sent as one byte  *)
(* that can be printed and is neither '#' nor '$', never for less than three.*)
PlainByte == Byte \ {Hash, Dollar, Star}
Counts    == (Blank..126) \ {Hash, Dollar}
Run       == [ch : PlainByte, more : {0} \cup {c - Blank + 3 : c \in Counts}]

CONSTANTS
  Payloads,    \* contents of the data packets of the peer, as runs
  Signals,     \* the packets of one byte it uses
  Stray,       \* bytes it may send between two packets
  Alphabet,    \* bytes of the packet the proxy composes
  BufSize,     \* capacity of data_buffer (8192)
  MaxPackets,  \* bound: packets and stray bytes of the peer
  MaxText      \* bound: length of the packet the proxy composes

ASSUME StreamAssumption ==
  /\ Payloads \subseteq Seq(Run) /\ Alphabet \subseteq PlainByte
  /\ Signals \subseteq Starts \ {Dollar} /\ Stray \subseteq Byte \ Starts
  /\ BufSize \in Nat \ {0} /\ MaxPackets \in Nat /\ MaxText \in Nat

VARIABLES
  sent,       \* the packets of the peer and its stray bytes: bytes and meaning
  wire,       \* bytes the proxy has not read
  buffer,     \* m_buffer, without what is consumed
  packet,     \* m_packet
  delivered,  \* packets given to the packet handler
  status,     \* "ok", or "aborted" by the assertion
  text,       \* what was parsed into the packet the proxy composes
  own         \* that packet

inVars  == <<sent, wire, buffer, packet, delivered, status>>
ownVars == <<text, own>>
vars    == <<inVars, ownVars>>

Init ==
  /\ sent = <<>> /\ wire = <<>> /\ buffer = <<>>
  /\ packet = Fresh /\ delivered = <<>> /\ status = "ok"
  /\ text = <<>> /\ own = Begun(Fresh, Dollar)

-----------------------------------------------------------------------------
(* The peer.  The checksum is that of the bytes as they are sent; what they  *)
(* mean has every run written out.                                          *)
Sum(bytes) ==
  LET sum[n \in 0..Len(bytes)] ==
        IF n = 0 THEN 0 ELSE (sum[n - 1] + bytes[n]) % CsumRange
  IN  sum[Len(bytes)]
Encoded(body) == <<Dollar>> \o body \o Digits(Sum(body))

Coded(run) ==
  IF run.more = 0 THEN <<run.ch>> ELSE <<run.ch, Star, run.more + Blank - 3>>
Written(run) == [i \in 1..(run.more + 1) |-> run.ch]

Data(runs) ==
  [bytes |-> Encoded(FlattenSeq([i \in DOMAIN runs |-> Coded(runs[i])])),
   meant |-> FlattenSeq([i \in DOMAIN runs |-> Written(runs[i])])]
Single(ch) == [bytes |-> <<ch>>, meant |-> <<ch>>]

Send ==
  /\ Len(sent) < MaxPackets
  /\ \E m \in {Data(runs) : runs \in Payloads} \cup {Single(c) : c \in Signals \cup Stray} :
       sent' = Append(sent, m) /\ wire' = wire \o m.bytes
  /\ UNCHANGED <<buffer, packet, delivered, status, ownVars>>

-----------------------------------------------------------------------------
MutRead ==   \* mutant: every read starts with a new packet
  /\ status = "ok" /\ buffer = <<>>
  /\ \E n \in 1..Len(wire) :
       /\ n <= BufSize
       /\ buffer' = SubSeq(wire, 1, n)
       /\ wire' = SubSeq(wire, n + 1, Len(wire))
  /\ packet' = Fresh
  /\ UNCHANGED <<sent, delivered, status, ownVars>>

MutReadFull ==   \* mutant: the read waits until the buffer is full
  /\ status = "ok" /\ buffer = <<>>
  /\ Len(wire) >= BufSize
  /\ buffer' = SubSeq(wire, 1, BufSize)
  /\ wire' = SubSeq(wire, BufSize + 1, Len(wire))
  /\ UNCHANGED <<sent, packet, delivered, status, ownVars>>

(* A read returns what there is, as far as the buffer goes; or less.        *)
Read ==
  /\ status = "ok" /\ buffer = <<>>
  /\ \E n \in 1..Len(wire) :
       /\ n <= BufSize
       /\ buffer' = SubSeq(wire, 1, n)
       /\ wire' = SubSeq(wire, n + 1, Len(wire))
  /\ UNCHANGED <<sent, packet, delivered, status, ownVars>>

MutTake ==   \* mutant: m_packet is not reset when it was handed over
  /\ status = "ok" /\ buffer # <<>>
  /\ LET fed == Fed(packet, Head(buffer))
     IN  IF fed.state \in {"invalid"} \/ packet.state = "complete"
         THEN status' = "aborted" /\ UNCHANGED <<buffer, packet, delivered>>
         ELSE /\ buffer' = Tail(buffer)
              /\ packet' = fed
              /\ delivered' = IF fed.state = "complete"
                              THEN Append(delivered, fed) ELSE delivered
              /\ UNCHANGED status
  /\ UNCHANGED <<sent, wire, ownVars>>

(* process_data gives parse the next byte.  A byte that no packet starts    *)
(* with is not consumed, and the assertion fails; a complete packet goes to *)
(* the packet handler, and m_packet is reset.                               *)
Take ==
  /\ status = "ok" /\ buffer # <<>>
  /\ LET fed == Fed(packet, Head(buffer))
     IN  \/ /\ fed.state = "invalid"
            /\ status' = "aborted"
            /\ UNCHANGED <<buffer, packet, delivered>>
         \/ /\ fed.state = "complete"
            /\ buffer' = Tail(buffer)
            /\ packet' = Fresh /\ delivered' = Append(delivered, fed)
            /\ UNCHANGED status
         \/ /\ fed.state \notin {"invalid", "complete"}
            /\ buffer' = Tail(buffer)
            /\ packet' = fed
            /\ UNCHANGED <<delivered, status>>
  /\ UNCHANGED <<sent, wire, ownVars>>

-----------------------------------------------------------------------------
(* A packet of the proxy: packet_data, parse for its pieces, finalize.      *)
Put ==
  /\ own.state = "data" /\ Len(text) < MaxText
  /\ \E c \in Alphabet : text' = Append(text, c) /\ own' = Fed(own, c)
  /\ UNCHANGED inVars

Finalize ==
  /\ own.state = "data" /\ MaxText > 0
  /\ own' = Finalized(own)
  /\ UNCHANGED <<text, inVars>>

-----------------------------------------------------------------------------
Next == Send \/ Read \/ Take \/ Put \/ Finalize

Spec == Init /\ [][Next]_vars

(* The io_service runs the read handler when there are bytes.               *)
FairSpec == Spec /\ WF_vars(Read) /\ WF_vars(Take)

-----------------------------------------------------------------------------
(* Properties.                                                              *)

(* Every variable stays in its domain.                                      *)
TypeOK ==
  /\ wire \in Seq(Byte) /\ buffer \in Seq(Byte) /\ Len(buffer) <= BufSize
  /\ packet \in Packet /\ packet.state # "complete"
  /\ delivered \in Seq(Packet)
  /\ status \in {"ok", "aborted"}
  /\ text \in Seq(Byte) /\ own \in Packet

Contents(p) == IF p.data[1] = Dollar THEN Payload(p) ELSE p.data

(* However the stream is cut into reads, and although m_packet is kept over *)
(* any number of them, the handler gets the packets of the peer with their  *)
(* meaning, each once and in order, and the last when its last byte was     *)
(* read.                                                                    *)
Framed ==
  /\ Len(delivered) <= Len(sent)
  /\ \A i \in 1..Len(delivered) : Contents(delivered[i]) = sent[i].meant
  /\ status = "ok" /\ wire = <<>> /\ buffer = <<>> =>
       Len(delivered) = Len(sent)

(* calc_crc() of a packet is data_crc(), the sum its sender declared: it is *)
(* taken over the bytes as they came, also where runs were written out.     *)
ChecksumVerified ==
  \A i \in 1..Len(delivered) :
    delivered[i].data[1] = Dollar => delivered[i].csum = DataCrc(delivered[i])

(* The assertion "Invalid packet data?" of process_data fails for a stray   *)
(* byte between packets and for nothing else: inside a packet every byte is *)
(* taken, so the loop advances.                                             *)
AbortsOnStray ==
  status = "aborted" =>
    /\ Len(delivered) < Len(sent)
    /\ \E c \in Stray : sent[Len(delivered) + 1] = Single(c)

(* Whatever arrives is read and parsed to the end, unless the proxy aborts. *)
Drained ==
  wire # <<>> ~> (wire \o buffer = <<>> \/ status = "aborted")

(* A packet the proxy composes is what its peer expects: '$', the contents, *)
(* '#' and two digits of checksum.                                          *)
WellComposed ==
  own.state # "data" => own.state = "complete" /\ own.data = Encoded(text)
=============================================================================
