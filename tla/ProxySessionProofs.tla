-------------------------- MODULE ProxySessionProofs --------------------------
(****************************************************************************)
(* Theorems about a session, for every value of the constants: its types,   *)
(* the round trip of the queue of a quiet session (neither acknowledges nor *)
(* breaks), what stays in order whatever the session suffers, breaks,       *)
(* acknowledges, refusals, repeated commands, an aborted handler, and that  *)
(* the queue never runs out, nor loses a command that is being written.     *)
(****************************************************************************)
EXTENDS ProxySession, SequenceTheorems, FiniteSetTheorems, TLAPS

-----------------------------------------------------------------------------
(* Type correctness.                                                        *)

LEMMA PacketFields ==
  ASSUME NEW p \in Packet
  PROVE  /\ p.type \in Types /\ p.tag \in Nat \X Nat
         /\ p.tag[1] \in Nat /\ p.tag[2] \in Nat
         /\ p.kind \in Requested \cup Replied \cup {"none"}
  BY DEF Packet

LEMMA TransferFields ==
  ASSUME NEW t \in Transfer
  PROVE  t.pkt \in Packet /\ t.internal \in BOOLEAN
  BY DEF Transfer

LEMMA MakePacket ==
  ASSUME NEW t \in Nat \X Nat
  PROVE  /\ Ack(t) \in Packet /\ Nak(t) \in Packet /\ Brk(t) \in Packet
         /\ \A k \in Requested \cup Replied : Dat(k, t) \in Packet
  BY DEF Ack, Nak, Brk, Dat, Packet, Types

LEMMA MakeTransfer ==
  ASSUME NEW p \in Packet
  PROVE  Ext(p) \in Transfer /\ Internal(p) \in Transfer
  BY DEF Ext, Internal, Transfer

LEMMA MakeMemRead ==
  ASSUME NEW k \in {"scan", "fetch"}, NEW n \in Nat, NEW j \in Nat
  PROVE  MemRead(k, n, j) \in Transfer
  <1>1. <<n, j>> \in Nat \X Nat  OBVIOUS
  <1>2. Dat(k, <<n, j>>) \in Packet  BY <1>1, MakePacket DEF Requested
  <1> QED  BY <1>2, MakeTransfer DEF MemRead

LEMMA SeqTypes ==
  ASSUME NEW S, NEW s \in Seq(S)
  PROVE  /\ \A x \in S : Append(s, x) \in Seq(S)
         /\ s # <<>> => Head(s) \in S /\ Tail(s) \in Seq(S)
  BY AppendProperties, HeadTailProperties

LEMMA StartWriteType ==
  ASSUME TypeOK, NEW t \in Transfer, StartWrite(t)
  PROVE  /\ requests' \in Seq(Transfer) /\ reqWrites' \in Seq(Transfer)
         /\ responses' \in Seq(Transfer)
  <1>1. <<t>> \o requests \in Seq(Transfer)
    BY ConcatProperties, <<t>> \in Seq(Transfer) DEF TypeOK
  <1> QED  BY <1>1, SeqTypes DEF StartWrite, Enqueued, TypeOK

LEMMA RespondType ==
  ASSUME TypeOK, NEW p \in Packet, Respond(p)
  PROVE  /\ requests' \in Seq(Transfer) /\ reqWrites' \in Seq(Transfer)
         /\ responses' \in Seq(Transfer)
  BY MakeTransfer, SeqTypes DEF Respond, TypeOK

LEMMA RouteType ==
  ASSUME TypeOK, NEW p \in Packet, Route(p)
  PROVE  /\ requests' \in Seq(Transfer) /\ reqWrites' \in Seq(Transfer)
         /\ responses' \in Seq(Transfer)
  <1>1. CASE StartWrite(Ext(p))  BY <1>1, MakeTransfer, StartWriteType
  <1>2. CASE Respond(Dat("data", p.tag))
    <2>1. Dat("data", p.tag) \in Packet
      BY PacketFields, MakePacket DEF Replied
    <2> QED  BY <1>2, <2>1, RespondType
  <1>3. CASE StartWrite(Internal(p))  BY <1>3, MakeTransfer, StartWriteType
  <1>4. CASE StartWrite(MemRead("fetch", p.tag[1], 1))
    <2>1. MemRead("fetch", p.tag[1], 1) \in Transfer
      BY PacketFields, MakeMemRead
    <2> QED  BY <1>4, <2>1, StartWriteType
  <1> QED  BY <1>1, <1>2, <1>3, <1>4 DEF Route

LEMMA NextReadType ==
  ASSUME TypeOK, requests # <<>>, NEW k \in {"scan", "fetch"},
         NEW n \in Nat, NEW j \in Nat, NextRead(k, n, j)
  PROVE  /\ requests' \in Seq(Transfer) /\ reqWrites' \in Seq(Transfer)
         /\ responses' \in Seq(Transfer)
  <1>1. MemRead(k, n, j) \in Transfer  BY MakeMemRead
  <1>2. Append(requests, MemRead(k, n, j)) \in Seq(Transfer) /\
        Append(requests, MemRead(k, n, j)) # <<>>
    <2>1. requests \in Seq(Transfer)  BY DEF TypeOK
    <2> QED  BY <1>1, <2>1, AppendProperties
  <1> QED  BY <1>1, <1>2, SeqTypes DEF NextRead, TypeOK

LEMMA FinishType ==
  ASSUME TypeOK, requests # <<>>, NEW p \in Packet, Finish(p)
  PROVE  /\ requests' \in Seq(Transfer) /\ reqWrites' \in Seq(Transfer)
         /\ responses' \in Seq(Transfer)
  BY MakeTransfer, SeqTypes DEF Finish, TypeOK

LEMMA QueuesUnchangedType ==
  ASSUME TypeOK, UNCHANGED queues
  PROVE  /\ requests' \in Seq(Transfer) /\ reqWrites' \in Seq(Transfer)
         /\ responses' \in Seq(Transfer)
  BY DEF TypeOK, queues

ProxyTypes ==
  /\ requests \in Seq(Transfer) /\ reqWrites \in Seq(Transfer)
  /\ responses \in Seq(Transfer)
  /\ ackMode \in BOOLEAN /\ stopReply \in Nat
  /\ status \in {"ok", "aborted", "undefined"}

LEMMA AnswerType ==
  ASSUME TypeOK, requests # <<>>, NEW rsp \in Packet,
         Answer(Head(requests), rsp)
  PROVE  ProxyTypes'
  <1> DEFINE front == Head(requests)
  <1>1. front \in Transfer /\ front.pkt \in Packet
    BY SeqTypes, TransferFields DEF TypeOK
  <1>2. ackMode' \in BOOLEAN  BY DEF Answer, TypeOK
  <1>3. front.pkt.tag[1] \in Nat /\ front.pkt.tag[2] \in Nat
    BY <1>1, PacketFields
  <1>4. rsp.tag \in Nat \X Nat /\ rsp.tag[1] \in Nat  BY PacketFields
  <1>5. ASSUME NEW k \in {"T", "data"}, NEW t \in Nat \X Nat,
               Finish(Dat(k, t))
        PROVE  /\ requests' \in Seq(Transfer) /\ reqWrites' \in Seq(Transfer)
               /\ responses' \in Seq(Transfer)
    <2>1. Dat(k, t) \in Packet  BY MakePacket DEF Replied
    <2> QED  BY <1>5, <2>1, FinishType
  <1>6. CASE StopReplied(front.pkt, rsp)
    <2>1. CASE status' = "aborted" /\ UNCHANGED <<queues, stopReply>>
      BY <2>1, <1>2, QueuesUnchangedType DEF ProxyTypes, TypeOK
    <2>2. CASE /\ NextRead("scan", front.pkt.tag[1], 1)
               /\ stopReply' = rsp.tag[1] /\ UNCHANGED status
      BY <2>2, <1>2, <1>3, <1>4, NextReadType DEF ProxyTypes, TypeOK
    <2>3. CASE Finish(Dat("T", rsp.tag)) /\ stopReply' = 0 /\ UNCHANGED status
      BY <2>3, <1>2, <1>4, <1>5 DEF ProxyTypes, TypeOK
    <2> QED  BY <1>6, <2>1, <2>2, <2>3 DEF StopReplied
  <1>7. CASE ScanReturned(front.pkt) /\ UNCHANGED status
    <2>1. CASE /\ NextRead("scan", front.pkt.tag[1], front.pkt.tag[2] + 1)
               /\ UNCHANGED stopReply
      <3>1. front.pkt.tag[2] + 1 \in Nat  BY <1>3
      <3> QED
        BY <2>1, <3>1, <1>7, <1>2, <1>3, NextReadType DEF ProxyTypes, TypeOK
    <2>2. CASE Finish(Dat("T", <<stopReply, 0>>)) /\ stopReply' = 0
      <3>1. <<stopReply, 0>> \in Nat \X Nat  BY DEF TypeOK
      <3> QED  BY <2>2, <3>1, <1>7, <1>2, <1>5 DEF ProxyTypes, TypeOK
    <2> QED  BY <1>7, <2>1, <2>2 DEF ScanReturned
  <1>8. CASE FetchReturned(front.pkt) /\ UNCHANGED status
    <2>1. CASE NextRead("fetch", front.pkt.tag[1], 2) /\ UNCHANGED stopReply
      BY <2>1, <1>8, <1>2, <1>3, NextReadType DEF ProxyTypes, TypeOK
    <2>2. CASE /\ Finish(Dat("data", <<front.pkt.tag[1], 0>>))
               /\ UNCHANGED stopReply
      <3>1. <<front.pkt.tag[1], 0>> \in Nat \X Nat  BY <1>3
      <3> QED  BY <2>2, <3>1, <1>8, <1>2, <1>5 DEF ProxyTypes, TypeOK
    <2> QED  BY <1>8, <2>1, <2>2 DEF FetchReturned
  <1>9. CASE /\ requests'  = Tail(requests)
             /\ responses' = Append(responses, Ext(rsp))
             /\ UNCHANGED <<reqWrites, stopReply, status>>
    BY <1>9, <1>2, MakeTransfer, SeqTypes DEF ProxyTypes, TypeOK
  <1> QED  BY <1>6, <1>7, <1>8, <1>9 DEF Answer

LEMMA ReadTargetType ==
  ASSUME TypeOK, ReadTarget
  PROVE  ProxyTypes' /\ t2p' \in Seq(Packet)
  <1>1. Head(t2p) \in Packet /\ t2p' \in Seq(Packet)
    BY SeqTypes DEF ReadTarget, TypeOK
  <1>2. CASE requests = <<>>
    BY <1>1, <1>2, QueuesUnchangedType DEF ReadTarget, ProxyTypes, TypeOK
  <1>3. CASE requests # <<>> /\ Answer(Head(requests), Head(t2p))
    BY <1>1, <1>3, AnswerType
  <1>4. CASE requests # <<>> /\ Acknowledge(Head(requests), Head(t2p))
    BY <1>1, <1>4, MakeTransfer, SeqTypes
       DEF Acknowledge, ProxyTypes, TypeOK
  <1> QED  BY <1>1, <1>2, <1>3, <1>4 DEF ReadTarget

LEMMA ProxyStepType ==
  ASSUME TypeOK, ProxyStep
  PROVE  /\ ProxyTypes'
         /\ c2p' \in Seq(Packet) /\ p2c' \in Seq(Packet)
         /\ p2t' \in Seq(Packet) /\ t2p' \in Seq(Packet)
  <1>1. CASE ReadClient
    <2>1. Head(c2p) \in Packet /\ c2p' \in Seq(Packet)
      BY <1>1, SeqTypes DEF ReadClient, TypeOK
    <2> QED  BY <1>1, <2>1, RouteType DEF ReadClient, ProxyTypes, TypeOK
  <1>2. CASE ReadTarget
    BY <1>2, ReadTargetType DEF ReadTarget, TypeOK
  <1>3. CASE WriteRequestDone
    <2>1. /\ Head(reqWrites).pkt \in Packet
          /\ reqWrites' \in Seq(Transfer)
      BY <1>3, SeqTypes, TransferFields DEF WriteRequestDone, TypeOK
    <2>2. requests' \in Seq(Transfer) /\ status' \in {"ok", "aborted", "undefined"}
      BY <1>3, SeqTypes DEF WriteRequestDone, Completed, TypeOK
    <2> QED
      BY <1>3, <2>1, <2>2, SeqTypes DEF WriteRequestDone, ProxyTypes, TypeOK
  <1>4. CASE WriteResponseDone
    <2>1. /\ Head(responses).pkt \in Packet
          /\ responses' \in Seq(Transfer)
      BY <1>4, SeqTypes, TransferFields DEF WriteResponseDone, TypeOK
    <2> QED  BY <1>4, <2>1, SeqTypes DEF WriteResponseDone, ProxyTypes, TypeOK
  <1> QED  BY <1>1, <1>2, <1>3, <1>4 DEF ProxyStep

LEMMA ClientType ==
  ASSUME TypeOK, Client
  PROVE  TypeOK'
  <1>1. \A k \in Kinds : Dat(k, <<sent + 1, 0>>) \in Packet
    <2>1. <<sent + 1, 0>> \in Nat \X Nat  BY DEF TypeOK
    <2> QED  BY <2>1, MakePacket, SessionAssumption DEF Requested
  <1>2. /\ Ack(<<sent + 1, 0>>) \in Packet /\ Nak(<<sent + 1, 0>>) \in Packet
        /\ Brk(<<sent + 1, 0>>) \in Packet
    <2>1. <<sent + 1, 0>> \in Nat \X Nat  BY DEF TypeOK
    <2> QED  BY <2>1, MakePacket
  <1>3. ASSUME NEW k \in Kinds, SendCommand(k)  PROVE TypeOK'
    <2>1. c2p' \in Seq(Packet) /\ waiting' \in Seq(Packet)
      BY <1>1, <1>3, SeqTypes DEF SendCommand, ClientToProxy, TypeOK
    <2> QED
      BY <1>3, <2>1 DEF SendCommand, ClientToProxy, TypeOK, queues, targetVars
  <1>4. CASE SendBreak
    <2>1. c2p' \in Seq(Packet)
      BY <1>2, <1>4, SeqTypes DEF SendBreak, ClientToProxy, TypeOK
    <2> QED
      BY <1>4, <2>1 DEF SendBreak, ClientToProxy, TypeOK, queues, targetVars
  <1>5. CASE Retransmit
    <2>1. Head(waiting) \in Packet
      BY <1>5, SeqTypes DEF Retransmit, TypeOK
    <2>2. <<unacked, 0>> \in Nat \X Nat  BY DEF TypeOK
    <2>3. Dat(Head(waiting).kind, <<unacked, 0>>) \in Packet
      BY <2>1, <2>2 DEF Dat, Packet, Types
    <2>4. c2p' \in Seq(Packet)
      BY <1>5, <2>3, SeqTypes DEF Retransmit, ClientToProxy, TypeOK
    <2> QED
      BY <1>5, <2>4 DEF Retransmit, ClientToProxy, TypeOK, queues, targetVars
  <1>6. CASE ReceiveAck
    <2>1. p2c' \in Seq(Packet)  BY <1>6, SeqTypes DEF ReceiveAck, TypeOK
    <2> QED  BY <1>6, <2>1 DEF ReceiveAck, TypeOK, queues, targetVars
  <1>7. CASE ReceiveReply
    <2>1. p2c' \in Seq(Packet) /\ Own(Head(p2c)) \in Nat
      <3>1. Head(p2c) \in Packet /\ p2c' \in Seq(Packet)
        BY <1>7, SeqTypes DEF ReceiveReply, TypeOK
      <3> QED  BY <3>1, PacketFields DEF Own
    <2>2. waiting' \in Seq(Packet) /\ got' \in Nat
      BY <1>7, <2>1, SeqTypes DEF ReceiveReply, TypeOK
    <2>3. broke' \in BOOLEAN /\ cliAck' \in BOOLEAN
      BY <1>7 DEF ReceiveReply, TypeOK
    <2>4. c2p' \in Seq(Packet) /\ sent' \in Nat
      <3>1. CASE cliAck
        <4>1. c2p' = Append(c2p, Ack(<<sent + 1, 0>>)) /\ sent' = sent + 1
          BY <1>7, <3>1 DEF ReceiveReply
        <4> QED  BY <1>2, <4>1, SeqTypes DEF TypeOK
      <3>2. CASE ~cliAck
        BY <1>7, <3>2 DEF ReceiveReply, TypeOK
      <3> QED  BY <3>1, <3>2
    <2> QED
      BY <1>7, <2>1, <2>2, <2>3, <2>4
         DEF ReceiveReply, TypeOK, queues, targetVars
  <1>8. CASE RefuseReply
    <2>1. p2c' \in Seq(Packet) /\ c2p' \in Seq(Packet)
      BY <1>2, <1>8, SeqTypes DEF RefuseReply, TypeOK
    <2> QED  BY <1>8, <2>1 DEF RefuseReply, TypeOK, queues, targetVars
  <1> QED  BY <1>3, <1>4, <1>5, <1>6, <1>7, <1>8 DEF Client

LEMMA TargetType ==
  ASSUME TypeOK, Target
  PROVE  TypeOK'
  <1>1. ASSUME p2t # <<>>
        PROVE  /\ Head(p2t) \in Packet /\ Tail(p2t) \in Seq(Packet)
               /\ Ack(Head(p2t).tag) \in Packet /\ Nak(Head(p2t).tag) \in Packet
               /\ \A k \in Replied : Dat(k, Head(p2t).tag) \in Packet
    BY <1>1, SeqTypes, PacketFields, MakePacket DEF TypeOK
  <1>2. ASSUME p2t # <<>>, NEW k \in Replied, Reply(k, Head(p2t))
        PROVE  t2p' \in Seq(Packet) /\ lastReply' \in Seq(Packet)
    <2> DEFINE acked == IF tgtAck THEN Append(t2p, Ack(Head(p2t).tag)) ELSE t2p
    <2>1. acked \in Seq(Packet)  BY <1>1, <1>2, SeqTypes DEF TypeOK
    <2>2. Dat(k, Head(p2t).tag) \in Packet  BY <1>1, <1>2
    <2>3. <<Dat(k, Head(p2t).tag)>> \in Seq(Packet)  BY <2>2
    <2> HIDE DEF acked
    <2>4. acked \o <<Dat(k, Head(p2t).tag)>> \in Seq(Packet)
      BY <2>1, <2>3, ConcatProperties
    <2> QED  BY <1>2, <2>3, <2>4 DEF Reply, acked
  <1>3. ASSUME running # <<>>, NEW k \in StopReplies, Halted(k)
        PROVE  /\ t2p' \in Seq(Packet) /\ running' \in Seq(Packet)
               /\ lastReply' \in Seq(Packet)
    <2>1. running[1] \in Packet
      BY <1>3, ElementOfSeq, EmptySeq, Head(running) \in Packet, SeqTypes
         DEF TypeOK
    <2>2. Dat(k, running[1].tag) \in Packet
      BY <2>1, PacketFields, MakePacket, SessionAssumption DEF Replied
    <2> QED  BY <1>3, <2>2, SeqTypes DEF Halted, TypeOK
  <1>4. CASE TargetAccept
    <2>1. p2t' \in Seq(Packet)  BY <1>1, <1>4 DEF TargetAccept
    <2>2. /\ t2p' \in Seq(Packet) /\ running' \in Seq(Packet)
          /\ tgtAck' \in BOOLEAN /\ lastReply' \in Seq(Packet)
      <3>1. CASE /\ running' = <<Head(p2t)>>
                 /\ t2p' = IF tgtAck THEN Append(t2p, Ack(Head(p2t).tag)) ELSE t2p
                 /\ UNCHANGED <<tgtAck, lastReply>>
        BY <1>1, <1>4, <3>1, SeqTypes DEF TargetAccept, TypeOK
      <3>2. CASE /\ \E k \in {"OK", "data"} :
                      Reply(k, Head(p2t)) /\ tgtAck' = (tgtAck /\ k # "OK")
                 /\ UNCHANGED running
        BY <1>2, <1>4, <3>2 DEF TargetAccept, TypeOK, Replied
      <3>3. CASE Reply("data", Head(p2t)) /\ UNCHANGED <<running, tgtAck>>
        BY <1>2, <1>4, <3>3 DEF TargetAccept, TypeOK, Replied
      <3> QED  BY <1>4, <3>1, <3>2, <3>3 DEF TargetAccept
    <2> QED
      BY <1>4, <2>1, <2>2 DEF TargetAccept, TypeOK, queues, clientVars
  <1>5. CASE TargetSignal
    <2>1. /\ t2p' \in Seq(Packet) /\ running' \in Seq(Packet)
          /\ lastReply' \in Seq(Packet)
      <3>1. t2p \o lastReply \in Seq(Packet)
        BY ConcatProperties DEF TypeOK
      <3> QED  BY <1>3, <1>5, <3>1 DEF TargetSignal, TypeOK
    <2>2. p2t' \in Seq(Packet)  BY <1>1, <1>5 DEF TargetSignal
    <2> QED
      BY <1>5, <2>1, <2>2 DEF TargetSignal, TypeOK, queues, clientVars
  <1>6. CASE Halt
    BY <1>3, <1>6 DEF Halt, TypeOK, queues, clientVars
  <1>7. CASE TargetRefuse
    <2>1. p2t' \in Seq(Packet) /\ t2p' \in Seq(Packet)
      BY <1>1, <1>7, SeqTypes DEF TargetRefuse, TypeOK
    <2> QED  BY <1>7, <2>1 DEF TargetRefuse, TypeOK, queues, clientVars
  <1> QED  BY <1>4, <1>5, <1>6, <1>7 DEF Target

LEMMA TypeStep ==
  ASSUME TypeOK, [Next]_vars
  PROVE  TypeOK'
  <1>1. CASE Proxy
    BY <1>1, ProxyStepType
       DEF Proxy, ProxyTypes, TypeOK, clientVars, targetVars
  <1>2. CASE Client  BY <1>2, ClientType
  <1>3. CASE Target  BY <1>3, TargetType
  <1>4. CASE UNCHANGED vars
    BY <1>4 DEF vars, proxyVars, queues, streams, clientVars, targetVars, TypeOK
  <1> QED  BY <1>1, <1>2, <1>3, <1>4 DEF Next

LEMMA TypeInit ==
  ASSUME Init
  PROVE  TypeOK
  <1>1. <<>> \in Seq(Transfer) /\ <<>> \in Seq(Packet)  BY EmptySeq
  <1>2. ackMode \in BOOLEAN /\ cliAck \in BOOLEAN /\ tgtAck \in BOOLEAN
    BY SessionAssumption DEF Init
  <1> QED  BY <1>1, <1>2 DEF Init, ProxyInit, TypeOK

(* Type correctness of the whole session, for every value of the constants. *)
THEOREM TypeCorrect == Spec => []TypeOK
  BY TypeInit, TypeStep, PTL DEF Spec

-----------------------------------------------------------------------------
(* Sequences: what moving an element from one end to another does to a      *)
(* concatenation.                                                           *)

Tag == Nat \X Nat

LEMMA ConcatAppend ==
  ASSUME NEW s \in Seq(Tag), NEW u \in Seq(Tag), NEW x \in Tag
  PROVE  Append(s \o u, x) = s \o Append(u, x)
  <1>1. /\ s \o u \in Seq(Tag) /\ <<x>> \in Seq(Tag)
        /\ Append(s \o u, x) = (s \o u) \o <<x>>
        /\ Append(u, x) = u \o <<x>>
    BY ConcatProperties, AppendIsConcat
  <1> QED  BY <1>1, ConcatAssociative

LEMMA ConcatTail ==
  ASSUME NEW S, NEW s \in Seq(S), NEW u \in Seq(S), s # <<>>
  PROVE  /\ s \o u # <<>> /\ Tail(s \o u) = Tail(s) \o u
         /\ Head(s \o u) = Head(s)
  <1>1. /\ s \o u \in Seq(S) /\ Len(s \o u) = Len(s) + Len(u)
        /\ Len(s) \in Nat \ {0} /\ Len(u) \in Nat
        /\ \A i \in 1..Len(s) + Len(u) :
             (s \o u)[i] = IF i <= Len(s) THEN s[i] ELSE u[i - Len(s)]
    BY ConcatProperties, LenProperties, EmptySeq
  <1>2. s \o u # <<>>  BY <1>1, EmptySeq
  <1>3. /\ Tail(s) \in Seq(S) /\ Len(Tail(s)) = Len(s) - 1
        /\ \A i \in 1..Len(Tail(s)) : Tail(s)[i] = s[i + 1]
    BY HeadTailProperties
  <1>4. /\ Tail(s \o u) \in Seq(S) /\ Len(Tail(s \o u)) = Len(s \o u) - 1
        /\ \A i \in 1..Len(Tail(s \o u)) : Tail(s \o u)[i] = (s \o u)[i + 1]
    BY <1>1, <1>2, HeadTailProperties
  <1>5. /\ Tail(s) \o u \in Seq(S)
        /\ Len(Tail(s) \o u) = Len(s) - 1 + Len(u)
        /\ \A i \in 1..Len(s) - 1 + Len(u) :
             (Tail(s) \o u)[i] =
               IF i <= Len(s) - 1 THEN Tail(s)[i] ELSE u[i - (Len(s) - 1)]
    BY <1>3, ConcatProperties
  <1>6. ASSUME NEW i \in 1..Len(Tail(s \o u))
        PROVE  Tail(s \o u)[i] = (Tail(s) \o u)[i]
    <2>1. i \in 1..Len(s) - 1 + Len(u) /\ i + 1 \in 1..Len(s) + Len(u)
      BY <1>1, <1>4
    <2>2. CASE i <= Len(s) - 1
      <3>1. i \in 1..Len(Tail(s)) /\ i + 1 <= Len(s)  BY <1>1, <1>3, <2>1, <2>2
      <3> QED  BY <1>1, <1>3, <1>4, <1>5, <2>1, <2>2, <3>1
    <2>3. CASE ~(i <= Len(s) - 1)
      <3>1. ~(i + 1 <= Len(s)) /\ i + 1 - Len(s) = i - (Len(s) - 1)
        BY <1>1, <2>1, <2>3
      <3> QED  BY <1>1, <1>4, <1>5, <2>1, <2>3, <3>1
    <2> QED  BY <2>2, <2>3
  <1>7. Tail(s \o u) = Tail(s) \o u
    BY <1>1, <1>4, <1>5, <1>6, SeqEqual
  <1>8. Head(s \o u) = Head(s)
    <2>1. Head(s \o u) = (s \o u)[1] /\ Head(s) = s[1]
      OBVIOUS
    <2> QED  BY <1>1, <2>1
  <1> QED  BY <1>2, <1>7, <1>8

LEMMA ConcatShift ==
  ASSUME NEW S, NEW s \in Seq(S), NEW u \in Seq(S), u # <<>>
  PROVE  s \o u = Append(s, Head(u)) \o Tail(u)
  <1>1. /\ Head(u) \in S /\ Tail(u) \in Seq(S) /\ <<Head(u)>> \in Seq(S)
    BY HeadTailProperties
  <1>2. u = <<Head(u)>> \o Tail(u)
    BY <1>1, Len(u) \in Nat \ {0}, EmptySeq, SubSeqRecursiveFirst, SubSeqFull,
       TailIsSubSeq
  <1>3. Append(s, Head(u)) = s \o <<Head(u)>>  BY <1>1, AppendIsConcat
  <1>4. (s \o <<Head(u)>>) \o Tail(u) = s \o (<<Head(u)>> \o Tail(u))
    BY <1>1, ConcatAssociative
  <1> QED  BY <1>2, <1>3, <1>4

(* A map over a sequence commutes with Append, Head and Tail.               *)

LEMMA TagsOf ==
  ASSUME NEW s \in Seq(Packet)
  PROVE  /\ Tags(s) \in Seq(Tag) /\ Len(Tags(s)) = Len(s)
         /\ Tags(s) = <<>> <=> s = <<>>
         /\ \A p \in Packet : Tags(Append(s, p)) = Append(Tags(s), p.tag)
         /\ s # <<>> => /\ Tags(Tail(s)) = Tail(Tags(s))
                        /\ Head(Tags(s)) = Head(s).tag
  <1>1. \A i \in 1..Len(s) : s[i] \in Packet  BY ElementOfSeq
  <1>2. Len(s) \in Nat /\ DOMAIN s = 1..Len(s)  BY LenProperties
  <1>3. Tags(s) \in Seq(Tag) /\ Len(Tags(s)) = Len(s)
    BY <1>1, <1>2, PacketFields DEF Tags, Tag
  <1>4. Tags(s) = <<>> <=> s = <<>>
    BY <1>2, <1>3, EmptySeq DEF Tags
  <1>5. ASSUME NEW p \in Packet
        PROVE  Tags(Append(s, p)) = Append(Tags(s), p.tag)
    BY PacketFields DEF Tags, Tag
  <1>6. ASSUME s # <<>>
        PROVE  /\ Tags(Tail(s)) = Tail(Tags(s))
               /\ Head(Tags(s)) = Head(s).tag
    BY <1>6 DEF Tags
  <1> QED  BY <1>3, <1>4, <1>5, <1>6

RTags(s) == Tags(Pkts(s))

LEMMA RTagsOf ==
  ASSUME NEW s \in Seq(Transfer)
  PROVE  /\ RTags(s) \in Seq(Tag) /\ Len(RTags(s)) = Len(s)
         /\ RTags(s) = <<>> <=> s = <<>>
         /\ \A t \in Transfer : RTags(Append(s, t)) = Append(RTags(s), t.pkt.tag)
         /\ s # <<>> => /\ RTags(Tail(s)) = Tail(RTags(s))
                        /\ Head(RTags(s)) = Head(s).pkt.tag
  <1>1. /\ Pkts(s) \in Seq(Packet) /\ Len(Pkts(s)) = Len(s)
        /\ Pkts(s) = <<>> <=> s = <<>>
        /\ \A t \in Transfer : Pkts(Append(s, t)) = Append(Pkts(s), t.pkt)
        /\ s # <<>> => /\ Pkts(Tail(s)) = Tail(Pkts(s))
                       /\ Head(Pkts(s)) = Head(s).pkt
    BY TransferFields DEF Pkts
  <1>2. s # <<>> => Pkts(s) # <<>>  BY <1>1
  <1> QED  BY <1>1, <1>2, TagsOf, TransferFields DEF RTags

(* The round trip as one sequence of tags, and the five ways it moves.      *)
Pipe(A, B, C, D) == A \o B \o C \o D

LEMMA PipeLength ==
  \A A, B, C, D \in Seq(Tag) :
      Len(Pipe(A, B, C, D)) = Len(A) + Len(B) + Len(C) + Len(D)
  <1> SUFFICES ASSUME NEW A \in Seq(Tag), NEW B \in Seq(Tag), NEW C \in Seq(Tag),
                NEW D \in Seq(Tag)
               PROVE  Len(Pipe(A, B, C, D)) = Len(A) + Len(B) + Len(C) + Len(D)
    OBVIOUS
  <1>1. A \o B \in Seq(Tag) /\ Len(A \o B) = Len(A) + Len(B)
    BY ConcatProperties
  <1>2. /\ A \o B \o C \in Seq(Tag)
        /\ Len(A \o B \o C) = Len(A \o B) + Len(C)
    BY <1>1, ConcatProperties
  <1> QED  BY <1>1, <1>2, ConcatProperties DEF Pipe

LEMMA PipeRequest ==
  \A A, B, C, D, R \in Seq(Tag) : \A x \in Tag :
    R = Pipe(A, B, C, D) => Append(R, x) = Pipe(A, B, C, Append(D, x))
  <1> SUFFICES ASSUME NEW A \in Seq(Tag), NEW B \in Seq(Tag),
                      NEW C \in Seq(Tag), NEW D \in Seq(Tag),
                      NEW R \in Seq(Tag), NEW x \in Tag,
                      R = Pipe(A, B, C, D)
               PROVE  Append(R, x) = Pipe(A, B, C, Append(D, x))
    OBVIOUS
  <1>1. A \o B \o C \in Seq(Tag)  BY ConcatProperties
  <1> DEFINE ABC == A \o B \o C
  <1> HIDE DEF ABC
  <1>2. ABC \in Seq(Tag)  BY <1>1 DEF ABC
  <1>3. Append(ABC \o D, x) = ABC \o Append(D, x)
    BY <1>2, ConcatAppend
  <1> QED  BY <1>3 DEF ABC, Pipe

IsAnswered(A, B, C, D, R) ==
  /\ {A, B, C, D} \subseteq Seq(Tag)
  /\ A # <<>>
  /\ R = Pipe(A, B, C, D)

LEMMA PipeReply ==
  \A A, B, C, D, R :
    IsAnswered(A, B, C, D, R) =>
      /\ R # <<>> /\ Head(R) = Head(A)
      /\ Tail(R) = Pipe(Tail(A), B, C, D)
  <1> SUFFICES ASSUME NEW A, NEW B, NEW C, NEW D, NEW R,
                      IsAnswered(A, B, C, D, R)
               PROVE  /\ R # <<>> /\ Head(R) = Head(A)
                      /\ Tail(R) = Pipe(Tail(A), B, C, D)
    OBVIOUS
  <1>1. /\ A \in Seq(Tag) /\ B \in Seq(Tag) /\ C \in Seq(Tag) /\ D \in Seq(Tag)
        /\ A # <<>> /\ R = A \o B \o C \o D
    BY DEF IsAnswered, Pipe
  <1>2. /\ A \o B \in Seq(Tag) /\ A \o B # <<>>
        /\ Head(A \o B) = Head(A) /\ Tail(A \o B) = Tail(A) \o B
    BY <1>1, ConcatProperties, ConcatTail
  <1>3. /\ A \o B \o C \in Seq(Tag) /\ A \o B \o C # <<>>
        /\ Head(A \o B \o C) = Head(A)
        /\ Tail(A \o B \o C) = Tail(A) \o B \o C
    BY <1>1, <1>2, ConcatProperties, ConcatTail
  <1>4. /\ A \o B \o C \o D # <<>>
        /\ Head(A \o B \o C \o D) = Head(A)
        /\ Tail(A \o B \o C \o D) = Tail(A) \o B \o C \o D
    BY <1>1, <1>3, ConcatTail
  <1> QED  BY <1>1, <1>4 DEF Pipe

IsWritten(A, B, C, D, C2, D2, R) ==
  /\ {A, B, C, D, C2, D2, R} \subseteq Seq(Tag)
  /\ D # <<>> /\ C2 = Append(C, Head(D)) /\ D2 = Tail(D)
  /\ R = Pipe(A, B, C, D)

LEMMA PipeWritten ==
  \A A, B, C, D, C2, D2, R :
    IsWritten(A, B, C, D, C2, D2, R) => R = Pipe(A, B, C2, D2)
  <1> SUFFICES ASSUME NEW A \in Seq(Tag), NEW B \in Seq(Tag), NEW C \in Seq(Tag),
                NEW D \in Seq(Tag), D # <<>>
               PROVE  Pipe(A, B, C, D) = Pipe(A, B, Append(C, Head(D)), Tail(D))
    BY DEF IsWritten
  <1>1. A \o B \in Seq(Tag) /\ A \o B \o C \in Seq(Tag) /\ Head(D) \in Tag
    BY ConcatProperties, HeadTailProperties
  <1>2. A \o B \o C \o D = Append(A \o B \o C, Head(D)) \o Tail(D)
    BY <1>1, ConcatShift
  <1>3. Append(A \o B \o C, Head(D)) = A \o B \o Append(C, Head(D))
    <2> DEFINE AB == A \o B
               d  == Head(D)
    <2> HIDE DEF AB, d
    <2>1. AB \in Seq(Tag) /\ d \in Tag  BY <1>1 DEF AB, d
    <2>2. Append(AB \o C, d) = AB \o Append(C, d)  BY <2>1, ConcatAppend
    <2> QED  BY <2>2 DEF AB, d
  <1> QED  BY <1>2, <1>3 DEF Pipe

IsStarted(A, B, C, D, B2, C2, R) ==
  /\ {A, B, C, D, B2, C2, R} \subseteq Seq(Tag)
  /\ C # <<>> /\ B = <<>> /\ B2 = <<Head(C)>> /\ C2 = Tail(C)
  /\ R = Pipe(A, B, C, D)

LEMMA PipeStarted ==
  \A A, B, C, D, B2, C2, R :
    IsStarted(A, B, C, D, B2, C2, R) => R = Pipe(A, B2, C2, D)
  <1> SUFFICES ASSUME NEW A \in Seq(Tag), NEW C \in Seq(Tag), NEW D \in Seq(Tag), C # <<>>
               PROVE  Pipe(A, <<>>, C, D) = Pipe(A, <<Head(C)>>, Tail(C), D)
    BY DEF IsStarted
  <1>1. Head(C) \in Tag /\ Tail(C) \in Seq(Tag)  BY HeadTailProperties
  <1>2. A \o <<>> = A  BY ConcatEmptySeq
  <1>3. A \o C = Append(A, Head(C)) \o Tail(C)  BY ConcatShift
  <1>4. Append(A, Head(C)) = A \o <<Head(C)>>  BY <1>1, AppendIsConcat
  <1> QED  BY <1>2, <1>3, <1>4 DEF Pipe

IsHalted(A, B, C, D, A2, B2, R, x) ==
  /\ {A, B, C, D, A2, B2, R} \subseteq Seq(Tag) /\ x \in Tag
  /\ B = <<x>> /\ B2 = <<>> /\ A2 = Append(A, x)
  /\ R = Pipe(A, B, C, D)

LEMMA PipeHalted ==
  \A A, B, C, D, A2, B2, R, x :
    IsHalted(A, B, C, D, A2, B2, R, x) => R = Pipe(A2, B2, C, D)
  <1> SUFFICES ASSUME NEW A \in Seq(Tag), NEW x \in Tag, NEW C \in Seq(Tag),
                NEW D \in Seq(Tag)
               PROVE  Pipe(A, <<x>>, C, D) = Pipe(Append(A, x), <<>>, C, D)
    BY DEF IsHalted
  <1>1. Append(A, x) \in Seq(Tag) /\ Append(A, x) = A \o <<x>>
    BY AppendProperties, AppendIsConcat
  <1> QED  BY <1>1, ConcatEmptySeq DEF Pipe

-----------------------------------------------------------------------------
(* The round trip.  In a session without acknowledges and breaks every      *)
(* packet on the way is a data packet, so every transfer waits in the queue *)
(* for its reply; what is still being written is the end of the queue.      *)

AllDat(s)   == \A i \in 1..Len(s) : s[i].type = "dat"
AllData(s)  == \A i \in 1..Len(s) : s[i].pkt.type = "dat"

Silent ==
  /\ ~cliAck /\ ~tgtAck /\ unacked = 0
  /\ AllDat(c2p) /\ AllDat(p2t) /\ AllDat(t2p) /\ AllData(reqWrites)

IsSuffix(w, q) ==
  /\ Len(w) <= Len(q)
  /\ \A i \in 1..Len(w) : q[Len(q) - Len(w) + i] = w[i]

WritesQueued == status = "ok" => IsSuffix(reqWrites, requests)

IInv == TypeOK /\ Silent /\ Len(running) <= 1 /\ InFlight /\ WritesQueued

Quiet == StartAck = FALSE /\ MaxBreaks = 0

Trip(t, r, p, w) == Pipe(Tags(t), Tags(r), Tags(p), RTags(w))

(* What the steps below need of IInv most often.                            *)
LEMMA Domains ==
  ASSUME IInv
  PROVE  /\ requests \in Seq(Transfer) /\ reqWrites \in Seq(Transfer)
         /\ t2p \in Seq(Packet) /\ running \in Seq(Packet)
         /\ p2t \in Seq(Packet)
  BY DEF IInv, TypeOK

LEMMA RoundTrip ==
  ASSUME IInv, status = "ok"
  PROVE  /\ RTags(requests) = Trip(t2p, running, p2t, reqWrites)
         /\ Len(requests) =
              Len(t2p) + Len(running) + Len(p2t) + Len(reqWrites)
  <1>1. RTags(requests) = Trip(t2p, running, p2t, reqWrites)
    BY DEF IInv, InFlight, RTags, Trip, Pipe
  <1>2. /\ Tags(t2p) \in Seq(Tag) /\ Len(Tags(t2p)) = Len(t2p)
        /\ Tags(running) \in Seq(Tag) /\ Len(Tags(running)) = Len(running)
        /\ Tags(p2t) \in Seq(Tag) /\ Len(Tags(p2t)) = Len(p2t)
        /\ RTags(reqWrites) \in Seq(Tag) /\ Len(RTags(reqWrites)) = Len(reqWrites)
        /\ Len(RTags(requests)) = Len(requests)
    BY Domains, TagsOf, RTagsOf
  <1>3. Len(Trip(t2p, running, p2t, reqWrites)) =
          Len(Tags(t2p)) + Len(Tags(running)) + Len(Tags(p2t)) +
          Len(RTags(reqWrites))
    <2> DEFINE A == Tags(t2p)
               B == Tags(running)
               C == Tags(p2t)
               D == RTags(reqWrites)
    <2>1. A \in Seq(Tag) /\ B \in Seq(Tag) /\ C \in Seq(Tag) /\ D \in Seq(Tag)
      BY <1>2
    <2> HIDE DEF A, B, C, D
    <2>2. Len(Pipe(A, B, C, D)) = Len(A) + Len(B) + Len(C) + Len(D)
      BY <2>1, PipeLength
    <2> QED  BY <2>2, Zenon DEF Trip, A, B, C, D
  <1> QED  BY <1>1, <1>2, <1>3

(* on_response relies on this: the front exists, and it is the request the  *)
(* next packet of the target answers.                                       *)
LEMMA FrontMatches ==
  ASSUME IInv, status = "ok", t2p # <<>>
  PROVE  /\ requests # <<>> /\ Head(requests).pkt.tag = Head(t2p).tag
         /\ Len(reqWrites) < Len(requests)
         /\ Tail(RTags(requests)) = Trip(Tail(t2p), running, p2t, reqWrites)
  <1>1. /\ Tags(t2p) \in Seq(Tag) /\ Tags(running) \in Seq(Tag)
        /\ Tags(p2t) \in Seq(Tag) /\ RTags(reqWrites) \in Seq(Tag)
        /\ Tags(t2p) # <<>> /\ Head(Tags(t2p)) = Head(t2p).tag
        /\ Tags(Tail(t2p)) = Tail(Tags(t2p))
    BY Domains, TagsOf, RTagsOf
  <1>2. /\ RTags(requests) # <<>> /\ Head(RTags(requests)) = Head(t2p).tag
        /\ Tail(RTags(requests)) = Trip(Tail(t2p), running, p2t, reqWrites)
    <2>1. IsAnswered(Tags(t2p), Tags(running), Tags(p2t), RTags(reqWrites),
                     RTags(requests))
      BY <1>1, RoundTrip DEF IsAnswered, Trip
    <2>2. /\ RTags(requests) # <<>>
          /\ Head(RTags(requests)) = Head(Tags(t2p))
          /\ Tail(RTags(requests)) =
               Pipe(Tail(Tags(t2p)), Tags(running), Tags(p2t), RTags(reqWrites))
      BY <2>1, PipeReply
    <2> QED  BY <1>1, <2>2 DEF Trip
  <1>3. requests # <<>> /\ Head(requests).pkt.tag = Head(t2p).tag
    BY Domains, <1>2, RTagsOf
  <1>4. /\ Len(t2p) \in Nat \ {0} /\ Len(running) \in Nat
        /\ Len(p2t) \in Nat /\ Len(reqWrites) \in Nat
    BY Domains, EmptySeq, LenProperties
  <1>5. Len(reqWrites) < Len(requests)  BY <1>4, RoundTrip
  <1> QED  BY <1>2, <1>3, <1>5

LEMMA TripInFlight ==
  ASSUME RTags(requests') = Trip(t2p', running', p2t', reqWrites')
  PROVE  InFlight'
  BY DEF InFlight, RTags, Trip, Pipe

(* What is being written stays the end of the queue: a transfer is added to *)
(* both, a write ends, or a front that is not being written goes.           *)
LEMMA SuffixAppend ==
  ASSUME NEW q \in Seq(Transfer), NEW w \in Seq(Transfer), NEW t \in Transfer,
         IsSuffix(w, q)
  PROVE  IsSuffix(Append(w, t), Append(q, t))
  <1> DEFINE q2 == Append(q, t)
             w2 == Append(w, t)
  <1>1. Len(q) \in Nat /\ Len(w) \in Nat /\ Len(w) <= Len(q)
    BY LenProperties DEF IsSuffix
  <1>2. /\ Len(q2) = Len(q) + 1 /\ Len(w2) = Len(w) + 1
        /\ \A i \in 1..Len(q) : q2[i] = q[i]
        /\ \A i \in 1..Len(w) : w2[i] = w[i]
        /\ q2[Len(q) + 1] = t /\ w2[Len(w) + 1] = t
    BY AppendProperties
  <1> HIDE DEF q2, w2
  <1>3. ASSUME NEW i \in 1..Len(w2)
        PROVE  q2[Len(q2) - Len(w2) + i] = w2[i]
    <2>1. CASE i \in 1..Len(w)
      <3>1. /\ Len(q2) - Len(w2) + i = Len(q) - Len(w) + i
            /\ Len(q) - Len(w) + i \in 1..Len(q)
        BY <1>1, <1>2, <2>1
      <3>2. q[Len(q) - Len(w) + i] = w[i]  BY <2>1 DEF IsSuffix
      <3> QED  BY <1>2, <2>1, <3>1, <3>2
    <2>2. CASE i = Len(w) + 1
      <3>1. Len(q2) - Len(w2) + i = Len(q) + 1  BY <1>1, <1>2, <2>2
      <3> QED  BY <1>2, <2>2, <3>1
    <2> QED  BY <1>1, <1>2, <2>1, <2>2
  <1>4. Len(w2) <= Len(q2)  BY <1>1, <1>2
  <1>5. IsSuffix(w2, q2)  BY <1>3, <1>4 DEF IsSuffix
  <1> QED  BY <1>5 DEF q2, w2

LEMMA SuffixPop ==
  ASSUME NEW q \in Seq(Transfer), NEW w \in Seq(Transfer),
         IsSuffix(w, q), Len(w) < Len(q)
  PROVE  IsSuffix(w, Tail(q))
  <1> DEFINE q2 == Tail(q)
  <1>1. Len(q) \in Nat /\ Len(w) \in Nat /\ q # <<>>
    BY LenProperties, EmptySeq
  <1>2. /\ Len(q2) = Len(q) - 1
        /\ \A i \in 1..Len(q2) : q2[i] = q[i + 1]
    BY <1>1, HeadTailProperties
  <1> HIDE DEF q2
  <1>3. ASSUME NEW i \in 1..Len(w)
        PROVE  q2[Len(q2) - Len(w) + i] = w[i]
    <2>1. /\ Len(q2) - Len(w) + i \in 1..Len(q2)
          /\ Len(q2) - Len(w) + i + 1 = Len(q) - Len(w) + i
      BY <1>1, <1>2
    <2>2. q[Len(q) - Len(w) + i] = w[i]  BY DEF IsSuffix
    <2> QED  BY <1>2, <2>1, <2>2
  <1>4. IsSuffix(w, q2)  BY <1>1, <1>2, <1>3 DEF IsSuffix
  <1> QED  BY <1>4 DEF q2

LEMMA SuffixWritten ==
  ASSUME NEW q \in Seq(Transfer), NEW w \in Seq(Transfer),
         IsSuffix(w, q), w # <<>>
  PROVE  IsSuffix(Tail(w), q)
  <1> DEFINE w2 == Tail(w)
  <1>1. Len(q) \in Nat /\ Len(w) \in Nat \ {0} /\ Len(w) <= Len(q)
    BY LenProperties, EmptySeq DEF IsSuffix
  <1>2. /\ Len(w2) = Len(w) - 1
        /\ \A i \in 1..Len(w2) : w2[i] = w[i + 1]
    BY <1>1, HeadTailProperties
  <1> HIDE DEF w2
  <1>3. ASSUME NEW i \in 1..Len(w2)
        PROVE  q[Len(q) - Len(w2) + i] = w2[i]
    <2>1. /\ i + 1 \in 1..Len(w)
          /\ Len(q) - Len(w2) + i = Len(q) - Len(w) + (i + 1)
      BY <1>1, <1>2
    <2> QED  BY <1>2, <2>1 DEF IsSuffix
  <1>4. IsSuffix(w2, q)  BY <1>1, <1>2, <1>3 DEF IsSuffix
  <1> QED  BY <1>4 DEF w2

(* A tag that joins the queue and the writes.                               *)
LEMMA TagJoins ==
  ASSUME IInv, status = "ok", NEW x \in Tag
  PROVE  Append(RTags(requests), x) =
           Pipe(Tags(t2p), Tags(running), Tags(p2t), Append(RTags(reqWrites), x))
  <1> DEFINE A == Tags(t2p)
             B == Tags(running)
             C == Tags(p2t)
             D == RTags(reqWrites)
             R == RTags(requests)
  <1>1. /\ A \in Seq(Tag) /\ B \in Seq(Tag) /\ C \in Seq(Tag)
        /\ D \in Seq(Tag) /\ R \in Seq(Tag)
    BY Domains, TagsOf, RTagsOf
  <1>2. R = Pipe(A, B, C, D)  BY RoundTrip, Zenon DEF Trip
  <1> HIDE DEF A, B, C, D, R
  <1>3. Append(R, x) = Pipe(A, B, C, Append(D, x))
    BY <1>1, <1>2, PipeRequest
  <1> QED  BY <1>3, Zenon DEF A, B, C, D, R

(* A request joins the queue and the writes.                                *)
LEMMA RequestKeeps ==
  ASSUME IInv, status = "ok", NEW t \in Transfer,
         requests' = Append(requests, t), reqWrites' = Append(reqWrites, t),
         UNCHANGED <<t2p, running, p2t, status>>
  PROVE  InFlight' /\ WritesQueued'
  <1>1. t.pkt.tag \in Tag  BY TransferFields, PacketFields DEF Tag
  <1>2. /\ RTags(requests') = Append(RTags(requests), t.pkt.tag)
        /\ RTags(reqWrites') = Append(RTags(reqWrites), t.pkt.tag)
    BY Domains, RTagsOf
  <1>3. /\ Tags(t2p) \in Seq(Tag) /\ Tags(running) \in Seq(Tag)
        /\ Tags(p2t) \in Seq(Tag) /\ RTags(reqWrites) \in Seq(Tag)
        /\ RTags(requests) \in Seq(Tag)
    BY Domains, TagsOf, RTagsOf
  <1>4. Append(RTags(requests), t.pkt.tag) =
          Pipe(Tags(t2p), Tags(running), Tags(p2t),
               Append(RTags(reqWrites), t.pkt.tag))
    BY <1>1, TagJoins
  <1>5. InFlight'  BY <1>2, <1>4, TripInFlight DEF Trip
  <1>6. WritesQueued'
    BY Domains, SuffixAppend DEF IInv, WritesQueued
  <1> QED  BY <1>5, <1>6

(* The front goes, its reply was read.                                      *)
LEMMA ReplyKeeps ==
  ASSUME IInv, status = "ok", t2p # <<>>,
         requests' = Tail(requests), t2p' = Tail(t2p),
         UNCHANGED <<reqWrites, running, p2t, status>>
  PROVE  InFlight' /\ WritesQueued'
  <1>1. /\ RTags(requests') = Tail(RTags(requests))
        /\ Tags(t2p') = Tail(Tags(t2p))
    BY Domains, FrontMatches, RTagsOf, TagsOf
  <1>2. InFlight'  BY <1>1, FrontMatches, TripInFlight DEF Trip
  <1>3. WritesQueued'
    BY Domains, FrontMatches, SuffixPop DEF IInv, WritesQueued
  <1> QED  BY <1>2, <1>3

(* A reply was read and its callback queued the next memory read.           *)
LEMMA ReadKeeps ==
  ASSUME IInv, status = "ok", t2p # <<>>, NEW t \in Transfer,
         requests' = Tail(Append(requests, t)),
         reqWrites' = Append(reqWrites, t), t2p' = Tail(t2p),
         UNCHANGED <<running, p2t, status>>
  PROVE  InFlight' /\ WritesQueued'
  <1>1. t.pkt.tag \in Tag  BY TransferFields, PacketFields DEF Tag
  <1>2. requests # <<>>  BY FrontMatches
  <1> DEFINE queue  == Append(requests, t)
             writes == RTags(reqWrites')
  <1>3. /\ queue \in Seq(Transfer) /\ queue # <<>>
        /\ RTags(queue) = Append(RTags(requests), t.pkt.tag)
        /\ writes = Append(RTags(reqWrites), t.pkt.tag)
    <2>1. queue \in Seq(Transfer) /\ queue # <<>>
      <3>1. requests \in Seq(Transfer)  BY Domains
      <3> QED  BY <3>1, AppendProperties
    <2>2. /\ RTags(queue) = Append(RTags(requests), t.pkt.tag)
          /\ writes = Append(RTags(reqWrites), t.pkt.tag)
      BY Domains, RTagsOf
    <2> QED  BY <2>1, <2>2
  <1>4. /\ Tags(t2p) \in Seq(Tag) /\ Tags(running) \in Seq(Tag)
        /\ Tags(p2t) \in Seq(Tag) /\ RTags(reqWrites) \in Seq(Tag)
        /\ RTags(requests) \in Seq(Tag) /\ Tags(t2p) # <<>>
        /\ Tags(t2p') = Tail(Tags(t2p))
    BY Domains, TagsOf, RTagsOf
  <1>5. writes \in Seq(Tag)  BY <1>1, <1>3, <1>4, SeqTypes
  <1> HIDE DEF queue, writes
  <1>6. RTags(queue) = Pipe(Tags(t2p), Tags(running), Tags(p2t), writes)
    <2>1. Append(RTags(requests), t.pkt.tag) =
            Pipe(Tags(t2p), Tags(running), Tags(p2t),
                 Append(RTags(reqWrites), t.pkt.tag))
      BY <1>1, TagJoins
    <2> QED  BY <1>3, <2>1
  <1>7. Tail(RTags(queue)) =
          Pipe(Tail(Tags(t2p)), Tags(running), Tags(p2t), writes)
    <2>1. IsAnswered(Tags(t2p), Tags(running), Tags(p2t), writes, RTags(queue))
      BY <1>4, <1>5, <1>6 DEF IsAnswered
    <2> QED  BY <2>1, PipeReply
  <1>8. RTags(requests') = Tail(RTags(queue))
    BY <1>3, RTagsOf DEF queue
  <1>9. InFlight'  BY <1>4, <1>7, <1>8, TripInFlight DEF Trip, writes
  <1>10. WritesQueued'
    <2>1. IsSuffix(reqWrites', queue)
      <3>1. IsSuffix(Append(reqWrites, t), Append(requests, t))
        BY Domains, SuffixAppend DEF IInv, WritesQueued
      <3> QED  BY <3>1 DEF queue
    <2>2. reqWrites' \in Seq(Transfer) /\ Len(reqWrites') < Len(queue)
      <3>1. /\ Len(reqWrites) \in Nat /\ Len(requests) \in Nat
            /\ Len(reqWrites) < Len(requests)
        BY Domains, FrontMatches, LenProperties
      <3>2. /\ Len(queue) = Len(requests) + 1
            /\ Len(reqWrites') = Len(reqWrites) + 1
            /\ reqWrites' \in Seq(Transfer)
        BY Domains, AppendProperties DEF queue
      <3> QED  BY <3>1, <3>2
    <2>3. IsSuffix(reqWrites', Tail(queue))
      BY <1>3, <2>1, <2>2, SuffixPop
    <2> QED  BY <2>3 DEF WritesQueued, queue
  <1> QED  BY <1>9, <1>10

(* The bytes of a request reach the target's stream.                        *)
LEMMA WriteKeeps ==
  ASSUME IInv, status = "ok", reqWrites # <<>>,
         reqWrites' = Tail(reqWrites), p2t' = Append(p2t, Head(reqWrites).pkt),
         UNCHANGED <<requests, t2p, running, status>>
  PROVE  InFlight' /\ WritesQueued'
  <1>1. Head(reqWrites) \in Transfer /\ Head(reqWrites).pkt \in Packet
    BY SeqTypes, TransferFields DEF IInv, TypeOK
  <1>2. /\ Tags(t2p) \in Seq(Tag) /\ Tags(running) \in Seq(Tag)
        /\ Tags(p2t) \in Seq(Tag) /\ RTags(reqWrites) \in Seq(Tag)
        /\ RTags(requests) \in Seq(Tag)
        /\ RTags(reqWrites) # <<>>
        /\ RTags(reqWrites') = Tail(RTags(reqWrites))
        /\ Head(RTags(reqWrites)) = Head(reqWrites).pkt.tag
        /\ Tail(RTags(reqWrites)) \in Seq(Tag)
    BY Domains, TagsOf, RTagsOf, HeadTailProperties
  <1>6. /\ Tags(p2t') = Append(Tags(p2t), Head(reqWrites).pkt.tag)
        /\ Head(reqWrites).pkt.tag \in Tag
        /\ Tags(p2t') \in Seq(Tag)
    <2>1. \A p \in Packet : Tags(Append(p2t, p)) = Append(Tags(p2t), p.tag)
      BY Domains, TagsOf
    <2>2. Head(reqWrites).pkt.tag \in Tag  BY <1>1, PacketFields DEF Tag
    <2>3. \A s \in Seq(Tag), x \in Tag : Append(s, x) \in Seq(Tag)
      BY AppendProperties
    <2> QED  BY <1>1, <1>2, <2>1, <2>2, <2>3
  <1>3. RTags(requests) = Trip(t2p, running, p2t', reqWrites')
    <2>1. RTags(requests) = Pipe(Tags(t2p), Tags(running), Tags(p2t), RTags(reqWrites))
      BY RoundTrip DEF Trip
    <2>2. /\ Tags(p2t') = Append(Tags(p2t), Head(RTags(reqWrites)))
          /\ RTags(reqWrites') \in Seq(Tag)
      BY <1>2, <1>6
    <2>3. IsWritten(Tags(t2p), Tags(running), Tags(p2t), RTags(reqWrites),
                    Tags(p2t'), RTags(reqWrites'), RTags(requests))
      BY <1>2, <1>6, <2>1, <2>2 DEF IsWritten
    <2> QED  BY <2>3, PipeWritten DEF Trip
  <1>4. InFlight'  BY <1>3, TripInFlight
  <1>5. WritesQueued'
    BY SuffixWritten DEF IInv, TypeOK, WritesQueued
  <1> QED  BY <1>4, <1>5

(* The transfer a completion handler looks at is still in the queue.        *)
LEMMA WriteIsQueued ==
  ASSUME IInv, status = "ok", reqWrites # <<>>
  PROVE  Queued(Head(reqWrites)) /\ Head(reqWrites).pkt.type = "dat"
  <1>1. /\ Len(requests) \in Nat /\ Len(reqWrites) \in Nat \ {0}
        /\ Head(reqWrites) = reqWrites[1]
    BY Domains, LenProperties, EmptySeq
  <1>2. /\ Len(reqWrites) <= Len(requests)
        /\ requests[Len(requests) - Len(reqWrites) + 1] = Head(reqWrites)
    BY <1>1 DEF IInv, WritesQueued, IsSuffix
  <1>3. Len(requests) - Len(reqWrites) + 1 \in 1..Len(requests)
    BY <1>1, <1>2
  <1> QED  BY <1>1, <1>2, <1>3 DEF Queued, IInv, Silent, AllData

LEMMA AcceptKeeps ==
  ASSUME IInv, p2t # <<>>, running = <<>>, p2t' = Tail(p2t),
         UNCHANGED <<requests, reqWrites, status>>,
         \/ running' = <<Head(p2t)>> /\ UNCHANGED t2p
         \/ /\ UNCHANGED running
            /\ \E k \in Replied : t2p' = Append(t2p, Dat(k, Head(p2t).tag))
  PROVE  InFlight' /\ WritesQueued'
  <1>1. WritesQueued'  BY DEF IInv, WritesQueued, IsSuffix
  <1>2. CASE status # "ok"  BY <1>1, <1>2 DEF InFlight
  <1>3. CASE status = "ok"
    <2>1. Head(p2t) \in Packet /\ Head(p2t).tag \in Tag
      BY SeqTypes, PacketFields DEF IInv, TypeOK, Tag
    <2>2. /\ Tags(t2p) \in Seq(Tag) /\ Tags(p2t) \in Seq(Tag)
          /\ RTags(reqWrites) \in Seq(Tag) /\ Tags(p2t) # <<>>
          /\ Tags(running) = <<>>
          /\ Head(Tags(p2t)) = Head(p2t).tag
          /\ Tags(p2t') = Tail(Tags(p2t)) /\ Tail(Tags(p2t)) \in Seq(Tag)
      BY Domains, TagsOf, RTagsOf, HeadTailProperties
    <2>3. RTags(requests) =
            Pipe(Tags(t2p), <<Head(p2t).tag>>, Tags(p2t'), RTags(reqWrites))
      <3>1. RTags(requests) =
              Pipe(Tags(t2p), Tags(running), Tags(p2t), RTags(reqWrites))
        BY <1>3, RoundTrip DEF Trip
      <3>2. /\ RTags(requests) \in Seq(Tag) /\ Tags(running) \in Seq(Tag)
            /\ Tags(p2t') \in Seq(Tag)
        BY Domains, <2>2, RTagsOf, TagsOf
      <3>3. <<Head(p2t).tag>> \in Seq(Tag)  BY <2>1
      <3>4. IsStarted(Tags(t2p), Tags(running), Tags(p2t), RTags(reqWrites),
                      <<Head(p2t).tag>>, Tags(p2t'), RTags(requests))
        BY <2>2, <3>1, <3>2, <3>3 DEF IsStarted
      <3> QED  BY <3>4, PipeStarted
    <2>4. CASE running' = <<Head(p2t)>> /\ UNCHANGED t2p
      <3>1. Tags(running') = <<Head(p2t).tag>>  BY <2>4 DEF Tags
      <3> QED  BY <1>1, <2>3, <2>4, <3>1, TripInFlight DEF Trip
    <2>5. ASSUME NEW k \in Replied, UNCHANGED running,
                 t2p' = Append(t2p, Dat(k, Head(p2t).tag))
          PROVE  InFlight'
      <3>1. Dat(k, Head(p2t).tag) \in Packet
        BY <2>1, MakePacket DEF Tag
      <3>2. Tags(t2p') = Append(Tags(t2p), Head(p2t).tag)
        BY <2>5, <3>1, TagsOf DEF IInv, TypeOK, Dat
      <3>3. RTags(requests) =
              Pipe(Tags(t2p'), <<>>, Tags(p2t'), RTags(reqWrites))
        <4>1. RTags(requests) \in Seq(Tag)  BY Domains, RTagsOf
        <4>2. Tags(t2p') \in Seq(Tag)
          BY <2>1, <2>2, <3>2, AppendProperties
        <4>3. <<Head(p2t).tag>> \in Seq(Tag) /\ <<>> \in Seq(Tag)
          BY <2>1
        <4>4. IsHalted(Tags(t2p), <<Head(p2t).tag>>, Tags(p2t'), RTags(reqWrites),
                       Tags(t2p'), <<>>, RTags(requests), Head(p2t).tag)
          BY <2>1, <2>2, <2>3, <3>2, <4>1, <4>2, <4>3 DEF IsHalted
        <4> QED  BY <4>4, PipeHalted
      <3> QED  BY <2>2, <2>5, <3>3, TripInFlight DEF Trip
    <2> QED  BY <1>1, <2>4, <2>5
  <1> QED  BY <1>2, <1>3

LEMMA HaltKeeps ==
  ASSUME IInv, running # <<>>, NEW k \in StopReplies, Halted(k),
         UNCHANGED <<requests, reqWrites, p2t, status>>
  PROVE  InFlight' /\ WritesQueued'
  <1>1. WritesQueued'  BY DEF IInv, WritesQueued, IsSuffix
  <1>2. CASE status # "ok"  BY <1>1, <1>2 DEF InFlight
  <1>3. CASE status = "ok"
    <2>1. /\ running \in Seq(Packet) /\ Len(running) = 1
          /\ running[1] \in Packet /\ running[1].tag \in Tag
      <3>1. running \in Seq(Packet) /\ Len(running) \in Nat \ {0} /\ Len(running) <= 1
        BY EmptySeq DEF IInv, TypeOK
      <3>2. 1 \in 1..Len(running)  BY <3>1
      <3>3. running[1] \in Packet  BY <3>1, <3>2, ElementOfSeq
      <3>4. Len(running) = 1
        <4>1. \A n \in Nat \ {0} : n <= 1 => n = 1  OBVIOUS
        <4> QED  BY <3>1, <4>1
      <3>5. running[1].tag \in Tag  BY <3>3, PacketFields DEF Tag
      <3> QED  BY <3>1, <3>3, <3>4, <3>5
    <2>2. Tags(running) = <<running[1].tag>> /\ Tags(running') = <<>>
      BY <2>1 DEF Tags, Halted
    <2>3. /\ Tags(t2p) \in Seq(Tag) /\ Tags(p2t) \in Seq(Tag)
          /\ RTags(reqWrites) \in Seq(Tag)
      BY Domains, TagsOf, RTagsOf
    <2>4. Dat(k, running[1].tag) \in Packet
      BY <2>1, MakePacket, SessionAssumption DEF Tag, Replied
    <2>5. Tags(t2p') = Append(Tags(t2p), running[1].tag)
      BY <2>4, TagsOf DEF Halted, IInv, TypeOK, Dat
    <2>6. RTags(requests) = Pipe(Tags(t2p'), <<>>, Tags(p2t), RTags(reqWrites))
      <3>1. RTags(requests) =
              Pipe(Tags(t2p), Tags(running), Tags(p2t), RTags(reqWrites))
        BY <1>3, RoundTrip DEF Trip
      <3>2. /\ Tags(t2p') \in Seq(Tag) /\ RTags(requests) \in Seq(Tag)
            /\ Tags(running) \in Seq(Tag) /\ <<>> \in Seq(Tag)
        <4>1. RTags(requests) \in Seq(Tag)  BY Domains, RTagsOf
        <4>2. Tags(t2p') \in Seq(Tag)
          BY <2>1, <2>3, <2>5, AppendProperties
        <4>3. Tags(running) \in Seq(Tag)  BY Domains, TagsOf
        <4> QED  BY <4>1, <4>2, <4>3
      <3>3. IsHalted(Tags(t2p), Tags(running), Tags(p2t), RTags(reqWrites),
                     Tags(t2p'), <<>>, RTags(requests), running[1].tag)
        BY <2>1, <2>2, <2>3, <2>5, <3>1, <3>2 DEF IsHalted
      <3> QED  BY <3>3, PipeHalted
    <2> QED  BY <1>1, <2>2, <2>6, TripInFlight DEF Trip
  <1> QED  BY <1>2, <1>3

LEMMA StillKeeps ==
  ASSUME IInv, UNCHANGED <<requests, reqWrites, t2p, running, p2t, status>>
  PROVE  InFlight' /\ WritesQueued'
  BY DEF IInv, InFlight, WritesQueued, Tags, Pkts, IsSuffix

LEMMA DatSeq ==
  ASSUME NEW s \in Seq(Packet), AllDat(s)
  PROVE  /\ \A p \in Packet : p.type = "dat" => AllDat(Append(s, p))
         /\ s # <<>> => Head(s).type = "dat" /\ AllDat(Tail(s))
  BY AppendProperties, HeadTailProperties, LenProperties, EmptySeq DEF AllDat

LEMMA DataSeq ==
  ASSUME NEW s \in Seq(Transfer), AllData(s)
  PROVE  /\ \A t \in Transfer : t.pkt.type = "dat" => AllData(Append(s, t))
         /\ s # <<>> => AllData(Tail(s))
  BY AppendProperties, HeadTailProperties, LenProperties, EmptySeq DEF AllData

(* The read of a client's packet, whatever on_request decides.              *)
LEMMA RouteKeeps ==
  ASSUME IInv, status = "ok", NEW p \in Packet, p.type = "dat", Route(p),
         UNCHANGED <<t2p, running, p2t, status>>
  PROVE  InFlight' /\ WritesQueued' /\ AllData(reqWrites')
  <1>1. ASSUME NEW t \in Transfer, t.pkt.type = "dat", StartWrite(t)
        PROVE  InFlight' /\ WritesQueued' /\ AllData(reqWrites')
    <2>1. requests' = Append(requests, t) /\ reqWrites' = Append(reqWrites, t)
      BY <1>1 DEF StartWrite, Enqueued
    <2>2. InFlight' /\ WritesQueued'  BY <1>1, <2>1, RequestKeeps
    <2>3. AllData(Append(reqWrites, t))
      BY <1>1, DataSeq DEF IInv, TypeOK, Silent
    <2> QED  BY <2>1, <2>2, <2>3
  <1>2. CASE StartWrite(Ext(p))
    <2>1. Ext(p) \in Transfer /\ Ext(p).pkt.type = "dat"
      BY MakeTransfer DEF Ext
    <2> QED  BY <1>1, <1>2, <2>1
  <1>3. CASE StartWrite(Internal(p))
    <2>1. Internal(p) \in Transfer /\ Internal(p).pkt.type = "dat"
      BY MakeTransfer DEF Internal
    <2> QED  BY <1>1, <1>3, <2>1
  <1>4. CASE StartWrite(MemRead("fetch", p.tag[1], 1))
    <2> DEFINE t == MemRead("fetch", p.tag[1], 1)
    <2>1. t \in Transfer  BY PacketFields, MakeMemRead
    <2>2. t.pkt.type = "dat"  BY DEF MemRead, Internal, Dat
    <2> QED  BY <1>1, <1>4, <2>1, <2>2
  <1>5. CASE Respond(Dat("data", p.tag))
    BY <1>5, StillKeeps DEF Respond, IInv, Silent
  <1> QED  BY <1>2, <1>3, <1>4, <1>5 DEF Route

(* The read of a target's reply, whatever on_response decides.              *)
LEMMA AnswerKeeps ==
  ASSUME IInv, status = "ok", t2p # <<>>, t2p' = Tail(t2p),
         Answer(Head(requests), Head(t2p)), UNCHANGED <<running, p2t>>
  PROVE  InFlight' /\ WritesQueued' /\ AllData(reqWrites')
  <1> DEFINE front == Head(requests)
             rsp   == Head(t2p)
  <1>1. front.pkt \in Packet /\ front.pkt.tag[1] \in Nat /\ front.pkt.tag[2] \in Nat
    BY FrontMatches, SeqTypes, TransferFields, PacketFields DEF IInv, TypeOK
  <1> HIDE DEF front, rsp
  <1>2. ASSUME NEW k \in {"scan", "fetch"}, NEW n \in Nat, NEW j \in Nat,
               NextRead(k, n, j), UNCHANGED status
        PROVE  InFlight' /\ WritesQueued' /\ AllData(reqWrites')
    <2> DEFINE t == MemRead(k, n, j)
    <2>1. t \in Transfer  BY MakeMemRead
    <2>2. t.pkt.type = "dat"  BY DEF MemRead, Internal, Dat
    <2> HIDE DEF t
    <2>3. requests' = Tail(Append(requests, t)) /\ reqWrites' = Append(reqWrites, t)
      BY <1>2 DEF NextRead, t
    <2>4. InFlight' /\ WritesQueued'  BY <1>2, <2>1, <2>3, ReadKeeps
    <2>5. AllData(Append(reqWrites, t))
      BY <2>1, <2>2, DataSeq DEF IInv, TypeOK, Silent
    <2> QED  BY <2>3, <2>4, <2>5
  <1>3. ASSUME requests' = Tail(requests), UNCHANGED <<reqWrites, status>>
        PROVE  InFlight' /\ WritesQueued' /\ AllData(reqWrites')
    BY <1>3, ReplyKeeps DEF IInv, Silent
  <1>4. CASE StopReplied(front.pkt, rsp)
    <2>1. CASE status' = "aborted" /\ UNCHANGED <<queues, stopReply>>
      BY <2>1 DEF InFlight, WritesQueued, IInv, Silent, queues
    <2>2. CASE NextRead("scan", front.pkt.tag[1], 1) /\ UNCHANGED status
      BY <1>1, <1>2, <2>2
    <2>3. CASE Finish(Dat("T", rsp.tag)) /\ UNCHANGED status
      BY <1>3, <2>3 DEF Finish
    <2> QED  BY <1>4, <2>1, <2>2, <2>3 DEF StopReplied
  <1>5. CASE ScanReturned(front.pkt) /\ UNCHANGED status
    <2>1. CASE NextRead("scan", front.pkt.tag[1], front.pkt.tag[2] + 1)
      BY <1>1, <1>2, <1>5, <2>1
    <2>2. CASE Finish(Dat("T", <<stopReply, 0>>))
      BY <1>3, <1>5, <2>2 DEF Finish
    <2> QED  BY <1>5, <2>1, <2>2 DEF ScanReturned
  <1>6. CASE FetchReturned(front.pkt) /\ UNCHANGED status
    <2>1. CASE NextRead("fetch", front.pkt.tag[1], 2)
      BY <1>1, <1>2, <1>6, <2>1
    <2>2. CASE Finish(Dat("data", <<front.pkt.tag[1], 0>>))
      BY <1>3, <1>6, <2>2 DEF Finish
    <2> QED  BY <1>6, <2>1, <2>2 DEF FetchReturned
  <1>7. CASE requests' = Tail(requests) /\ UNCHANGED <<reqWrites, status>>
    BY <1>3, <1>7
  <1> QED  BY <1>4, <1>5, <1>6, <1>7 DEF Answer, front, rsp

-----------------------------------------------------------------------------
(* IInv is inductive in a quiet session: acknowledges off, no breaks.       *)
LEMMA InductiveInit ==
  ASSUME Quiet, Init
  PROVE  IInv
  <1>1. TypeOK  BY TypeInit
  <1>2. Silent
    BY DEF Quiet, Init, ProxyInit, Silent, AllDat, AllData
  <1>3. Len(running) <= 1  BY DEF Init
  <1>4. InFlight
    <2>1. /\ Tags(<<>>) = <<>> /\ Pkts(<<>>) = <<>>
          /\ <<>> \o <<>> \o <<>> \o <<>> = <<>>
      BY DEF Tags, Pkts
    <2> QED  BY <2>1 DEF Init, ProxyInit, InFlight
  <1>5. WritesQueued
    BY DEF Init, ProxyInit, WritesQueued, IsSuffix
  <1> QED  BY <1>1, <1>2, <1>3, <1>4, <1>5 DEF IInv

LEMMA ProxyKeeps ==
  ASSUME Quiet, IInv, Proxy
  PROVE  Silent' /\ Len(running') <= 1 /\ InFlight' /\ WritesQueued'
  <1>1. Len(running') <= 1 /\ UNCHANGED <<clientVars, targetVars>>
    BY DEF Proxy, IInv, targetVars
  <1>2. CASE ReadClient
    <2>1. Head(c2p) \in Packet /\ Head(c2p).type = "dat" /\ AllDat(c2p')
      BY <1>2, DatSeq, SeqTypes DEF ReadClient, IInv, Silent, TypeOK
    <2>2. InFlight' /\ WritesQueued' /\ AllData(reqWrites')
      BY <1>1, <1>2, <2>1, RouteKeeps DEF ReadClient, targetVars
    <2> QED
      BY <1>1, <1>2, <2>1, <2>2
         DEF ReadClient, IInv, Silent, clientVars, targetVars
  <1>3. CASE ReadTarget
    <2>1. Head(t2p).type = "dat" /\ AllDat(t2p')
      BY <1>3, DatSeq DEF ReadTarget, IInv, Silent, TypeOK
    <2>2. requests # <<>>  BY <1>3, FrontMatches DEF ReadTarget
    <2>3. Answer(Head(requests), Head(t2p))
      BY <1>3, <2>1, <2>2 DEF ReadTarget
    <2>4. InFlight' /\ WritesQueued' /\ AllData(reqWrites')
      BY <1>1, <1>3, <2>3, AnswerKeeps DEF ReadTarget, targetVars
    <2> QED
      BY <1>1, <1>3, <2>1, <2>4
         DEF ReadTarget, IInv, Silent, clientVars, targetVars
  <1>4. CASE WriteRequestDone
    <2>1. Queued(Head(reqWrites)) /\ Head(reqWrites).pkt.type = "dat"
      BY <1>4, WriteIsQueued DEF WriteRequestDone
    <2>2. UNCHANGED <<requests, status>>
      BY <1>4, <2>1 DEF WriteRequestDone, Completed
    <2>3. InFlight' /\ WritesQueued'
      BY <1>1, <1>4, <2>2, WriteKeeps DEF WriteRequestDone, targetVars
    <2>4. Head(reqWrites).pkt \in Packet
      BY <1>4, SeqTypes, TransferFields DEF WriteRequestDone, IInv, TypeOK
    <2>5. AllDat(p2t') /\ AllData(reqWrites')
      BY <1>4, <2>1, <2>4, DatSeq, DataSeq
         DEF WriteRequestDone, IInv, Silent, TypeOK
    <2> QED
      BY <1>1, <1>4, <2>3, <2>5
         DEF WriteRequestDone, IInv, Silent, clientVars, targetVars
  <1>5. CASE WriteResponseDone
    <2>1. UNCHANGED <<requests, reqWrites, status, t2p, p2t, c2p, running>>
      BY <1>1, <1>5 DEF WriteResponseDone, targetVars
    <2> QED
      BY <1>1, <2>1, StillKeeps DEF IInv, Silent, clientVars, targetVars
  <1> QED  BY <1>2, <1>3, <1>4, <1>5 DEF Proxy, ProxyStep

LEMMA ClientKeeps ==
  ASSUME Quiet, IInv, Client
  PROVE  Silent' /\ Len(running') <= 1 /\ InFlight' /\ WritesQueued'
  <1>1. ASSUME NEW k \in Kinds, SendCommand(k)
        PROVE  /\ Silent'
               /\ UNCHANGED <<requests, reqWrites, t2p, running, p2t, status>>
    <2> DEFINE p == Dat(k, <<sent + 1, 0>>)
    <2>1. p \in Packet /\ p.type = "dat"
      <3>1. <<sent + 1, 0>> \in Nat \X Nat  BY DEF IInv, TypeOK
      <3> QED  BY <3>1, MakePacket, SessionAssumption DEF Requested, Dat
    <2>2. AllDat(Append(c2p, p))
      BY <2>1, DatSeq DEF IInv, Silent, TypeOK
    <2> QED
      BY <1>1, <2>2
         DEF SendCommand, ClientToProxy, IInv, Silent, queues, targetVars
  <1>2. ~SendBreak  BY DEF SendBreak, Quiet, IInv, TypeOK
  <1>3. ~Retransmit  BY DEF Retransmit, IInv, Silent
  <1>4. /\ Silent'
        /\ UNCHANGED <<requests, reqWrites, t2p, running, p2t, status>>
    <2>1. CASE ReceiveAck \/ ReceiveReply
      <3>1. UNCHANGED <<requests, reqWrites, t2p, running, p2t, status>>
        BY <2>1 DEF ReceiveAck, ReceiveReply, queues, targetVars
      <3>2. UNCHANGED <<c2p, tgtAck>> /\ unacked' = 0
        BY <2>1 DEF ReceiveAck, ReceiveReply, IInv, Silent, targetVars
      <3>3. ~cliAck'
        <4>1. CASE ReceiveAck  BY <4>1 DEF ReceiveAck, IInv, Silent
        <4>2. CASE ReceiveReply
          <5>1. cliAck' = (cliAck /\ Head(p2c).kind # "OK")
            BY <4>2 DEF ReceiveReply
          <5> QED  BY <5>1 DEF IInv, Silent
        <4> QED  BY <2>1, <4>1, <4>2
      <3> QED  BY <3>1, <3>2, <3>3 DEF IInv, Silent
    <2>2. ~RefuseReply  BY DEF RefuseReply, IInv, Silent
    <2> QED  BY <1>1, <1>2, <1>3, <2>1, <2>2 DEF Client
  <1> QED  BY <1>4, StillKeeps DEF IInv

LEMMA TargetKeeps ==
  ASSUME Quiet, IInv, Target
  PROVE  Silent' /\ Len(running') <= 1 /\ InFlight' /\ WritesQueued'
  <1>1. CASE TargetAccept
    <2>1. Head(p2t) \in Packet /\ Head(p2t).tag \in Nat \X Nat /\ AllDat(p2t')
      BY <1>1, SeqTypes, PacketFields, DatSeq
         DEF TargetAccept, IInv, Silent, TypeOK
    <2>2. ASSUME NEW k \in Replied, Reply(k, Head(p2t))
          PROVE  t2p' = Append(t2p, Dat(k, Head(p2t).tag)) /\ AllDat(t2p')
      <3>1. Dat(k, Head(p2t).tag) \in Packet /\ Dat(k, Head(p2t).tag).type = "dat"
        BY <2>1, MakePacket DEF Dat
      <3>2. t2p' = t2p \o <<Dat(k, Head(p2t).tag)>>
        BY <2>2 DEF Reply, IInv, Silent
      <3>3. t2p' = Append(t2p, Dat(k, Head(p2t).tag))
        BY <3>1, <3>2, AppendIsConcat DEF IInv, TypeOK
      <3> QED  BY <3>1, <3>3, DatSeq DEF IInv, Silent, TypeOK
    <2>3. \/ running' = <<Head(p2t)>> /\ UNCHANGED <<t2p, tgtAck>>
          \/ /\ UNCHANGED running /\ ~tgtAck' /\ AllDat(t2p')
             /\ \E k \in Replied : t2p' = Append(t2p, Dat(k, Head(p2t).tag))
      BY <1>1, <2>2 DEF TargetAccept, IInv, Silent, targetVars, Replied
    <2>4. InFlight' /\ WritesQueued'
      BY <1>1, <2>3, AcceptKeeps DEF TargetAccept, queues
    <2>5. Silent'
      BY <1>1, <2>1, <2>3 DEF TargetAccept, IInv, Silent, queues, clientVars
    <2>6. Len(running') <= 1
      <3>1. running' = <<Head(p2t)>> \/ running' = running  BY <2>3
      <3>2. CASE running' = <<Head(p2t)>>
        <4>1. Len(<<Head(p2t)>>) = 1  OBVIOUS
        <4> QED  BY <3>2, <4>1
      <3> QED  BY <3>1, <3>2 DEF IInv
    <2> QED  BY <2>4, <2>5, <2>6
  <1>2. ~TargetSignal
    BY DatSeq DEF TargetSignal, IInv, Silent, TypeOK
  <1>3. CASE Halt
    <2>1. PICK k \in StopReplies : Halted(k)  BY <1>3 DEF Halt
    <2>2. InFlight' /\ WritesQueued'
      BY <1>3, <2>1, HaltKeeps DEF Halt, queues
    <2>3. running[1] \in Packet /\ running # <<>>
      BY <1>3, Head(running) \in Packet, SeqTypes DEF Halt, IInv, TypeOK
    <2>4. Dat(k, running[1].tag) \in Packet /\ Dat(k, running[1].tag).type = "dat"
      BY <2>3, PacketFields, MakePacket, SessionAssumption DEF Replied, Dat
    <2>5. AllDat(t2p')  BY <2>1, <2>4, DatSeq DEF Halted, IInv, Silent, TypeOK
    <2>6. Len(running') <= 1  BY <2>1 DEF Halted
    <2>7. Silent'
      BY <1>3, <2>5 DEF Halt, IInv, Silent, queues, clientVars
    <2> QED  BY <2>2, <2>6, <2>7
  <1>4. ~TargetRefuse  BY DEF TargetRefuse, IInv, Silent
  <1> QED  BY <1>1, <1>2, <1>3, <1>4 DEF Target

LEMMA InductiveStep ==
  ASSUME Quiet, IInv, [Next]_vars
  PROVE  IInv'
  <1>1. TypeOK'  BY TypeStep DEF IInv
  <1>2. CASE UNCHANGED vars
    BY <1>1, <1>2, StillKeeps
       DEF vars, proxyVars, queues, streams, clientVars, targetVars, IInv, Silent
  <1> QED
    BY <1>1, <1>2, ProxyKeeps, ClientKeeps, TargetKeeps DEF Next, IInv

LEMMA Inductive == Quiet => (Spec => []IInv)
  <1>1. Quiet => (Init => IInv)  BY InductiveInit
  <1>2. Quiet => (IInv /\ [Next]_vars => IInv')  BY InductiveStep
  <1>3. CASE Quiet  BY <1>1, <1>2, <1>3, PTL DEF Spec
  <1> QED  BY <1>3

(* In a quiet session the requests queue is exactly the round trip, with    *)
(* any window, however many commands, memory reads and stop replies.        *)
THEOREM QueueIsRoundTrip == Quiet => (Spec => []InFlight)
  <1>1. IInv => InFlight  BY DEF IInv
  <1>2. CASE Quiet  BY <1>1, <1>2, Inductive, PTL
  <1> QED  BY <1>2

(* What on_response takes for granted holds in a quiet session: the front   *)
(* of the queue exists and is the request that the packet answers.          *)
THEOREM ReplyMeetsRequest == Quiet => (Spec => []Matched)
  <1>1. IInv => Matched  BY FrontMatches DEF Matched
  <1>2. CASE Quiet  BY <1>1, <1>2, Inductive, PTL
  <1> QED  BY <1>2

(* The bytes of a write in flight belong to a transfer that is still in the *)
(* queue, whatever was answered while it was being written.                 *)
THEOREM WritesKeepTheirBuffers == Quiet => (Spec => []BuffersAlive)
  <1>1. IInv => BuffersAlive
    <2> SUFFICES ASSUME IInv, status = "ok", NEW i \in 1..Len(reqWrites)
                 PROVE  \E j \in 1..Len(requests) : requests[j] = reqWrites[i]
      BY DEF BuffersAlive
    <2> DEFINE j == Len(requests) - Len(reqWrites) + i
    <2>1. requests[j] = reqWrites[i]  BY DEF IInv, WritesQueued, IsSuffix
    <2>2. j \in 1..Len(requests)
      <3>1. /\ Len(requests) \in Nat /\ Len(reqWrites) \in Nat
            /\ Len(reqWrites) <= Len(requests)
        BY LenProperties DEF IInv, TypeOK, WritesQueued, IsSuffix
      <3> QED  BY <3>1
    <2> QED  BY <2>1, <2>2
  <1>2. CASE Quiet  BY <1>1, <1>2, Inductive, PTL
  <1> QED  BY <1>2

(* A quiet session never takes the front of an empty queue, so the handlers  *)
(* behave as written: the model needs no undefined outcome for it.          *)
Defined == status # "undefined"

THEOREM NeverUndefined == Quiet => (Spec => [](Defined /\ FrontExists))
  <1>1. Init => Defined  BY DEF Init, ProxyInit, Defined
  <1>2. Quiet /\ IInv /\ Defined /\ [Next]_vars => Defined'
    <2> SUFFICES ASSUME Quiet, IInv, Defined, [Next]_vars
                 PROVE  Defined'
      OBVIOUS
    <2>1. CASE ReadTarget
      <3>1. requests # <<>>  BY <2>1, FrontMatches DEF ReadTarget
      <3>2. CASE Answer(Head(requests), Head(t2p))
        BY <3>2 DEF Answer, StopReplied, Defined
      <3>3. CASE Acknowledge(Head(requests), Head(t2p))
        BY <3>3 DEF Acknowledge, Defined
      <3> QED  BY <2>1, <3>1, <3>2, <3>3 DEF ReadTarget
    <2>2. CASE WriteRequestDone
      BY <2>2, WriteIsQueued DEF WriteRequestDone, Completed, Defined
    <2>3. CASE UNCHANGED status  BY <2>3 DEF Defined
    <2>4. CASE Proxy
      BY <2>1, <2>2, <2>3, <2>4
         DEF Proxy, ProxyStep, ReadClient, WriteResponseDone
    <2>5. Client \/ Target => UNCHANGED status
      BY DEF Client, Target, SendCommand, SendBreak, Retransmit, ReceiveAck,
             ReceiveReply, RefuseReply, ClientToProxy, TargetAccept,
             TargetRefuse, TargetSignal, Halt
    <2>6. CASE UNCHANGED vars  BY <2>3, <2>6 DEF vars, proxyVars
    <2> QED  BY <2>3, <2>4, <2>5, <2>6 DEF Next
  <1>3. Defined => FrontExists  BY DEF Defined, FrontExists
  <1>4. CASE Quiet  BY <1>1, <1>2, <1>3, <1>4, Inductive, PTL DEF Spec
  <1> QED  BY <1>4

-----------------------------------------------------------------------------
(* What is in order in every session.                                       *)
(* Sequences of tags; those of the proxy's own reads are in any order.      *)

InOrder(x, y) == x[2] = 0 /\ y[2] = 0 => x[1] <= y[1]
Sorted(s)     == \A i, j \in 1..Len(s) : i < j => InOrder(s[i], s[j])
Before(s, u)  == \A i \in 1..Len(s), j \in 1..Len(u) : InOrder(s[i], u[j])
UpTo(s, x)    == \A i \in 1..Len(s) : InOrder(s[i], x)
From(x, s)    == \A i \in 1..Len(s) : InOrder(x, s[i])

LEMMA Appended ==
  ASSUME NEW s \in Seq(Tag), NEW x \in Tag
  PROVE  /\ Sorted(s) /\ UpTo(s, x) => Sorted(Append(s, x))
         /\ \A u \in Seq(Tag) :
              /\ Before(s, u) /\ From(x, u) => Before(Append(s, x), u)
              /\ Before(u, s) /\ UpTo(u, x) => Before(u, Append(s, x))
         /\ \A y \in Tag : UpTo(s, y) /\ InOrder(x, y) => UpTo(Append(s, x), y)
  <1> DEFINE t == Append(s, x)
  <1>1. /\ Len(s) \in Nat /\ Len(t) = Len(s) + 1 /\ t[Len(t)] = x
        /\ \A i \in 1..Len(s) : t[i] = s[i]
    BY AppendProperties, LenProperties
  <1>2. \A i \in 1..Len(t) : (i \in 1..Len(s) /\ t[i] = s[i]) \/ (i = Len(t) /\ t[i] = x)
    BY <1>1
  <1> HIDE DEF t
  <1>3. Sorted(s) /\ UpTo(s, x) => Sorted(t)
    <2> SUFFICES ASSUME Sorted(s), UpTo(s, x),
                        NEW i \in 1..Len(t), NEW j \in 1..Len(t), i < j
                 PROVE  InOrder(t[i], t[j])
      BY DEF Sorted
    <2>1. i \in 1..Len(s) /\ t[i] = s[i]  BY <1>1, <1>2
    <2> QED  BY <1>2, <2>1 DEF Sorted, UpTo
  <1>4. ASSUME NEW u \in Seq(Tag)
        PROVE  /\ Before(s, u) /\ From(x, u) => Before(t, u)
               /\ Before(u, s) /\ UpTo(u, x) => Before(u, t)
    BY <1>2 DEF Before, From, UpTo
  <1>5. \A y \in Tag : UpTo(s, y) /\ InOrder(x, y) => UpTo(t, y)
    BY <1>2 DEF UpTo
  <1> QED  BY <1>3, <1>4, <1>5 DEF t

LEMMA Shortened ==
  ASSUME NEW s \in Seq(Tag), s # <<>>
  PROVE  /\ Sorted(s) => Sorted(Tail(s)) /\ From(Head(s), Tail(s))
         /\ \A u \in Seq(Tag) :
              /\ Before(s, u) => Before(Tail(s), u) /\ From(Head(s), u)
              /\ Before(u, s) => Before(u, Tail(s)) /\ UpTo(u, Head(s))
         /\ \A y \in Tag : UpTo(s, y) => UpTo(Tail(s), y) /\ InOrder(Head(s), y)
  <1> DEFINE t == Tail(s)
             x == Head(s)
  <1>1. /\ Len(s) \in Nat \ {0} /\ Len(t) = Len(s) - 1 /\ x = s[1]
        /\ \A i \in 1..Len(t) : t[i] = s[i + 1]
    BY HeadTailProperties, LenProperties, EmptySeq
  <1>2. /\ \A i \in 1..Len(t) : i + 1 \in 1..Len(s) /\ t[i] = s[i + 1] /\ 1 < i + 1
        /\ \A i, j \in 1..Len(t) : i < j => i + 1 < j + 1
        /\ 1 \in 1..Len(s) /\ x = s[1]
    BY <1>1
  <1> HIDE DEF t, x
  <1>3. Sorted(s) => Sorted(t) /\ From(x, t)
    BY <1>2 DEF Sorted, From
  <1>4. ASSUME NEW u \in Seq(Tag)
        PROVE  /\ Before(s, u) => Before(t, u) /\ From(x, u)
               /\ Before(u, s) => Before(u, t) /\ UpTo(u, x)
    BY <1>2 DEF Before, From, UpTo
  <1>5. \A y \in Tag : UpTo(s, y) => UpTo(t, y) /\ InOrder(x, y)
    BY <1>2 DEF UpTo
  <1> QED  BY <1>3, <1>4, <1>5 DEF t, x

-----------------------------------------------------------------------------
(* The way from the client to the target, in three parts: on its way, being *)
(* written, and not read yet; n is the last number the client used.         *)

Chain(A, B, C, n) ==
  /\ A \in Seq(Tag) /\ B \in Seq(Tag) /\ C \in Seq(Tag) /\ n \in Nat
  /\ Sorted(A) /\ Sorted(B) /\ Sorted(C)
  /\ Before(A, B) /\ Before(A, C) /\ Before(B, C)
  /\ UpTo(A, <<n, 0>>) /\ UpTo(B, <<n, 0>>) /\ UpTo(C, <<n, 0>>)

LEMMA ChainSent ==   \* a packet of the client, with the last number or the next
  ASSUME NEW A, NEW B, NEW C, NEW n, Chain(A, B, C, n), NEW m \in {n, n + 1}
  PROVE  Chain(A, B, Append(C, <<m, 0>>), m)
  <1>1. m \in Nat /\ m >= n /\ <<m, 0>> \in Tag /\ n \in Nat
    BY DEF Chain, Tag
  <1>2. \A s \in Seq(Tag) : UpTo(s, <<n, 0>>) => UpTo(s, <<m, 0>>)
    <2> SUFFICES ASSUME NEW s \in Seq(Tag), UpTo(s, <<n, 0>>), NEW i \in 1..Len(s)
                 PROVE  InOrder(s[i], <<m, 0>>)
      BY DEF UpTo
    <2>1. s[i] \in Tag /\ s[i][1] \in Nat  BY ElementOfSeq DEF Tag
    <2>2. InOrder(s[i], <<n, 0>>)  BY DEF UpTo
    <2> QED  BY <1>1, <2>1, <2>2 DEF InOrder
  <1>3. UpTo(A, <<m, 0>>) /\ UpTo(B, <<m, 0>>) /\ UpTo(C, <<m, 0>>)
    BY <1>2 DEF Chain
  <1>4. InOrder(<<m, 0>>, <<m, 0>>)  BY <1>1 DEF InOrder
  <1>5. Append(C, <<m, 0>>) \in Seq(Tag)  BY <1>1, AppendProperties DEF Chain
  <1> QED  BY <1>1, <1>3, <1>4, <1>5, Appended DEF Chain

LEMMA ChainOwn ==   \* a memory read of the proxy
  ASSUME NEW A, NEW B, NEW C, NEW n, Chain(A, B, C, n), NEW x \in Tag, x[2] # 0
  PROVE  Chain(A, Append(B, x), C, n)
  <1>1. \A y : InOrder(x, y) /\ InOrder(y, x)  BY DEF InOrder
  <1>2. \A s : UpTo(s, x) /\ From(x, s)  BY <1>1 DEF UpTo, From
  <1>3. Append(B, x) \in Seq(Tag) /\ <<n, 0>> \in Tag
    BY AppendProperties DEF Chain, Tag
  <1> QED  BY <1>1, <1>2, <1>3, Appended DEF Chain

LEMMA ChainDropped ==   \* a packet is taken and goes no further
  ASSUME NEW A, NEW B, NEW C, NEW n, Chain(A, B, C, n)
  PROVE  /\ A # <<>> => Chain(Tail(A), B, C, n)
         /\ C # <<>> => Chain(A, B, Tail(C), n)
  <1>1. <<n, 0>> \in Tag  BY DEF Chain, Tag
  <1>2. CASE A # <<>>
    <2>1. Tail(A) \in Seq(Tag)  BY <1>2, HeadTailProperties DEF Chain
    <2> QED  BY <1>1, <1>2, <2>1, Shortened DEF Chain
  <1>3. CASE C # <<>>
    <2>1. Tail(C) \in Seq(Tag)  BY <1>3, HeadTailProperties DEF Chain
    <2> QED  BY <1>1, <1>3, <2>1, Shortened DEF Chain
  <1> QED  BY <1>2, <1>3

LEMMA ChainMoved ==   \* a packet is taken and passed on
  ASSUME NEW A, NEW B, NEW C, NEW n, Chain(A, B, C, n)
  PROVE  /\ B # <<>> => Chain(Append(A, Head(B)), Tail(B), C, n)
         /\ C # <<>> => Chain(A, Append(B, Head(C)), Tail(C), n)
  <1>1. <<n, 0>> \in Tag  BY DEF Chain, Tag
  <1>2. ASSUME B # <<>> PROVE Chain(Append(A, Head(B)), Tail(B), C, n)
    <2> DEFINE x == Head(B)
               T == Tail(B)
    <2>1. x \in Tag /\ T \in Seq(Tag)  BY <1>2, HeadTailProperties DEF Chain
    <2>2. /\ Sorted(T) /\ From(x, T) /\ Before(T, C) /\ From(x, C)
          /\ Before(A, T) /\ UpTo(A, x) /\ UpTo(T, <<n, 0>>) /\ InOrder(x, <<n, 0>>)
      BY <1>1, <1>2, Shortened DEF Chain
    <2> HIDE DEF x, T
    <2>3. Append(A, x) \in Seq(Tag)  BY <2>1, AppendProperties DEF Chain
    <2>4. Chain(Append(A, x), T, C, n)
      BY <1>1, <2>1, <2>2, <2>3, Appended DEF Chain
    <2> QED  BY <2>4 DEF x, T
  <1>3. ASSUME C # <<>> PROVE Chain(A, Append(B, Head(C)), Tail(C), n)
    <2> DEFINE x == Head(C)
               T == Tail(C)
    <2>1. x \in Tag /\ T \in Seq(Tag)  BY <1>3, HeadTailProperties DEF Chain
    <2>2. /\ Sorted(T) /\ From(x, T) /\ Before(A, T) /\ UpTo(A, x)
          /\ Before(B, T) /\ UpTo(B, x) /\ UpTo(T, <<n, 0>>) /\ InOrder(x, <<n, 0>>)
      BY <1>1, <1>3, Shortened DEF Chain
    <2> HIDE DEF x, T
    <2>3. Append(B, x) \in Seq(Tag)  BY <2>1, AppendProperties DEF Chain
    <2>4. Chain(A, Append(B, x), T, n)
      BY <1>1, <2>1, <2>2, <2>3, Appended DEF Chain
    <2> QED  BY <2>4 DEF x, T
  <1> QED  BY <1>2, <1>3

-----------------------------------------------------------------------------
(* A command is repeated under its number only while nothing was sent after *)
(* it.                                                                      *)

Way     == Chain(Tags(p2t), RTags(reqWrites), Tags(c2p), sent)
Stamped == unacked # 0 /\ waiting # <<>> => unacked = sent /\ Len(waiting) <= 1
OInv    == TypeOK /\ Way /\ Stamped

LEMMA OInvInit == Init => OInv
  <1> SUFFICES ASSUME Init PROVE OInv  OBVIOUS
  <1>1. TypeOK  BY TypeInit
  <1>2. p2t = <<>> /\ reqWrites = <<>> /\ c2p = <<>> /\ sent = 0 /\ unacked = 0
    BY DEF Init, ProxyInit
  <1>3. Tags(p2t) = <<>> /\ RTags(reqWrites) = <<>> /\ Tags(c2p) = <<>>
    BY <1>2, TagsOf, RTagsOf, <1>1 DEF TypeOK
  <1>4. <<>> \in Seq(Tag) /\ Len(<<>>) = 0  OBVIOUS
  <1>5. Sorted(<<>>) /\ Before(<<>>, <<>>) /\ \A x : UpTo(<<>>, x)
    BY <1>4 DEF Sorted, Before, UpTo
  <1> QED  BY <1>1, <1>2, <1>3, <1>4, <1>5 DEF OInv, Way, Stamped, Chain

LEMMA WayStill ==
  ASSUME Way, UNCHANGED <<p2t, reqWrites, c2p, sent>>
  PROVE  Way'
  BY DEF Way, RTags, Tags, Pkts

LEMMA ReadClientOrder ==
  ASSUME OInv, ReadClient, UNCHANGED sent
  PROVE  Way'
  <1> DEFINE A == Tags(p2t)
             B == RTags(reqWrites)
             C == Tags(c2p)
  <1>1. PICK x \in Packet : x = Head(c2p) /\ c2p # <<>> /\ Route(x)
    BY SeqTypes DEF ReadClient, OInv, TypeOK
  <1>2. /\ C # <<>> /\ Tags(c2p)' = Tail(C) /\ Head(C) = x.tag
        /\ Tags(p2t)' = A /\ sent' = sent
    <2>1. c2p \in Seq(Packet) /\ c2p' = Tail(c2p) /\ p2t' = p2t
      BY DEF ReadClient, OInv, TypeOK
    <2>2. Tags(p2t)' = A  BY <2>1 DEF Tags
    <2> QED  BY <1>1, <2>1, <2>2, TagsOf
  <1>3. ASSUME NEW t \in Transfer, StartWrite(t)
        PROVE  RTags(reqWrites)' = Append(B, t.pkt.tag)
    BY <1>3, RTagsOf DEF StartWrite, OInv, TypeOK
  <1>4. Chain(A, B, C, sent)  BY DEF OInv, Way
  <1> HIDE DEF A, B, C
  <1>5. CASE StartWrite(Ext(x)) \/ StartWrite(Internal(x))
    <2>1. /\ Ext(x) \in Transfer /\ Internal(x) \in Transfer
          /\ Ext(x).pkt = x /\ Internal(x).pkt = x
      BY MakeTransfer DEF Ext, Internal
    <2>2. RTags(reqWrites)' = Append(B, Head(C))  BY <1>2, <1>3, <1>5, <2>1
    <2> QED  BY <1>2, <1>4, <2>2, ChainMoved DEF Way
  <1>6. CASE Respond(Dat("data", x.tag))
    <2>1. RTags(reqWrites)' = B  BY <1>6 DEF Respond, B, RTags, Tags, Pkts
    <2> QED  BY <1>2, <1>4, <2>1, ChainDropped DEF Way
  <1>7. CASE StartWrite(MemRead("fetch", x.tag[1], 1))
    <2> DEFINE m == MemRead("fetch", x.tag[1], 1)
    <2>1. x.tag[1] \in Nat  BY PacketFields
    <2>2. m \in Transfer /\ m.pkt.tag = <<x.tag[1], 1>>
      BY <2>1, MakeMemRead DEF MemRead, Internal, Dat
    <2>3. RTags(reqWrites)' = Append(B, <<x.tag[1], 1>>)  BY <1>3, <1>7, <2>2
    <2>4. <<x.tag[1], 1>> \in Tag /\ <<x.tag[1], 1>>[2] # 0  BY <2>1 DEF Tag
    <2>5. Chain(A, B, Tail(C), sent)  BY <1>2, <1>4, ChainDropped
    <2>6. Chain(A, Append(B, <<x.tag[1], 1>>), Tail(C), sent)
      BY <2>4, <2>5, ChainOwn
    <2> QED  BY <1>2, <2>3, <2>6 DEF Way
  <1> QED  BY <1>1, <1>5, <1>6, <1>7 DEF Route

LEMMA NextReadOrder ==
  ASSUME OInv, NEW k \in {"scan", "fetch"}, NEW n \in Nat, NEW j \in Nat \ {0},
         NextRead(k, n, j), UNCHANGED <<p2t, c2p, sent>>
  PROVE  Way'
  <1> DEFINE m == MemRead(k, n, j)
             B == RTags(reqWrites)
  <1>1. m \in Transfer /\ m.pkt.tag = <<n, j>>
    BY MakeMemRead DEF MemRead, Internal, Dat
  <1>2. RTags(reqWrites)' = Append(B, <<n, j>>)
    <2>1. reqWrites \in Seq(Transfer) /\ reqWrites' = Append(reqWrites, m)
      BY DEF NextRead, OInv, TypeOK
    <2> HIDE DEF m
    <2>2. RTags(Append(reqWrites, m)) = Append(B, m.pkt.tag)
      BY <1>1, <2>1, RTagsOf
    <2> QED  BY <1>1, <2>1, <2>2
  <1>3. <<n, j>> \in Tag /\ <<n, j>>[2] # 0  BY DEF Tag
  <1>4. Tags(p2t)' = Tags(p2t) /\ Tags(c2p)' = Tags(c2p)  BY DEF Tags
  <1>5. Chain(Tags(p2t), Append(B, <<n, j>>), Tags(c2p), sent)
    BY <1>3, ChainOwn DEF OInv, Way
  <1> QED  BY <1>2, <1>4, <1>5 DEF Way

LEMMA ReadTargetOrder ==
  ASSUME OInv, ReadTarget, UNCHANGED sent
  PROVE  Way'
  <1>0. UNCHANGED <<p2t, c2p, sent>>  BY DEF ReadTarget
  <1>1. CASE UNCHANGED reqWrites  BY <1>0, <1>1, WayStill DEF OInv
  <1>2. CASE requests # <<>> /\ Answer(Head(requests), Head(t2p))
    <2>1. PICK t \in Transfer : t = Head(requests)
      BY <1>2, SeqTypes DEF OInv, TypeOK
    <2>2. t.pkt.tag[1] \in Nat /\ t.pkt.tag[2] \in Nat
      BY PacketFields, TransferFields
    <2>3. t.pkt.tag[2] + 1 \in Nat \ {0} /\ 1 \in Nat \ {0} /\ 2 \in Nat \ {0}
      BY <2>2
    <2>4. CASE StopReplied(t.pkt, Head(t2p))
      BY <1>0, <1>1, <2>2, <2>3, <2>4, NextReadOrder DEF StopReplied, Finish, queues
    <2>5. CASE ScanReturned(t.pkt)
      BY <1>0, <1>1, <2>2, <2>3, <2>5, NextReadOrder DEF ScanReturned, Finish
    <2>6. CASE FetchReturned(t.pkt)
      BY <1>0, <1>1, <2>2, <2>3, <2>6, NextReadOrder DEF FetchReturned, Finish
    <2> QED  BY <1>1, <1>2, <2>1, <2>4, <2>5, <2>6 DEF Answer
  <1> QED  BY <1>1, <1>2 DEF ReadTarget, Acknowledge, queues

LEMMA WriteOrder ==
  ASSUME OInv, WriteRequestDone, UNCHANGED sent
  PROVE  Way'
  <1> DEFINE A == Tags(p2t)
             B == RTags(reqWrites)
  <1>1. PICK t \in Transfer : /\ t = Head(reqWrites) /\ reqWrites # <<>>
                              /\ p2t' = Append(p2t, t.pkt)
    BY SeqTypes DEF WriteRequestDone, OInv, TypeOK
  <1>2. B # <<>> /\ RTags(reqWrites)' = Tail(B) /\ Head(B) = t.pkt.tag
    BY <1>1, RTagsOf DEF WriteRequestDone, OInv, TypeOK
  <1>3. Tags(p2t)' = Append(A, t.pkt.tag)
    BY <1>1, TransferFields, TagsOf DEF OInv, TypeOK
  <1>4. Tags(c2p)' = Tags(c2p)  BY DEF WriteRequestDone, Tags
  <1> QED  BY <1>2, <1>3, <1>4, ChainMoved DEF OInv, Way

LEMMA TargetOrder ==
  ASSUME OInv, Target
  PROVE  Way'
  <1>1. UNCHANGED <<reqWrites, c2p, sent>>
    BY DEF Target, TargetAccept, TargetRefuse, TargetSignal, Halt, queues, clientVars
  <1>2. CASE UNCHANGED p2t  BY <1>1, <1>2, WayStill DEF OInv
  <1>3. CASE p2t # <<>> /\ p2t' = Tail(p2t)
    <2>1. Tags(p2t) # <<>> /\ Tags(p2t)' = Tail(Tags(p2t))
      BY <1>3, TagsOf DEF OInv, TypeOK
    <2>2. RTags(reqWrites)' = RTags(reqWrites) /\ Tags(c2p)' = Tags(c2p)
      BY <1>1 DEF RTags, Tags, Pkts
    <2> QED  BY <1>1, <2>1, <2>2, ChainDropped DEF OInv, Way
  <1> QED
    BY <1>2, <1>3 DEF Target, TargetAccept, TargetRefuse, TargetSignal, Halt

(* The client numbers what it sends; what it repeats was its last packet.   *)
LEMMA ClientSends ==
  ASSUME OInv, NEW p, NEW m \in {sent, sent + 1}, p.tag = <<m, 0>>, p \in Packet,
         c2p' = Append(c2p, p), sent' = m, UNCHANGED <<p2t, reqWrites>>
  PROVE  Way'
  <1>1. Tags(c2p)' = Append(Tags(c2p), <<m, 0>>)
    <2>1. c2p \in Seq(Packet)  BY DEF OInv, TypeOK
    <2>2. Tags(Append(c2p, p)) = Append(Tags(c2p), p.tag)  BY <2>1, TagsOf
    <2> QED  BY <2>2
  <1>2. RTags(reqWrites)' = RTags(reqWrites) /\ Tags(p2t)' = Tags(p2t)
    BY DEF RTags, Tags, Pkts
  <1>3. Chain(Tags(p2t), RTags(reqWrites), Append(Tags(c2p), <<m, 0>>), m)
    BY ChainSent DEF OInv, Way
  <1> QED  BY <1>1, <1>2, <1>3 DEF Way

LEMMA ClientOrderStep ==
  ASSUME OInv, Client
  PROVE  Way' /\ Stamped'
  <1>1. /\ sent \in Nat /\ <<sent + 1, 0>> \in Nat \X Nat /\ <<sent, 0>> \in Nat \X Nat
        /\ sent + 1 \in {sent, sent + 1} /\ sent \in {sent, sent + 1}
    BY DEF OInv, TypeOK
  <1>2. /\ waiting \in Seq(Packet) /\ unacked \in Nat
        /\ Len(<<>>) = 0
    BY DEF OInv, TypeOK
  <1>3. ASSUME NEW k \in Kinds, SendCommand(k)
        PROVE  Way' /\ Stamped'
    <2> DEFINE p == Dat(k, <<sent + 1, 0>>)
    <2>1. p \in Packet /\ p.tag = <<sent + 1, 0>>
      BY <1>1, MakePacket, SessionAssumption DEF Dat, Requested
    <2>2. Way'
      BY <1>1, <1>3, <2>1, ClientSends DEF SendCommand, ClientToProxy, queues
    <2>3. CASE cliAck
      <3>1. waiting = <<>> /\ waiting' = Append(<<>>, p) /\ unacked' = sent'
        BY <1>3, <2>3 DEF SendCommand
      <3>2. Len(waiting') = 1
        BY <1>2, <2>1, <3>1, AppendProperties
      <3> QED  BY <2>2, <3>1, <3>2 DEF Stamped
    <2>4. CASE ~cliAck
      BY <1>3, <2>2, <2>4 DEF SendCommand, Stamped
    <2> QED  BY <2>3, <2>4
  <1>4. CASE SendBreak
    <2>1. Brk(<<sent + 1, 0>>) \in Packet /\ Brk(<<sent + 1, 0>>).tag = <<sent + 1, 0>>
      BY <1>1, MakePacket DEF Brk
    <2> QED
      BY <1>1, <1>4, <2>1, ClientSends
         DEF SendBreak, ClientToProxy, queues, Stamped
  <1>5. CASE Retransmit
    <2>1. PICK w \in Packet : w = Head(waiting)
      BY <1>2, <1>5, SeqTypes DEF Retransmit
    <2>2. unacked = sent /\ UNCHANGED <<unacked, sent, waiting>>
      BY <1>5 DEF Retransmit, OInv, Stamped
    <2> DEFINE p == Dat(w.kind, <<sent, 0>>)
    <2>3. p \in Packet /\ p.tag = <<sent, 0>>
      BY <1>1, PacketFields DEF Dat, Packet, Types
    <2>4. Way'
      BY <1>1, <1>5, <2>1, <2>2, <2>3, ClientSends
         DEF Retransmit, ClientToProxy, queues
    <2> QED  BY <2>2, <2>4 DEF OInv, Stamped
  <1>6. CASE ReceiveAck
    <2>1. UNCHANGED <<p2t, reqWrites, c2p, sent, waiting>> /\ unacked' \in {0, unacked}
      BY <1>6 DEF ReceiveAck, queues
    <2> QED  BY <2>1, WayStill DEF OInv, Stamped
  <1>7. CASE ReceiveReply
    <2>1. Ack(<<sent + 1, 0>>) \in Packet /\ Ack(<<sent + 1, 0>>).tag = <<sent + 1, 0>>
      BY <1>1, MakePacket DEF Ack
    <2>2. UNCHANGED <<p2t, reqWrites, unacked>>  BY <1>7 DEF ReceiveReply, queues
    <2>3. Way'
      BY <1>1, <1>7, <2>1, <2>2, ClientSends, WayStill DEF ReceiveReply, OInv
    <2>4. unacked # 0 => waiting' = <<>>
      <3>1. CASE waiting = <<>>  BY <1>7, <3>1 DEF ReceiveReply
      <3>2. CASE waiting # <<>> /\ unacked # 0
        <4>1. Len(waiting) <= 1  BY <3>2 DEF OInv, Stamped
        <4>2. /\ Len(Tail(waiting)) = Len(waiting) - 1 /\ Len(waiting) \in Nat \ {0}
              /\ Tail(waiting) \in Seq(Packet)
          BY <1>2, <3>2, HeadTailProperties, LenProperties, EmptySeq
        <4>3. Tail(waiting) = <<>>  BY <4>1, <4>2, EmptySeq
        <4> QED  BY <1>7, <3>2, <4>3 DEF ReceiveReply
      <3> QED  BY <3>1, <3>2
    <2> QED  BY <2>2, <2>3, <2>4 DEF Stamped
  <1>8. CASE RefuseReply
    <2>1. Nak(<<sent + 1, 0>>) \in Packet /\ Nak(<<sent + 1, 0>>).tag = <<sent + 1, 0>>
      BY <1>1, MakePacket DEF Nak
    <2> QED
      BY <1>1, <1>8, <2>1, ClientSends DEF RefuseReply, queues, Stamped
  <1> QED  BY <1>3, <1>4, <1>5, <1>6, <1>7, <1>8 DEF Client

LEMMA OInvStep == OInv /\ [Next]_vars => OInv'
  <1> SUFFICES ASSUME OInv, [Next]_vars PROVE OInv'  OBVIOUS
  <1>1. TypeOK'  BY TypeStep DEF OInv
  <1>2. CASE Proxy
    <2>1. UNCHANGED <<sent, unacked, waiting>>  BY <1>2 DEF Proxy, clientVars
    <2>2. WriteResponseDone => Way'
      BY <2>1, WayStill DEF WriteResponseDone, OInv
    <2>3. Way'
      BY <1>2, <2>1, <2>2, ReadClientOrder, ReadTargetOrder, WriteOrder
         DEF Proxy, ProxyStep
    <2> QED  BY <1>1, <2>1, <2>3 DEF OInv, Stamped
  <1>3. CASE Client  BY <1>1, <1>3, ClientOrderStep DEF OInv
  <1>4. CASE Target
    <2>1. UNCHANGED <<sent, unacked, waiting>>
      BY <1>4 DEF Target, TargetAccept, TargetRefuse, TargetSignal, Halt, clientVars
    <2> QED  BY <1>1, <1>4, <2>1, TargetOrder DEF OInv, Stamped
  <1>5. CASE UNCHANGED vars
    BY <1>1, <1>5, WayStill DEF vars, proxyVars, queues, streams, clientVars, OInv, Stamped
  <1> QED  BY <1>2, <1>3, <1>4, <1>5 DEF Next

(* Whatever breaks, acknowledges, refusals and repetitions do to the queue, *)
(* the bytes of the client's packets are written in the order sent.         *)
THEOREM ClientOrderKept == Spec => []ClientOrder
  <1>1. OInv => ClientOrder
    <2> SUFFICES ASSUME OInv PROVE ClientOrder  OBVIOUS
    <2> DEFINE W == Pkts(reqWrites)
               wire == p2t \o W
    <2>1. /\ p2t \in Seq(Packet) /\ reqWrites \in Seq(Transfer)
          /\ Len(p2t) \in Nat /\ Len(reqWrites) \in Nat
      BY LenProperties DEF OInv, TypeOK
    <2>2. W \in Seq(Packet) /\ Len(W) = Len(reqWrites)
      BY <2>1, TransferFields DEF Pkts
    <2> HIDE DEF W
    <2>3. /\ Len(wire) = Len(p2t) + Len(W)
          /\ \A i \in 1..Len(p2t) + Len(W) :
               wire[i] = IF i <= Len(p2t) THEN p2t[i] ELSE W[i - Len(p2t)]
      BY <2>1, <2>2, ConcatProperties
    <2>4. /\ Len(Tags(p2t)) = Len(p2t) /\ Len(Tags(W)) = Len(W)
          /\ \A i \in 1..Len(p2t) : Tags(p2t)[i] = p2t[i].tag
          /\ \A i \in 1..Len(W) : Tags(W)[i] = W[i].tag
      BY <2>1, <2>2, TagsOf, LenProperties DEF Tags
    <2>5. Sorted(Tags(p2t)) /\ Sorted(Tags(W)) /\ Before(Tags(p2t), Tags(W))
      BY DEF OInv, Way, Chain, RTags, W
    <2> HIDE DEF wire
    <2>6. ASSUME NEW i \in 1..Len(wire), NEW j \in 1..Len(wire), i < j
          PROVE  InOrder(wire[i].tag, wire[j].tag)
      <3>1. CASE j <= Len(p2t)
        <4>1. /\ i \in 1..Len(p2t) /\ j \in 1..Len(p2t)
              /\ wire[i] = p2t[i] /\ wire[j] = p2t[j]
          BY <2>1, <2>2, <2>3, <2>6, <3>1
        <4> QED  BY <2>4, <2>5, <2>6, <4>1 DEF Sorted
      <3>2. CASE i <= Len(p2t) /\ ~(j <= Len(p2t))
        <4>1. /\ i \in 1..Len(p2t) /\ j - Len(p2t) \in 1..Len(W)
              /\ wire[i] = p2t[i] /\ wire[j] = W[j - Len(p2t)]
          BY <2>1, <2>2, <2>3, <3>2
        <4> QED  BY <2>4, <2>5, <4>1 DEF Before
      <3>3. CASE ~(i <= Len(p2t))
        <4>1. /\ i - Len(p2t) \in 1..Len(W) /\ j - Len(p2t) \in 1..Len(W)
              /\ i - Len(p2t) < j - Len(p2t)
              /\ wire[i] = W[i - Len(p2t)] /\ wire[j] = W[j - Len(p2t)]
          BY <2>1, <2>2, <2>3, <2>6, <3>3
        <4> QED  BY <2>4, <2>5, <4>1 DEF Sorted
      <3> QED  BY <3>1, <3>2, <3>3
    <2> QED  BY <2>6 DEF ClientOrder, InOrder, wire, W
  <1> QED  BY <1>1, OInvInit, OInvStep, PTL DEF Spec

-----------------------------------------------------------------------------
(* How many elements of a sequence are in a set, from place a on.           *)
Places(s, a, T) == {i \in a..Len(s) : s[i] \in T}
Tally(s, a, T)  == Cardinality(Places(s, a, T))

LEMMA TallyBound ==
  ASSUME NEW S, NEW s \in Seq(S), NEW T, NEW a \in 1..Len(s) + 1
  PROVE  /\ IsFiniteSet(Places(s, a, T)) /\ Tally(s, a, T) \in Nat
         /\ Tally(s, a, T) <= Len(s) + 1 - a
         /\ (\E i \in a..Len(s) : s[i] \in T) => Tally(s, a, T) >= 1
  <1>1. Len(s) \in Nat /\ a \in Nat /\ a <= Len(s) + 1  BY LenProperties
  <1>2. IsFiniteSet(a..Len(s)) /\ Cardinality(a..Len(s)) = Len(s) + 1 - a
    <2>1. a \in Int /\ Len(s) \in Int  BY <1>1
    <2>2. /\ IsFiniteSet(a..Len(s))
          /\ Cardinality(a..Len(s)) = IF a > Len(s) THEN 0 ELSE Len(s) - a + 1
      BY <2>1, FS_Interval
    <2> QED  BY <1>1, <2>2
  <1>3. Places(s, a, T) \in SUBSET (a..Len(s))  BY DEF Places
  <1>4. IsFiniteSet(Places(s, a, T)) /\ Tally(s, a, T) <= Len(s) + 1 - a
    BY <1>2, <1>3, FS_Subset DEF Tally
  <1>5. Tally(s, a, T) \in Nat  BY <1>4, FS_CardinalityType DEF Tally
  <1>6. ASSUME NEW i \in a..Len(s), s[i] \in T PROVE Tally(s, a, T) >= 1
    <2>1. Places(s, a, T) # {}  BY <1>6 DEF Places
    <2>2. Tally(s, a, T) # 0  BY <1>4, <2>1, FS_EmptySet DEF Tally
    <2> QED  BY <1>5, <2>2
  <1> QED  BY <1>4, <1>5, <1>6

LEMMA TallyEmpty ==
  ASSUME NEW T
  PROVE  Tally(<<>>, 1, T) = 0
  <1>1. Places(<<>>, 1, T) = {}  BY DEF Places
  <1> QED  BY <1>1, FS_EmptySet DEF Tally

LEMMA TallyAppend ==
  ASSUME NEW S, NEW s \in Seq(S), NEW T, NEW a \in 1..Len(s) + 1, NEW x \in S
  PROVE  Tally(Append(s, x), a, T) = Tally(s, a, T) + IF x \in T THEN 1 ELSE 0
  <1> DEFINE t == Append(s, x)
             n == Len(s) + 1
  <1>1. /\ Len(s) \in Nat /\ Len(t) = n /\ t[n] = x
        /\ \A i \in 1..Len(s) : t[i] = s[i]
    BY AppendProperties, LenProperties
  <1>2. IsFiniteSet(Places(s, a, T)) /\ Tally(s, a, T) \in Nat  BY TallyBound
  <1>3. n \notin Places(s, a, T)  BY <1>1 DEF Places
  <1>4. Places(t, a, T) = Places(s, a, T) \cup IF x \in T THEN {n} ELSE {}
    <2>1. \A i : i \in a..n <=> i \in a..Len(s) \/ i = n  BY <1>1
    <2>2. \A i \in a..Len(s) : t[i] = s[i]  BY <1>1
    <2> HIDE DEF t, n
    <2> QED  BY <1>1, <2>1, <2>2 DEF Places
  <1>5. CASE x \in T
    <2>1. Places(t, a, T) = Places(s, a, T) \cup {n}  BY <1>4, <1>5
    <2>2. Cardinality(Places(s, a, T) \cup {n}) = Cardinality(Places(s, a, T)) + 1
      BY <1>2, <1>3, FS_AddElement
    <2> QED  BY <1>5, <2>1, <2>2 DEF Tally
  <1>6. CASE x \notin T
    <2>1. Places(t, a, T) = Places(s, a, T)  BY <1>4, <1>6
    <2> QED  BY <1>2, <1>6, <2>1 DEF Tally
  <1> QED  BY <1>5, <1>6

LEMMA TallyTail ==
  ASSUME NEW S, NEW s \in Seq(S), NEW T, s # <<>>, NEW a \in 1..Len(s)
  PROVE  Tally(Tail(s), a, T) = Tally(s, a + 1, T)
  <1> DEFINE t == Tail(s)
  <1>1. /\ Len(s) \in Nat \ {0} /\ Len(t) = Len(s) - 1
        /\ \A i \in 1..Len(t) : t[i] = s[i + 1]
        /\ t \in Seq(S)
    BY HeadTailProperties, LenProperties, EmptySeq
  <1>2. a + 1 \in 1..Len(s) + 1 /\ a \in 1..Len(t) + 1  BY <1>1
  <1>3. IsFiniteSet(Places(t, a, T))  BY <1>1, <1>2, TallyBound
  <1> DEFINE f == [i \in Places(t, a, T) |-> i + 1]
  <1>4. f \in Bijection(Places(t, a, T), Places(s, a + 1, T))
    <2>1. \A i \in a..Len(t) : i \in 1..Len(t) /\ i + 1 \in a + 1..Len(s)  BY <1>1
    <2>2. \A k \in a + 1..Len(s) : k - 1 \in a..Len(t) /\ (k - 1) + 1 = k  BY <1>1
    <2> HIDE DEF t
    <2>3. \A i \in Places(t, a, T) : i + 1 \in Places(s, a + 1, T)
      BY <1>1, <2>1 DEF Places
    <2>4. \A k \in Places(s, a + 1, T) : k - 1 \in Places(t, a, T) /\ (k - 1) + 1 = k
      BY <1>1, <2>1, <2>2 DEF Places
    <2>5. \A i, j \in Places(t, a, T) : i + 1 = j + 1 => i = j
      BY <1>2, <2>1 DEF Places
    <2>6. f \in Injection(Places(t, a, T), Places(s, a + 1, T))
      BY <2>3, <2>5 DEF Injection, IsInjective
    <2>7. f \in Surjection(Places(t, a, T), Places(s, a + 1, T))
      BY <2>3, <2>4 DEF Surjection
    <2> QED  BY <2>6, <2>7 DEF Bijection
  <1>5. ExistsBijection(Places(t, a, T), Places(s, a + 1, T))
    BY <1>4 DEF ExistsBijection
  <1> HIDE DEF t, f
  <1>6. Cardinality(Places(s, a + 1, T)) = Cardinality(Places(t, a, T))
    BY <1>3, <1>5, FS_Bijection
  <1> QED  BY <1>6 DEF Tally, t

LEMMA TallyHead ==
  ASSUME NEW S, NEW s \in Seq(S), NEW T, s # <<>>
  PROVE  Tally(s, 1, T) = Tally(Tail(s), 1, T) + IF Head(s) \in T THEN 1 ELSE 0
  <1>1. Len(s) \in Nat \ {0} /\ Head(s) = s[1]  BY LenProperties, EmptySeq
  <1>2. 1 \in 1..Len(s) /\ 2 \in 1..Len(s) + 1  BY <1>1
  <1>3. Tally(Tail(s), 1, T) = Tally(s, 2, T)
    <2>1. 1 + 1 = 2  OBVIOUS
    <2> QED  BY <1>2, <2>1, TallyTail
  <1>4. IsFiniteSet(Places(s, 2, T)) /\ Tally(s, 2, T) \in Nat
    BY <1>2, TallyBound
  <1>5. Places(s, 1, T) = Places(s, 2, T) \cup IF s[1] \in T THEN {1} ELSE {}
    <2>1. \A i : i \in 1..Len(s) <=> i \in 2..Len(s) \/ i = 1  BY <1>1
    <2> QED  BY <2>1 DEF Places
  <1>6. 1 \notin Places(s, 2, T)  BY DEF Places
  <1>7. CASE s[1] \in T
    <2>1. Places(s, 1, T) = Places(s, 2, T) \cup {1}  BY <1>5, <1>7
    <2>2. Cardinality(Places(s, 2, T) \cup {1}) = Cardinality(Places(s, 2, T)) + 1
      BY <1>4, <1>6, FS_AddElement
    <2> QED  BY <1>1, <1>3, <1>7, <2>1, <2>2 DEF Tally
  <1>8. CASE s[1] \notin T
    <2>1. Places(s, 1, T) = Places(s, 2, T)  BY <1>5, <1>8
    <2> QED  BY <1>1, <1>3, <1>4, <1>8, <2>1 DEF Tally
  <1> QED  BY <1>7, <1>8

-----------------------------------------------------------------------------
(* The queue q, the writes w that are under way, and the number n of        *)
(* packets the target still answers or refuses.  There is a transfer for    *)
(* each of them; and the writes other than breaks are, in their order, the  *)
(* last transfers of the queue.                                             *)
Forward == {t \in Transfer : t.pkt.type # "brk"}

Lined(q, w) ==
  \A i \in 1..Len(w) :
    w[i] \in Forward => q[Len(q) - Tally(w, i + 1, Forward)] = w[i]

Stocked(q, w, n) ==
  /\ q \in Seq(Transfer) /\ w \in Seq(Transfer) /\ n \in Nat
  /\ n + Len(w) <= Len(q)
  /\ Lined(q, w)

LEMMA StockedPlace ==
  ASSUME NEW q, NEW w, NEW n, Stocked(q, w, n), NEW i \in 1..Len(w)
  PROVE  /\ Tally(w, i + 1, Forward) \in Nat
         /\ Len(q) - Tally(w, i + 1, Forward) \in (n + i)..Len(q)
         /\ Len(q) \in Nat /\ Len(w) \in Nat /\ n \in Nat
  <1>1. Len(q) \in Nat /\ Len(w) \in Nat /\ n \in Nat
    BY LenProperties DEF Stocked
  <1>2. i + 1 \in 1..Len(w) + 1  BY <1>1
  <1>3. w \in Seq(Transfer) /\ n + Len(w) <= Len(q)  BY DEF Stocked
  <1> DEFINE k == Tally(w, i + 1, Forward)
  <1>4. k \in Nat /\ k <= Len(w) + 1 - (i + 1)
    BY <1>2, <1>3, TallyBound
  <1> HIDE DEF k
  <1>5. Len(q) - k \in (n + i)..Len(q)  BY <1>1, <1>3, <1>4
  <1> QED  BY <1>1, <1>4, <1>5 DEF k

(* A write that is not a break keeps its transfer.                          *)
LEMMA StockedQueued ==
  ASSUME NEW q, NEW w, NEW n, Stocked(q, w, n), NEW i \in 1..Len(w), w[i] \in Forward
  PROVE  \E k \in 1..Len(q) : q[k] = w[i]
  <1> DEFINE k == Len(q) - Tally(w, i + 1, Forward)
  <1>1. k \in (n + i)..Len(q) /\ n \in Nat /\ Len(q) \in Nat /\ Len(w) \in Nat
    BY StockedPlace
  <1>2. q[k] = w[i]  BY DEF Stocked, Lined
  <1> HIDE DEF k
  <1>3. k \in 1..Len(q)  BY <1>1
  <1> QED  BY <1>2, <1>3

LEMMA StockedStarted ==
  ASSUME NEW q, NEW w, NEW n, Stocked(q, w, n), NEW t \in Forward
  PROVE  Stocked(Append(q, t), Append(w, t), n)
  <1> DEFINE x == Append(q, t)
             y == Append(w, t)
  <1>1. t \in Transfer /\ q \in Seq(Transfer) /\ w \in Seq(Transfer)
    BY DEF Stocked, Forward
  <1>2. /\ x \in Seq(Transfer) /\ Len(x) = Len(q) + 1 /\ x[Len(q) + 1] = t
        /\ \A k \in 1..Len(q) : x[k] = q[k]
        /\ y \in Seq(Transfer) /\ Len(y) = Len(w) + 1 /\ y[Len(w) + 1] = t
        /\ \A k \in 1..Len(w) : y[k] = w[k]
        /\ Len(q) \in Nat /\ Len(w) \in Nat
    BY <1>1, AppendProperties, LenProperties
  <1>3. ASSUME NEW i \in 1..Len(w), y[i] \in Forward
        PROVE  x[Len(x) - Tally(y, i + 1, Forward)] = y[i]
    <2> DEFINE k == Tally(w, i + 1, Forward)
    <2>1. k \in Nat /\ Len(q) - k \in (n + i)..Len(q) /\ n \in Nat
      BY StockedPlace
    <2>2. i + 1 \in 1..Len(w) + 1  BY <1>2
    <2>3. Tally(y, i + 1, Forward) = k + 1  BY <1>1, <2>2, TallyAppend
    <2>4. y[i] = w[i] /\ q[Len(q) - k] = w[i]
      BY <1>2, <1>3 DEF Stocked, Lined
    <2> HIDE DEF k, x, y
    <2>5. Len(q) - k \in 1..Len(q) /\ Len(x) - (k + 1) = Len(q) - k
      BY <1>2, <2>1
    <2> QED  BY <1>2, <2>3, <2>4, <2>5
  <1>4. x[Len(x) - Tally(y, Len(w) + 1 + 1, Forward)] = y[Len(w) + 1]
    <2>1. Len(w) + 1 + 1 \in 1..Len(y) + 1  BY <1>2
    <2>2. /\ Tally(y, Len(w) + 1 + 1, Forward) \in Nat
          /\ Tally(y, Len(w) + 1 + 1, Forward) <= Len(y) + 1 - (Len(w) + 1 + 1)
      BY <1>2, <2>1, TallyBound
    <2> HIDE DEF x, y
    <2>3. Tally(y, Len(w) + 1 + 1, Forward) = 0  BY <1>2, <2>2
    <2>4. Len(x) - 0 = Len(q) + 1  BY <1>2
    <2> QED  BY <1>2, <2>3, <2>4
  <1>5. n \in Nat /\ n + Len(w) <= Len(q)  BY DEF Stocked
  <1> HIDE DEF x, y
  <1>6. \A i \in 1..Len(y) : i \in 1..Len(w) \/ i = Len(w) + 1  BY <1>2
  <1>7. Lined(x, y)  BY <1>3, <1>4, <1>6 DEF Lined
  <1>8. n + Len(y) <= Len(x)  BY <1>2, <1>5
  <1>9. Stocked(x, y, n)  BY <1>2, <1>5, <1>7, <1>8 DEF Stocked
  <1> QED  BY <1>9 DEF x, y

LEMMA StockedBreak ==
  ASSUME NEW q, NEW w, NEW n, Stocked(q, w, n), NEW t \in Transfer, t \notin Forward
  PROVE  Stocked(<<t>> \o q, Append(w, t), n)
  <1> DEFINE x == <<t>> \o q
             y == Append(w, t)
  <1>1. q \in Seq(Transfer) /\ w \in Seq(Transfer) /\ <<t>> \in Seq(Transfer)
        /\ Len(<<t>>) = 1
    BY DEF Stocked
  <1>2. /\ x \in Seq(Transfer) /\ Len(x) = Len(q) + 1
        /\ Len(q) \in Nat /\ Len(w) \in Nat
    BY <1>1, ConcatProperties, LenProperties
  <1>3. \A k \in 1..Len(q) : x[k + 1] = q[k]
    <2> SUFFICES ASSUME NEW k \in 1..Len(q) PROVE x[k + 1] = q[k]  OBVIOUS
    <2>1. k + 1 \in 1..1 + Len(q) /\ ~(k + 1 <= 1) /\ k + 1 - 1 = k  BY <1>2
    <2> QED  BY <1>1, <2>1, ConcatProperties
  <1>4. /\ y \in Seq(Transfer) /\ Len(y) = Len(w) + 1 /\ y[Len(w) + 1] = t
        /\ \A k \in 1..Len(w) : y[k] = w[k]
    BY <1>1, AppendProperties
  <1>5. ASSUME NEW i \in 1..Len(w), y[i] \in Forward
        PROVE  x[Len(x) - Tally(y, i + 1, Forward)] = y[i]
    <2> DEFINE k == Tally(w, i + 1, Forward)
    <2>1. k \in Nat /\ Len(q) - k \in (n + i)..Len(q) /\ n \in Nat
      BY StockedPlace
    <2>2. i + 1 \in 1..Len(w) + 1  BY <1>2
    <2>3. Tally(y, i + 1, Forward) = k
      <3>1. Tally(y, i + 1, Forward) = k + 0  BY <1>1, <2>2, TallyAppend
      <3> QED  BY <2>1, <3>1
    <2>4. y[i] = w[i] /\ q[Len(q) - k] = w[i]
      BY <1>4, <1>5 DEF Stocked, Lined
    <2> HIDE DEF k, x, y
    <2>5. Len(q) - k \in 1..Len(q) /\ Len(x) - k = (Len(q) - k) + 1
      BY <1>2, <2>1
    <2> QED  BY <1>3, <2>3, <2>4, <2>5
  <1>6. n \in Nat /\ n + Len(w) <= Len(q)  BY DEF Stocked
  <1> HIDE DEF x, y
  <1>7. \A i \in 1..Len(y) : i \in 1..Len(w) \/ (i = Len(w) + 1 /\ y[i] \notin Forward)
    BY <1>2, <1>4
  <1>8. Lined(x, y)  BY <1>5, <1>7 DEF Lined
  <1>9. n + Len(y) <= Len(x)  BY <1>2, <1>4, <1>6
  <1>10. Stocked(x, y, n)  BY <1>2, <1>4, <1>6, <1>8, <1>9 DEF Stocked
  <1> QED  BY <1>10 DEF x, y

LEMMA StockedPopped ==
  ASSUME NEW q, NEW w, NEW n, Stocked(q, w, n), n >= 1
  PROVE  q # <<>> /\ Stocked(Tail(q), w, n - 1)
  <1>1. /\ q \in Seq(Transfer) /\ w \in Seq(Transfer) /\ n \in Nat
        /\ n + Len(w) <= Len(q) /\ Len(q) \in Nat /\ Len(w) \in Nat
    BY LenProperties DEF Stocked
  <1>2. q # <<>>  BY <1>1, EmptySeq
  <1> DEFINE x == Tail(q)
  <1>3. /\ x \in Seq(Transfer) /\ Len(x) = Len(q) - 1
        /\ \A k \in 1..Len(x) : x[k] = q[k + 1]
    BY <1>1, <1>2, HeadTailProperties
  <1> HIDE DEF x
  <1>4. ASSUME NEW i \in 1..Len(w), w[i] \in Forward
        PROVE  x[Len(x) - Tally(w, i + 1, Forward)] = w[i]
    <2> DEFINE k == Tally(w, i + 1, Forward)
    <2>1. k \in Nat /\ Len(q) - k \in (n + i)..Len(q)  BY StockedPlace
    <2>2. q[Len(q) - k] = w[i]  BY <1>4 DEF Stocked, Lined
    <2> HIDE DEF k
    <2>3. Len(x) - k \in 1..Len(x) /\ (Len(x) - k) + 1 = Len(q) - k
      BY <1>1, <1>3, <2>1
    <2>4. x[Len(x) - k] = w[i]  BY <1>3, <2>2, <2>3
    <2> QED  BY <2>4 DEF k
  <1>5. Lined(x, w)  BY <1>4 DEF Lined
  <1>6. n - 1 \in Nat /\ n - 1 + Len(w) <= Len(x)  BY <1>1, <1>3
  <1>7. Stocked(x, w, n - 1)  BY <1>1, <1>3, <1>5, <1>6 DEF Stocked
  <1> QED  BY <1>2, <1>7 DEF x

LEMMA StockedWritten ==
  ASSUME NEW q, NEW w, NEW n, Stocked(q, w, n), w # <<>>
  PROVE  Stocked(q, Tail(w), n + 1)
  <1>1. /\ q \in Seq(Transfer) /\ w \in Seq(Transfer) /\ n \in Nat
        /\ n + Len(w) <= Len(q) /\ Len(q) \in Nat /\ Len(w) \in Nat \ {0}
    BY LenProperties, EmptySeq DEF Stocked
  <1> DEFINE y == Tail(w)
  <1>2. /\ y \in Seq(Transfer) /\ Len(y) = Len(w) - 1
        /\ \A k \in 1..Len(y) : y[k] = w[k + 1]
    BY <1>1, HeadTailProperties
  <1>3. ASSUME NEW i \in 1..Len(y), y[i] \in Forward
        PROVE  q[Len(q) - Tally(y, i + 1, Forward)] = y[i]
    <2>1. /\ i + 1 \in 1..Len(w) /\ y[i] = w[i + 1]
      BY <1>1, <1>2
    <2>2. Tally(y, i + 1, Forward) = Tally(w, i + 1 + 1, Forward)
      BY <1>1, <2>1, TallyTail
    <2>3. q[Len(q) - Tally(w, i + 1 + 1, Forward)] = w[i + 1]
      BY <1>3, <2>1 DEF Stocked, Lined
    <2> QED  BY <2>1, <2>2, <2>3
  <1> HIDE DEF y
  <1>4. Lined(q, y)  BY <1>3 DEF Lined
  <1>5. n + 1 \in Nat /\ n + 1 + Len(y) <= Len(q)  BY <1>1, <1>2
  <1>6. Stocked(q, y, n + 1)  BY <1>1, <1>2, <1>4, <1>5 DEF Stocked
  <1> QED  BY <1>6 DEF y

LEMMA StockedLess ==
  ASSUME NEW q, NEW w, NEW n, Stocked(q, w, n), NEW m \in Nat, m <= n
  PROVE  Stocked(q, w, m)
  <1>1. Len(q) \in Nat /\ Len(w) \in Nat  BY LenProperties DEF Stocked
  <1>2. n \in Nat /\ n + Len(w) <= Len(q)  BY DEF Stocked
  <1>3. m + Len(w) <= Len(q)  BY <1>1, <1>2
  <1> QED  BY <1>3 DEF Stocked

-----------------------------------------------------------------------------
(* What the target owes: it has a request to read, runs for one, or its     *)
(* answer or refusal is on its way.                                         *)
Asking == {p \in Packet : p.type = "dat"}
Ending == {p \in Packet : p.type \in {"dat", "nak"}}

Owed(p, r, t) == Tally(p, 1, Asking) + Len(r) + Tally(t, 1, Ending)

(* What arrives ends with an answer or a refusal, or with the '+' for the   *)
(* command the target runs for.                                             *)
Ends(r, t) == t # <<>> /\ t[Len(t)] \notin Ending => r # <<>>

(* The client refuses nothing.                                              *)
Taken      == {p \in Packet : p.type # "nak"}
NoRefusals ==
  /\ c2p \in Seq(Taken) /\ p2t \in Seq(Taken)
  /\ reqWrites \in Seq({t \in Transfer : t.pkt \in Taken})

Solid ==
  naks = 0 =>
    /\ status # "undefined" /\ NoRefusals /\ Ends(running, t2p)
    /\ status = "ok" => Stocked(requests, reqWrites, Owed(p2t, running, t2p))

LEMMA OwedTypes ==
  ASSUME NEW p \in Seq(Packet), NEW r \in Seq(Packet), NEW t \in Seq(Packet)
  PROVE  /\ Tally(p, 1, Asking) \in Nat /\ Len(r) \in Nat /\ Tally(t, 1, Ending) \in Nat
         /\ Owed(p, r, t) \in Nat
  <1>1. Len(p) \in Nat /\ Len(r) \in Nat /\ Len(t) \in Nat  BY LenProperties
  <1>2. 1 \in 1..Len(p) + 1 /\ 1 \in 1..Len(t) + 1  BY <1>1
  <1>3. Tally(p, 1, Asking) \in Nat  BY <1>2, TallyBound
  <1>4. Tally(t, 1, Ending) \in Nat  BY <1>2, TallyBound
  <1> QED  BY <1>1, <1>3, <1>4 DEF Owed

(* A packet appended, a packet taken.                                       *)
LEMMA AskingTally ==
  ASSUME NEW p \in Seq(Packet)
  PROVE  /\ Tally(p, 1, Asking) \in Nat
         /\ \A x \in Packet : Tally(Append(p, x), 1, Asking) =
              Tally(p, 1, Asking) + IF x.type = "dat" THEN 1 ELSE 0
         /\ p # <<>> => Tally(p, 1, Asking) =
              Tally(Tail(p), 1, Asking) + IF Head(p).type = "dat" THEN 1 ELSE 0
  <1>1. Tally(p, 1, Asking) \in Nat  BY OwedTypes
  <1>2. 1 \in 1..Len(p) + 1
    <2>1. Len(p) \in Nat  BY LenProperties
    <2> QED  BY <2>1
  <1>3. ASSUME NEW x \in Packet
        PROVE  Tally(Append(p, x), 1, Asking) =
                 Tally(p, 1, Asking) + IF x.type = "dat" THEN 1 ELSE 0
    <2>1. x \in Asking <=> x.type = "dat"  BY DEF Asking
    <2> QED  BY <1>2, <2>1, TallyAppend
  <1>4. ASSUME p # <<>>
        PROVE  Tally(p, 1, Asking) =
                 Tally(Tail(p), 1, Asking) + IF Head(p).type = "dat" THEN 1 ELSE 0
    <2>1. Head(p) \in Packet  BY <1>4, SeqTypes
    <2>2. Head(p) \in Asking <=> Head(p).type = "dat"  BY <2>1 DEF Asking
    <2> QED  BY <1>4, <2>2, TallyHead
  <1> QED  BY <1>1, <1>3, <1>4

LEMMA EndingTally ==
  ASSUME NEW t \in Seq(Packet)
  PROVE  /\ Tally(t, 1, Ending) \in Nat
         /\ \A x \in Packet : Tally(Append(t, x), 1, Ending) =
              Tally(t, 1, Ending) + IF x \in Ending THEN 1 ELSE 0
         /\ t # <<>> => Tally(t, 1, Ending) =
              Tally(Tail(t), 1, Ending) + IF Head(t) \in Ending THEN 1 ELSE 0
  <1>1. Tally(t, 1, Ending) \in Nat  BY OwedTypes
  <1>2. 1 \in 1..Len(t) + 1
    <2>1. Len(t) \in Nat  BY LenProperties
    <2> QED  BY <2>1
  <1> QED  BY <1>1, <1>2, TallyAppend, TallyHead

LEMMA EndsAppend ==
  ASSUME NEW t \in Seq(Packet), NEW x \in Packet, NEW r
  PROVE  x \in Ending \/ r # <<>> => Ends(r, Append(t, x))
  <1>1. Len(Append(t, x)) = Len(t) + 1 /\ Append(t, x)[Len(t) + 1] = x
    BY AppendProperties
  <1> QED  BY <1>1 DEF Ends

LEMMA EndsTail ==
  ASSUME NEW t \in Seq(Packet), t # <<>>, NEW r, Ends(r, t)
  PROVE  Ends(r, Tail(t))
  <1>1. /\ Len(t) \in Nat \ {0} /\ Len(Tail(t)) = Len(t) - 1 /\ Tail(t) \in Seq(Packet)
        /\ \A i \in 1..Len(Tail(t)) : Tail(t)[i] = t[i + 1]
    BY HeadTailProperties, EmptySeq
  <1>2. ASSUME Tail(t) # <<>> PROVE Tail(t)[Len(Tail(t))] = t[Len(t)]
    <2>1. Len(Tail(t)) \in Nat \ {0}  BY <1>1, <1>2, EmptySeq
    <2>2. Len(Tail(t)) \in 1..Len(Tail(t)) /\ Len(Tail(t)) + 1 = Len(t)
      BY <1>1, <2>1
    <2> QED  BY <1>1, <2>2
  <1> QED  BY <1>2 DEF Ends

(* What arrives from the target is owed.                                    *)
LEMMA ArrivalOwed ==
  ASSUME NEW p \in Seq(Packet), NEW r \in Seq(Packet), NEW t \in Seq(Packet),
         t # <<>>, Ends(r, t)
  PROVE  Owed(p, r, t) >= 1
  <1>1. /\ Tally(p, 1, Asking) \in Nat /\ Len(r) \in Nat
        /\ Tally(t, 1, Ending) \in Nat
    BY OwedTypes
  <1>2. CASE r # <<>>
    <2>1. Len(r) >= 1
      <3>1. Len(r) \in Nat \ {0}  BY <1>2, EmptySeq
      <3> QED  BY <3>1
    <2> QED  BY <1>1, <2>1 DEF Owed
  <1>3. CASE t[Len(t)] \in Ending
    <2>1. Len(t) \in Nat \ {0}  BY EmptySeq
    <2>2. 1 \in 1..Len(t) + 1 /\ Len(t) \in 1..Len(t)  BY <2>1
    <2>3. Tally(t, 1, Ending) >= 1  BY <1>3, <2>2, TallyBound
    <2> QED  BY <1>1, <2>3 DEF Owed
  <1> QED  BY <1>2, <1>3 DEF Ends

-----------------------------------------------------------------------------
(* The handlers of the proxy.                                               *)
LEMMA StartStocked ==
  ASSUME NEW t \in Transfer, StartWrite(t), NEW n, Stocked(requests, reqWrites, n)
  PROVE  Stocked(requests', reqWrites', n)
  <1>1. CASE t.pkt.type = "brk"
    <2>1. t \notin Forward  BY <1>1 DEF Forward
    <2>2. requests' = <<t>> \o requests /\ reqWrites' = Append(reqWrites, t)
      BY <1>1 DEF StartWrite, Enqueued
    <2> QED  BY <2>1, <2>2, StockedBreak
  <1>2. CASE t.pkt.type # "brk"
    <2>1. t \in Forward  BY <1>2 DEF Forward
    <2>2. requests' = Append(requests, t) /\ reqWrites' = Append(reqWrites, t)
      BY <1>2 DEF StartWrite, Enqueued
    <2> QED  BY <2>1, <2>2, StockedStarted
  <1> QED  BY <1>1, <1>2

LEMMA ReadClientSolid ==
  ASSUME TypeOK, Solid, ReadClient, UNCHANGED <<clientVars, targetVars>>
  PROVE  Solid'
  <1> SUFFICES ASSUME naks = 0
               PROVE  /\ status' # "undefined" /\ NoRefusals' /\ Ends(running, t2p)'
                      /\ Stocked(requests, reqWrites, Owed(p2t, running, t2p))'
    BY DEF Solid, clientVars
  <1>1. /\ UNCHANGED <<status, p2t, t2p, running>> /\ status = "ok"
        /\ c2p # <<>> /\ c2p' = Tail(c2p) /\ Route(Head(c2p))
    BY DEF ReadClient, targetVars
  <1>2. /\ c2p \in Seq(Taken) /\ p2t \in Seq(Taken)
        /\ reqWrites \in Seq({t \in Transfer : t.pkt \in Taken})
        /\ Ends(running, t2p) /\ Stocked(requests, reqWrites, Owed(p2t, running, t2p))
    BY <1>1 DEF Solid, NoRefusals
  <1>3. PICK x : x = Head(c2p) /\ x \in Taken /\ x \in Packet /\ c2p' \in Seq(Taken)
    BY <1>1, <1>2, SeqTypes DEF Taken
  <1>4. Ends(running, t2p)' /\ Owed(p2t, running, t2p)' = Owed(p2t, running, t2p)
    BY <1>1, <1>2
  <1>5. ASSUME NEW t \in Transfer, t.pkt \in Taken, StartWrite(t)
        PROVE  /\ reqWrites' \in Seq({u \in Transfer : u.pkt \in Taken})
               /\ Stocked(requests', reqWrites', Owed(p2t, running, t2p))
    <2>1. reqWrites' \in Seq({u \in Transfer : u.pkt \in Taken})
      BY <1>2, <1>5, SeqTypes DEF StartWrite
    <2> QED  BY <1>2, <1>5, <2>1, StartStocked
  <1>6. /\ Ext(x) \in Transfer /\ Internal(x) \in Transfer
        /\ Ext(x).pkt = x /\ Internal(x).pkt = x
    BY <1>3, MakeTransfer DEF Ext, Internal
  <1>7. /\ MemRead("fetch", x.tag[1], 1) \in Transfer
        /\ MemRead("fetch", x.tag[1], 1).pkt \in Taken
    <2>1. x.tag[1] \in Nat  BY <1>3, PacketFields
    <2>2. PICK m : m = MemRead("fetch", x.tag[1], 1) /\ m \in Transfer
      BY <2>1, MakeMemRead
    <2>3. m.pkt \in Packet  BY <2>2, TransferFields
    <2>4. m.pkt.type = "dat"  BY <2>2 DEF MemRead, Internal, Dat
    <2> QED  BY <2>2, <2>3, <2>4 DEF Taken
  <1>8. CASE \E t \in Transfer : t.pkt \in Taken /\ StartWrite(t)
    BY <1>1, <1>2, <1>3, <1>4, <1>5, <1>8 DEF NoRefusals
  <1>9. CASE Respond(Dat("data", x.tag))
    BY <1>1, <1>2, <1>3, <1>4, <1>9 DEF NoRefusals, Respond
  <1> QED  BY <1>1, <1>3, <1>6, <1>7, <1>8, <1>9 DEF Route

LEMMA WrittenSolid ==
  ASSUME TypeOK, Solid, WriteRequestDone, UNCHANGED <<clientVars, targetVars>>
  PROVE  Solid'
  <1> SUFFICES ASSUME naks = 0
               PROVE  /\ status' # "undefined" /\ NoRefusals' /\ Ends(running, t2p)'
                      /\ Stocked(requests, reqWrites, Owed(p2t, running, t2p))'
    BY DEF Solid, clientVars
  <1> DEFINE n == Owed(p2t, running, t2p)
  <1>1. /\ UNCHANGED <<c2p, t2p, running>> /\ status = "ok"
        /\ reqWrites # <<>> /\ reqWrites' = Tail(reqWrites)
        /\ p2t' = Append(p2t, Head(reqWrites).pkt) /\ Completed(Head(reqWrites))
    BY DEF WriteRequestDone, targetVars
  <1>2. /\ c2p \in Seq(Taken) /\ p2t \in Seq(Taken)
        /\ reqWrites \in Seq({t \in Transfer : t.pkt \in Taken})
        /\ Ends(running, t2p) /\ Stocked(requests, reqWrites, n)
    BY <1>1 DEF Solid, NoRefusals
  <1>3. PICK t \in Transfer : /\ t = Head(reqWrites) /\ t.pkt \in Taken
                              /\ reqWrites' \in Seq({u \in Transfer : u.pkt \in Taken})
    BY <1>1, <1>2, SeqTypes
  <1>4. NoRefusals'
    <2>1. p2t' \in Seq(Taken)  BY <1>1, <1>2, <1>3, SeqTypes
    <2> QED  BY <1>1, <1>2, <1>3, <2>1 DEF NoRefusals
  <1>5. Ends(running, t2p)'  BY <1>1, <1>2
  <1>6. n \in Nat /\ n' = n + IF t.pkt.type = "dat" THEN 1 ELSE 0
    <2>1. /\ p2t \in Seq(Packet) /\ running \in Seq(Packet) /\ t2p \in Seq(Packet)
          /\ t.pkt \in Packet
      BY <1>3 DEF TypeOK, Taken
    <2>2. Tally(p2t', 1, Asking) =
            Tally(p2t, 1, Asking) + IF t.pkt.type = "dat" THEN 1 ELSE 0
      BY <1>1, <1>3, <2>1, AskingTally
    <2>3. Tally(p2t, 1, Asking) \in Nat /\ Len(running) \in Nat
          /\ Tally(t2p, 1, Ending) \in Nat /\ n \in Nat
      BY <2>1, OwedTypes
    <2>4. /\ n = Tally(p2t, 1, Asking) + Len(running) + Tally(t2p, 1, Ending)
          /\ n' = Tally(p2t', 1, Asking) + Len(running) + Tally(t2p, 1, Ending)
      BY <1>1 DEF Owed
    <2> HIDE DEF n
    <2>5. CASE t.pkt.type = "dat"  BY <2>2, <2>3, <2>4, <2>5
    <2>6. CASE t.pkt.type # "dat"  BY <2>2, <2>3, <2>4, <2>6
    <2> QED  BY <2>3, <2>5, <2>6
  <1>7. Stocked(requests, reqWrites', n + 1)  BY <1>1, <1>2, StockedWritten
  <1> HIDE DEF n
  <1>8. requests # <<>> /\ Stocked(Tail(requests), reqWrites', n)
    <2>1. n + 1 \in Nat /\ n + 1 >= 1 /\ (n + 1) - 1 = n  BY <1>6
    <2> QED  BY <1>7, <2>1, StockedPopped
  <1>9. Stocked(requests, reqWrites', n)
    <2>1. n <= n + 1  BY <1>6
    <2> QED  BY <1>6, <1>7, <2>1, StockedLess
  <1>10. CASE t.pkt.type = "dat"
    <2>1. t \in Forward  BY <1>10 DEF Forward
    <2>2. 1 \in 1..Len(reqWrites) /\ reqWrites[1] = t
      <3>1. Len(reqWrites) \in Nat \ {0}  BY <1>1, <1>2, EmptySeq
      <3> QED  BY <1>3, <3>1
    <2>3. Queued(t)  BY <1>2, <2>1, <2>2, StockedQueued DEF Queued
    <2>4. UNCHANGED <<requests, status>>  BY <1>1, <1>3, <1>10, <2>3 DEF Completed
    <2>5. n' = n + 1  BY <1>6, <1>10
    <2> QED  BY <1>1, <1>4, <1>5, <1>7, <2>4, <2>5 DEF n
  <1>11. CASE t.pkt.type # "dat"
    <2>1. n' = n  BY <1>6, <1>11
    <2>2. status' = status /\ requests' \in {requests, Tail(requests)}
      BY <1>1, <1>3, <1>8 DEF Completed
    <2> QED  BY <1>1, <1>4, <1>5, <1>8, <1>9, <2>1, <2>2 DEF n
  <1> QED  BY <1>10, <1>11

(* What a packet of the target does to the queue it finds.                  *)
LEMMA ReadTargetMoves ==
  ASSUME TypeOK, ReadTarget, requests # <<>>
  PROVE  \/ status' = "aborted" /\ UNCHANGED <<requests, reqWrites>>
         \/ /\ Head(t2p).type # "dat" /\ UNCHANGED <<requests, reqWrites, status>>
         \/ /\ Head(t2p).type = "dat" /\ UNCHANGED status
            /\ \/ requests' = Tail(requests) /\ UNCHANGED reqWrites
               \/ \E m \in Forward :
                    /\ m.pkt \in Taken
                    /\ requests' = Tail(Append(requests, m))
                    /\ reqWrites' = Append(reqWrites, m)
  <1> DEFINE f == Head(requests)
             y == Head(t2p)
             Popped == requests' = Tail(requests) /\ UNCHANGED reqWrites
             Read   == \E m \in Forward :
                         /\ m.pkt \in Taken
                         /\ requests' = Tail(Append(requests, m))
                         /\ reqWrites' = Append(reqWrites, m)
  <1>1. f \in Transfer /\ f.pkt.tag[1] \in Nat /\ f.pkt.tag[2] \in Nat
    <2>1. f \in Transfer  BY SeqTypes DEF TypeOK
    <2> QED  BY <2>1, TransferFields, PacketFields
  <1>2. ASSUME NEW k \in {"scan", "fetch"}, NEW n \in Nat, NEW j \in Nat,
               NextRead(k, n, j)
        PROVE  Read
    <2>1. PICK m : m = MemRead(k, n, j) /\ m \in Transfer  BY MakeMemRead
    <2>2. m.pkt \in Packet  BY <2>1, TransferFields
    <2>3. m.pkt.type = "dat"  BY <2>1 DEF MemRead, Internal, Dat
    <2>4. m \in Forward /\ m.pkt \in Taken  BY <2>1, <2>2, <2>3 DEF Forward, Taken
    <2> QED  BY <1>2, <2>1, <2>4 DEF NextRead
  <1>3. ASSUME NEW p, Finish(p) PROVE Popped  BY <1>3 DEF Finish
  <1>4. CASE y.type = "dat" /\ Answer(f, y)
    <2>1. CASE StopReplied(f.pkt, y)
      <3>1. CASE y.kind # "T"
        BY <2>1, <3>1 DEF StopReplied, queues
      <3>2. CASE y.kind = "T"
        <4>1. UNCHANGED status /\ (Popped \/ Read)
          BY <1>1, <1>2, <1>3, <2>1, <3>2 DEF StopReplied
        <4> QED  BY <1>4, <4>1
      <3> QED  BY <3>1, <3>2
    <2>2. CASE ScanReturned(f.pkt) /\ UNCHANGED status
      <3>1. f.pkt.tag[2] + 1 \in Nat  BY <1>1
      <3>2. Popped \/ Read  BY <1>1, <1>2, <1>3, <2>2, <3>1 DEF ScanReturned
      <3> QED  BY <1>4, <2>2, <3>2
    <2>3. CASE FetchReturned(f.pkt) /\ UNCHANGED status
      <3>1. Popped \/ Read  BY <1>1, <1>2, <1>3, <2>3 DEF FetchReturned
      <3> QED  BY <1>4, <2>3, <3>1
    <2>4. CASE requests' = Tail(requests) /\ UNCHANGED <<reqWrites, status>>
      BY <1>4, <2>4
    <2> QED  BY <1>4, <2>1, <2>2, <2>3, <2>4 DEF Answer
  <1>5. CASE y.type # "dat" /\ Acknowledge(f, y)
    BY <1>5 DEF Acknowledge
  <1> QED  BY <1>4, <1>5 DEF ReadTarget

LEMMA ReadTargetSolid ==
  ASSUME TypeOK, Solid, ReadTarget, UNCHANGED <<clientVars, targetVars>>
  PROVE  Solid'
  <1> SUFFICES ASSUME naks = 0
               PROVE  /\ status' # "undefined" /\ NoRefusals' /\ Ends(running, t2p)'
                      /\ status' = "ok" =>
                           Stocked(requests, reqWrites, Owed(p2t, running, t2p))'
    BY DEF Solid, clientVars
  <1> DEFINE n == Owed(p2t, running, t2p)
  <1>1. /\ UNCHANGED <<c2p, p2t, running>> /\ status = "ok"
        /\ t2p # <<>> /\ t2p' = Tail(t2p)
    BY DEF ReadTarget, targetVars
  <1>2. /\ c2p \in Seq(Taken) /\ p2t \in Seq(Taken)
        /\ reqWrites \in Seq({t \in Transfer : t.pkt \in Taken})
        /\ Ends(running, t2p) /\ Stocked(requests, reqWrites, n)
    BY <1>1 DEF Solid, NoRefusals
  <1>3. /\ p2t \in Seq(Packet) /\ running \in Seq(Packet) /\ t2p \in Seq(Packet)
        /\ Head(t2p) \in Packet /\ Tail(t2p) \in Seq(Packet)
    BY <1>1, SeqTypes DEF TypeOK
  <1>4. n \in Nat /\ n >= 1  BY <1>1, <1>2, <1>3, OwedTypes, ArrivalOwed
  <1>5. /\ n' \in Nat /\ n' <= n
        /\ Head(t2p).type = "dat" => n' = n - 1
    <2>1. /\ Tally(t2p', 1, Ending) \in Nat
          /\ Tally(t2p, 1, Ending) =
               Tally(t2p', 1, Ending) + IF Head(t2p) \in Ending THEN 1 ELSE 0
      BY <1>1, <1>3, EndingTally
    <2>2. Tally(p2t, 1, Asking) \in Nat /\ Len(running) \in Nat  BY <1>3, OwedTypes
    <2>3. /\ n = Tally(p2t, 1, Asking) + Len(running) + Tally(t2p, 1, Ending)
          /\ n' = Tally(p2t, 1, Asking) + Len(running) + Tally(t2p', 1, Ending)
      BY <1>1 DEF Owed
    <2>4. Head(t2p).type = "dat" => Head(t2p) \in Ending  BY <1>3 DEF Ending
    <2> HIDE DEF n
    <2>5. CASE Head(t2p) \in Ending  BY <2>1, <2>2, <2>3, <2>5
    <2>6. CASE Head(t2p) \notin Ending  BY <2>1, <2>2, <2>3, <2>4, <2>6
    <2> QED  BY <2>5, <2>6
  <1>6. Ends(running, t2p)'
    <2>1. Ends(running, Tail(t2p))  BY <1>1, <1>2, <1>3, EndsTail
    <2> QED  BY <1>1, <2>1
  <1> HIDE DEF n
  <1>7. requests # <<>>  BY <1>2, <1>4, StockedPopped
  <1>8. CASE status' = "aborted" /\ UNCHANGED <<requests, reqWrites>>
    BY <1>1, <1>2, <1>6, <1>8 DEF NoRefusals
  <1>9. CASE UNCHANGED <<requests, reqWrites, status>>
    <2>1. Stocked(requests, reqWrites, n')  BY <1>2, <1>5, StockedLess
    <2> QED  BY <1>1, <1>2, <1>6, <1>9, <2>1 DEF NoRefusals, n
  <1>10. CASE /\ Head(t2p).type = "dat" /\ UNCHANGED <<reqWrites, status>>
              /\ requests' = Tail(requests)
    <2>1. Stocked(Tail(requests), reqWrites, n - 1)
      BY <1>2, <1>4, StockedPopped
    <2> QED  BY <1>1, <1>2, <1>5, <1>6, <1>10, <2>1 DEF NoRefusals, n
  <1>11. ASSUME NEW m \in Forward, m.pkt \in Taken, Head(t2p).type = "dat",
                requests' = Tail(Append(requests, m)),
                reqWrites' = Append(reqWrites, m), UNCHANGED status
         PROVE  NoRefusals' /\ Stocked(requests', reqWrites', n - 1)
    <2>1. Stocked(Append(requests, m), Append(reqWrites, m), n)
      BY <1>2, StockedStarted
    <2>2. Stocked(Tail(Append(requests, m)), Append(reqWrites, m), n - 1)
      BY <1>4, <2>1, StockedPopped
    <2>3. m \in {t \in Transfer : t.pkt \in Taken}  BY <1>11 DEF Forward
    <2>4. reqWrites' \in Seq({t \in Transfer : t.pkt \in Taken})
      BY <1>2, <1>11, <2>3, SeqTypes
    <2> QED  BY <1>1, <1>2, <1>11, <2>2, <2>4 DEF NoRefusals
  <1>12. CASE /\ Head(t2p).type = "dat" /\ UNCHANGED status
              /\ \E m \in Forward :
                   /\ m.pkt \in Taken
                   /\ requests' = Tail(Append(requests, m))
                   /\ reqWrites' = Append(reqWrites, m)
    <2>1. NoRefusals' /\ Stocked(requests', reqWrites', n - 1)  BY <1>11, <1>12
    <2> QED  BY <1>1, <1>5, <1>6, <1>12, <2>1 DEF n
  <1> QED  BY <1>7, <1>8, <1>9, <1>10, <1>12, ReadTargetMoves

-----------------------------------------------------------------------------
(* The client and the target.                                               *)
LEMMA ClientSolid ==
  ASSUME TypeOK, Solid, Client
  PROVE  Solid'
  <1> SUFFICES ASSUME naks' = 0
               PROVE  /\ status' # "undefined" /\ NoRefusals' /\ Ends(running, t2p)'
                      /\ status' = "ok" =>
                           Stocked(requests, reqWrites, Owed(p2t, running, t2p))'
    BY DEF Solid
  <1>1. sent \in Nat /\ unacked \in Nat /\ naks \in Nat  BY DEF TypeOK
  <1>2. ~RefuseReply
    <2>1. RefuseReply => naks' = naks + 1  BY DEF RefuseReply
    <2> QED  BY <1>1, <2>1
  <1>3. /\ naks' = naks
        /\ UNCHANGED <<requests, reqWrites, status, p2t, running, t2p>>
    BY <1>2 DEF Client, SendCommand, SendBreak, Retransmit, ReceiveAck, ReceiveReply,
                ClientToProxy, targetVars, queues
  <1>4. /\ status # "undefined" /\ Ends(running, t2p)
        /\ c2p \in Seq(Taken) /\ p2t \in Seq(Taken)
        /\ reqWrites \in Seq({t \in Transfer : t.pkt \in Taken})
        /\ status = "ok" => Stocked(requests, reqWrites, Owed(p2t, running, t2p))
    BY <1>3 DEF Solid, NoRefusals
  <1>5. c2p' \in Seq(Taken)
    <2>1. <<sent + 1, 0>> \in Nat \X Nat /\ <<unacked, 0>> \in Nat \X Nat  BY <1>1
    <2>2. \A x \in Packet : x.type # "nak" => Append(c2p, x) \in Seq(Taken)
      BY <1>4, SeqTypes DEF Taken
    <2>3. ASSUME NEW k \in Kinds, NEW t \in Nat \X Nat
          PROVE  Append(c2p, Dat(k, t)) \in Seq(Taken)
      <3>1. k \in Requested \cup Replied  BY SessionAssumption DEF Requested
      <3>2. Dat(k, t) \in Packet  BY <3>1, MakePacket
      <3>3. Dat(k, t).type = "dat"  BY DEF Dat
      <3> QED  BY <2>2, <3>2, <3>3
    <2>4. CASE \E k \in Kinds : SendCommand(k)
      BY <2>1, <2>3, <2>4 DEF SendCommand, ClientToProxy
    <2>5. CASE SendBreak
      <3>1. Brk(<<sent + 1, 0>>) \in Packet  BY <2>1, MakePacket
      <3>2. Brk(<<sent + 1, 0>>).type = "brk"  BY DEF Brk
      <3> QED  BY <2>2, <2>5, <3>1, <3>2 DEF SendBreak, ClientToProxy
    <2>6. CASE Retransmit
      <3>1. Head(waiting) \in Packet  BY <2>6, SeqTypes DEF Retransmit, TypeOK
      <3>2. PICK x : x = Dat(Head(waiting).kind, <<unacked, 0>>)  OBVIOUS
      <3>3. x \in Packet  BY <2>1, <3>1, <3>2, PacketFields DEF Dat, Packet, Types
      <3>4. x.type # "nak"  BY <3>2 DEF Dat
      <3> QED  BY <2>2, <2>6, <3>2, <3>3, <3>4 DEF Retransmit, ClientToProxy
    <2>7. CASE ReceiveAck  BY <1>4, <2>7 DEF ReceiveAck
    <2>8. CASE ReceiveReply
      <3>1. Ack(<<sent + 1, 0>>) \in Packet  BY <2>1, MakePacket
      <3>2. Ack(<<sent + 1, 0>>).type = "ack"  BY DEF Ack
      <3>3. Append(c2p, Ack(<<sent + 1, 0>>)) \in Seq(Taken)  BY <2>2, <3>1, <3>2
      <3> QED  BY <1>4, <2>8, <3>3 DEF ReceiveReply
    <2> QED  BY <1>2, <2>4, <2>5, <2>6, <2>7, <2>8 DEF Client
  <1> QED  BY <1>3, <1>4, <1>5 DEF NoRefusals

(* What the target takes it does not owe less for: its debt changes place.  *)
LEMMA TargetOwes ==
  ASSUME TypeOK, NoRefusals, Ends(running, t2p), Target
  PROVE  /\ Ends(running, t2p)' /\ p2t' \in Seq(Taken)
         /\ Owed(p2t, running, t2p)' <= Owed(p2t, running, t2p)
  <1> DEFINE a == Tally(p2t, 1, Asking)
             e == Tally(t2p, 1, Ending)
             b == Tally(p2t', 1, Asking)
             g == Tally(t2p', 1, Ending)
             h == Head(p2t)
  <1>1. /\ p2t \in Seq(Packet) /\ running \in Seq(Packet) /\ t2p \in Seq(Packet)
        /\ p2t \in Seq(Taken)
    BY DEF TypeOK, NoRefusals
  <1>2. a \in Nat /\ e \in Nat /\ Len(running) \in Nat  BY <1>1, OwedTypes
  <1>3. /\ Owed(p2t, running, t2p) = a + Len(running) + e
        /\ Owed(p2t, running, t2p)' = b + Len(running') + g
    BY DEF Owed
  <1>4. ASSUME p2t # <<>>, p2t' = Tail(p2t)
        PROVE  /\ b \in Nat /\ a = b + IF h.type = "dat" THEN 1 ELSE 0
               /\ p2t' \in Seq(Taken) /\ h \in Packet /\ h.tag \in Nat \X Nat
               /\ h.type # "nak"
    <2>1. h \in Packet /\ Tail(p2t) \in Seq(Packet)  BY <1>1, <1>4, SeqTypes
    <2>2. b \in Nat /\ a = b + IF h.type = "dat" THEN 1 ELSE 0
      BY <1>1, <1>4, <2>1, AskingTally
    <2>3. h \in Taken /\ p2t' \in Seq(Taken)  BY <1>1, <1>4, SeqTypes
    <2> QED  BY <2>1, <2>2, <2>3, PacketFields DEF Taken
  <1>5. ASSUME NEW x \in Packet, t2p' = Append(t2p, x)
        PROVE  /\ x \in Ending => g = e + 1
               /\ x \notin Ending => g = e
               /\ x \in Ending \/ running' # <<>> => Ends(running, t2p)'
    <2>1. g = e + IF x \in Ending THEN 1 ELSE 0  BY <1>1, <1>5, EndingTally
    <2>2. x \in Ending \/ running' # <<>> => Ends(running', Append(t2p, x))
      BY <1>1, EndsAppend
    <2> HIDE DEF e, g
    <2> QED  BY <1>2, <1>5, <2>1, <2>2
  <1>6. ASSUME NEW k \in Replied, NEW t \in Nat \X Nat
        PROVE  Dat(k, t) \in Packet /\ Dat(k, t) \in Ending
    <2>1. PICK x : x = Dat(k, t)  OBVIOUS
    <2>2. x \in Packet  BY <2>1, MakePacket
    <2>3. x.type = "dat"  BY <2>1 DEF Dat
    <2> QED  BY <2>1, <2>2, <2>3 DEF Ending
  <1>7. ASSUME NEW t \in Nat \X Nat
        PROVE  /\ Ack(t) \in Packet /\ Ack(t) \notin Ending
               /\ Nak(t) \in Packet /\ Nak(t) \in Ending
    <2>1. PICK x : x = Ack(t)  OBVIOUS
    <2>2. PICK y : y = Nak(t)  OBVIOUS
    <2>3. x \in Packet /\ y \in Packet  BY <2>1, <2>2, MakePacket
    <2>4. x.type = "ack" /\ y.type = "nak"  BY <2>1, <2>2 DEF Ack, Nak
    <2> QED  BY <2>1, <2>2, <2>3, <2>4 DEF Ending
  <1>8. ASSUME NEW k \in Replied, NEW p \in Packet, Reply(k, p)
        PROVE  g = e + 1 /\ Ends(running, t2p)'
    <2> DEFINE t == p.tag
    <2>0. t \in Nat \X Nat  BY PacketFields
    <2> HIDE DEF t
    <2> DEFINE s == IF tgtAck THEN Append(t2p, Ack(t)) ELSE t2p
    <2>1. s \in Seq(Packet) /\ Tally(s, 1, Ending) = e
      <3>1. Append(t2p, Ack(t)) \in Seq(Packet)  BY <1>1, <1>7, <2>0, SeqTypes
      <3>2. Tally(Append(t2p, Ack(t)), 1, Ending) = e + 0
        BY <1>1, <1>7, <2>0, EndingTally
      <3>3. e + 0 = e  BY <1>2
      <3> QED  BY <1>1, <3>1, <3>2, <3>3
    <2>2. PICK x : x = Dat(k, t) /\ x \in Packet /\ x \in Ending  BY <1>6, <2>0
    <2>3. t2p' = s \o <<x>>  BY <1>8, <2>2 DEF Reply, t
    <2> HIDE DEF s
    <2>4. t2p' = Append(s, x)  BY <2>1, <2>2, <2>3, AppendIsConcat
    <2>5. g = e + 1  BY <2>1, <2>2, <2>4, EndingTally
    <2>6. Ends(running, t2p)'  BY <2>1, <2>2, <2>4, EndsAppend
    <2> QED  BY <2>5, <2>6
  <1>9. ASSUME NEW k \in StopReplies, Halted(k), running # <<>>
        PROVE  Len(running') + g <= Len(running) + e /\ Ends(running, t2p)'
    <2>1. running[1] \in Packet /\ Len(running) >= 1
      <3>1. Len(running) \in Nat \ {0}  BY <1>1, <1>9, EmptySeq
      <3>2. 1 \in 1..Len(running)  BY <3>1
      <3> QED  BY <1>1, <3>1, <3>2, ElementOfSeq
    <2>2. k \in Replied /\ running[1].tag \in Nat \X Nat
      BY <2>1, SessionAssumption, PacketFields DEF Replied
    <2>3. PICK x : /\ x = Dat(k, running[1].tag)
                   /\ x \in Packet /\ x \in Ending
      BY <1>6, <2>2
    <2>4. t2p' = Append(t2p, x)  BY <1>9, <2>3 DEF Halted
    <2>5. g = e + 1 /\ Ends(running, t2p)'  BY <1>5, <2>3, <2>4
    <2>6. running' = <<>>  BY <1>9 DEF Halted
    <2>7. Len(running') = 0  BY <2>6
    <2> HIDE DEF g, e
    <2> QED  BY <1>2, <2>1, <2>5, <2>7
  <1>10. CASE TargetAccept
    <2>1. /\ p2t # <<>> /\ p2t' = Tail(p2t) /\ running = <<>> /\ h.type = "dat"
      BY <1>10 DEF TargetAccept
    <2>2. /\ b \in Nat /\ a = b + 1 /\ p2t' \in Seq(Taken)
          /\ h \in Packet /\ h.tag \in Nat \X Nat
      BY <1>4, <2>1
    <2>3. Len(running) = 0  BY <2>1
    <2>4. CASE /\ running' = <<h>>
               /\ t2p' = IF tgtAck THEN Append(t2p, Ack(h.tag)) ELSE t2p
      <3>1. Len(running') = 1 /\ running' # <<>>  BY <2>4
      <3>2. g = e /\ Ends(running, t2p)'
        <4>1. CASE tgtAck
          <5>1. t2p' = Append(t2p, Ack(h.tag))  BY <2>4, <4>1
          <5>2. PICK x : x = Ack(h.tag) /\ x \in Packet /\ x \notin Ending
            BY <1>7, <2>2
          <5> QED  BY <1>5, <3>1, <5>1, <5>2
        <4>2. CASE ~tgtAck
          <5>1. t2p' = t2p  BY <2>4, <4>2
          <5> QED  BY <3>1, <5>1 DEF Ends
        <4> QED  BY <4>1, <4>2
      <3> HIDE DEF a, b, e, g, h
      <3> QED  BY <1>2, <1>3, <2>2, <2>3, <3>1, <3>2
    <2>5. CASE running' = running /\ \E k \in Replied : Reply(k, h)
      <3>1. g = e + 1 /\ Ends(running, t2p)'  BY <1>8, <2>2, <2>5
      <3> HIDE DEF a, b, e, g, h
      <3> QED  BY <1>2, <1>3, <2>2, <2>3, <2>5, <3>1
    <2>6. \/ /\ running' = <<h>>
             /\ t2p' = IF tgtAck THEN Append(t2p, Ack(h.tag)) ELSE t2p
          \/ running' = running /\ \E k \in Replied : Reply(k, h)
      BY <1>10 DEF TargetAccept, Replied
    <2> QED  BY <2>4, <2>5, <2>6
  <1>11. CASE TargetRefuse
    <2>1. /\ p2t # <<>> /\ p2t' = Tail(p2t) /\ h.type = "dat"
          /\ running' = running /\ t2p' = Append(t2p, Nak(h.tag))
      BY <1>11 DEF TargetRefuse
    <2>2. /\ b \in Nat /\ a = b + 1 /\ p2t' \in Seq(Taken) /\ h.tag \in Nat \X Nat
      BY <1>4, <2>1
    <2>3. PICK x : x = Nak(h.tag) /\ x \in Packet /\ x \in Ending  BY <1>7, <2>2
    <2>4. g = e + 1 /\ Ends(running, t2p)'  BY <1>5, <2>1, <2>3
    <2> HIDE DEF a, b, e, g, h
    <2> QED  BY <1>2, <1>3, <2>1, <2>2, <2>4
  <1>12. CASE TargetSignal
    <2>1. p2t # <<>> /\ p2t' = Tail(p2t) /\ h.type # "dat"
      BY <1>12 DEF TargetSignal
    <2>2. /\ b \in Nat /\ a = b + 0 /\ p2t' \in Seq(Taken) /\ h.type # "nak"
      BY <1>4, <2>1
    <2>3. CASE running # <<>> /\ \E k \in StopReplies : Halted(k)
      <3>1. Len(running') + g <= Len(running) + e /\ Ends(running, t2p)'
        BY <1>9, <2>3
      <3>2. Len(running') = 0  BY <2>3 DEF Halted
      <3>3. g \in Nat
        <4>1. t2p' \in Seq(Packet)  BY TypeStep DEF Next, TypeOK
        <4> QED  BY <4>1, OwedTypes
      <3> HIDE DEF a, b, e, g, h
      <3> QED  BY <1>2, <1>3, <2>2, <3>1, <3>2, <3>3
    <2>4. CASE UNCHANGED <<running, t2p>>
      <3>1. Ends(running, t2p)' /\ g = e  BY <2>4 DEF Ends
      <3> HIDE DEF a, b, e, g, h
      <3> QED  BY <1>2, <1>3, <2>2, <2>4, <3>1
    <2> QED  BY <1>12, <2>2, <2>3, <2>4 DEF TargetSignal
  <1>13. CASE Halt
    <2>1. PICK k \in StopReplies : Halted(k) /\ running # <<>> /\ p2t' = p2t
      BY <1>13 DEF Halt
    <2>2. Len(running') + g <= Len(running) + e /\ Ends(running, t2p)'
      BY <1>9, <2>1
    <2>3. a = b /\ p2t' \in Seq(Taken) /\ Len(running') = 0
      BY <1>1, <2>1 DEF Halted
    <2>4. g \in Nat
      <3>1. t2p' \in Seq(Packet)  BY TypeStep DEF Next, TypeOK
      <3> QED  BY <3>1, OwedTypes
    <2> HIDE DEF a, b, e, g, h
    <2> QED  BY <1>2, <1>3, <2>2, <2>3, <2>4
  <1> QED  BY <1>3, <1>10, <1>11, <1>12, <1>13 DEF Target

LEMMA TargetSolid ==
  ASSUME TypeOK, Solid, Target
  PROVE  Solid'
  <1>1. UNCHANGED <<requests, reqWrites, status, c2p, naks>>
    BY DEF Target, TargetAccept, TargetRefuse, TargetSignal, Halt, queues, clientVars
  <1> SUFFICES ASSUME naks = 0
               PROVE  /\ status' # "undefined" /\ NoRefusals' /\ Ends(running, t2p)'
                      /\ status' = "ok" =>
                           Stocked(requests, reqWrites, Owed(p2t, running, t2p))'
    BY <1>1 DEF Solid
  <1> DEFINE n == Owed(p2t, running, t2p)
  <1>2. status # "undefined" /\ NoRefusals /\ Ends(running, t2p)  BY DEF Solid
  <1>3. Ends(running, t2p)' /\ p2t' \in Seq(Taken) /\ n' <= n  BY <1>2, TargetOwes
  <1>4. NoRefusals'  BY <1>1, <1>2, <1>3 DEF NoRefusals
  <1>5. n' \in Nat
    <2>1. TypeOK'  BY TypeStep DEF Next
    <2>2. p2t' \in Seq(Packet) /\ running' \in Seq(Packet) /\ t2p' \in Seq(Packet)
      BY <2>1 DEF TypeOK
    <2>3. Owed(p2t', running', t2p') \in Nat  BY <2>2, OwedTypes
    <2> QED  BY <2>3 DEF Owed, Tally, Places
  <1>6. ASSUME status = "ok" PROVE Stocked(requests, reqWrites, n)'
    <2>1. Stocked(requests, reqWrites, n)  BY <1>6 DEF Solid
    <2> HIDE DEF n
    <2>2. Stocked(requests, reqWrites, n')  BY <1>3, <1>5, <2>1, StockedLess
    <2> QED  BY <1>1, <2>2
  <1> QED  BY <1>1, <1>2, <1>3, <1>4, <1>6

LEMMA SolidInit == Init => Solid
  <1> SUFFICES ASSUME Init PROVE Solid  OBVIOUS
  <1>1. /\ requests = <<>> /\ reqWrites = <<>> /\ status = "ok"
        /\ c2p = <<>> /\ p2t = <<>> /\ t2p = <<>> /\ running = <<>>
    BY DEF Init, ProxyInit
  <1>2. Owed(p2t, running, t2p) = 0
    <2>1. Tally(<<>>, 1, Asking) = 0  BY TallyEmpty
    <2>2. Tally(<<>>, 1, Ending) = 0  BY TallyEmpty
    <2> QED  BY <1>1, <2>1, <2>2 DEF Owed
  <1>3. NoRefusals  BY <1>1, EmptySeq DEF NoRefusals
  <1>4. Ends(running, t2p)  BY <1>1 DEF Ends
  <1>5. Stocked(<<>>, <<>>, 0)
    <2>1. Lined(<<>>, <<>>)  BY DEF Lined
    <2> QED  BY <2>1, EmptySeq DEF Stocked
  <1> QED  BY <1>1, <1>2, <1>3, <1>4, <1>5 DEF Solid

LEMMA StillSolid ==
  ASSUME Solid, UNCHANGED <<requests, reqWrites, status, c2p, p2t, t2p, running, naks>>
  PROVE  Solid'
  <1>1. (naks = 0 <=> naks' = 0) /\ (NoRefusals <=> NoRefusals')
    BY DEF NoRefusals
  <1>2. Ends(running, t2p)' <=> Ends(running, t2p)  BY DEF Ends
  <1>3. Stocked(requests, reqWrites, Owed(p2t, running, t2p))' <=>
          Stocked(requests, reqWrites, Owed(p2t, running, t2p))
    OBVIOUS
  <1> QED  BY <1>1, <1>2, <1>3 DEF Solid

LEMMA SolidStep == TypeOK /\ Solid /\ [Next]_vars => Solid'
  <1> SUFFICES ASSUME TypeOK, Solid, [Next]_vars PROVE Solid'  OBVIOUS
  <1>1. CASE Proxy
    <2>1. UNCHANGED <<clientVars, targetVars>>  BY <1>1 DEF Proxy
    <2>2. CASE WriteResponseDone
      <3>1. UNCHANGED <<requests, reqWrites, status, c2p, p2t, t2p, running, naks>>
        BY <2>1, <2>2 DEF WriteResponseDone, clientVars, targetVars
      <3> QED  BY <3>1, StillSolid
    <2> QED
      BY <1>1, <2>1, <2>2, ReadClientSolid, ReadTargetSolid, WrittenSolid
         DEF Proxy, ProxyStep
  <1>2. CASE Client  BY <1>2, ClientSolid
  <1>3. CASE Target  BY <1>3, TargetSolid
  <1>4. CASE UNCHANGED vars
    <2>1. UNCHANGED <<requests, reqWrites, status, c2p, p2t, t2p, running, naks>>
      BY <1>4 DEF vars, proxyVars, queues, streams, clientVars, targetVars
    <2> QED  BY <2>1, StillSolid
  <1> QED  BY <1>1, <1>2, <1>3, <1>4 DEF Next

LEMMA SolidHolds == Spec => [](TypeOK /\ Solid)
  <1>1. Init => TypeOK /\ Solid  BY TypeInit, SolidInit
  <1>2. TypeOK /\ Solid /\ [Next]_vars => (TypeOK /\ Solid)'
    BY TypeStep, SolidStep
  <1> QED  BY <1>1, <1>2, PTL DEF Spec

(* There is a front whenever on_response or a completion handler takes one, *)
(* however long the session: whatever breaks, acknowledges, repeated and    *)
(* refused commands do to the order of the queue, they do not take more     *)
(* than was put in.                                                         *)
THEOREM FrontAlwaysThere == Spec => []FrontExists
  <1>1. Solid => FrontExists  BY DEF Solid, FrontExists
  <1> QED  BY <1>1, SolidHolds, PTL

(* Only a break can be written from a transfer that left the queue.         *)
THEOREM OnlyBreaksAreDropped == Spec => []OnlyBreaksDropped
  <1>1. TypeOK /\ Solid => OnlyBreaksDropped
    <2> SUFFICES ASSUME TypeOK, Solid, naks = 0, status = "ok",
                        NEW i \in 1..Len(reqWrites), reqWrites[i].pkt.type # "brk"
                 PROVE  \E j \in 1..Len(requests) : requests[j] = reqWrites[i]
      BY DEF OnlyBreaksDropped
    <2>1. Stocked(requests, reqWrites, Owed(p2t, running, t2p))  BY DEF Solid
    <2>2. reqWrites[i] \in Forward
      <3>1. reqWrites[i] \in Transfer  BY ElementOfSeq DEF TypeOK
      <3> QED  BY <3>1 DEF Forward
    <2> QED  BY <2>1, <2>2, StockedQueued
  <1> QED  BY <1>1, SolidHolds, PTL
=============================================================================
