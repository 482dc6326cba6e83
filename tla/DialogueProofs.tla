---------------------------- MODULE DialogueProofs ----------------------------
(****************************************************************************)
(* A session with one command at a time, as GDB holds it, step by step: the *)
(* way of each command up to the target and of its answer back, with the    *)
(* breaks that chase it or the acknowledges that go with it.  With them it  *)
(* is still the ordered dialogue of module Dialogue.                        *)
(****************************************************************************)
EXTENDS ProxySessionProofs

-----------------------------------------------------------------------------
LEMMA Singletons ==
  \A x, y : /\ Head(<<x>>) = x /\ Tail(<<x>>) = <<>> /\ Append(<<>>, x) = <<x>>
            /\ <<x>> # <<>> /\ Len(<<x>>) = 1 /\ <<x>>[1] = x
            /\ Tail(Append(<<x>>, y)) = <<y>>
  <1> SUFFICES ASSUME NEW x, NEW y
               PROVE  /\ Head(<<x>>) = x /\ Tail(<<x>>) = <<>>
                      /\ Append(<<>>, x) = <<x>>
                      /\ <<x>> # <<>> /\ Len(<<x>>) = 1 /\ <<x>>[1] = x
                      /\ Tail(Append(<<x>>, y)) = <<y>>
    OBVIOUS
  <1>1. <<x>> # <<>> /\ Len(<<x>>) = 1 /\ <<x>>[1] = x  OBVIOUS
  <1>2. Head(<<x>>) = x /\ Tail(<<x>>) = <<>>  OBVIOUS
  <1>3. Append(<<>>, x) = <<x>>  OBVIOUS
  <1>4. Append(<<>>, y) = <<y>>  OBVIOUS
  <1>5. Tail(Append(<<x>>, y)) = <<y>>
    <2>1. <<x>> \in Seq({x, y}) /\ y \in {x, y}  OBVIOUS
    <2>2. Tail(Append(<<x>>, y)) =
            IF <<x>> = <<>> THEN <<>> ELSE Append(Tail(<<x>>), y)
      BY <2>1, HeadTailAppend
    <2> QED  BY <1>1, <1>2, <1>4, <2>2
  <1> QED  BY <1>1, <1>2, <1>3, <1>5

LEMMA AtMostOne ==
  ASSUME NEW S, NEW s \in Seq(S), Len(s) <= 1
  PROVE  s = <<>> \/ \E x \in S : s = <<x>>
  <1>1. Len(s) = 0 \/ Len(s) = 1
    <2>1. PICK k \in Nat : k = Len(s)  BY LenProperties
    <2>2. k = 0 \/ k = 1  BY <2>1
    <2> QED  BY <2>1, <2>2
  <1>2. CASE Len(s) = 0  BY <1>2, EmptySeq
  <1>3. CASE Len(s) = 1
    <2>1. s[1] \in S  BY <1>3, ElementOfSeq
    <2>2. s = <<s[1]>>  BY <1>3
    <2> QED  BY <2>1, <2>2
  <1> QED  BY <1>1, <1>2, <1>3

LEMMA Pairs ==
  \A x, y : /\ Head(<<x, y>>) = x /\ Tail(<<x, y>>) = <<y>> /\ <<x, y>> # <<>>
            /\ Append(<<x>>, y) = <<x, y>> /\ <<x>> \o <<y>> = <<x, y>>
            /\ Len(<<x, y>>) = 2 /\ <<x, y>>[1] = x /\ <<x, y>>[2] = y
  <1> SUFFICES ASSUME NEW x, NEW y
               PROVE  /\ Head(<<x, y>>) = x /\ Tail(<<x, y>>) = <<y>>
                      /\ <<x, y>> # <<>>
                      /\ Append(<<x>>, y) = <<x, y>> /\ <<x>> \o <<y>> = <<x, y>>
                      /\ Len(<<x, y>>) = 2 /\ <<x, y>>[1] = x /\ <<x, y>>[2] = y
    OBVIOUS
  <1>1. Len(<<x, y>>) = 2 /\ <<x, y>>[1] = x /\ <<x, y>>[2] = y  OBVIOUS
  <1>2. Head(<<x, y>>) = x /\ <<x, y>> # <<>>  OBVIOUS
  <1> DEFINE S == {x, y}
  <1>3. Append(<<x>>, y) = <<x, y>>
    <2>1. <<x>> \in Seq(S) /\ y \in S /\ <<x, y>> \in Seq(S)  OBVIOUS
    <2>2. Len(<<x>>) = 1 /\ <<x>>[1] = x  BY Singletons
    <2> DEFINE t == Append(<<x>>, y)
    <2>3. t \in Seq(S) /\ Len(t) = 2 /\ t[1] = x /\ t[2] = y
      BY <2>1, <2>2, AppendProperties
    <2> HIDE DEF t, S
    <2>4. \A i \in 1..2 : i = 1 \/ i = 2  OBVIOUS
    <2>5. \A i \in 1..Len(t) : t[i] = <<x, y>>[i]  BY <1>1, <2>3, <2>4
    <2>6. t = <<x, y>>  BY <1>1, <2>1, <2>3, <2>5, SeqEqual
    <2> QED  BY <2>6 DEF t
  <1>4. <<x>> \o <<y>> = <<x, y>>
    <2>1. <<x>> \in Seq(S) /\ <<y>> \in Seq(S) /\ <<x, y>> \in Seq(S)  OBVIOUS
    <2>2. Len(<<x>>) = 1 /\ <<x>>[1] = x /\ Len(<<y>>) = 1 /\ <<y>>[1] = y
      BY Singletons
    <2> DEFINE t == <<x>> \o <<y>>
    <2>3. t \in Seq(S) /\ Len(t) = 2 /\ t[1] = x /\ t[2] = y
      BY <2>1, <2>2, ConcatProperties
    <2> HIDE DEF t, S
    <2>4. \A i \in 1..2 : i = 1 \/ i = 2  OBVIOUS
    <2>5. \A i \in 1..Len(t) : t[i] = <<x, y>>[i]  BY <1>1, <2>3, <2>4
    <2>6. t = <<x, y>>  BY <1>1, <2>1, <2>3, <2>5, SeqEqual
    <2> QED  BY <2>6 DEF t
  <1>5. Tail(<<x, y>>) = <<y>>  BY <1>3, Singletons
  <1> QED  BY <1>1, <1>2, <1>3, <1>4, <1>5

LEMMA Led ==
  ASSUME NEW S, NEW s \in Seq(S), NEW x
  PROVE  /\ Append(s, x) # <<>>
         /\ s = <<>> => Head(Append(s, x)) = x /\ Tail(Append(s, x)) = <<>>
         /\ s # <<>> => /\ Head(Append(s, x)) = Head(s) /\ Head(s) \in S
                        /\ Tail(Append(s, x)) = Append(Tail(s), x)
                        /\ Tail(s) \in Seq(S)
  <1>1. Append(s, x) # <<>>
    <2>1. s \in Seq(S \cup {x}) /\ x \in S \cup {x}  OBVIOUS
    <2> QED  BY <2>1, AppendProperties
  <1> QED  BY <1>1, HeadTailAppend, HeadTailProperties

-----------------------------------------------------------------------------
(* A session with one command at a time, as GDB holds it.  Either           *)
(* acknowledges are off from the start, or nothing is broken off, repeated  *)
(* or refused; and a target that may halt by itself is not broken off.      *)
Orderly ==
  /\ Window = 1
  /\ StartAck => MaxBreaks = 0 /\ MaxRetransmits = 0 /\ MaxNaks = 0
  /\ SelfStop => MaxBreaks = 0

(* The places of such a session: the way of a command up to the target and  *)
(* of its reply back to the proxy, and the way down to the client.          *)
Up(c, q, w, p, r, s) ==
  /\ c2p = c /\ requests = q /\ reqWrites = w
  /\ p2t = p /\ running = r /\ t2p = s

Down(s, d) == responses = s /\ p2c = d

(* The client's '+' for earlier replies, on their way to the target.        *)
IsAck(p) == p.type = "ack" /\ p.kind = "none"
Plus     == {p \in Packet : StartAck /\ IsAck(p)}
PlusT    == {t \in Transfer : StartAck /\ IsAck(t.pkt)}

Free ==   \* no command on its way up
  \E c, p \in Seq(Plus), v \in Seq(PlusT) : Up(c, v, v, p, <<>>, <<>>)

(* The target has halted for the command that waits: no more breaks.        *)
Spent == broke \/ MaxBreaks = 0

Command(w) ==
  /\ w \in Packet /\ w.type = "dat" /\ w.kind \in Kinds
  /\ w.tag = <<w.tag[1], 0>> /\ w.tag[1] # 0
  /\ broke => w.kind = "stop"

Asked(w, t) ==   \* what the proxy asks the target on behalf of w
  \/ t = Ext(w) /\ w.kind # "stop"
  \/ t = Internal(w) /\ w.kind = "stop"
  \/ w.kind # "stop" /\ \E j \in Nat : t = MemRead("fetch", w.tag[1], j)
  \/ /\ w.kind = "stop" /\ Spent /\ stopReply = w.tag[1]
     /\ \E j \in Nat : t = MemRead("scan", w.tag[1], j)

Break(b) ==
  /\ broke /\ b = Ext(b.pkt)
  /\ b.pkt \in Packet /\ b.pkt.type = "brk" /\ b.pkt.kind = "none"

(* The command has not been read by the proxy.                              *)
Fresh(w) ==
  /\ \/ \E c, p \in Seq(Plus), v \in Seq(PlusT) :
          Up(Append(c, w), v, v, p, <<>>, <<>>)
     \/ \E b : /\ Break(b) /\ w.kind = "stop"
               /\ Up(<<w, b.pkt>>, <<>>, <<>>, <<>>, <<>>, <<>>)
  /\ Down(<<>>, <<>>) /\ status = "ok"
  /\ tgtAck => unacked = w.tag[1]

(* A request is on its way to the target, behind any '+'.                   *)
Sending(w, t) ==
  /\ \/ \E p \in Seq(Plus), v \in Seq(PlusT) :
          Up(<<>>, Append(v, t), Append(v, t), p, <<>>, <<>>)
     \/ \E p \in Seq(Plus) : Up(<<>>, <<t>>, <<>>, Append(p, t.pkt), <<>>, <<>>)
  /\ tgtAck /\ ~t.internal => unacked = w.tag[1]

Runs(t) ==
  /\ t.pkt.kind = "stop"
  /\ \/ Up(<<>>, <<t>>, <<>>, <<>>, <<t.pkt>>, <<>>)
     \/ StartAck /\ Up(<<>>, <<t>>, <<>>, <<>>, <<t.pkt>>, <<Ack(t.pkt.tag)>>)

(* A break follows the request that it interrupts, but goes before it in    *)
(* the queue as long as it is being written.                                *)
Chased(t) ==
  /\ t.pkt.kind = "stop"
  /\ \E b : /\ Break(b)
            /\ \/ Up(<<b.pkt>>, <<t>>, <<t>>, <<>>, <<>>, <<>>)
               \/ Up(<<b.pkt>>, <<t>>, <<>>, <<t.pkt>>, <<>>, <<>>)
               \/ Up(<<b.pkt>>, <<t>>, <<>>, <<>>, <<t.pkt>>, <<>>)
               \/ Up(<<>>, <<b, t>>, <<t, b>>, <<>>, <<>>, <<>>)
               \/ Up(<<>>, <<b, t>>, <<b>>, <<t.pkt>>, <<>>, <<>>)
               \/ Up(<<>>, <<b, t>>, <<b>>, <<>>, <<t.pkt>>, <<>>)
               \/ Up(<<>>, <<t>>, <<>>, <<t.pkt, b.pkt>>, <<>>, <<>>)
               \/ Up(<<>>, <<t>>, <<>>, <<b.pkt>>, <<t.pkt>>, <<>>)

ReplyTo(t, y) ==
  /\ y \in Packet /\ y.type = "dat" /\ y.tag = t.pkt.tag
  /\ y.kind = "OK" => ~tgtAck /\ t.pkt.kind = "noack"

(* The target has replied; a '+' before the reply goes to the client if the *)
(* request is the client's own.                                             *)
Returned(w, t) ==
  /\ w.kind = "stop" => Spent
  /\ \E y : /\ ReplyTo(t, y)
            /\ \/ /\ Up(<<>>, <<t>>, <<>>, <<>>, <<>>, <<Ack(t.pkt.tag), y>>)
                  /\ Down(<<>>, <<>>)
                  /\ ~t.internal => unacked = w.tag[1]
               \/ /\ Up(<<>>, <<t>>, <<>>, <<>>, <<>>, <<y>>)
                  /\ \/ Down(<<>>, <<>>)
                     \/ /\ ~t.internal /\ unacked = w.tag[1]
                        /\ \/ Down(<<Ext(Ack(w.tag))>>, <<>>)
                           \/ Down(<<>>, <<Ack(w.tag)>>)

Underway(w, t) ==
  /\ Asked(w, t) /\ status = "ok"
  /\ \/ Down(<<>>, <<>>) /\ (Sending(w, t) \/ Runs(t) \/ Chased(t))
     \/ Returned(w, t)

(* The answer is on its way down.                                           *)
AnswerTo(w, d) ==
  /\ d \in Transfer /\ d.pkt.type = "dat" /\ d.pkt.tag = w.tag
  /\ d.pkt.kind = "OK" => ~ackMode

Settled(w) ==
  /\ Free /\ status = "ok" /\ (w.kind = "stop" => Spent)
  /\ \E d : /\ AnswerTo(w, d)
            /\ \/ Down(<<d>>, <<>>)
               \/ Down(<<>>, <<d.pkt>>)
               \/ /\ unacked = w.tag[1]
                  /\ \/ Down(<<Ext(Ack(w.tag)), d>>, <<>>)
                     \/ Down(<<d>>, <<Ack(w.tag)>>)
                     \/ Down(<<>>, <<Ack(w.tag), d.pkt>>)

(* A handler threw: the session is over.                                    *)
Thrown(w) ==
  /\ status = "aborted" /\ w.kind = "stop" /\ Spent
  /\ Up(<<>>, <<Internal(w)>>, <<>>, <<>>, <<>>, <<>>) /\ Down(<<>>, <<>>)

Modes ==
  /\ AckOrder /\ (cliAck => StartAck) /\ (~StartAck => unacked = 0)
  /\ broke => ~StartAck /\ MaxBreaks # 0

Resting == waiting = <<>> /\ Free /\ Down(<<>>, <<>>) /\ status = "ok" /\ ~broke

Stage(w) == Fresh(w) \/ (\E t : Underway(w, t)) \/ Settled(w) \/ Thrown(w)

Round ==
  Modes /\ (Resting \/ \E w : waiting = <<w>> /\ Command(w) /\ Stage(w))
-----------------------------------------------------------------------------
LEMMA NoPlus ==
  /\ Seq(Plus) \subseteq Seq(Packet) /\ Seq(PlusT) \subseteq Seq(Transfer)
  /\ ~StartAck => /\ \A s \in Seq(Plus) : s = <<>>
                  /\ \A s \in Seq(PlusT) : s = <<>>
  <1>1. Plus \subseteq Packet /\ PlusT \subseteq Transfer  BY DEF Plus, PlusT
  <1>2. ~StartAck => Plus = {} /\ PlusT = {}  BY DEF Plus, PlusT
  <1>3. ASSUME NEW S, S = {}, NEW s \in Seq(S) PROVE s = <<>>
    BY <1>3, HeadTailProperties
  <1>4. Seq(Plus) \subseteq Seq(Packet) /\ Seq(PlusT) \subseteq Seq(Transfer)
    BY <1>1
  <1> QED  BY <1>2, <1>3, <1>4

LEMMA EmptyPlus == <<>> \in Seq(Plus) /\ <<>> \in Seq(PlusT)
  OBVIOUS

LEMMA RoundInit == Init => Round
  <1> SUFFICES ASSUME Init PROVE Round  OBVIOUS
  <1>1. Modes  BY SessionAssumption DEF Init, Modes, AckOrder
  <1>2. Up(<<>>, <<>>, <<>>, <<>>, <<>>, <<>>) /\ Down(<<>>, <<>>)
    BY DEF Init, ProxyInit, Up, Down
  <1>3. Free  BY <1>2, EmptyPlus DEF Free
  <1>4. Resting  BY <1>2, <1>3 DEF Init, ProxyInit, Resting
  <1> QED  BY <1>1, <1>4 DEF Round

(* Where the client leaves things alone.                                    *)
LEMMA ModesStill ==
  ASSUME Modes, UNCHANGED <<cliAck, unacked, broke, ackMode, tgtAck>>
  PROVE  Modes'
  BY DEF Modes, AckOrder

LEMMA StageStill ==
  ASSUME NEW w, Stage(w),
         UNCHANGED <<proxyVars, running, tgtAck, unacked, broke>>
  PROVE  Stage(w)'
  <1>1. /\ UNCHANGED <<c2p, requests, reqWrites, p2t, running, t2p, responses, p2c>>
        /\ UNCHANGED <<status, stopReply, ackMode, tgtAck, unacked, broke>>
    BY DEF proxyVars, queues, streams
  <1>2. Fresh(w) => Fresh(w)'
    BY <1>1 DEF Fresh, Up, Down, Break
  <1>3. ASSUME NEW t, Underway(w, t) PROVE Underway(w, t)'
    <2>1. Asked(w, t)'  BY <1>1, <1>3 DEF Underway, Asked, Spent
    <2>2. Sending(w, t) => Sending(w, t)'  BY <1>1 DEF Sending, Up
    <2>3. Runs(t) => Runs(t)'  BY <1>1 DEF Runs, Up
    <2>4. Chased(t) => Chased(t)'  BY <1>1 DEF Chased, Up, Break
    <2>5. Returned(w, t) => Returned(w, t)'
      BY <1>1 DEF Returned, Up, Down, Spent, ReplyTo
    <2>6. Down(<<>>, <<>>) => Down(<<>>, <<>>)'  BY <1>1 DEF Down
    <2> QED  BY <1>1, <1>3, <2>1, <2>2, <2>3, <2>4, <2>5, <2>6 DEF Underway
  <1>4. Settled(w) => Settled(w)'
    BY <1>1 DEF Settled, Free, Up, Down, Spent, AnswerTo
  <1>5. Thrown(w) => Thrown(w)'
    BY <1>1 DEF Thrown, Up, Down, Spent
  <1> QED  BY <1>2, <1>3, <1>4, <1>5 DEF Stage

LEMMA RoundStill ==
  ASSUME Round, UNCHANGED vars
  PROVE  Round'
  <1>1. UNCHANGED <<proxyVars, running, tgtAck, unacked, broke, waiting, cliAck>>
    BY DEF vars, clientVars, targetVars
  <1>2. Modes'  BY <1>1, ModesStill DEF Round, proxyVars
  <1>3. Resting => Resting'
    BY <1>1 DEF Resting, Free, Up, Down, proxyVars, queues, streams
  <1>4. ASSUME NEW w, Command(w), Stage(w) PROVE Command(w)' /\ Stage(w)'
    BY <1>1, <1>4, StageStill DEF Command
  <1> QED  BY <1>1, <1>2, <1>3, <1>4 DEF Round

-----------------------------------------------------------------------------
(* The proxy reads a packet of the client.                                  *)
LEMMA PlusRead ==
  ASSUME ReadClient, Head(c2p) \in Plus, NEW v \in Seq(PlusT),
         requests = v, reqWrites = v
  PROVE  /\ \E u \in Seq(PlusT) : requests' = u /\ reqWrites' = u
         /\ UNCHANGED responses
  <1>1. PICK x : x = Head(c2p)  OBVIOUS
  <1>2. x \in Packet /\ IsAck(x) /\ x.type = "ack" /\ StartAck
    BY <1>1 DEF Plus, IsAck
  <1>3. StartWrite(Ext(x))
    BY <1>1, <1>2 DEF ReadClient, Route
  <1>4. Ext(x) \in PlusT /\ Ext(x).pkt.type = "ack"
    <2>1. Ext(x) \in Transfer /\ Ext(x).pkt = x  BY <1>2, MakeTransfer DEF Ext
    <2> QED  BY <1>2, <2>1 DEF PlusT
  <1>5. requests' = Append(v, Ext(x)) /\ reqWrites' = Append(v, Ext(x))
        /\ UNCHANGED responses
    BY <1>3, <1>4 DEF StartWrite, Enqueued
  <1>6. Append(v, Ext(x)) \in Seq(PlusT)  BY <1>4, AppendProperties
  <1> QED  BY <1>5, <1>6

LEMMA FreeRead ==
  ASSUME ReadClient, Free, UNCHANGED running
  PROVE  Free' /\ UNCHANGED responses
  <1>1. PICK c \in Seq(Plus), p \in Seq(Plus), v \in Seq(PlusT) :
          Up(c, v, v, p, <<>>, <<>>)
    BY DEF Free
  <1>2. c # <<>> /\ c2p = c /\ requests = v /\ reqWrites = v
    BY <1>1 DEF Up, ReadClient
  <1>3. Head(c) \in Plus /\ Tail(c) \in Seq(Plus)  BY <1>2, HeadTailProperties
  <1>4. PICK u \in Seq(PlusT) : requests' = u /\ reqWrites' = u
    BY <1>2, <1>3, PlusRead
  <1>5. Up(Tail(c), u, u, p, <<>>, <<>>)'
    BY <1>1, <1>2, <1>4 DEF Up, ReadClient
  <1>6. UNCHANGED responses  BY <1>2, <1>3, PlusRead
  <1> QED  BY <1>3, <1>5, <1>6 DEF Free

(* What the proxy does with a command.                                      *)
LEMMA Routed ==
  ASSUME NEW w, Command(w), Route(w)
  PROVE  \/ Respond(Dat("data", w.tag)) /\ w.kind # "stop"
         \/ \E t : /\ Asked(w, t) /\ t.pkt.type = "dat"
                   /\ w.kind = "stop" => t.pkt.kind = "stop"
                   /\ requests' = Append(requests, t)
                   /\ reqWrites' = Append(reqWrites, t) /\ UNCHANGED responses
  <1>1. w \in Packet /\ w.type = "dat"  BY DEF Command
  <1>2. ASSUME NEW t, StartWrite(t), t.pkt.type = "dat"
        PROVE  /\ requests' = Append(requests, t)
               /\ reqWrites' = Append(reqWrites, t) /\ UNCHANGED responses
    BY <1>2 DEF StartWrite, Enqueued
  <1>3. CASE StartWrite(Ext(w)) /\ w.kind \in {"plain", "noack"}
    <2>1. Ext(w).pkt = w  BY DEF Ext
    <2> QED  BY <1>1, <1>2, <1>3, <2>1 DEF Asked
  <1>4. CASE StartWrite(Internal(w)) /\ w.kind = "stop"
    <2>1. Internal(w).pkt = w  BY DEF Internal
    <2> QED  BY <1>1, <1>2, <1>4, <2>1 DEF Asked
  <1>5. CASE StartWrite(MemRead("fetch", w.tag[1], 1)) /\ w.kind = "regs"
    <2>1. PICK t : t = MemRead("fetch", w.tag[1], 1)  OBVIOUS
    <2>2. t.pkt.type = "dat"  BY <2>1 DEF MemRead, Internal, Dat
    <2>3. Asked(w, t)  BY <1>5, <2>1 DEF Asked
    <2> QED  BY <1>2, <1>5, <2>1, <2>2, <2>3
  <1>6. CASE Respond(Dat("data", w.tag)) /\ w.kind = "local"
    BY <1>6
  <1> QED  BY <1>1, <1>3, <1>4, <1>5, <1>6 DEF Route

LEMMA CommandRead ==
  ASSUME NEW w, Command(w), Fresh(w), ReadClient,
         UNCHANGED <<running, tgtAck, unacked, broke>>
  PROVE  Stage(w)'
  <1>1. /\ c2p # <<>> /\ c2p' = Tail(c2p) /\ Route(Head(c2p)) /\ status' = "ok"
        /\ UNCHANGED <<ackMode, stopReply, p2c, p2t, t2p>>
    BY DEF ReadClient, Fresh
  <1>2. Down(<<>>, <<>>) /\ (tgtAck => unacked = w.tag[1])
    BY DEF Fresh
  <1>3. ASSUME NEW c \in Seq(Plus), NEW p \in Seq(Plus), NEW v \in Seq(PlusT),
               Up(Append(c, w), v, v, p, <<>>, <<>>)
        PROVE  Stage(w)'
    <2>1. CASE c # <<>>
      <3>1. /\ Head(c2p) \in Plus /\ Tail(c) \in Seq(Plus)
            /\ c2p' = Append(Tail(c), w)
        BY <1>1, <1>3, <2>1, Led DEF Up
      <3>2. PICK u \in Seq(PlusT) : requests' = u /\ reqWrites' = u
        BY <1>3, <3>1, PlusRead DEF Up
      <3>3. UNCHANGED responses  BY <1>3, <3>1, PlusRead DEF Up
      <3>4. Up(Append(Tail(c), w), u, u, p, <<>>, <<>>)'
        BY <1>1, <1>3, <3>1, <3>2 DEF Up
      <3>5. Fresh(w)'
        BY <1>1, <1>2, <3>1, <3>3, <3>4 DEF Fresh, Down
      <3> QED  BY <3>5 DEF Stage
    <2>2. CASE c = <<>>
      <3>1. Head(c2p) = w /\ c2p' = <<>>  BY <1>1, <1>3, <2>2, Led DEF Up
      <3>2. CASE Respond(Dat("data", w.tag)) /\ w.kind # "stop"
        <4>1. PICK d : d = Internal(Dat("data", w.tag))  OBVIOUS
        <4>2. AnswerTo(w, d)'
          <5>1. w.tag \in Nat \X Nat  BY PacketFields DEF Command
          <5>2. Dat("data", w.tag) \in Packet  BY <5>1, MakePacket DEF Replied
          <5>3. d \in Transfer  BY <4>1, <5>2, MakeTransfer
          <5> QED  BY <4>1, <5>3 DEF AnswerTo, Internal, Dat
        <4>3. Down(<<d>>, <<>>)' /\ Up(<<>>, v, v, p, <<>>, <<>>)'
          BY <1>1, <1>2, <1>3, <3>1, <3>2, <4>1, Singletons DEF Respond, Down, Up
        <4>4. Free'  BY <4>3, EmptyPlus DEF Free
        <4>5. Settled(w)'  BY <1>1, <3>2, <4>2, <4>3, <4>4 DEF Settled
        <4> QED  BY <4>5 DEF Stage
      <3>3. ASSUME NEW t, Asked(w, t), requests' = Append(requests, t),
                   reqWrites' = Append(reqWrites, t), UNCHANGED responses
            PROVE  Stage(w)'
        <4>1. Up(<<>>, Append(v, t), Append(v, t), p, <<>>, <<>>)' /\ Down(<<>>, <<>>)'
          BY <1>1, <1>2, <1>3, <3>1, <3>3 DEF Up, Down
        <4>2. Sending(w, t)'  BY <1>2, <4>1 DEF Sending
        <4>3. Asked(w, t)'  BY <1>1, <3>3 DEF Asked, Spent
        <4>4. Underway(w, t)'  BY <1>1, <4>1, <4>2, <4>3 DEF Underway
        <4> QED  BY <4>4 DEF Stage
      <3> QED  BY <1>1, <3>1, <3>2, <3>3, Routed
    <2> QED  BY <2>1, <2>2
  <1>4. ASSUME NEW b, Break(b), w.kind = "stop",
               Up(<<w, b.pkt>>, <<>>, <<>>, <<>>, <<>>, <<>>)
        PROVE  Stage(w)'
    <2>1. Head(c2p) = w /\ c2p' = <<b.pkt>>  BY <1>1, <1>4, Pairs DEF Up
    <2>2. PICK t : /\ Asked(w, t) /\ t.pkt.kind = "stop"
                   /\ requests' = Append(requests, t)
                   /\ reqWrites' = Append(reqWrites, t) /\ UNCHANGED responses
      BY <1>1, <1>4, <2>1, Routed
    <2>3. Up(<<b.pkt>>, <<t>>, <<t>>, <<>>, <<>>, <<>>)' /\ Down(<<>>, <<>>)'
      BY <1>1, <1>2, <1>4, <2>1, <2>2, Singletons DEF Up, Down
    <2>4. Chased(t)'  BY <1>4, <2>2, <2>3 DEF Chased, Break
    <2>5. Asked(w, t)'  BY <1>1, <2>2 DEF Asked, Spent
    <2>6. Underway(w, t)'  BY <1>1, <2>3, <2>4, <2>5 DEF Underway
    <2> QED  BY <2>6 DEF Stage
  <1> QED  BY <1>3, <1>4 DEF Fresh

(* A break is read.                                                         *)
LEMMA BreakRead ==
  ASSUME NEW w, NEW t, Underway(w, t), ReadClient,
         UNCHANGED <<running, tgtAck, unacked, broke>>
  PROVE  Underway(w, t)'
  <1>1. /\ c2p # <<>> /\ c2p' = Tail(c2p) /\ Route(Head(c2p)) /\ status' = "ok"
        /\ UNCHANGED <<ackMode, stopReply, p2c, p2t, t2p>>
    BY DEF ReadClient, Underway
  <1>2. Chased(t) /\ Asked(w, t) /\ Down(<<>>, <<>>)
    BY <1>1 DEF Underway, Sending, Runs, Returned, Up
  <1>3. PICK b : /\ Break(b) /\ t.pkt.kind = "stop"
                 /\ \/ Up(<<b.pkt>>, <<t>>, <<t>>, <<>>, <<>>, <<>>)
                    \/ Up(<<b.pkt>>, <<t>>, <<>>, <<t.pkt>>, <<>>, <<>>)
                    \/ Up(<<b.pkt>>, <<t>>, <<>>, <<>>, <<t.pkt>>, <<>>)
    BY <1>1, <1>2 DEF Chased, Up
  <1>4. Head(c2p) = b.pkt /\ c2p' = <<>> /\ requests = <<t>>
        /\ (reqWrites = <<>> \/ reqWrites = <<t>>)
    BY <1>1, <1>3, Singletons DEF Up
  <1>5. /\ requests' = <<b>> \o requests /\ reqWrites' = Append(reqWrites, b)
        /\ UNCHANGED responses
    <2>1. StartWrite(Ext(b.pkt))  BY <1>1, <1>3, <1>4 DEF Route, Break
    <2>2. Ext(b.pkt) = b /\ b.pkt.type = "brk"  BY <1>3 DEF Break
    <2> QED  BY <2>1, <2>2 DEF StartWrite, Enqueued
  <1>6. requests' = <<b, t>>  BY <1>4, <1>5, Pairs
  <1>7. reqWrites' = IF reqWrites = <<t>> THEN <<t, b>> ELSE <<b>>
    BY <1>4, <1>5, Pairs, Singletons
  <1>8. \/ Up(<<>>, <<b, t>>, <<t, b>>, <<>>, <<>>, <<>>)'
        \/ Up(<<>>, <<b, t>>, <<b>>, <<t.pkt>>, <<>>, <<>>)'
        \/ Up(<<>>, <<b, t>>, <<b>>, <<>>, <<t.pkt>>, <<>>)'
    BY <1>1, <1>3, <1>4, <1>6, <1>7, Singletons DEF Up
  <1>9. Chased(t)'  BY <1>3, <1>8 DEF Chased, Break
  <1>10. Asked(w, t)' /\ Down(<<>>, <<>>)'
    BY <1>1, <1>2, <1>5 DEF Asked, Spent, Down
  <1> QED  BY <1>1, <1>9, <1>10 DEF Underway

LEMMA ReadClientRounds ==
  ASSUME Round, ReadClient, UNCHANGED <<clientVars, targetVars>>
  PROVE  Round'
  <1>1. /\ status = "ok" /\ UNCHANGED <<ackMode, stopReply, status, p2c>>
        /\ UNCHANGED <<running, tgtAck, unacked, broke, waiting, cliAck>>
    BY DEF ReadClient, clientVars, targetVars
  <1>2. Modes'  BY <1>1, ModesStill DEF Round
  <1>3. Resting => Resting'
    BY <1>1, FreeRead DEF Resting, Down
  <1>4. ASSUME NEW w, Command(w), Stage(w) PROVE Command(w)' /\ Stage(w)'
    <2>1. Command(w)'  BY <1>1, <1>4 DEF Command
    <2>2. Settled(w) => Settled(w)'
      BY <1>1, FreeRead DEF Settled, Down, Spent, AnswerTo
    <2>3. ~Thrown(w)  BY <1>1 DEF Thrown
    <2>4. Fresh(w) => Stage(w)'  BY <1>1, <1>4, CommandRead
    <2>5. (\E t : Underway(w, t)) => Stage(w)'  BY <1>1, BreakRead DEF Stage
    <2> QED  BY <1>4, <2>1, <2>2, <2>3, <2>4, <2>5 DEF Stage
  <1> QED  BY <1>1, <1>2, <1>3, <1>4 DEF Round

-----------------------------------------------------------------------------
(* The proxy reads a packet of the target.                                  *)
LEMMA AskedIs ==
  ASSUME NEW w, NEW t, Command(w), Asked(w, t)
  PROVE  /\ t.internal \in BOOLEAN /\ t.pkt.type = "dat" /\ t.pkt.tag[1] = w.tag[1]
         /\ ~t.internal => t = Ext(w) /\ t.pkt = w /\ w.kind # "stop"
         /\ t.pkt.kind = "stop" => t.internal /\ t = Internal(w) /\ t.pkt = w
         /\ t.internal /\ t.pkt.kind = "stop" => w.kind = "stop"
         /\ t.internal /\ t.pkt.kind = "scan" =>
              w.kind = "stop" /\ Spent /\ stopReply = w.tag[1] /\ t.pkt.tag[2] \in Nat
         /\ t.internal /\ t.pkt.kind = "fetch" => w.kind # "stop"
         /\ w.kind = "stop" => t.internal /\ t.pkt.kind \in {"stop", "scan"}
  <1>1. w.type = "dat"  BY DEF Command
  <1>2. CASE t = Ext(w) /\ w.kind # "stop"  BY <1>1, <1>2 DEF Ext
  <1>3. CASE t = Internal(w) /\ w.kind = "stop"  BY <1>1, <1>3 DEF Internal
  <1>4. ASSUME NEW k \in {"scan", "fetch"}, NEW j \in Nat, t = MemRead(k, w.tag[1], j)
        PROVE  /\ t.internal = TRUE /\ t.pkt.kind = k /\ t.pkt.type = "dat"
               /\ t.pkt.tag[1] = w.tag[1] /\ t.pkt.tag[2] = j
    BY <1>4 DEF MemRead, Internal, Dat
  <1>5. CASE w.kind # "stop" /\ \E j \in Nat : t = MemRead("fetch", w.tag[1], j)
    BY <1>4, <1>5
  <1>6. CASE /\ w.kind = "stop" /\ Spent /\ stopReply = w.tag[1]
             /\ \E j \in Nat : t = MemRead("scan", w.tag[1], j)
    BY <1>4, <1>6
  <1> QED  BY <1>2, <1>3, <1>5, <1>6 DEF Asked

LEMMA NextAsked ==
  ASSUME NEW w, NEW k \in {"scan", "fetch"}, NEW j \in Nat,
         requests = <<w>> \/ \E t : requests = <<t>>, reqWrites = <<>>,
         NextRead(k, w.tag[1], j), UNCHANGED <<c2p, p2t, running>>,
         c2p = <<>>, p2t = <<>>, running = <<>>, t2p' = <<>>, responses = <<>>,
         p2c' = <<>>, status' = "ok",
         k = "scan" => w.kind = "stop" /\ Spent' /\ stopReply' = w.tag[1],
         k = "fetch" => w.kind # "stop"
  PROVE  Stage(w)'
  <1>1. PICK m : m = MemRead(k, w.tag[1], j)  OBVIOUS
  <1>2. m.internal  BY <1>1 DEF MemRead, Internal
  <1>3. requests' = <<m>> /\ reqWrites' = <<m>> /\ responses' = <<>>
    <2>1. PICK x : requests = <<x>>  OBVIOUS
    <2>2. /\ requests' = Tail(Append(<<x>>, m)) /\ reqWrites' = Append(<<>>, m)
          /\ responses' = <<>>
      BY <1>1, <2>1, Zenon DEF NextRead
    <2>3. Tail(Append(<<x>>, m)) = <<m>> /\ Append(<<>>, m) = <<m>>
      BY ONLY Singletons
    <2> QED  BY ONLY <2>2, <2>3, Zenon
  <1>4. Up(<<>>, <<m>>, <<m>>, <<>>, <<>>, <<>>)' /\ Down(<<>>, <<>>)'
    BY <1>3 DEF Up, Down
  <1>5. Append(<<>>, m) = <<m>>  BY Singletons
  <1>6. Sending(w, m)'  BY <1>2, <1>4, <1>5, EmptyPlus DEF Sending
  <1>7. Asked(w, m)'  BY <1>1 DEF Asked
  <1>8. Underway(w, m)'  BY <1>4, <1>6, <1>7 DEF Underway
  <1> QED  BY <1>8 DEF Stage

LEMMA SettledBy ==
  ASSUME NEW w, NEW d, AnswerTo(w, d)', w.kind = "stop" => Spent',
         status' = "ok", c2p' = <<>>, requests' = <<>>, reqWrites' = <<>>,
         p2t' = <<>>, running' = <<>>, t2p' = <<>>,
         \/ Down(<<d>>, <<>>)'
         \/ /\ unacked' = w.tag[1]
            /\ Down(<<Ext(Ack(w.tag)), d>>, <<>>)' \/ Down(<<d>>, <<Ack(w.tag)>>)'
  PROVE  Stage(w)'
  <1>1. Up(<<>>, <<>>, <<>>, <<>>, <<>>, <<>>)'  BY DEF Up
  <1>2. Free'  BY <1>1, EmptyPlus DEF Free
  <1>3. Settled(w)'  BY <1>2 DEF Settled
  <1> QED  BY <1>3 DEF Stage

LEMMA FinishSettles ==
  ASSUME NEW w, Command(w), NEW k \in {"T", "data"}, NEW g, g = w.tag,
         Finish(Dat(k, g)), w.kind = "stop" => Spent', status' = "ok",
         \E t : requests = <<t>>, reqWrites = <<>>, responses = <<>>, p2c' = <<>>,
         c2p' = <<>>, p2t' = <<>>, running' = <<>>, t2p' = <<>>
  PROVE  Stage(w)'
  <1>1. PICK d : d = Internal(Dat(k, g))  OBVIOUS
  <1>2. AnswerTo(w, d)'
    <2>1. w.tag \in Nat \X Nat  BY PacketFields DEF Command
    <2>2. Dat(k, g) \in Packet  BY <2>1, MakePacket DEF Replied
    <2>3. d \in Transfer  BY <1>1, <2>2, MakeTransfer
    <2> QED  BY <1>1, <2>3 DEF AnswerTo, Internal, Dat
  <1>3. requests' = <<>> /\ responses' = <<d>> /\ reqWrites' = <<>>
    BY <1>1, Singletons DEF Finish
  <1> QED  BY <1>2, <1>3, SettledBy DEF Down

LEMMA ReplyRead ==
  ASSUME NEW w, NEW t, NEW y, Command(w), Asked(w, t), ReplyTo(t, y), Modes,
         w.kind = "stop" => Spent, ReadTarget,
         UNCHANGED <<running, tgtAck, unacked, broke>>,
         Up(<<>>, <<t>>, <<>>, <<>>, <<>>, <<y>>),
         \/ Down(<<>>, <<>>)
         \/ /\ ~t.internal /\ unacked = w.tag[1]
            /\ Down(<<Ext(Ack(w.tag))>>, <<>>) \/ Down(<<>>, <<Ack(w.tag)>>)
  PROVE  Stage(w)' /\ (~ackMode' => ~tgtAck)
  <1>1. /\ status = "ok" /\ t2p' = <<>> /\ UNCHANGED <<c2p, p2c, p2t>>
        /\ requests = <<t>> /\ reqWrites = <<>> /\ Answer(t, y)
    BY Singletons DEF ReadTarget, Up, ReplyTo
  <1>2. c2p' = <<>> /\ p2t' = <<>> /\ running' = <<>> /\ running = <<>>
        /\ c2p = <<>> /\ p2t = <<>>
    BY <1>1 DEF Up
  <1>3. (w.kind = "stop" => Spent') /\ (Spent => Spent')  BY DEF Spent
  <1>4. ~ackMode' => ~tgtAck
    BY <1>1 DEF Answer, ReplyTo, Modes, AckOrder
  <1>5. t.internal => responses = <<>> /\ p2c = <<>> /\ p2c' = <<>>
    BY <1>1 DEF Down
  <1>6. w.tag = <<w.tag[1], 0>>  BY DEF Command
  <1>7. CASE t.internal /\ t.pkt.kind = "stop" /\ StopReplied(t.pkt, y)
    <2>1. t = Internal(w) /\ t.pkt = w /\ w.kind = "stop" /\ y.tag = w.tag
      BY <1>7, AskedIs DEF ReplyTo
    <2>2. CASE status' = "aborted" /\ UNCHANGED <<queues, stopReply>>
      <3>1. Up(<<>>, <<Internal(w)>>, <<>>, <<>>, <<>>, <<>>)' /\ Down(<<>>, <<>>)'
        BY <1>1, <1>2, <1>5, <1>7, <2>1, <2>2 DEF queues, Up, Down
      <3>2. Thrown(w)'  BY <1>3, <2>1, <2>2, <3>1 DEF Thrown
      <3> QED  BY <1>4, <3>2 DEF Stage
    <2>3. CASE NextRead("scan", t.pkt.tag[1], 1) /\ stopReply' = y.tag[1]
               /\ UNCHANGED status
      BY <1>1, <1>2, <1>3, <1>4, <1>5, <1>7, <2>1, <2>3, NextAsked
    <2>4. CASE Finish(Dat("T", y.tag)) /\ UNCHANGED status
      BY <1>1, <1>2, <1>3, <1>4, <1>5, <1>7, <2>1, <2>4, FinishSettles
    <2> QED  BY <1>7, <2>2, <2>3, <2>4 DEF StopReplied
  <1>8. CASE t.internal /\ t.pkt.kind = "scan" /\ ScanReturned(t.pkt) /\ UNCHANGED status
    <2>1. /\ t.pkt.tag[1] = w.tag[1] /\ w.kind = "stop" /\ Spent'
          /\ stopReply = w.tag[1] /\ t.pkt.tag[2] \in Nat
      BY <1>3, <1>8, AskedIs
    <2>2. CASE NextRead("scan", t.pkt.tag[1], t.pkt.tag[2] + 1) /\ UNCHANGED stopReply
      <3>1. t.pkt.tag[2] + 1 \in Nat  BY <2>1
      <3> QED  BY <1>1, <1>2, <1>4, <1>5, <1>8, <2>1, <2>2, <3>1, NextAsked
    <2>3. CASE Finish(Dat("T", <<stopReply, 0>>))
      BY <1>1, <1>2, <1>4, <1>5, <1>6, <1>8, <2>1, <2>3, FinishSettles
    <2> QED  BY <1>8, <2>2, <2>3 DEF ScanReturned
  <1>9. CASE t.internal /\ t.pkt.kind = "fetch" /\ FetchReturned(t.pkt) /\ UNCHANGED status
    <2>1. t.pkt.tag[1] = w.tag[1] /\ w.kind # "stop"  BY <1>9, AskedIs
    <2>2. CASE NextRead("fetch", t.pkt.tag[1], 2)
      BY <1>1, <1>2, <1>4, <1>5, <1>9, <2>1, <2>2, NextAsked
    <2>3. CASE Finish(Dat("data", <<t.pkt.tag[1], 0>>))
      BY <1>1, <1>2, <1>4, <1>5, <1>6, <1>9, <2>1, <2>3, FinishSettles
    <2> QED  BY <1>9, <2>2, <2>3 DEF FetchReturned
  <1>10. CASE /\ ~t.internal /\ requests' = Tail(requests)
              /\ responses' = Append(responses, Ext(y))
              /\ UNCHANGED <<reqWrites, stopReply, status>>
    <2>1. t.pkt = w  BY <1>10, AskedIs
    <2>2. AnswerTo(w, Ext(y))'
      <3>1. Ext(y) \in Transfer /\ Ext(y).pkt = y /\ y.type = "dat" /\ y.tag = w.tag
        BY <2>1, MakeTransfer DEF ReplyTo, Ext
      <3>2. y.kind = "OK" => ~ackMode'
        BY <1>1 DEF Answer, ReplyTo
      <3> QED  BY <3>1, <3>2 DEF AnswerTo
    <2>3. requests' = <<>> /\ reqWrites' = <<>>  BY <1>1, <1>10, Singletons
    <2>4. \/ Down(<<Ext(y)>>, <<>>)'
          \/ /\ unacked' = w.tag[1]
             /\ \/ Down(<<Ext(Ack(w.tag)), Ext(y)>>, <<>>)'
                \/ Down(<<Ext(y)>>, <<Ack(w.tag)>>)'
      <3>1. PICK e, a : e = Ext(y) /\ a = Ext(Ack(w.tag))  OBVIOUS
      <3>2. responses' = Append(responses, e) /\ p2c' = p2c  BY <1>1, <1>10, <3>1
      <3>3. responses = <<>> => responses' = <<e>>  BY <3>2, Singletons
      <3>4. responses = <<a>> => responses' = <<a, e>>  BY <3>2, Pairs
      <3> QED  BY <3>1, <3>2, <3>3, <3>4 DEF Down
    <2> QED  BY <1>1, <1>2, <1>3, <1>4, <1>10, <2>2, <2>3, <2>4, SettledBy
  <1> QED  BY <1>1, <1>7, <1>8, <1>9, <1>10 DEF Answer

(* The '+' before a reply.                                                  *)
LEMMA AckRead ==
  ASSUME NEW w, NEW t, Command(w), Asked(w, t), ReadTarget, requests = <<t>>,
         NEW g, Head(t2p) = Ack(g)
  PROVE  /\ t.internal => UNCHANGED responses
         /\ ~t.internal => responses' = Append(responses, Ext(Ack(g)))
         /\ UNCHANGED <<requests, reqWrites, ackMode, stopReply, status>>
  <1>1. Ack(g).type = "ack"  BY DEF Ack
  <1>2. Acknowledge(t, Ack(g))  BY <1>1, Singletons DEF ReadTarget
  <1> QED  BY <1>1, <1>2, AskedIs DEF Acknowledge

LEMMA TargetReadRounds ==
  ASSUME NEW w, NEW t, Command(w), Underway(w, t), Modes, ReadTarget,
         UNCHANGED <<running, tgtAck, unacked, broke>>
  PROVE  Stage(w)' /\ (~ackMode' => ~tgtAck)
  <1>1. /\ status = "ok" /\ t2p # <<>> /\ t2p' = Tail(t2p)
        /\ UNCHANGED <<c2p, p2c, p2t>> /\ Asked(w, t)
    BY DEF ReadTarget, Underway
  <1>2. ~ackMode => ~tgtAck  BY DEF Modes, AckOrder
  <1>3. CASE Down(<<>>, <<>>) /\ Runs(t)
    <2>1. Up(<<>>, <<t>>, <<>>, <<>>, <<t.pkt>>, <<Ack(t.pkt.tag)>>)
      BY <1>1, <1>3 DEF Runs, Up
    <2>2. requests = <<t>> /\ Head(t2p) = Ack(t.pkt.tag) /\ t2p' = <<>>
      BY <1>1, <2>1, Singletons DEF Up
    <2>3. t.pkt.kind = "stop" /\ t.internal  BY <1>1, <1>3, AskedIs DEF Runs
    <2>4. UNCHANGED <<responses, requests, reqWrites, ackMode, stopReply, status>>
      BY <1>1, <2>2, <2>3, AckRead
    <2>5. Up(<<>>, <<t>>, <<>>, <<>>, <<t.pkt>>, <<>>)' /\ Down(<<>>, <<>>)'
      BY <1>1, <1>3, <2>1, <2>2, <2>4 DEF Up, Down
    <2>6. Runs(t)'  BY <2>3, <2>5 DEF Runs
    <2>7. Asked(w, t)'  BY <1>1, <2>4 DEF Asked, Spent
    <2>8. Underway(w, t)'  BY <1>1, <2>4, <2>5, <2>6, <2>7 DEF Underway
    <2> QED  BY <1>2, <2>4, <2>8 DEF Stage
  <1>4. CASE Returned(w, t)
    <2>1. PICK y :
            /\ ReplyTo(t, y)
            /\ \/ /\ Up(<<>>, <<t>>, <<>>, <<>>, <<>>, <<Ack(t.pkt.tag), y>>)
                  /\ Down(<<>>, <<>>)
                  /\ ~t.internal => unacked = w.tag[1]
               \/ /\ Up(<<>>, <<t>>, <<>>, <<>>, <<>>, <<y>>)
                  /\ \/ Down(<<>>, <<>>)
                     \/ /\ ~t.internal /\ unacked = w.tag[1]
                        /\ \/ Down(<<Ext(Ack(w.tag))>>, <<>>)
                           \/ Down(<<>>, <<Ack(w.tag)>>)
      BY <1>4 DEF Returned
    <2>2. w.kind = "stop" => Spent  BY <1>4 DEF Returned
    <2>3. CASE /\ Up(<<>>, <<t>>, <<>>, <<>>, <<>>, <<Ack(t.pkt.tag), y>>)
               /\ Down(<<>>, <<>>) /\ (~t.internal => unacked = w.tag[1])
      <3>1. requests = <<t>> /\ Head(t2p) = Ack(t.pkt.tag) /\ t2p' = <<y>>
        BY <1>1, <2>3, Pairs DEF Up
      <3>2. /\ UNCHANGED <<requests, reqWrites, ackMode, stopReply, status>>
            /\ t.internal => UNCHANGED responses
            /\ ~t.internal => responses' = Append(responses, Ext(Ack(t.pkt.tag)))
        BY <1>1, <3>1, AckRead
      <3>3. Up(<<>>, <<t>>, <<>>, <<>>, <<>>, <<y>>)'
        BY <1>1, <2>3, <3>1, <3>2 DEF Up
      <3>4. t.internal \in BOOLEAN /\ (~t.internal => t.pkt = w)
        BY <1>1, AskedIs
      <3>5. \/ Down(<<>>, <<>>)'
            \/ ~t.internal /\ Down(<<Ext(Ack(w.tag))>>, <<>>)'
        BY <1>1, <2>3, <3>2, <3>4, Singletons DEF Down
      <3>6. Returned(w, t)'
        BY <2>1, <2>2, <2>3, <3>3, <3>5 DEF Returned, Spent, ReplyTo
      <3>7. Asked(w, t)'  BY <1>1, <3>2 DEF Asked, Spent
      <3>8. Underway(w, t)'  BY <1>1, <3>2, <3>6, <3>7 DEF Underway
      <3> QED  BY <1>2, <3>2, <3>8 DEF Stage
    <2>4. CASE /\ Up(<<>>, <<t>>, <<>>, <<>>, <<>>, <<y>>)
               /\ \/ Down(<<>>, <<>>)
                  \/ /\ ~t.internal /\ unacked = w.tag[1]
                     /\ Down(<<Ext(Ack(w.tag))>>, <<>>) \/ Down(<<>>, <<Ack(w.tag)>>)
      BY <1>1, <2>1, <2>2, <2>4, ReplyRead
    <2> QED  BY <2>1, <2>3, <2>4
  <1>5. ~(Sending(w, t) \/ Chased(t))
    BY <1>1 DEF Sending, Chased, Up
  <1> QED  BY <1>3, <1>4, <1>5 DEF Underway

LEMMA ReadTargetRounds ==
  ASSUME Round, ReadTarget, UNCHANGED <<clientVars, targetVars>>
  PROVE  Round'
  <1>1. /\ status = "ok" /\ t2p # <<>>
        /\ UNCHANGED <<running, tgtAck, unacked, broke, waiting, cliAck>>
    BY DEF ReadTarget, clientVars, targetVars
  <1>2. ~Resting /\ \A w : ~Fresh(w) /\ ~Settled(w) /\ ~Thrown(w)
    BY <1>1 DEF Resting, Fresh, Settled, Thrown, Free, Up
  <1>3. PICK w, t : waiting = <<w>> /\ Command(w) /\ Underway(w, t)
    BY <1>2 DEF Round, Stage
  <1>4. Stage(w)' /\ (~ackMode' => ~tgtAck)
    BY <1>1, <1>3, TargetReadRounds DEF Round
  <1>5. Command(w)'  BY <1>1, <1>3 DEF Command
  <1>6. ackMode' => ackMode
    <2>1. UNCHANGED ackMode \/ \E f, y : Answer(f, y)
      BY DEF ReadTarget, Acknowledge
    <2> QED  BY <2>1 DEF Answer
  <1>7. Modes'
    BY <1>1, <1>4, <1>6 DEF Round, Modes, AckOrder
  <1> QED  BY <1>1, <1>3, <1>4, <1>5, <1>7 DEF Round

-----------------------------------------------------------------------------
(* A write completes.                                                       *)
LEMMA IsQueued ==
  ASSUME NEW t, NEW q, requests = q,
         q = <<t>> \/ (\E b : q = <<b, t>>) \/ (q \in Seq(Transfer) /\ q # <<>> /\ t = Head(q))
  PROVE  Queued(t)
  <1>1. CASE q = <<t>>
    <2>1. Len(q) = 1 /\ q[1] = t  BY <1>1, Singletons
    <2>2. 1 \in 1..Len(q)  BY <2>1
    <2> QED  BY <2>1, <2>2 DEF Queued
  <1>2. ASSUME NEW b, q = <<b, t>> PROVE Queued(t)
    <2>1. Len(q) = 2 /\ q[2] = t  BY <1>2, Pairs
    <2>2. 2 \in 1..Len(q)  BY <2>1
    <2> QED  BY <2>1, <2>2 DEF Queued
  <1>3. CASE q \in Seq(Transfer) /\ q # <<>> /\ t = Head(q)
    <2>1. 1 \in 1..Len(q) /\ q[1] = t  BY <1>3, EmptySeq, LenProperties
    <2> QED  BY <2>1 DEF Queued
  <1> QED  BY <1>1, <1>2, <1>3

LEMMA PlusWritten ==
  ASSUME TypeOK, WriteRequestDone, requests = reqWrites, Head(reqWrites) \in PlusT,
         p2t \in Seq(Plus)
  PROVE  /\ requests' = Tail(reqWrites) /\ reqWrites' = Tail(reqWrites)
         /\ p2t' \in Seq(Plus) /\ UNCHANGED status
  <1>1. PICK h : h = Head(reqWrites)  OBVIOUS
  <1>2. /\ reqWrites # <<>> /\ reqWrites' = Tail(reqWrites) /\ p2t' = Append(p2t, h.pkt)
        /\ Completed(h)
    BY <1>1 DEF WriteRequestDone
  <1>3. h.pkt \in Plus /\ h.pkt.type = "ack"
    BY <1>1, TransferFields DEF Plus, PlusT, IsAck
  <1>4. Queued(h)  BY <1>1, <1>2, IsQueued DEF TypeOK
  <1>5. requests' = Tail(requests) /\ UNCHANGED status
    BY <1>2, <1>3, <1>4 DEF Completed
  <1>6. p2t' \in Seq(Plus)  BY <1>2, <1>3, AppendProperties
  <1> QED  BY <1>2, <1>5, <1>6

LEMMA FreeWritten ==
  ASSUME TypeOK, WriteRequestDone, Free, UNCHANGED running
  PROVE  Free' /\ UNCHANGED status
  <1>1. PICK c \in Seq(Plus), p \in Seq(Plus), v \in Seq(PlusT) :
          Up(c, v, v, p, <<>>, <<>>)
    BY DEF Free
  <1>2. v # <<>> /\ reqWrites = v  BY <1>1 DEF Up, WriteRequestDone
  <1>3. Head(v) \in PlusT /\ Tail(v) \in Seq(PlusT)  BY <1>2, HeadTailProperties
  <1>4. /\ requests' = Tail(v) /\ reqWrites' = Tail(v) /\ p2t' \in Seq(Plus)
        /\ UNCHANGED status
    BY <1>1, <1>2, <1>3, PlusWritten DEF Up
  <1>5. PICK u \in Seq(Plus) : p2t' = u  BY <1>4
  <1>6. Up(c, Tail(v), Tail(v), u, <<>>, <<>>)'
    BY <1>1, <1>2, <1>4, <1>5 DEF Up, WriteRequestDone
  <1> QED  BY <1>3, <1>4, <1>6 DEF Free

LEMMA FreshWritten ==
  ASSUME NEW w, TypeOK, Fresh(w), WriteRequestDone,
         UNCHANGED <<running, tgtAck, unacked, broke>>
  PROVE  Fresh(w)'
  <1>1. PICK c \in Seq(Plus), p \in Seq(Plus), v \in Seq(PlusT) :
          Up(Append(c, w), v, v, p, <<>>, <<>>)
    BY DEF Fresh, Up, WriteRequestDone
  <1>2. v # <<>> /\ reqWrites = v  BY <1>1 DEF Up, WriteRequestDone
  <1>3. Head(v) \in PlusT /\ Tail(v) \in Seq(PlusT)  BY <1>2, HeadTailProperties
  <1>4. /\ requests' = Tail(v) /\ reqWrites' = Tail(v) /\ p2t' \in Seq(Plus)
        /\ UNCHANGED status
    BY <1>1, <1>2, <1>3, PlusWritten DEF Up
  <1>5. PICK u \in Seq(Plus) : p2t' = u  BY <1>4
  <1>6. Up(Append(c, w), Tail(v), Tail(v), u, <<>>, <<>>)'
    BY <1>1, <1>2, <1>4, <1>5 DEF Up, WriteRequestDone
  <1>7. Down(<<>>, <<>>)' /\ status' = "ok" /\ (tgtAck' => unacked' = w.tag[1])
    BY <1>4 DEF Fresh, Down, WriteRequestDone
  <1> QED  BY <1>3, <1>6, <1>7 DEF Fresh

LEMMA DatWritten ==
  ASSUME WriteRequestDone, NEW t, Head(reqWrites) = t, t.pkt.type = "dat", Queued(t)
  PROVE  /\ UNCHANGED <<requests, status>> /\ reqWrites' = Tail(reqWrites)
         /\ p2t' = Append(p2t, t.pkt)
  BY DEF WriteRequestDone, Completed

LEMMA SendingWritten ==
  ASSUME NEW w, NEW t, Command(w), TypeOK, Asked(w, t), Sending(w, t), WriteRequestDone,
         UNCHANGED <<running, tgtAck, unacked>>
  PROVE  Sending(w, t)' /\ UNCHANGED status
  <1>1. PICK p \in Seq(Plus), v \in Seq(PlusT) :
          Up(<<>>, Append(v, t), Append(v, t), p, <<>>, <<>>)
    BY DEF Sending, Up, WriteRequestDone
  <1>2. UNCHANGED <<c2p, t2p>>  BY DEF WriteRequestDone
  <1>3. tgtAck' /\ ~t.internal => unacked' = w.tag[1]  BY DEF Sending
  <1>4. CASE v # <<>>
    <2>1. /\ Head(reqWrites) \in PlusT /\ Tail(v) \in Seq(PlusT)
          /\ Tail(reqWrites) = Append(Tail(v), t)
      BY <1>1, <1>4, Led DEF Up
    <2>2. /\ requests' = Append(Tail(v), t) /\ reqWrites' = Append(Tail(v), t)
          /\ p2t' \in Seq(Plus) /\ UNCHANGED status
      BY <1>1, <2>1, PlusWritten DEF Up
    <2>3. PICK u \in Seq(Plus) : p2t' = u  BY <2>2
    <2>4. Up(<<>>, Append(Tail(v), t), Append(Tail(v), t), u, <<>>, <<>>)'
      BY <1>1, <1>2, <2>2, <2>3 DEF Up
    <2> QED  BY <1>3, <2>1, <2>2, <2>4 DEF Sending
  <1>5. CASE v = <<>>
    <2>1. requests = <<t>> /\ reqWrites = <<t>>
      BY <1>1, <1>5, Singletons DEF Up
    <2>2. Queued(t) /\ Head(reqWrites) = t /\ t.pkt.type = "dat"
      BY <2>1, IsQueued, AskedIs, Singletons
    <2>3. /\ requests' = <<t>> /\ reqWrites' = <<>> /\ p2t' = Append(p, t.pkt)
          /\ UNCHANGED status
      BY <1>1, <2>1, <2>2, DatWritten, Singletons DEF Up
    <2>4. Up(<<>>, <<t>>, <<>>, Append(p, t.pkt), <<>>, <<>>)'
      BY <1>1, <1>2, <2>3 DEF Up
    <2> QED  BY <1>3, <2>3, <2>4 DEF Sending
  <1> QED  BY <1>4, <1>5

LEMMA ChasedWritten ==
  ASSUME NEW w, NEW t, Command(w), Asked(w, t), Chased(t), WriteRequestDone,
         UNCHANGED <<running, broke>>
  PROVE  Chased(t)' /\ UNCHANGED status
  <1>1. PICK b : /\ Break(b) /\ t.pkt.kind = "stop"
                 /\ \/ Up(<<b.pkt>>, <<t>>, <<t>>, <<>>, <<>>, <<>>)
                    \/ Up(<<>>, <<b, t>>, <<t, b>>, <<>>, <<>>, <<>>)
                    \/ Up(<<>>, <<b, t>>, <<b>>, <<t.pkt>>, <<>>, <<>>)
                    \/ Up(<<>>, <<b, t>>, <<b>>, <<>>, <<t.pkt>>, <<>>)
    BY DEF Chased, Up, WriteRequestDone
  <1>2. UNCHANGED <<c2p, t2p>> /\ reqWrites' = Tail(reqWrites)  BY DEF WriteRequestDone
  <1>3. Break(b)'  BY <1>1 DEF Break
  <1>4. t.pkt.type = "dat"  BY AskedIs
  <1>5. CASE Up(<<b.pkt>>, <<t>>, <<t>>, <<>>, <<>>, <<>>)
    <2>1. Queued(t) /\ Head(reqWrites) = t
      BY <1>5, IsQueued, Singletons DEF Up
    <2>2. /\ requests' = <<t>> /\ reqWrites' = <<>> /\ p2t' = <<t.pkt>>
          /\ UNCHANGED status
      BY <1>4, <1>5, <2>1, DatWritten, Singletons DEF Up
    <2>3. Up(<<b.pkt>>, <<t>>, <<>>, <<t.pkt>>, <<>>, <<>>)'
      BY <1>2, <1>5, <2>2 DEF Up
    <2> QED  BY <1>1, <1>3, <2>2, <2>3 DEF Chased
  <1>6. CASE Up(<<>>, <<b, t>>, <<t, b>>, <<>>, <<>>, <<>>)
    <2>1. Queued(t) /\ Head(reqWrites) = t /\ Tail(reqWrites) = <<b>>
      BY <1>6, IsQueued, Pairs DEF Up
    <2>2. /\ requests' = <<b, t>> /\ reqWrites' = <<b>> /\ p2t' = <<t.pkt>>
          /\ UNCHANGED status
      BY <1>4, <1>6, <2>1, DatWritten, Singletons DEF Up
    <2>3. Up(<<>>, <<b, t>>, <<b>>, <<t.pkt>>, <<>>, <<>>)'
      BY <1>2, <1>6, <2>2 DEF Up
    <2> QED  BY <1>1, <1>3, <2>2, <2>3 DEF Chased
  <1>7. ASSUME requests = <<b, t>>, reqWrites = <<b>>
        PROVE  /\ requests' = <<t>> /\ reqWrites' = <<>>
               /\ p2t' = Append(p2t, b.pkt) /\ UNCHANGED status
    <2>1. Head(reqWrites) = b /\ Tail(reqWrites) = <<>>  BY <1>7, Singletons
    <2>2. Len(requests) = 2 /\ requests[1] = b /\ Tail(requests) = <<t>>
          /\ requests # <<>>
      BY <1>7, Pairs
    <2>3. Queued(b)
      <3>1. 1 \in 1..Len(requests)  BY <2>2
      <3> QED  BY <2>2, <3>1 DEF Queued
    <2>4. b.pkt.type = "brk"  BY <1>1 DEF Break
    <2>5. requests' = Tail(requests) /\ UNCHANGED status
      BY <2>1, <2>2, <2>3, <2>4 DEF WriteRequestDone, Completed
    <2> QED  BY <2>1, <2>2, <2>5 DEF WriteRequestDone
  <1>8. CASE Up(<<>>, <<b, t>>, <<b>>, <<t.pkt>>, <<>>, <<>>)
    <2>1. /\ requests' = <<t>> /\ reqWrites' = <<>> /\ UNCHANGED status
          /\ p2t' = <<t.pkt, b.pkt>>
      BY <1>7, <1>8, Pairs DEF Up
    <2>2. Up(<<>>, <<t>>, <<>>, <<t.pkt, b.pkt>>, <<>>, <<>>)'
      BY <1>2, <1>8, <2>1 DEF Up
    <2> QED  BY <1>1, <1>3, <2>1, <2>2 DEF Chased
  <1>9. CASE Up(<<>>, <<b, t>>, <<b>>, <<>>, <<t.pkt>>, <<>>)
    <2>1. /\ requests' = <<t>> /\ reqWrites' = <<>> /\ UNCHANGED status
          /\ p2t' = <<b.pkt>>
      BY <1>7, <1>9, Singletons DEF Up
    <2>2. Up(<<>>, <<t>>, <<>>, <<b.pkt>>, <<t.pkt>>, <<>>)'
      BY <1>2, <1>9, <2>1 DEF Up
    <2> QED  BY <1>1, <1>3, <2>1, <2>2 DEF Chased
  <1> QED  BY <1>1, <1>5, <1>6, <1>8, <1>9

LEMMA WriteRequestRounds ==
  ASSUME TypeOK, Round, WriteRequestDone, UNCHANGED <<clientVars, targetVars>>
  PROVE  Round'
  <1>1. /\ status = "ok" /\ UNCHANGED <<ackMode, stopReply, responses, p2c>>
        /\ UNCHANGED <<running, tgtAck, unacked, broke, waiting, cliAck>>
    BY DEF WriteRequestDone, clientVars, targetVars
  <1>2. Modes'  BY <1>1, ModesStill DEF Round
  <1>3. Resting => Resting'
    BY <1>1, FreeWritten DEF Resting, Down
  <1>4. ASSUME NEW w, Command(w), Stage(w) PROVE Command(w)' /\ Stage(w)'
    <2>1. Command(w)'  BY <1>1, <1>4 DEF Command
    <2>2. Settled(w) => Settled(w)'
      BY <1>1, FreeWritten DEF Settled, Down, Spent, AnswerTo
    <2>3. ~Thrown(w)  BY <1>1 DEF Thrown
    <2>4. Fresh(w) => Fresh(w)'  BY <1>1, FreshWritten
    <2>5. ASSUME NEW t, Underway(w, t) PROVE Underway(w, t)'
      <3>1. reqWrites # <<>>  BY DEF WriteRequestDone
      <3>2. Asked(w, t) /\ Down(<<>>, <<>>) /\ (Sending(w, t) \/ Chased(t))
        BY <2>5, <3>1 DEF Underway, Runs, Returned, Up
      <3>3. Asked(w, t)' /\ Down(<<>>, <<>>)'
        BY <1>1, <3>2 DEF Asked, Spent, Down
      <3>4. (Sending(w, t)' \/ Chased(t)') /\ UNCHANGED status
        BY <1>1, <1>4, <3>2, SendingWritten, ChasedWritten
      <3> QED  BY <1>1, <3>3, <3>4 DEF Underway
    <2> QED  BY <1>4, <2>1, <2>2, <2>3, <2>4, <2>5 DEF Stage
  <1> QED  BY <1>1, <1>2, <1>3, <1>4 DEF Round

LEMMA WriteResponseRounds ==
  ASSUME Round, WriteResponseDone, UNCHANGED <<clientVars, targetVars>>
  PROVE  Round'
  <1>1. /\ status = "ok" /\ responses # <<>> /\ responses' = Tail(responses)
        /\ p2c' = Append(p2c, Head(responses).pkt)
        /\ UNCHANGED <<requests, reqWrites, ackMode, stopReply, status, c2p, p2t, t2p>>
        /\ UNCHANGED <<running, tgtAck, unacked, broke, waiting, cliAck>>
    BY DEF WriteResponseDone, clientVars, targetVars
  <1>2. Modes'  BY <1>1, ModesStill DEF Round
  <1>3. ~Resting /\ \A w : ~Fresh(w) /\ ~Thrown(w)
    BY <1>1 DEF Resting, Fresh, Thrown, Down
  <1>4. ASSUME NEW w, Command(w), Stage(w) PROVE Command(w)' /\ Stage(w)'
    <2>1. Command(w)'  BY <1>1, <1>4 DEF Command
    <2>2. PICK a : a = Ext(Ack(w.tag)) /\ a.pkt = Ack(w.tag)
      <3>1. Ext(Ack(w.tag)).pkt = Ack(w.tag)  BY DEF Ext
      <3> QED  BY <3>1
    <2>3. ASSUME Settled(w) PROVE Settled(w)'
      <3>1. Free'  BY <1>1, <2>3 DEF Settled, Free, Up
      <3>2. PICK d : /\ AnswerTo(w, d)
                     /\ \/ Down(<<d>>, <<>>)
                        \/ /\ unacked = w.tag[1]
                           /\ \/ Down(<<a, d>>, <<>>)
                              \/ Down(<<d>>, <<Ack(w.tag)>>)
        BY <1>1, <2>2, <2>3 DEF Settled, Down
      <3>3. AnswerTo(w, d)'  BY <1>1, <3>2 DEF AnswerTo
      <3>4. Down(<<d>>, <<>>) => Down(<<>>, <<d.pkt>>)'
        BY <1>1, Singletons DEF Down
      <3>5. Down(<<a, d>>, <<>>) => Down(<<d>>, <<Ack(w.tag)>>)'
        BY <1>1, <2>2, Singletons, Pairs DEF Down
      <3>6. Down(<<d>>, <<Ack(w.tag)>>) => Down(<<>>, <<Ack(w.tag), d.pkt>>)'
        BY <1>1, Singletons, Pairs DEF Down
      <3>7. status' = "ok" /\ (w.kind = "stop" => Spent')
        BY <1>1, <2>3 DEF Settled, Spent
      <3> QED
        BY <1>1, <3>1, <3>2, <3>3, <3>4, <3>5, <3>6, <3>7 DEF Settled
    <2>4. ASSUME NEW t, Underway(w, t) PROVE Underway(w, t)'
      <3>1. ~Down(<<>>, <<>>)  BY <1>1 DEF Down
      <3>2. Returned(w, t) /\ Asked(w, t)  BY <2>4, <3>1 DEF Underway
      <3>3. PICK y : /\ ReplyTo(t, y) /\ Up(<<>>, <<t>>, <<>>, <<>>, <<>>, <<y>>)
                     /\ ~t.internal /\ unacked = w.tag[1] /\ Down(<<a>>, <<>>)
        BY <1>1, <2>2, <3>2 DEF Returned, Down
      <3>4. Down(<<>>, <<Ack(w.tag)>>)'
        BY <1>1, <2>2, <3>3, Singletons DEF Down
      <3>5. Up(<<>>, <<t>>, <<>>, <<>>, <<>>, <<y>>)' /\ ReplyTo(t, y)'
        BY <1>1, <3>3 DEF Up, ReplyTo
      <3>6. Returned(w, t)'
        BY <1>1, <3>2, <3>3, <3>4, <3>5 DEF Returned, Spent
      <3>7. Asked(w, t)'  BY <1>1, <3>2 DEF Asked, Spent
      <3> QED  BY <1>1, <3>6, <3>7 DEF Underway
    <2> QED  BY <1>3, <1>4, <2>1, <2>3, <2>4 DEF Stage
  <1> QED  BY <1>1, <1>2, <1>3, <1>4 DEF Round

-----------------------------------------------------------------------------
(* The client.                                                              *)
Asks ==   \* a command, or a packet that needs no reply
  /\ \/ \E w : waiting = <<>> /\ waiting' = <<w>> /\ w.tag[1] = sent + 1
     \/ UNCHANGED waiting
  /\ sent' = sent + 1 /\ UNCHANGED got

Answers ==   \* a step in which the oldest command gets its own answer
  /\ \E w : waiting = <<w>> /\ got' = w.tag[1]
  /\ waiting' = <<>> /\ sent' \in {sent, sent + 1}

Says == Asks \/ Answers \/ UNCHANGED <<waiting, sent, got>>

LEMMA CommandSent ==
  ASSUME TypeOK, Orderly, Round, NEW k \in Kinds, SendCommand(k)
  PROVE  Round' /\ Asks
  <1>1. PICK w : w = Dat(k, <<sent + 1, 0>>)  OBVIOUS
  <1>2. /\ waiting = <<>> /\ waiting' = <<w>> /\ sent' = sent + 1 /\ UNCHANGED got
        /\ c2p' = Append(c2p, w)
        /\ UNCHANGED <<requests, reqWrites, responses, ackMode, stopReply, status,
                       p2c, p2t, t2p, running, tgtAck, broke, cliAck>>
        /\ unacked' = IF cliAck THEN sent + 1 ELSE 0
    <2>1. /\ Len(waiting) < 1 /\ waiting \in Seq(Packet)
          /\ waiting' = Append(waiting, w)
      BY <1>1 DEF SendCommand, Orderly, TypeOK
    <2>2. waiting = <<>>  BY <2>1, AtMostOne, Singletons
    <2>3. waiting' = <<w>>  BY <2>1, <2>2, Singletons
    <2> QED  BY <1>1, <2>2, <2>3 DEF SendCommand, ClientToProxy, queues, targetVars
  <1>3. Resting /\ Modes
    BY <1>2, Singletons DEF Round
  <1>4. w \in Packet /\ w.type = "dat" /\ w.kind \in Kinds /\ w.tag = <<sent + 1, 0>>
        /\ w.tag[1] = sent + 1 /\ sent + 1 # 0
    <2>1. sent \in Nat  BY DEF TypeOK
    <2>2. <<sent + 1, 0>> \in Nat \X Nat  BY <2>1
    <2> QED  BY <1>1, <2>1, <2>2, MakePacket, SessionAssumption DEF Dat, Requested
  <1>5. Command(w)'  BY <1>2, <1>3, <1>4 DEF Command, Resting
  <1>6. PICK c \in Seq(Plus), p \in Seq(Plus), v \in Seq(PlusT) :
          Up(c, v, v, p, <<>>, <<>>)
    BY <1>3 DEF Resting, Free
  <1>7. Up(Append(c, w), v, v, p, <<>>, <<>>)'  BY <1>2, <1>6 DEF Up
  <1>8. tgtAck' => unacked' = w.tag[1]
    BY <1>2, <1>3, <1>4 DEF Modes, AckOrder
  <1>9. Down(<<>>, <<>>)' /\ status' = "ok"  BY <1>2, <1>3 DEF Resting, Down
  <1>10. Fresh(w)'  BY <1>7, <1>8, <1>9 DEF Fresh
  <1>11. Modes'  BY <1>2, <1>3 DEF Modes, AckOrder
  <1> QED  BY <1>2, <1>4, <1>5, <1>10, <1>11 DEF Round, Stage, Asks

LEMMA BreakSent ==
  ASSUME TypeOK, Orderly, Round, SendBreak
  PROVE  Round' /\ Asks
  <1>1. PICK b : b = Ext(Brk(<<sent + 1, 0>>))  OBVIOUS
  <1>2. /\ b.pkt = Brk(<<sent + 1, 0>>) /\ b.pkt \in Packet /\ b.pkt.type = "brk"
        /\ b.pkt.kind = "none" /\ b = Ext(b.pkt)
    <2>1. <<sent + 1, 0>> \in Nat \X Nat  BY DEF TypeOK
    <2> QED  BY <1>1, <2>1, MakePacket DEF Ext, Brk
  <1>3. /\ c2p' = Append(c2p, b.pkt) /\ broke' /\ ~broke /\ AwaitsStop
        /\ sent' = sent + 1 /\ UNCHANGED <<waiting, got>>
        /\ UNCHANGED <<requests, reqWrites, responses, ackMode, stopReply, status,
                       p2c, p2t, t2p, running, tgtAck, cliAck, unacked>>
    BY <1>2 DEF SendBreak, ClientToProxy, queues, targetVars
  <1>4. MaxBreaks # 0 /\ ~StartAck /\ ~Spent
    BY <1>3 DEF SendBreak, TypeOK, Orderly, Spent
  <1>5. Break(b)'  BY <1>2, <1>3 DEF Break
  <1>6. PICK w : waiting = <<w>> /\ Command(w) /\ Stage(w) /\ w.kind = "stop"
    <2>1. waiting # <<>>
      <3>1. Len(<<>>) = 0  OBVIOUS
      <3> QED  BY <1>3, <3>1 DEF AwaitsStop
    <2>2. PICK w : waiting = <<w>> /\ Command(w) /\ Stage(w)
      BY <2>1 DEF Round, Resting
    <2>3. w.kind = "stop"
      <3>1. Len(waiting) = 1 /\ waiting[1] = w  BY <2>2, Singletons
      <3>2. \A i \in 1..1 : i = 1  OBVIOUS
      <3> QED  BY <1>3, <3>1, <3>2 DEF AwaitsStop
    <2> QED  BY <2>2, <2>3
  <1>7. Command(w)'  BY <1>3, <1>6 DEF Command
  <1>8. Modes'  BY <1>3, <1>4 DEF Round, Modes, AckOrder
  <1>9. \A s \in Seq(Plus) : s = <<>>  BY <1>4, NoPlus
  <1>10. \A s \in Seq(PlusT) : s = <<>>  BY <1>4, NoPlus
  <1>11. ~Settled(w) /\ ~Thrown(w) /\ ~\E a : Break(a)
    BY <1>3, <1>4, <1>6 DEF Settled, Thrown, Break
  <1>12. ASSUME Fresh(w) PROVE Fresh(w)'
    <2>1. Up(<<w>>, <<>>, <<>>, <<>>, <<>>, <<>>)
      <3>1. PICK c \in Seq(Plus), p \in Seq(Plus), v \in Seq(PlusT) :
              Up(Append(c, w), v, v, p, <<>>, <<>>)
        BY <1>11, <1>12 DEF Fresh
      <3>2. c = <<>> /\ p = <<>> /\ v = <<>>  BY <1>9, <1>10
      <3> QED  BY <3>1, <3>2, Singletons
    <2>2. Up(<<w, b.pkt>>, <<>>, <<>>, <<>>, <<>>, <<>>)'
      BY <1>3, <2>1, Pairs DEF Up
    <2>3. Down(<<>>, <<>>)' /\ status' = "ok" /\ (tgtAck' => unacked' = w.tag[1])
      BY <1>3, <1>12 DEF Fresh, Down
    <2> QED  BY <1>5, <1>6, <2>2, <2>3 DEF Fresh
  <1>13. ASSUME NEW t, Underway(w, t) PROVE Underway(w, t)'
    <2>1. Down(<<>>, <<>>) /\ (Sending(w, t) \/ Runs(t)) /\ status = "ok" /\ Asked(w, t)
      BY <1>4, <1>6, <1>11, <1>13 DEF Underway, Returned, Chased
    <2>2. t = Internal(w) /\ t.pkt.kind = "stop"
      <3>1. t = Internal(w)  BY <1>4, <1>6, <2>1 DEF Asked
      <3> QED  BY <1>6, <3>1 DEF Internal
    <2>3. Asked(w, t)'  BY <1>6, <2>2 DEF Asked
    <2>4. \/ Up(<<>>, <<t>>, <<t>>, <<>>, <<>>, <<>>)
          \/ Up(<<>>, <<t>>, <<>>, <<t.pkt>>, <<>>, <<>>)
          \/ Up(<<>>, <<t>>, <<>>, <<>>, <<t.pkt>>, <<>>)
      <3>1. CASE Runs(t)  BY <1>4, <3>1 DEF Runs
      <3>2. ASSUME NEW p \in Seq(Plus), NEW v \in Seq(PlusT),
                   Up(<<>>, Append(v, t), Append(v, t), p, <<>>, <<>>)
            PROVE  Up(<<>>, <<t>>, <<t>>, <<>>, <<>>, <<>>)
        <4>1. p = <<>> /\ v = <<>>  BY <1>9, <1>10
        <4> QED  BY <3>2, <4>1, Singletons
      <3>3. ASSUME NEW p \in Seq(Plus),
                   Up(<<>>, <<t>>, <<>>, Append(p, t.pkt), <<>>, <<>>)
            PROVE  Up(<<>>, <<t>>, <<>>, <<t.pkt>>, <<>>, <<>>)
        <4>1. p = <<>>  BY <1>9
        <4> QED  BY <3>3, <4>1, Singletons
      <3> QED  BY <2>1, <3>1, <3>2, <3>3 DEF Sending
    <2>5. \/ Up(<<b.pkt>>, <<t>>, <<t>>, <<>>, <<>>, <<>>)'
          \/ Up(<<b.pkt>>, <<t>>, <<>>, <<t.pkt>>, <<>>, <<>>)'
          \/ Up(<<b.pkt>>, <<t>>, <<>>, <<>>, <<t.pkt>>, <<>>)'
      BY <1>3, <2>4, Singletons DEF Up
    <2>6. Chased(t)'  BY <1>5, <2>2, <2>5 DEF Chased
    <2>7. Down(<<>>, <<>>)' /\ status' = "ok"  BY <1>3, <2>1 DEF Down
    <2> QED  BY <2>3, <2>6, <2>7 DEF Underway
  <1>14. Stage(w)'  BY <1>6, <1>11, <1>12, <1>13 DEF Stage
  <1> QED  BY <1>3, <1>6, <1>7, <1>8, <1>14 DEF Round, Asks

LEMMA AckReceived ==
  ASSUME Round, ReceiveAck
  PROVE  Round' /\ UNCHANGED <<waiting, sent, got>>
  <1>1. /\ p2c # <<>> /\ p2c' = Tail(p2c) /\ Head(p2c).type # "dat"
        /\ unacked' = IF Head(p2c).type = "ack" THEN 0 ELSE unacked
        /\ UNCHANGED <<requests, reqWrites, responses, ackMode, stopReply, status,
                       c2p, p2t, t2p, running, tgtAck, cliAck, broke>>
        /\ UNCHANGED <<waiting, sent, got>>
    BY DEF ReceiveAck, queues, targetVars
  <1>2. Modes'  BY <1>1 DEF Round, Modes, AckOrder
  <1>3. PICK w : /\ waiting = <<w>> /\ Command(w)
                 /\ (\E t : Underway(w, t)) \/ Settled(w)
    BY <1>1 DEF Round, Resting, Stage, Fresh, Thrown, Down
  <1>4. Command(w)'  BY <1>1, <1>3 DEF Command
  <1>5. ASSUME NEW t, Underway(w, t) PROVE Underway(w, t)'
    <2>1. Returned(w, t) /\ Asked(w, t) /\ status = "ok"
      BY <1>1, <1>5 DEF Underway, Down
    <2>2. PICK y : /\ ReplyTo(t, y) /\ Up(<<>>, <<t>>, <<>>, <<>>, <<>>, <<y>>)
                   /\ Down(<<>>, <<Ack(w.tag)>>)
      BY <1>1, <2>1 DEF Returned, Down
    <2>3. Down(<<>>, <<>>)'  BY <1>1, <2>2, Singletons DEF Down
    <2>4. Up(<<>>, <<t>>, <<>>, <<>>, <<>>, <<y>>)' /\ ReplyTo(t, y)'
      BY <1>1, <2>2 DEF Up, ReplyTo
    <2>5. Returned(w, t)'  BY <1>1, <2>1, <2>3, <2>4 DEF Returned, Spent
    <2>6. Asked(w, t)'  BY <1>1, <2>1 DEF Asked, Spent
    <2> QED  BY <1>1, <2>1, <2>5, <2>6 DEF Underway
  <1>6. ASSUME Settled(w) PROVE Settled(w)'
    <2>1. Free'  BY <1>1, <1>6 DEF Settled, Free, Up
    <2>2. PICK d : /\ AnswerTo(w, d)
                   /\ \/ Down(<<>>, <<d.pkt>>) \/ Down(<<d>>, <<Ack(w.tag)>>)
                      \/ Down(<<>>, <<Ack(w.tag), d.pkt>>)
      BY <1>1, <1>6 DEF Settled, Down
    <2>3. ~Down(<<>>, <<d.pkt>>)
      BY <1>1, <2>2, Singletons DEF Down, AnswerTo
    <2>4. Down(<<d>>, <<>>)' \/ Down(<<>>, <<d.pkt>>)'
      <3>1. Down(<<d>>, <<Ack(w.tag)>>) => Down(<<d>>, <<>>)'
        BY <1>1, Singletons DEF Down
      <3>2. Down(<<>>, <<Ack(w.tag), d.pkt>>) => Down(<<>>, <<d.pkt>>)'
        BY <1>1, Pairs DEF Down
      <3> QED  BY <2>2, <2>3, <3>1, <3>2
    <2>5. AnswerTo(w, d)'  BY <1>1, <2>2 DEF AnswerTo
    <2> QED  BY <1>1, <1>6, <2>1, <2>4, <2>5 DEF Settled, Spent
  <1> QED  BY <1>1, <1>2, <1>3, <1>4, <1>5, <1>6 DEF Round, Stage

LEMMA ReplyReceived ==
  ASSUME TypeOK, Round, ReceiveReply
  PROVE  Round' /\ Answers
  <1>1. /\ p2c # <<>> /\ p2c' = Tail(p2c) /\ Head(p2c).type = "dat"
        /\ cliAck' = (cliAck /\ Head(p2c).kind # "OK")
        /\ UNCHANGED <<requests, reqWrites, responses, ackMode, stopReply, status,
                       p2t, t2p, running, tgtAck, unacked>>
    BY DEF ReceiveReply, queues, targetVars
  <1>2. PICK w : /\ waiting = <<w>> /\ Command(w)
                 /\ (\E t : Underway(w, t)) \/ Settled(w)
    BY <1>1 DEF Round, Resting, Stage, Fresh, Thrown, Down
  <1>3. Ack(w.tag).type = "ack"  BY DEF Ack
  <1>4. ASSUME NEW t PROVE ~Underway(w, t)
    <2>1. \A x : p2c = <<x>> => x.type = "dat"  BY <1>1, Singletons
    <2> QED  BY <1>1, <1>3, <2>1 DEF Underway, Returned, Down
  <1>5. PICK d : AnswerTo(w, d) /\ Down(<<>>, <<d.pkt>>)
    <2>1. \A x : /\ p2c = <<x>> => x.type = "dat"
                 /\ \A z : p2c = <<x, z>> => x.type = "dat"
      BY <1>1, Singletons, Pairs
    <2> QED  BY <1>1, <1>2, <1>3, <1>4, <2>1 DEF Settled, Down
  <1>6. Settled(w)  BY <1>2, <1>4
  <1>7. /\ Head(p2c) = d.pkt /\ p2c' = <<>> /\ Own(d.pkt) = w.tag[1]
        /\ waiting # <<>> /\ Tail(waiting) = <<>> /\ Head(waiting) = w
    <2>1. Own(d.pkt) = w.tag[1]
      <3>1. d.pkt.tag = <<w.tag[1], 0>>  BY <1>2, <1>5 DEF AnswerTo, Command
      <3>2. d.pkt.tag[1] = w.tag[1] /\ d.pkt.tag[2] = 0  BY <3>1
      <3> QED  BY <3>2 DEF Own
    <2> QED  BY <1>1, <1>2, <1>5, <2>1, Singletons DEF Down
  <1>8. waiting' = <<>> /\ got' = w.tag[1] /\ ~broke'
    BY <1>2, <1>7 DEF ReceiveReply, Command
  <1>9. Modes'
    BY <1>1, <1>5, <1>7, <1>8 DEF Round, Modes, AckOrder, AnswerTo
  <1>10. PICK c \in Seq(Plus), p \in Seq(Plus), v \in Seq(PlusT) :
           Up(c, v, v, p, <<>>, <<>>)
    BY <1>6 DEF Settled, Free
  <1>11. PICK e \in Seq(Plus) : c2p' = e
    <2>1. CASE ~cliAck  BY <1>10, <2>1 DEF ReceiveReply, Up
    <2>2. CASE cliAck
      <3>1. PICK a : a = Ack(<<sent + 1, 0>>)  OBVIOUS
      <3>2. <<sent + 1, 0>> \in Nat \X Nat  BY DEF TypeOK
      <3>3. a \in Packet /\ IsAck(a)  BY <3>1, <3>2, MakePacket DEF Ack, IsAck
      <3>4. a \in Plus  BY <2>2, <3>3 DEF Plus, Round, Modes
      <3>5. c2p' = Append(c, a)  BY <1>10, <2>2, <3>1 DEF ReceiveReply, Up
      <3> QED  BY <3>4, <3>5, AppendProperties
    <2> QED  BY <2>1, <2>2
  <1>12. Up(e, v, v, p, <<>>, <<>>)'  BY <1>1, <1>10, <1>11 DEF Up
  <1>13. Free'  BY <1>12 DEF Free
  <1>14. Down(<<>>, <<>>)' /\ status' = "ok"
    BY <1>1, <1>5, <1>6, <1>7 DEF Down, Settled
  <1>15. Resting'  BY <1>8, <1>13, <1>14 DEF Resting
  <1>16. sent' \in {sent, sent + 1}  BY DEF ReceiveReply
  <1>17. Answers  BY <1>2, <1>8, <1>16 DEF Answers
  <1> QED  BY <1>9, <1>15, <1>17 DEF Round

LEMMA ClientRounds ==
  ASSUME TypeOK, Orderly, Round, Client
  PROVE  Round' /\ Says
  <1>1. ~Retransmit
    BY DEF Retransmit, TypeOK, Orderly, Round, Modes
  <1>2. ~RefuseReply
    BY DEF RefuseReply, TypeOK, Orderly, Round, Modes
  <1> QED
    BY <1>1, <1>2, CommandSent, BreakSent, AckReceived, ReplyReceived
       DEF Client, Says

-----------------------------------------------------------------------------
(* The target.                                                              *)
LEMMA AskedType ==
  ASSUME NEW w, NEW t, Command(w), Asked(w, t)
  PROVE  t \in Transfer /\ t.pkt \in Packet
  <1>1. w \in Packet /\ w.tag[1] \in Nat  BY PacketFields DEF Command
  <1>2. t \in Transfer  BY <1>1, MakeTransfer, MakeMemRead DEF Asked
  <1> QED  BY <1>2, TransferFields

(* The target replies to t, behind a '+' where it acknowledges.             *)
LEMMA Replies ==
  ASSUME NEW w, NEW t, NEW k, Command(w), Asked(w, t),
         \/ k \in {"T", "other", "data"}
         \/ k = "OK" /\ t.pkt.kind = "noack" /\ ~tgtAck',
         w.kind = "stop" => Spent, Down(<<>>, <<>>), status = "ok",
         NEW y, y = Dat(k, t.pkt.tag),
         \/ Up(<<>>, <<t>>, <<>>, <<>>, <<>>, <<y>>)'
         \/ /\ Up(<<>>, <<t>>, <<>>, <<>>, <<>>, <<Ack(t.pkt.tag), y>>)'
            /\ ~t.internal => unacked = w.tag[1],
         UNCHANGED <<responses, p2c, status, stopReply, unacked, broke>>
  PROVE  Underway(w, t)'
  <1>1. t.pkt \in Packet  BY AskedType
  <1>2. Dat(k, t.pkt.tag) \in Packet
    BY <1>1, PacketFields, MakePacket DEF Replied
  <1>3. y \in Packet /\ y.type = "dat" /\ y.tag = t.pkt.tag /\ y.kind = k
    BY <1>2 DEF Dat
  <1>4. ReplyTo(t, y)'  BY <1>3 DEF ReplyTo
  <1>5. Down(<<>>, <<>>)' /\ status' = "ok" /\ (Spent => Spent')  BY DEF Down, Spent
  <1>6. Returned(w, t)'  BY <1>4, <1>5 DEF Returned
  <1>7. Asked(w, t)'  BY <1>5 DEF Asked
  <1> QED  BY <1>5, <1>6, <1>7 DEF Underway

(* The first packet on the way to the target, where it is a request.        *)
LEMMA RequestArrives ==
  ASSUME NEW w, Stage(w), p2t # <<>>, Head(p2t).type = "dat"
  PROVE  \E t : /\ Underway(w, t) /\ Down(<<>>, <<>>) /\ Head(p2t) = t.pkt
                /\ \/ /\ Up(<<>>, <<t>>, <<>>, <<t.pkt>>, <<>>, <<>>)
                      /\ tgtAck /\ ~t.internal => unacked = w.tag[1]
                   \/ Chased(t)
  <1>1. ASSUME NEW p \in Seq(Plus) PROVE p2t # p
    BY <1>1, HeadTailProperties DEF Plus, IsAck
  <1>2. ~Fresh(w) /\ ~Settled(w) /\ ~Thrown(w)
    BY <1>1 DEF Fresh, Settled, Thrown, Free, Up
  <1>3. PICK t : Underway(w, t)  BY <1>2 DEF Stage
  <1>4. Down(<<>>, <<>>) /\ (Sending(w, t) \/ Chased(t))
    BY <1>3 DEF Underway, Runs, Returned, Up
  <1>5. CASE Chased(t)
    <2>1. PICK b : /\ Break(b)
                   /\ \/ p2t = <<t.pkt>> \/ p2t = <<t.pkt, b.pkt>> \/ p2t = <<b.pkt>>
      BY <1>5 DEF Chased, Up
    <2>2. p2t # <<b.pkt>>  BY <2>1, Singletons DEF Break
    <2>3. Head(p2t) = t.pkt  BY <2>1, <2>2, Singletons, Pairs
    <2> QED  BY <1>3, <1>4, <1>5, <2>3
  <1>6. CASE Sending(w, t)
    <2>1. PICK p \in Seq(Plus) : Up(<<>>, <<t>>, <<>>, Append(p, t.pkt), <<>>, <<>>)
      BY <1>1, <1>6 DEF Sending, Up
    <2>2. p = <<>>  BY <2>1, Led DEF Up, Plus, IsAck
    <2>3. Up(<<>>, <<t>>, <<>>, <<t.pkt>>, <<>>, <<>>)  BY <2>1, <2>2, Singletons
    <2>4. Head(p2t) = t.pkt  BY <2>3, Singletons DEF Up
    <2> QED  BY <1>3, <1>4, <1>6, <2>3, <2>4 DEF Sending
  <1> QED  BY <1>4, <1>5, <1>6

LEMMA StopAccepted ==
  ASSUME Modes, NEW w, NEW t, Underway(w, t), Chased(t), running = <<>>,
         p2t # <<>>, p2t' = Tail(p2t), running' = <<t.pkt>>, ~tgtAck => UNCHANGED t2p,
         Head(p2t) = t.pkt,
         UNCHANGED <<requests, reqWrites, responses, c2p, p2c, status, stopReply, broke>>
  PROVE  Underway(w, t)'
  <1>1. PICK b : /\ Break(b) /\ t.pkt.kind = "stop"
                 /\ \/ Up(<<b.pkt>>, <<t>>, <<>>, <<t.pkt>>, <<>>, <<>>)
                    \/ Up(<<>>, <<b, t>>, <<b>>, <<t.pkt>>, <<>>, <<>>)
                    \/ Up(<<>>, <<t>>, <<>>, <<t.pkt, b.pkt>>, <<>>, <<>>)
    <2>1. \A x : <<x>> # <<>>  BY Singletons
    <2> QED  BY <2>1 DEF Chased, Up
  <1>2. ~tgtAck  BY <1>1 DEF Break, Modes, AckOrder
  <1>3. t2p' = t2p  BY <1>2
  <1>4. \/ Up(<<b.pkt>>, <<t>>, <<>>, <<>>, <<t.pkt>>, <<>>)'
        \/ Up(<<>>, <<b, t>>, <<b>>, <<>>, <<t.pkt>>, <<>>)'
        \/ Up(<<>>, <<t>>, <<>>, <<b.pkt>>, <<t.pkt>>, <<>>)'
    <2>1. CASE Up(<<b.pkt>>, <<t>>, <<>>, <<t.pkt>>, <<>>, <<>>)
      BY <1>3, <2>1, Singletons DEF Up
    <2>2. CASE Up(<<>>, <<b, t>>, <<b>>, <<t.pkt>>, <<>>, <<>>)
      BY <1>3, <2>2, Singletons DEF Up
    <2>3. CASE Up(<<>>, <<t>>, <<>>, <<t.pkt, b.pkt>>, <<>>, <<>>)
      BY <1>3, <2>3, Pairs DEF Up
    <2> QED  BY <1>1, <2>1, <2>2, <2>3
  <1>5. Break(b)'  BY <1>1 DEF Break
  <1>6. Chased(t)'  BY <1>1, <1>4, <1>5 DEF Chased
  <1>7. Asked(w, t)' /\ Down(<<>>, <<>>)' /\ status' = "ok"
    <2>1. Down(<<>>, <<>>)  BY <1>1 DEF Underway, Returned, Up
    <2> QED  BY <2>1 DEF Underway, Asked, Spent, Down
  <1> QED  BY <1>6, <1>7 DEF Underway

LEMMA AcceptRounds ==
  ASSUME Round, TargetAccept
  PROVE  Round'
  <1>1. /\ p2t # <<>> /\ running = <<>> /\ Head(p2t).type = "dat" /\ p2t' = Tail(p2t)
        /\ UNCHANGED <<requests, reqWrites, responses, c2p, p2c, status, ackMode,
                       stopReply, unacked, broke, waiting, cliAck>>
    BY DEF TargetAccept, queues, clientVars
  <1>2. Modes /\ (tgtAck' => tgtAck) /\ (tgtAck => StartAck)
    <2>1. tgtAck' => tgtAck  BY DEF TargetAccept
    <2> QED  BY <2>1 DEF Round, Modes, AckOrder
  <1>3. ~Resting
    <2>1. ASSUME NEW p \in Seq(Plus) PROVE p2t # p
      BY <1>1, <2>1, HeadTailProperties DEF Plus, IsAck
    <2> QED  BY <2>1 DEF Resting, Free, Up
  <1>4. PICK w : waiting = <<w>> /\ Command(w) /\ Stage(w)  BY <1>3 DEF Round
  <1>5. PICK t : /\ Underway(w, t) /\ Down(<<>>, <<>>) /\ Head(p2t) = t.pkt
                 /\ \/ /\ Up(<<>>, <<t>>, <<>>, <<t.pkt>>, <<>>, <<>>)
                       /\ tgtAck /\ ~t.internal => unacked = w.tag[1]
                    \/ Chased(t)
    BY <1>1, <1>4, RequestArrives
  <1>6. Asked(w, t) /\ status = "ok"  BY <1>5 DEF Underway
  <1>7. Underway(w, t)'
    <2>1. CASE Chased(t)
      <3>1. t.pkt.kind = "stop"  BY <2>1 DEF Chased
      <3>2. running' = <<t.pkt>> /\ (~tgtAck => UNCHANGED t2p)
        BY <1>5, <3>1 DEF TargetAccept
      <3> QED  BY <1>1, <1>2, <1>5, <2>1, <3>2, StopAccepted
    <2>2. CASE /\ Up(<<>>, <<t>>, <<>>, <<t.pkt>>, <<>>, <<>>)
               /\ tgtAck /\ ~t.internal => unacked = w.tag[1]
      <3>1. p2t' = <<>> /\ t2p = <<>>  BY <1>1, <2>2, Singletons DEF Up
      <3>2. CASE /\ t.pkt.kind = "stop" /\ running' = <<t.pkt>>
                 /\ t2p' = IF tgtAck THEN Append(t2p, Ack(t.pkt.tag)) ELSE t2p
        <4>1. \/ Up(<<>>, <<t>>, <<>>, <<>>, <<t.pkt>>, <<>>)'
              \/ StartAck /\ Up(<<>>, <<t>>, <<>>, <<>>, <<t.pkt>>, <<Ack(t.pkt.tag)>>)'
          BY <1>1, <1>2, <2>2, <3>1, <3>2, Singletons DEF Up
        <4>2. Runs(t)'  BY <3>2, <4>1 DEF Runs
        <4>3. Asked(w, t)' /\ Down(<<>>, <<>>)'
          BY <1>1, <1>5, <1>6 DEF Asked, Spent, Down
        <4> QED  BY <1>1, <1>6, <4>2, <4>3 DEF Underway
      <3>3. ASSUME NEW k, Reply(k, t.pkt), UNCHANGED running, t.pkt.kind # "stop",
                   \/ k = "data"
                   \/ k = "OK" /\ t.pkt.kind = "noack" /\ ~tgtAck'
            PROVE  Underway(w, t)'
        <4>1. PICK y : y = Dat(k, t.pkt.tag)  OBVIOUS
        <4>2. t2p' = IF tgtAck THEN <<Ack(t.pkt.tag), y>> ELSE <<y>>
          <5>1. t2p' = (IF tgtAck THEN <<Ack(t.pkt.tag)>> ELSE <<>>) \o <<y>>
            BY <3>1, <3>3, <4>1, Singletons DEF Reply
          <5>2. <<>> \o <<y>> = <<y>>  OBVIOUS
          <5> QED  BY <5>1, <5>2, Pairs
        <4>3. \/ Up(<<>>, <<t>>, <<>>, <<>>, <<>>, <<y>>)'
              \/ tgtAck /\ Up(<<>>, <<t>>, <<>>, <<>>, <<>>, <<Ack(t.pkt.tag), y>>)'
          BY <1>1, <2>2, <3>1, <3>3, <4>2 DEF Up
        <4>4. w.kind = "stop" => Spent
          BY <1>4, <1>6, <3>3, AskedIs
        <4> QED  BY <1>1, <1>4, <1>5, <1>6, <2>2, <3>3, <4>1, <4>3, <4>4, Replies
      <3> QED  BY <1>5, <3>2, <3>3 DEF TargetAccept
    <2> QED  BY <1>5, <2>1, <2>2
  <1>8. Modes'  BY <1>1, <1>2 DEF Modes, AckOrder
  <1>9. Command(w)'  BY <1>1, <1>4 DEF Command
  <1> QED  BY <1>1, <1>4, <1>7, <1>8, <1>9 DEF Round, Stage

(* A signal on its way to a target that does not run is dropped.            *)
LEMMA FreeSignalled ==
  ASSUME Free, p2t # <<>>, p2t' = Tail(p2t), UNCHANGED <<running, t2p>>,
         UNCHANGED <<c2p, requests, reqWrites>>
  PROVE  Free'
  <1>1. PICK c \in Seq(Plus), p \in Seq(Plus), v \in Seq(PlusT) :
          Up(c, v, v, p, <<>>, <<>>)
    BY DEF Free
  <1>2. Tail(p) \in Seq(Plus)  BY <1>1, HeadTailProperties DEF Up
  <1>3. Up(c, v, v, Tail(p), <<>>, <<>>)'  BY <1>1 DEF Up
  <1> QED  BY <1>2, <1>3 DEF Free

LEMMA SignalRounds ==
  ASSUME Round, TargetSignal
  PROVE  Round'
  <1>1. /\ p2t # <<>> /\ Head(p2t).type # "dat" /\ p2t' = Tail(p2t)
        /\ UNCHANGED <<requests, reqWrites, responses, c2p, p2c, status, ackMode,
                       stopReply, tgtAck, unacked, broke, waiting, cliAck>>
    BY DEF TargetSignal, queues, clientVars
  <1>2. Modes'  BY <1>1, ModesStill DEF Round
  <1>3. ASSUME Head(p2t).type = "ack" PROVE UNCHANGED <<running, t2p>>
    BY <1>3 DEF TargetSignal
  <1>4. ASSUME NEW p \in Seq(Plus), p # <<>>
        PROVE  Head(p).type = "ack" /\ Tail(p) \in Seq(Plus)
    BY <1>4, HeadTailProperties DEF Plus, IsAck
  <1>5. Free => Free'
    BY <1>1, <1>3, <1>4, FreeSignalled DEF Free, Up
  <1>6. Resting => Resting'  BY <1>1, <1>5 DEF Resting, Down
  <1>7. ASSUME NEW w, Command(w), Stage(w) PROVE Command(w)' /\ Stage(w)'
    <2>1. Command(w)'  BY <1>1, <1>7 DEF Command
    <2>2. Settled(w) => Settled(w)'
      BY <1>1, <1>5 DEF Settled, Down, Spent, AnswerTo
    <2>3. ~Thrown(w)  BY <1>1 DEF Thrown, Up
    <2>4. ASSUME Fresh(w) PROVE Fresh(w)'
      <3>1. PICK c \in Seq(Plus), p \in Seq(Plus), v \in Seq(PlusT) :
              Up(Append(c, w), v, v, p, <<>>, <<>>)
        BY <1>1, <2>4 DEF Fresh, Up
      <3>2. p # <<>> /\ p2t = p  BY <1>1, <3>1 DEF Up
      <3>3. Up(Append(c, w), v, v, Tail(p), <<>>, <<>>)'
        BY <1>1, <1>3, <1>4, <3>1, <3>2 DEF Up
      <3>4. Down(<<>>, <<>>)' /\ status' = "ok" /\ (tgtAck' => unacked' = w.tag[1])
        BY <1>1, <2>4 DEF Fresh, Down
      <3> QED  BY <1>4, <3>2, <3>3, <3>4 DEF Fresh
    <2>5. ASSUME NEW t, Underway(w, t) PROVE Underway(w, t)'
      <3>1. /\ Down(<<>>, <<>>) /\ (Sending(w, t) \/ Chased(t)) /\ Asked(w, t)
            /\ status = "ok"
        BY <1>1, <2>5 DEF Underway, Runs, Returned, Up
      <3>2. t.pkt.type = "dat"  BY <1>7, <3>1, AskedIs
      <3>3. Down(<<>>, <<>>)' /\ Asked(w, t)'
        BY <1>1, <3>1 DEF Down, Asked, Spent
      <3>4. CASE Sending(w, t)
        <4>0. tgtAck' /\ ~t.internal => unacked' = w.tag[1]
          BY <1>1, <3>4 DEF Sending
        <4>1. ASSUME NEW p \in Seq(Plus), NEW v \in Seq(PlusT),
                     Up(<<>>, Append(v, t), Append(v, t), p, <<>>, <<>>)
              PROVE  Sending(w, t)'
          <5>1. p # <<>> /\ p2t = p  BY <1>1, <4>1 DEF Up
          <5>2. Up(<<>>, Append(v, t), Append(v, t), Tail(p), <<>>, <<>>)'
            BY <1>1, <1>3, <1>4, <4>1, <5>1 DEF Up
          <5> QED  BY <1>4, <4>0, <5>1, <5>2 DEF Sending
        <4>2. ASSUME NEW p \in Seq(Plus),
                     Up(<<>>, <<t>>, <<>>, Append(p, t.pkt), <<>>, <<>>)
              PROVE  Sending(w, t)'
          <5>1. p # <<>> /\ Head(p2t) = Head(p) /\ Tail(p2t) = Append(Tail(p), t.pkt)
            BY <1>1, <3>2, <4>2, Led DEF Up
          <5>2. Up(<<>>, <<t>>, <<>>, Append(Tail(p), t.pkt), <<>>, <<>>)'
            BY <1>1, <1>3, <1>4, <4>2, <5>1 DEF Up
          <5> QED  BY <1>4, <4>0, <5>1, <5>2 DEF Sending
        <4>3. Sending(w, t)'  BY <3>4, <4>1, <4>2 DEF Sending
        <4> QED  BY <1>1, <3>1, <3>3, <4>3 DEF Underway
      <3>5. CASE Chased(t)
        <4>1. PICK b : /\ Break(b) /\ t.pkt.kind = "stop"
                       /\ \/ p2t = <<t.pkt>> \/ p2t = <<t.pkt, b.pkt>>
                          \/ Up(<<>>, <<t>>, <<>>, <<b.pkt>>, <<t.pkt>>, <<>>)
          BY <1>1, <3>5 DEF Chased, Up
        <4>2. Up(<<>>, <<t>>, <<>>, <<b.pkt>>, <<t.pkt>>, <<>>)
          BY <1>1, <3>2, <4>1, Singletons, Pairs
        <4>3. /\ Head(p2t) = b.pkt /\ p2t' = <<>> /\ running = <<t.pkt>> /\ t2p = <<>>
              /\ b.pkt.type = "brk" /\ running # <<>> /\ running[1] = t.pkt
          BY <1>1, <4>1, <4>2, Singletons DEF Up, Break
        <4>4. PICK k \in StopReplies : Halted(k)  BY <4>3 DEF TargetSignal
        <4>5. PICK y : y = Dat(k, t.pkt.tag)  OBVIOUS
        <4>6. t2p' = <<y>> /\ running' = <<>>
          BY <4>3, <4>4, <4>5, Singletons DEF Halted
        <4>7. Up(<<>>, <<t>>, <<>>, <<>>, <<>>, <<y>>)'
          BY <1>1, <4>2, <4>3, <4>6 DEF Up
        <4>8. Spent /\ k \in {"T", "other"}
          BY <4>1, SessionAssumption DEF Break, Spent
        <4> QED  BY <1>1, <1>7, <3>1, <4>5, <4>7, <4>8, Replies
      <3> QED  BY <3>1, <3>4, <3>5
    <2> QED  BY <1>7, <2>1, <2>2, <2>3, <2>4, <2>5 DEF Stage
  <1> QED  BY <1>1, <1>2, <1>6, <1>7 DEF Round

LEMMA HaltRounds ==
  ASSUME Orderly, Round, Halt
  PROVE  Round'
  <1>1. /\ running # <<>> /\ SelfStop
        /\ UNCHANGED <<requests, reqWrites, responses, c2p, p2c, p2t, status, ackMode,
                       stopReply, tgtAck, unacked, broke, waiting, cliAck>>
    BY DEF Halt, queues, clientVars
  <1>2. MaxBreaks = 0 /\ Spent /\ ~broke  BY <1>1 DEF Orderly, Spent, Round, Modes
  <1>3. Modes'  BY <1>1, ModesStill DEF Round
  <1>4. PICK w, t : waiting = <<w>> /\ Command(w) /\ Underway(w, t)
    BY <1>1 DEF Round, Resting, Stage, Fresh, Settled, Thrown, Free, Up
  <1>5. Runs(t) /\ Down(<<>>, <<>>) /\ Asked(w, t) /\ status = "ok"
    BY <1>1, <1>2, <1>4 DEF Underway, Sending, Chased, Break, Returned, Up
  <1>6. t.pkt.kind = "stop" /\ t.internal /\ running = <<t.pkt>> /\ running[1] = t.pkt
    <2>1. t.pkt.kind = "stop" /\ running = <<t.pkt>>  BY <1>5 DEF Runs, Up
    <2> QED  BY <1>4, <1>5, <2>1, AskedIs, Singletons
  <1>7. PICK k \in StopReplies : Halted(k)  BY DEF Halt
  <1>8. PICK y : y = Dat(k, t.pkt.tag)  OBVIOUS
  <1>9. t2p' = Append(t2p, y) /\ running' = <<>>
    BY <1>6, <1>7, <1>8 DEF Halted
  <1>10. \/ Up(<<>>, <<t>>, <<>>, <<>>, <<>>, <<y>>)'
         \/ Up(<<>>, <<t>>, <<>>, <<>>, <<>>, <<Ack(t.pkt.tag), y>>)'
    <2>1. CASE Up(<<>>, <<t>>, <<>>, <<>>, <<t.pkt>>, <<>>)
      BY <1>1, <1>9, <2>1, Singletons DEF Up
    <2>2. CASE Up(<<>>, <<t>>, <<>>, <<>>, <<t.pkt>>, <<Ack(t.pkt.tag)>>)
      BY <1>1, <1>9, <2>2, Pairs DEF Up
    <2> QED  BY <1>5, <2>1, <2>2 DEF Runs
  <1>11. k \in {"T", "other"}  BY SessionAssumption
  <1>12. Underway(w, t)'
    BY <1>1, <1>2, <1>4, <1>5, <1>6, <1>8, <1>10, <1>11, Replies
  <1>13. Command(w)'  BY <1>1, <1>4 DEF Command
  <1> QED  BY <1>1, <1>3, <1>4, <1>12, <1>13 DEF Round, Stage

LEMMA RoundStep ==
  ASSUME TypeOK, Orderly, Round, [Next]_vars
  PROVE  Round' /\ Says
  <1>1. CASE Proxy
    <2>1. UNCHANGED <<clientVars, targetVars>>  BY <1>1 DEF Proxy
    <2>2. UNCHANGED <<waiting, sent, got>>  BY <2>1 DEF clientVars
    <2> QED
      BY <1>1, <2>1, <2>2, ReadClientRounds, ReadTargetRounds, WriteRequestRounds,
         WriteResponseRounds
         DEF Proxy, ProxyStep, Says
  <1>2. CASE Client  BY <1>2, ClientRounds
  <1>3. CASE Target
    <2>1. UNCHANGED <<waiting, sent, got>>
      BY <1>3 DEF Target, TargetAccept, TargetRefuse, TargetSignal, Halt, clientVars
    <2>2. ~TargetRefuse
      BY DEF TargetRefuse, TypeOK, Orderly, Round, Modes, AckOrder
    <2> QED
      BY <1>3, <2>1, <2>2, AcceptRounds, SignalRounds, HaltRounds DEF Target, Says
  <1>4. CASE UNCHANGED vars
    BY <1>4, RoundStill DEF vars, clientVars, Says
  <1> QED  BY <1>1, <1>2, <1>3, <1>4 DEF Next

LEMMA RoundHolds == Orderly => (Spec => []Round)
  <1>1. Orderly /\ TypeOK /\ Round /\ [Next]_vars => Round'
    BY RoundStep
  <1>2. CASE Orderly
    BY <1>1, <1>2, RoundInit, TypeCorrect, PTL DEF Spec
  <1> QED  BY <1>2

-----------------------------------------------------------------------------
(* What the rounds say of the queue.                                        *)
LEMMA ReplyMeets ==
  ASSUME Round, t2p # <<>>
  PROVE  \E w, t : /\ waiting = <<w>> /\ Command(w) /\ Underway(w, t)
                   /\ requests = <<t>> /\ reqWrites = <<>> /\ Head(t2p).tag = t.pkt.tag
                   /\ Head(t2p).type = "dat" => running = <<>>
  <1>1. PICK w, t : waiting = <<w>> /\ Command(w) /\ Underway(w, t)
    BY DEF Round, Resting, Stage, Fresh, Settled, Thrown, Free, Up
  <1>2. Runs(t) \/ Returned(w, t)
    BY <1>1 DEF Underway, Sending, Chased, Up
  <1>3. Ack(t.pkt.tag).type = "ack" /\ Ack(t.pkt.tag).tag = t.pkt.tag  BY DEF Ack
  <1>4. CASE Runs(t)
    <2>1. Up(<<>>, <<t>>, <<>>, <<>>, <<t.pkt>>, <<Ack(t.pkt.tag)>>)
      BY <1>4 DEF Runs, Up
    <2> QED  BY <1>1, <1>3, <2>1, Singletons DEF Up
  <1>5. CASE Returned(w, t)
    <2>1. PICK y : /\ ReplyTo(t, y)
                   /\ \/ Up(<<>>, <<t>>, <<>>, <<>>, <<>>, <<Ack(t.pkt.tag), y>>)
                      \/ Up(<<>>, <<t>>, <<>>, <<>>, <<>>, <<y>>)
      BY <1>5 DEF Returned
    <2> QED  BY <1>1, <1>3, <2>1, Singletons, Pairs DEF Up, ReplyTo
  <1> QED  BY <1>2, <1>4, <1>5

LEMMA QueueShape ==
  ASSUME Round
  PROVE  \/ \E v \in Seq(PlusT) : requests = v /\ reqWrites = v
         \/ \E w, t : /\ waiting = <<w>> /\ Command(w) /\ Asked(w, t)
                      /\ \/ \E v \in Seq(PlusT) :
                              /\ requests = Append(v, t) /\ reqWrites = Append(v, t)
                              /\ running = <<>>
                         \/ requests = <<t>> /\ reqWrites = <<>>
                            /\ (t.pkt.kind # "stop" => running = <<>>)
                         \/ \E b : /\ Break(b) /\ t.pkt.kind = "stop"
                                   /\ requests = <<b, t>>
                                   /\ reqWrites = <<t, b>> \/ reqWrites = <<b>>
  <1>1. Free => \E v \in Seq(PlusT) : requests = v /\ reqWrites = v
    BY DEF Free, Up
  <1>2. \A w : Fresh(w) => \E v \in Seq(PlusT) : requests = v /\ reqWrites = v
    BY EmptyPlus DEF Fresh, Up
  <1>3. ASSUME NEW w, Command(w), Thrown(w)
        PROVE  /\ Asked(w, Internal(w)) /\ requests = <<Internal(w)>> /\ reqWrites = <<>>
               /\ running = <<>>
    BY <1>3 DEF Thrown, Asked, Up
  <1>4. ASSUME NEW w, NEW t, Underway(w, t)
        PROVE  /\ Asked(w, t)
               /\ \/ \E v \in Seq(PlusT) :
                       /\ requests = Append(v, t) /\ reqWrites = Append(v, t)
                       /\ running = <<>>
                  \/ requests = <<t>> /\ reqWrites = <<>>
                     /\ (t.pkt.kind # "stop" => running = <<>>)
                  \/ \E b : /\ Break(b) /\ t.pkt.kind = "stop"
                            /\ requests = <<b, t>>
                            /\ reqWrites = <<t, b>> \/ reqWrites = <<b>>
    <2>1. Append(<<>>, t) = <<t>>  BY Singletons
    <2>2. CASE Chased(t)
      BY <1>4, <2>1, <2>2, EmptyPlus DEF Underway, Chased, Up
    <2>3. CASE Sending(w, t) \/ Runs(t) \/ Returned(w, t)
      BY <1>4, <2>3 DEF Underway, Sending, Runs, Returned, Up
    <2> QED  BY <1>4, <2>2, <2>3 DEF Underway
  <1>5. CASE Resting  BY <1>1, <1>5 DEF Resting
  <1>6. ASSUME NEW w, waiting = <<w>>, Command(w), Settled(w) \/ Fresh(w)
        PROVE  \E v \in Seq(PlusT) : requests = v /\ reqWrites = v
    BY <1>1, <1>2, <1>6 DEF Settled
  <1>7. PICK w : Resting \/ (waiting = <<w>> /\ Command(w) /\ Stage(w))  BY DEF Round
  <1> QED  BY <1>3, <1>4, <1>5, <1>6, <1>7 DEF Stage

(* Where elements of the queue are found.                                   *)
LEMMA InAppended ==
  ASSUME NEW S, NEW v \in Seq(S), NEW x
  PROVE  /\ Len(v) \in Nat /\ Len(Append(v, x)) = Len(v) + 1
         /\ \A i \in 1..Len(v) : Append(v, x)[i] = v[i] /\ v[i] \in S
         /\ Append(v, x)[Len(v) + 1] = x
  <1>1. v \in Seq(S \cup {x}) /\ x \in S \cup {x} /\ Len(v) \in Nat
    BY LenProperties
  <1>2. \A i \in 1..Len(v) : v[i] \in S  BY ElementOfSeq
  <1> QED  BY <1>1, <1>2, AppendProperties

LEMMA InPair ==
  ASSUME NEW x, NEW y, NEW i \in 1..Len(<<x, y>>)
  PROVE  (i = 1 /\ <<x, y>>[i] = x) \/ (i = 2 /\ <<x, y>>[i] = y)
  <1>1. \A n \in 1..2 : n = 1 \/ n = 2  OBVIOUS
  <1> QED  BY <1>1, Pairs

LEMMA InSingle ==
  ASSUME NEW x, NEW i \in 1..Len(<<x>>)
  PROVE  i = 1 /\ <<x>>[i] = x
  <1>1. \A n \in 1..1 : n = 1  OBVIOUS
  <1> QED  BY <1>1, Singletons

LEMMA BuffersQueued ==
  ASSUME Round
  PROVE  \A i \in 1..Len(reqWrites) : \E j \in 1..Len(requests) :
           requests[j] = reqWrites[i]
  <1> SUFFICES ASSUME NEW i \in 1..Len(reqWrites)
               PROVE  \E j \in 1..Len(requests) : requests[j] = reqWrites[i]
    OBVIOUS
  <1>1. CASE requests = reqWrites  BY <1>1
  <1>2. CASE reqWrites = <<>>
    <2>1. Len(<<>>) = 0  OBVIOUS
    <2> QED  BY <1>2, <2>1
  <1>3. ASSUME NEW b, NEW t, requests = <<b, t>>, reqWrites = <<t, b>> \/ reqWrites = <<b>>
        PROVE  \E j \in 1..Len(requests) : requests[j] = reqWrites[i]
    <2>1. reqWrites[i] = b \/ reqWrites[i] = t
      BY <1>3, InPair, InSingle
    <2>2. 1 \in 1..Len(requests) /\ 2 \in 1..Len(requests)
          /\ requests[1] = b /\ requests[2] = t
      BY <1>3, Pairs
    <2> QED  BY <2>1, <2>2
  <1> QED  BY <1>1, <1>2, <1>3, QueueShape

(* A write that completes removes nothing but the signal it wrote.          *)
LEMMA WrittenKeeps ==
  ASSUME TypeOK, Round, WriteRequestDone,
         NEW i \in 1..Len(requests), requests[i].pkt.type = "dat"
  PROVE  /\ \E j \in 1..Len(requests') : requests'[j] = requests[i]
         /\ UNCHANGED status
  <1>1. reqWrites # <<>> /\ Completed(Head(reqWrites))  BY DEF WriteRequestDone
  <1>2. reqWrites \in Seq(Transfer) /\ requests \in Seq(Transfer)  BY DEF TypeOK
  <1>3. PICK h : h = Head(reqWrites) /\ h = reqWrites[1] /\ 1 \in 1..Len(reqWrites)
    BY <1>1, <1>2, EmptySeq, LenProperties
  <1>4. Queued(h)  BY <1>3, BuffersQueued DEF Queued
  <1>5. CASE UNCHANGED <<requests, status>>  BY <1>5
  <1>6. CASE h.pkt.type # "dat" /\ requests # <<>> /\ requests' = Tail(requests)
             /\ UNCHANGED status
    <2>1. Len(Tail(requests)) = Len(requests) - 1 /\ Len(requests) \in Nat
          /\ \A j \in 1..Len(Tail(requests)) : Tail(requests)[j] = requests[j + 1]
      BY <1>2, <1>6, HeadTailProperties, LenProperties
    <2>2. i # 1
      <3>1. CASE requests = reqWrites  BY <1>3, <1>6, <3>1
      <3>2. ASSUME NEW b, NEW w, NEW t, requests = <<b, t>>, Break(b)
            PROVE  i # 1
        <4>1. requests[1] = b  BY <3>2, Pairs
        <4> QED  BY <3>2, <4>1 DEF Break
      <3> QED  BY <1>1, <3>1, <3>2, QueueShape
    <2>3. i - 1 \in 1..Len(Tail(requests)) /\ Tail(requests)[i - 1] = requests[i]
      BY <2>1, <2>2
    <2> QED  BY <1>6, <2>3
  <1> QED  BY <1>1, <1>3, <1>4, <1>5, <1>6 DEF Completed

LEMMA ReadKeepsQueue ==
  ASSUME TypeOK, ReadClient, NEW i \in 1..Len(requests)
  PROVE  \E j \in 1..Len(requests') : requests'[j] = requests[i]
  <1>1. requests \in Seq(Transfer) /\ Len(requests) \in Nat
    BY LenProperties DEF TypeOK
  <1>2. CASE UNCHANGED requests  BY <1>2
  <1>3. ASSUME NEW t, requests' = Append(requests, t)
        PROVE  \E j \in 1..Len(requests') : requests'[j] = requests[i]
    <2>1. i \in 1..Len(requests') /\ requests'[i] = requests[i]
      BY <1>1, <1>3, InAppended
    <2> QED  BY <2>1
  <1>4. ASSUME NEW t, requests' = <<t>> \o requests
        PROVE  \E j \in 1..Len(requests') : requests'[j] = requests[i]
    <2>1. <<t>> \in Seq(Transfer \cup {t}) /\ requests \in Seq(Transfer \cup {t})
          /\ Len(<<t>>) = 1
      BY <1>1
    <2>2. i + 1 \in 1..Len(requests') /\ requests'[i + 1] = requests[i]
      BY <1>1, <1>4, <2>1, ConcatProperties
    <2> QED  BY <2>2
  <1>5. \A t : StartWrite(t) => \/ requests' = Append(requests, t)
                                \/ requests' = <<t>> \o requests
    BY DEF StartWrite, Enqueued
  <1>6. PICK p : Route(p)  BY DEF ReadClient
  <1> QED  BY <1>2, <1>3, <1>4, <1>5, <1>6 DEF Route, Respond

(* What becomes of the requests that are no signals.                        *)
LEMMA DatKept ==
  ASSUME TypeOK, Round, ReadClient \/ WriteRequestDone \/ UNCHANGED requests,
         NEW i \in 1..Len(requests), requests[i].pkt.type = "dat"
  PROVE  \E j \in 1..Len(requests') : requests'[j] = requests[i]
  <1>1. CASE UNCHANGED requests  BY <1>1
  <1> QED  BY <1>1, WrittenKeeps, ReadKeepsQueue

LEMMA QueueSteps ==
  ASSUME [Next]_vars
  PROVE  ReadTarget \/ ReadClient \/ WriteRequestDone \/ UNCHANGED requests
  <1>1. Client \/ Target \/ WriteResponseDone => UNCHANGED requests
    BY DEF Client, Target, SendCommand, SendBreak, Retransmit, ReceiveAck,
           ReceiveReply, RefuseReply, ClientToProxy, TargetAccept,
           TargetRefuse, TargetSignal, Halt, queues, WriteResponseDone
  <1>2. UNCHANGED vars => UNCHANGED requests  BY DEF vars, proxyVars, queues
  <1> QED  BY <1>1, <1>2 DEF Next, Proxy, ProxyStep

-----------------------------------------------------------------------------
(* Theorems of an orderly session.                                          *)

LEMMA OrderlyInvariant == Orderly => (Spec => [](TypeOK /\ Round))
  <1> QED  BY RoundHolds, TypeCorrect, PTL

(* With breaks or with acknowledges, too, every reply finds the request it  *)
(* answers at the front of the queue.                                       *)
THEOREM OrderlyReplies == Orderly => (Spec => []Matched)
  <1>1. Round => Matched
    <2> SUFFICES ASSUME Round, t2p # <<>>
                 PROVE  requests # <<>> /\ Head(requests).pkt.tag = Head(t2p).tag
      BY DEF Matched
    <2>1. PICK t : requests = <<t>> /\ Head(t2p).tag = t.pkt.tag  BY ReplyMeets
    <2> QED  BY <2>1, Singletons
  <1>2. CASE Orderly  BY <1>1, <1>2, RoundHolds, PTL
  <1> QED  BY <1>2

(* A write keeps its transfer, although a break is written last and queued  *)
(* first.                                                                   *)
THEOREM OrderlyBuffers == Orderly => (Spec => []BuffersAlive)
  <1>1. Round => BuffersAlive  BY BuffersQueued DEF BuffersAlive
  <1>2. CASE Orderly  BY <1>1, <1>2, RoundHolds, PTL
  <1> QED  BY <1>2

(* No handler takes the front of a queue that is empty.                     *)
THEOREM OrderlyDefined == Orderly => (Spec => [](Defined /\ FrontExists))
  <1>1. Round => Defined /\ FrontExists
    BY DEF Round, Resting, Stage, Fresh, Underway, Settled, Thrown, Defined, FrontExists
  <1>2. CASE Orderly  BY <1>1, <1>2, RoundHolds, PTL
  <1> QED  BY <1>2

(* A data request leaves the queue when the reply to it is read, never when *)
(* a write completes, its own or that of a signal queued with it.           *)
THEOREM OrderlyCleaning == Orderly => (Spec => DatCleanedByResponse)
  <1> DEFINE Cleaned ==
        \A i \in 1..Len(requests) :
          /\ requests[i].pkt.type = "dat"
          /\ \A j \in 1..Len(requests') : requests'[j] # requests[i]
          => /\ t2p # <<>> /\ t2p' = Tail(t2p)
             /\ Head(t2p).type = "dat"
             /\ Head(t2p).tag = requests[i].pkt.tag
  <1>1. ASSUME TypeOK, Round, [Next]_vars PROVE Cleaned
    <2> SUFFICES ASSUME NEW i \in 1..Len(requests), requests[i].pkt.type = "dat",
                        \A j \in 1..Len(requests') : requests'[j] # requests[i]
                 PROVE  /\ t2p # <<>> /\ t2p' = Tail(t2p)
                        /\ Head(t2p).type = "dat"
                        /\ Head(t2p).tag = requests[i].pkt.tag
      OBVIOUS
    <2>1. ReadTarget  BY <1>1, DatKept, QueueSteps
    <2>2. t2p # <<>> /\ t2p' = Tail(t2p)  BY <2>1 DEF ReadTarget
    <2>3. PICK t : requests = <<t>> /\ Head(t2p).tag = t.pkt.tag
      BY <1>1, <2>2, ReplyMeets
    <2>4. requests # <<>> /\ requests[i] = t  BY <2>3, Singletons, InSingle
    <2>5. Head(t2p).type = "dat"
      BY <2>1, <2>4 DEF ReadTarget, Acknowledge
    <2> QED  BY <2>2, <2>3, <2>4, <2>5
  <1>2. CASE Orderly
    <2>1. TypeOK /\ Round /\ [Next]_vars => [Cleaned]_vars  BY <1>1
    <2> QED  BY <1>2, <2>1, OrderlyInvariant, PTL DEF Spec, DatCleanedByResponse
  <1> QED  BY <1>2

(* Acknowledge mode ends at the target first, then at the proxy, then at    *)
(* the client.                                                              *)
THEOREM OrderlyModes == Orderly => (Spec => []AckOrder)
  <1>1. Round => AckOrder  BY DEF Round, Modes
  <1>2. CASE Orderly  BY <1>1, <1>2, RoundHolds, PTL
  <1> QED  BY <1>2

(* Every '+' the client is sent is for its own command: the proxy keeps     *)
(* those for its own requests to itself.                                    *)
THEOREM OrderlyAcks == Orderly => (Spec => []AcksForCommands)
  <1>1. ASSUME Round PROVE AcksForCommands
    <2>1. ASSUME NEW w, Command(w), NEW i \in 1..Len(p2c), p2c[i].type = "ack",
                 unacked = w.tag[1], NEW d, d.pkt.type = "dat",
                 p2c = <<Ack(w.tag)>> \/ p2c = <<Ack(w.tag), d.pkt>>
          PROVE  p2c[i].tag = <<unacked, 0>>
      <3>1. p2c[i] = Ack(w.tag)  BY <2>1, InSingle, InPair
      <3> QED  BY <2>1, <3>1 DEF Ack, Command
    <2>2. ASSUME NEW p, p2c = <<p>>, p.type = "dat"
          PROVE  AcksForCommands
      BY <2>2, InSingle DEF AcksForCommands
    <2>3. CASE p2c = <<>>
      <3>1. Len(<<>>) = 0  OBVIOUS
      <3> QED  BY <2>3, <3>1 DEF AcksForCommands
    <2>4. ASSUME NEW w, Command(w), Settled(w) PROVE AcksForCommands
      <3>1. PICK d : /\ AnswerTo(w, d)
                     /\ \/ p2c = <<>> \/ p2c = <<d.pkt>>
                        \/ /\ unacked = w.tag[1]
                           /\ p2c = <<Ack(w.tag)>> \/ p2c = <<Ack(w.tag), d.pkt>>
        BY <2>4 DEF Settled, Down
      <3> QED  BY <2>1, <2>2, <2>3, <2>4, <3>1 DEF AcksForCommands, AnswerTo
    <2>5. ASSUME NEW w, NEW t, Command(w), Underway(w, t) PROVE AcksForCommands
      <3>1. p2c = <<>> \/ (unacked = w.tag[1] /\ p2c = <<Ack(w.tag)>>)
        <4>1. CASE Returned(w, t)  BY <4>1 DEF Returned, Down
        <4>2. CASE Down(<<>>, <<>>)  BY <4>2 DEF Down
        <4> QED  BY <2>5, <4>1, <4>2 DEF Underway
      <3>2. PICK d : d.pkt = Dat("data", w.tag) /\ d.pkt.type = "dat"
        <4>1. Ext(Dat("data", w.tag)).pkt = Dat("data", w.tag)  BY DEF Ext
        <4> QED  BY <4>1 DEF Dat
      <3> QED  BY <2>1, <2>3, <2>5, <3>1, <3>2 DEF AcksForCommands
    <2>6. Resting \/ \E w : Command(w) /\ Stage(w)  BY <1>1 DEF Round
    <2> QED  BY <2>3, <2>4, <2>5, <2>6 DEF Resting, Stage, Fresh, Thrown, Down
  <1>2. CASE Orderly  BY <1>1, <1>2, RoundHolds, PTL
  <1> QED  BY <1>2

-----------------------------------------------------------------------------
LEMMA QuietIsOrderly ==
  Quiet /\ Window = 1 => Orderly /\ ~StartAck /\ MaxBreaks = 0
  BY DEF Quiet, Orderly

(* The asio rule that a socket has one async_write at a time is kept, which *)
(* nothing in start_write looks after.                                      *)
THEOREM OneWriteAtATime == Quiet /\ Window = 1 => (Spec => []WritesDoNotOverlap)
  <1>1. ASSUME Round, ~StartAck, MaxBreaks = 0 PROVE WritesDoNotOverlap
    <2>1. Len(<<>>) <= 1 /\ \A x : Len(<<x>>) <= 1  BY Singletons
    <2>2. reqWrites = <<>> \/ \E t : reqWrites = <<t>>
      <3>1. ASSUME NEW v \in Seq(PlusT) PROVE v = <<>>  BY <1>1, NoPlus
      <3>2. \A b : ~Break(b)  BY <1>1 DEF Break, Round, Modes
      <3>3. \A v \in Seq(PlusT) : \A t : Append(v, t) = <<t>>  BY <3>1, Singletons
      <3> QED  BY <1>1, <3>1, <3>2, <3>3, QueueShape
    <2>3. responses = <<>> \/ \E t : responses = <<t>>
      <3>1. \A w : Command(w) => unacked # w.tag[1]
        BY <1>1 DEF Round, Modes, Command
      <3>2. ASSUME NEW w, NEW t, Underway(w, t) PROVE responses = <<>> \/ \E x : responses = <<x>>
        <4>1. CASE Returned(w, t)  BY <4>1 DEF Returned, Down
        <4>2. CASE Down(<<>>, <<>>)  BY <4>2 DEF Down
        <4> QED  BY <3>2, <4>1, <4>2 DEF Underway
      <3>3. ASSUME NEW w, Command(w), Settled(w) PROVE responses = <<>> \/ \E x : responses = <<x>>
        BY <3>1, <3>3 DEF Settled, Down
      <3> QED
        BY <1>1, <3>2, <3>3 DEF Round, Resting, Stage, Fresh, Thrown, Down
    <2> QED  BY <2>1, <2>2, <2>3 DEF WritesDoNotOverlap
  <1>2. CASE Quiet /\ Window = 1
    BY <1>1, <1>2, QuietIsOrderly, RoundHolds, PTL
  <1> QED  BY <1>2

(* The client is told nothing but the answers to its own commands, in their *)
(* order, whatever the proxy asks the target in between, and whatever the   *)
(* breaks and acknowledges of the session do to the queue.                  *)
THEOREM ImplementsDialogue == Orderly => (Spec => OrderedDialogue)
  <1> DEFINE asked == [i \in DOMAIN waiting |-> waiting[i].tag[1]]
  <1>1. Init => Promise!Init
    <2> SUFFICES ASSUME Init PROVE Promise!Init  OBVIOUS
    <2>1. waiting = <<>> /\ sent = 0 /\ got = 0  BY DEF Init
    <2>2. asked = <<>>  BY <2>1
    <2> QED  BY <2>1, <2>2 DEF Promise!Init
  <1>2. ASSUME Asks PROVE Promise!Next
    <2>1. sent' = sent + 1 /\ got' = got  BY <1>2 DEF Asks
    <2>2. CASE UNCHANGED waiting
      <3>1. asked' = asked  BY <2>2
      <3> QED  BY <2>1, <3>1 DEF Promise!Next, Promise!Ask
    <2>3. ASSUME NEW w, waiting = <<>>, waiting' = <<w>>, w.tag[1] = sent + 1
          PROVE  Promise!Next
      <3>1. asked = <<>> /\ asked' = <<w.tag[1]>>  BY <2>3
      <3>2. asked' = Append(asked, sent + 1)  BY <2>3, <3>1, Singletons
      <3> HIDE DEF asked
      <3> QED  BY <2>1, <3>2 DEF Promise!Next, Promise!Ask, asked
    <2> QED  BY <1>2, <2>2, <2>3 DEF Asks
  <1>3. ASSUME Answers PROVE Promise!Next
    <2>1. PICK w : waiting = <<w>> /\ got' = w.tag[1]  BY <1>3 DEF Answers
    <2>2. waiting' = <<>> /\ sent' \in {sent, sent + 1}  BY <1>3 DEF Answers
    <2>3. asked = <<w.tag[1]>> /\ asked' = <<>>  BY <2>1, <2>2
    <2>4. asked # <<>> /\ Head(asked) = w.tag[1] /\ Tail(asked) = <<>>
      BY <2>3, Singletons
    <2> HIDE DEF asked
    <2> QED  BY <2>1, <2>2, <2>3, <2>4 DEF Promise!Next, Promise!Reply, asked
  <1>4. ASSUME UNCHANGED <<waiting, sent, got>> PROVE UNCHANGED Promise!vars
    BY <1>4 DEF Promise!vars
  <1>5. Orderly /\ TypeOK /\ Round /\ [Next]_vars => [Promise!Next]_(Promise!vars)
    BY <1>2, <1>3, <1>4, RoundStep DEF Says
  <1>6. CASE Orderly
    BY <1>1, <1>5, <1>6, OrderlyInvariant, PTL
       DEF Spec, OrderedDialogue, Promise!Spec
  <1> QED  BY <1>6

-----------------------------------------------------------------------------
(* Where the command that waits is attended to.                             *)
Holds(s, n) == \E j \in 1..Len(s) : s[j].type = "dat" /\ s[j].tag[1] = n

LEMMA HoldsLast ==
  ASSUME NEW S, NEW s \in Seq(S), NEW x \in S, x.type = "dat"
  PROVE  Holds(Append(s, x), x.tag[1])
  <1>1. Len(Append(s, x)) = Len(s) + 1 /\ Append(s, x)[Len(s) + 1] = x
    BY AppendProperties
  <1>2. Len(s) + 1 \in 1..Len(s) + 1
    <2>1. Len(s) \in Nat  BY LenProperties
    <2> QED  BY <2>1
  <1> QED  BY <1>1, <1>2 DEF Holds

LEMMA HoldsSmall ==
  ASSUME NEW x, x.type = "dat"
  PROVE  /\ Holds(<<x>>, x.tag[1])
         /\ \A y : Holds(<<x, y>>, x.tag[1]) /\ Holds(<<y, x>>, x.tag[1])
  <1>1. Holds(<<x>>, x.tag[1])
    <2>1. 1 \in 1..Len(<<x>>) /\ <<x>>[1] = x  BY Singletons
    <2> QED  BY <2>1 DEF Holds
  <1>2. ASSUME NEW y PROVE Holds(<<x, y>>, x.tag[1]) /\ Holds(<<y, x>>, x.tag[1])
    <2>1. 1 \in 1..Len(<<x, y>>) /\ <<x, y>>[1] = x  BY Pairs
    <2>2. 2 \in 1..Len(<<y, x>>) /\ <<y, x>>[2] = x  BY Pairs
    <2> QED  BY <2>1, <2>2 DEF Holds
  <1> QED  BY <1>1, <1>2

(* A write under way, request or response.                                  *)
LEMMA HoldsPkts ==
  ASSUME NEW s \in Seq(Transfer), NEW n, \E j \in 1..Len(s) :
           s[j].pkt.type = "dat" /\ s[j].pkt.tag[1] = n
  PROVE  Holds(Pkts(s), n)
  <1>1. PICK j \in 1..Len(s) : s[j].pkt.type = "dat" /\ s[j].pkt.tag[1] = n
    OBVIOUS
  <1>2. j \in 1..Len(Pkts(s)) /\ Pkts(s)[j] = s[j].pkt
    BY DEF Pkts
  <1> QED  BY <1>1, <1>2 DEF Holds

LEMMA Request ==
  ASSUME NEW w, NEW t, Command(w), Asked(w, t)
  PROVE  t.pkt.type = "dat" /\ t.pkt.tag[1] = w.tag[1]
  <1>1. Ext(w).pkt = w /\ Internal(w).pkt = w  BY DEF Ext, Internal
  <1>2. ASSUME NEW k, NEW j
        PROVE  /\ MemRead(k, w.tag[1], j).pkt.type = "dat"
               /\ MemRead(k, w.tag[1], j).pkt.tag[1] = w.tag[1]
    BY DEF MemRead, Internal, Dat
  <1> QED  BY <1>1, <1>2 DEF Asked, Command

(* A sequence of the round trip holds the command, a read or the answer.    *)
OnTheWay(n) ==
  \/ Holds(c2p, n) \/ Holds(Pkts(reqWrites), n) \/ Holds(p2t, n) \/ Holds(running, n)
  \/ Holds(t2p, n) \/ Holds(Pkts(responses), n) \/ Holds(p2c, n)

LEMMA FreshHeld ==
  ASSUME NEW w, Command(w), Fresh(w)
  PROVE  OnTheWay(w.tag[1])
  <1>1. w \in Packet /\ w.type = "dat"  BY DEF Command
  <1>2. CASE \E c \in Seq(Plus) : c2p = Append(c, w)
    <2>1. PICK c \in Seq(Packet) : c2p = Append(c, w)  BY <1>2, NoPlus
    <2> QED  BY <1>1, <2>1, HoldsLast DEF OnTheWay
  <1>3. CASE \E b : c2p = <<w, b>>  BY <1>1, <1>3, HoldsSmall DEF OnTheWay
  <1> QED  BY <1>2, <1>3 DEF Fresh, Up

LEMMA SendingHeld ==
  ASSUME TypeOK, NEW w, NEW t, Command(w), Asked(w, t), Sending(w, t)
  PROVE  OnTheWay(w.tag[1])
  <1>1. t.pkt.type = "dat" /\ t.pkt.tag[1] = w.tag[1]  BY Request
  <1>2. CASE \E v \in Seq(PlusT) : reqWrites = Append(v, t)
    <2>1. PICK v \in Seq(PlusT) : reqWrites = Append(v, t)  BY <1>2
    <2>2. reqWrites[Len(v) + 1] = t /\ Len(v) + 1 \in 1..Len(reqWrites)
      <3>1. v \in Seq(PlusT \cup {t}) /\ t \in PlusT \cup {t}  BY <2>1
      <3>2. Len(Append(v, t)) = Len(v) + 1 /\ Append(v, t)[Len(v) + 1] = t
        BY <3>1, AppendProperties
      <3>3. Len(v) \in Nat  BY <2>1, LenProperties
      <3> QED  BY <2>1, <3>2, <3>3
    <2>3. Holds(Pkts(reqWrites), w.tag[1])
      <3>1. reqWrites \in Seq(Transfer)  BY DEF TypeOK
      <3> QED  BY <1>1, <2>2, <3>1, HoldsPkts
    <2> QED  BY <2>3 DEF OnTheWay
  <1>3. CASE \E p \in Seq(Plus) : p2t = Append(p, t.pkt)
    <2>1. PICK p \in Seq(Plus) : p2t = Append(p, t.pkt)  BY <1>3
    <2>2. p \in Seq(Plus \cup {t.pkt}) /\ t.pkt \in Plus \cup {t.pkt}  BY <2>1
    <2> QED  BY <1>1, <2>1, <2>2, HoldsLast DEF OnTheWay
  <1> QED  BY <1>2, <1>3 DEF Sending, Up

LEMMA RunningHeld ==
  ASSUME TypeOK, NEW w, NEW t, Command(w), Asked(w, t), Runs(t) \/ Chased(t)
  PROVE  OnTheWay(w.tag[1])
  <1>1. t.pkt.type = "dat" /\ t.pkt.tag[1] = w.tag[1]  BY Request
  <1>2. running = <<t.pkt>> \/ p2t = <<t.pkt>> \/ (\E b : p2t = <<t.pkt, b>>)
        \/ reqWrites = <<t>> \/ (\E b : reqWrites = <<t, b>>)
    BY DEF Runs, Chased, Up
  <1>3. CASE reqWrites = <<t>> \/ \E b : reqWrites = <<t, b>>
    <2>1. 1 \in 1..Len(reqWrites) /\ reqWrites[1] = t
      BY <1>3, Singletons, Pairs
    <2>2. reqWrites \in Seq(Transfer)  BY DEF TypeOK
    <2> QED  BY <1>1, <2>1, <2>2, HoldsPkts DEF OnTheWay
  <1> QED  BY <1>1, <1>2, <1>3, HoldsSmall DEF OnTheWay

LEMMA ReturnedHeld ==
  ASSUME NEW w, NEW t, Command(w), Asked(w, t), Returned(w, t)
  PROVE  OnTheWay(w.tag[1])
  <1>1. t.pkt.tag[1] = w.tag[1]  BY Request
  <1>2. PICK y : ReplyTo(t, y) /\ (t2p = <<y>> \/ \E x : t2p = <<x, y>>)
    BY DEF Returned, Up
  <1>3. y.type = "dat" /\ y.tag[1] = w.tag[1]  BY <1>1, <1>2 DEF ReplyTo
  <1> QED  BY <1>2, <1>3, HoldsSmall DEF OnTheWay

LEMMA SettledHeld ==
  ASSUME TypeOK, NEW w, Command(w), Settled(w)
  PROVE  OnTheWay(w.tag[1])
  <1>1. PICK d : /\ AnswerTo(w, d)
                 /\ \/ responses = <<d>> \/ \E x : responses = <<x, d>>
                    \/ p2c = <<d.pkt>> \/ \E x : p2c = <<x, d.pkt>>
    BY DEF Settled, Down
  <1>2. d.pkt.type = "dat" /\ d.pkt.tag[1] = w.tag[1]  BY <1>1 DEF AnswerTo
  <1>3. CASE responses = <<d>> \/ \E x : responses = <<x, d>>
    <2>1. \E j \in 1..Len(responses) : responses[j] = d
      BY <1>3, Singletons, Pairs
    <2>2. responses \in Seq(Transfer)  BY DEF TypeOK
    <2> QED  BY <1>2, <2>1, <2>2, HoldsPkts DEF OnTheWay
  <1> QED  BY <1>1, <1>2, <1>3, HoldsSmall DEF OnTheWay

(* Nothing is lost on the way: while a command waits, the client is not     *)
(* waiting for nothing.  What is left for liveness is that what is under    *)
(* way moves.                                                               *)
THEOREM OrderlyAttended == Orderly => (Spec => []Attended)
  <1>1. ASSUME TypeOK, Round PROVE Attended
    <2> SUFFICES ASSUME status = "ok", NEW i \in 1..Len(waiting)
                 PROVE  \E s \in {c2p, Pkts(reqWrites), p2t, running, t2p,
                                  Pkts(responses), p2c} :
                          Holds(s, waiting[i].tag[1])
      BY DEF Attended, Holds
    <2>1. waiting # <<>>
      <3>1. Len(<<>>) = 0  OBVIOUS
      <3> QED  BY <3>1
    <2>2. PICK w : waiting = <<w>> /\ Command(w) /\ Stage(w)
      BY <1>1, <2>1 DEF Round, Resting
    <2>3. waiting[i] = w  BY <2>2, InSingle
    <2>4. ASSUME NEW t, Underway(w, t) PROVE OnTheWay(w.tag[1])
      BY <1>1, <2>2, <2>4, SendingHeld, RunningHeld, ReturnedHeld DEF Underway
    <2>5. OnTheWay(w.tag[1])
      BY <1>1, <2>2, <2>4, FreshHeld, SettledHeld DEF Stage, Thrown
    <2> QED  BY <2>3, <2>5 DEF OnTheWay
  <1>2. CASE Orderly  BY <1>1, <1>2, OrderlyInvariant, PTL
  <1> QED  BY <1>2
=============================================================================
