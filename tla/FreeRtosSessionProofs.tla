------------------------ MODULE FreeRtosSessionProofs ------------------------
(****************************************************************************)
(* The composition keeps what its parts promise.  It implements the         *)
(* session; and in an orderly one every reply meets its own read, so that   *)
(* queue and update stay in step, the update is one of ThreadUpdate, and    *)
(* the session shows the debugger what ThreadView promises.                 *)
(****************************************************************************)
EXTENDS FreeRtosSession, DialogueProofs

-----------------------------------------------------------------------------
(* Each step of the composition is one of the session and one of the update *)
(* or leaves them alone.                                                    *)
LEMMA SessionStep ==
  ASSUME [RtosNext]_allVars
  PROVE  [Next]_vars
  <1>1. CASE HaltSeen \/ UpdateRead \/ OtherRead
    <2>1. ReadTarget /\ UNCHANGED peerVars
      BY <1>1 DEF HaltSeen, UpdateRead, OtherRead
    <2> QED  BY <2>1 DEF Next, Proxy, ProxyStep, peerVars
  <1>2. CASE OtherHandler
    BY <1>2 DEF OtherHandler, Next, Proxy, ProxyStep, peerVars
  <1>3. CASE Peers  BY <1>3 DEF Peers, Next
  <1>4. CASE UNCHANGED allVars  BY <1>4 DEF allVars
  <1> QED  BY <1>1, <1>2, <1>3, <1>4 DEF RtosNext

(* With the thread updates of a FreeRTOS target the session is still one of *)
(* ProxySession, and what is proved of those holds of it.                   *)
THEOREM ImplementsSession == RtosSpec => Spec
  BY SessionStep, PTL DEF RtosSpec, RtosInit, Spec

-----------------------------------------------------------------------------
(* Queue and update in step.  Between updates no stop reply is kept, and    *)
(* during one the queue holds a scan; the rounds of the session say what    *)
(* else is there then.                                                      *)

IsScan(t) == t.pkt.type = "dat" /\ t.pkt.kind = "scan"

Walks ==
  status = "ok" =>
    IF awaited = "none" THEN stopReply = 0
    ELSE \E i \in 1..Len(requests) : IsScan(requests[i])

LEMMA ScanIs ==
  ASSUME NEW w, NEW t, Command(w), Asked(w, t), t.pkt.kind = "scan"
  PROVE  t.internal /\ stopReply # 0
  <1>1. t.internal
    BY AskedIs, SessionAssumption DEF Command
  <1> QED  BY <1>1, AskedIs DEF Command

LEMMA ScanAlone ==
  ASSUME Round, NEW i \in 1..Len(requests), requests[i].pkt.kind = "scan"
  PROVE  stopReply # 0 /\ running = <<>> /\ Scans(requests) = {i}
  <1>1. ASSUME NEW v \in Seq(PlusT), NEW n \in 1..Len(v)
        PROVE  v[n].pkt.kind # "scan"
    BY <1>1, InAppended DEF PlusT, IsAck
  <1>2. CASE \E v \in Seq(PlusT) : requests = v
    BY <1>1, <1>2
  <1>3. ASSUME NEW w, NEW t, Command(w), Asked(w, t)
        PROVE  /\ \A v \in Seq(PlusT) :
                    requests = Append(v, t) /\ running = <<>> =>
                      stopReply # 0 /\ running = <<>> /\ Scans(requests) = {i}
               /\ requests = <<t>> /\ (t.pkt.kind # "stop" => running = <<>>) =>
                    stopReply # 0 /\ running = <<>> /\ Scans(requests) = {i}
    <2>1. ASSUME NEW v \in Seq(PlusT), requests = Append(v, t), running = <<>>
          PROVE  stopReply # 0 /\ running = <<>> /\ Scans(requests) = {i}
      <3>1. /\ Len(v) \in Nat /\ Len(requests) = Len(v) + 1
            /\ \A n \in 1..Len(v) : requests[n] = v[n]
            /\ requests[Len(v) + 1] = t
        BY <2>1, InAppended
      <3>2. \A n \in 1..Len(requests) :
              requests[n].pkt.kind = "scan" => n = Len(v) + 1
        <4>1. \A n \in 1..Len(v) : requests[n].pkt.kind # "scan"  BY <1>1, <3>1
        <4>2. \A n \in 1..Len(v) + 1 : n \in 1..Len(v) \/ n = Len(v) + 1  BY <3>1
        <4> QED  BY <3>1, <4>1, <4>2
      <3>3. i = Len(v) + 1 /\ t.pkt.kind = "scan"  BY <3>1, <3>2
      <3>4. Scans(requests) = {i}  BY <3>2, <3>3 DEF Scans
      <3> QED  BY <1>3, <2>1, <3>3, <3>4, ScanIs
    <2>2. ASSUME requests = <<t>>, t.pkt.kind # "stop" => running = <<>>
          PROVE  stopReply # 0 /\ running = <<>> /\ Scans(requests) = {i}
      <3>1. \A n \in 1..Len(requests) : n = 1 /\ requests[n] = t  BY <2>2, InSingle
      <3>2. i = 1 /\ t.pkt.kind = "scan"  BY <3>1
      <3>3. Scans(requests) = {i}  BY <3>1, <3>2 DEF Scans
      <3> QED  BY <1>3, <2>2, <3>2, <3>3, ScanIs
    <2> QED  BY <2>1, <2>2
  <1>4. ASSUME NEW b, NEW t, Break(b), t.pkt.kind = "stop", requests = <<b, t>>
        PROVE  FALSE
    BY <1>4, InPair DEF Break
  <1> QED  BY <1>2, <1>3, <1>4, QueueShape

(* The next memory read of a walk.                                          *)
LEMMA NextWalks ==
  ASSUME NEW n, NEW j, NextRead("scan", n, j), reqWrites = <<>>,
         \E t : requests = <<t>>
  PROVE  /\ \E i \in 1..Len(requests') : IsScan(requests'[i])
         /\ Len(reqWrites') = 1
  <1>1. PICK m : m = MemRead("scan", n, j)  OBVIOUS
  <1>2. IsScan(m)
    BY <1>1 DEF MemRead, Internal, Dat, IsScan
  <1>3. requests' = <<m>> /\ reqWrites' = <<m>>
    BY <1>1, Singletons DEF NextRead
  <1>4. 1 \in 1..Len(requests') /\ requests'[1] = m /\ Len(reqWrites') = 1
    BY <1>3, Singletons
  <1> QED  BY <1>2, <1>4

LEMMA HaltWalks ==
  ASSUME Round, HaltSeen
  PROVE  Walks'
  <1> SUFFICES ASSUME status' = "ok"
               PROVE  /\ awaited' # "none"
                      /\ \E i \in 1..Len(requests') : IsScan(requests'[i])
    BY DEF Walks
  <1>1. ReadTarget /\ t2p # <<>> /\ ReadQueued /\ awaited' = "count"
    BY DEF HaltSeen, Callback, Update!Begin
  <1>2. PICK t : requests = <<t>> /\ reqWrites = <<>>  BY <1>1, ReplyMeets
  <1>3. requests # <<>> /\ Head(requests) = t  BY <1>2, Singletons
  <1>4. t.internal /\ t.pkt.kind = "stop" /\ Head(t2p).type = "dat"
    BY <1>3 DEF HaltSeen, Callback
  <1>5. StopReplied(t.pkt, Head(t2p))
    BY <1>1, <1>3, <1>4 DEF ReadTarget, Answer
  <1>6. NextRead("scan", t.pkt.tag[1], 1)
    <2>1. Len(reqWrites) = 0  BY <1>2
    <2>2. reqWrites' # reqWrites  BY <1>1, <2>1 DEF ReadQueued
    <2> QED  BY <1>5, <2>2 DEF StopReplied, Finish
  <1> QED  BY <1>1, <1>2, <1>6, NextWalks

LEMMA UpdateWalks ==
  ASSUME Round, ~tangled, UpdateRead
  PROVE  Walks'
  <1>1. ReadTarget /\ t2p # <<>> /\ (ReadQueued <=> awaited' # "none")
    BY DEF UpdateRead, Callback
  <1>2. PICK t : requests = <<t>> /\ reqWrites = <<>>  BY <1>1, ReplyMeets
  <1>3. requests # <<>> /\ Head(requests) = t /\ Len(reqWrites) = 0
    BY <1>2, Singletons
  <1>4. t.internal /\ t.pkt.kind = "scan" /\ Head(t2p).type = "dat"
    BY <1>3 DEF UpdateRead, Callback
  <1>5. ScanReturned(t.pkt)
    BY <1>1, <1>3, <1>4 DEF ReadTarget, Answer
  <1>6. CASE NextRead("scan", t.pkt.tag[1], t.pkt.tag[2] + 1)
    <2>1. /\ \E i \in 1..Len(requests') : IsScan(requests'[i])
          /\ Len(reqWrites') = 1
      BY <1>2, <1>6, NextWalks
    <2>2. awaited' # "none"  BY <1>1, <1>3, <2>1 DEF ReadQueued
    <2> QED  BY <2>1, <2>2 DEF Walks
  <1>7. CASE Finish(Dat("T", <<stopReply, 0>>)) /\ stopReply' = 0
    <2>1. awaited' = "none"  BY <1>1, <1>3, <1>7 DEF Finish, ReadQueued
    <2> QED  BY <1>7, <2>1 DEF Walks
  <1> QED  BY <1>5, <1>6, <1>7 DEF ScanReturned

(* Any other packet of the target: the update it might belong to does not   *)
(* run, or it is a '+' for one of its reads.                                *)
LEMMA OtherReadWalks ==
  ASSUME Round, Walks, OtherRead
  PROVE  Walks'
  <1>1. /\ ReadTarget /\ status = "ok" /\ t2p # <<>> /\ UNCHANGED awaited
        /\ ~Callback("stop") /\ ~Callback("scan")
    BY DEF OtherRead, ReadTarget, updateVars
  <1>2. PICK w, t : /\ Command(w) /\ Underway(w, t)
                    /\ requests = <<t>> /\ reqWrites = <<>>
    BY <1>1, ReplyMeets
  <1>3. requests # <<>> /\ Head(requests) = t  BY <1>2, Singletons
  <1>4. CASE Acknowledge(t, Head(t2p))
    BY <1>1, <1>4 DEF Acknowledge, Walks
  <1>5. CASE Head(t2p).type = "dat" /\ Answer(t, Head(t2p))
    <2>1. ~(t.internal /\ t.pkt.kind \in {"stop", "scan"})
      BY <1>1, <1>3, <1>5 DEF Callback
    <2>2. t.pkt.kind # "scan"
      BY <1>2, <2>1, ScanIs DEF Underway
    <2>3. awaited = "none" /\ stopReply = 0
      <3>1. \A i \in 1..Len(requests) : requests[i] = t  BY <1>2, InSingle
      <3> QED  BY <1>1, <2>2, <3>1 DEF Walks, IsScan
    <2>4. UNCHANGED stopReply  BY <1>5, <2>1 DEF Answer, FetchReturned
    <2> QED  BY <1>1, <2>3, <2>4 DEF Walks
  <1> QED  BY <1>1, <1>3, <1>4, <1>5 DEF ReadTarget

(* What leaves the reply of the target where it is.                         *)
LEMMA OthersWalk ==
  ASSUME TypeOK, Round, Walks, UNCHANGED <<awaited, stopReply>>,
         status' = "ok" => status = "ok",
         ReadClient \/ WriteRequestDone \/ UNCHANGED requests
  PROVE  Walks'
  <1> SUFFICES ASSUME status' = "ok", status = "ok", awaited # "none"
               PROVE  \E j \in 1..Len(requests') : IsScan(requests'[j])
    BY DEF Walks
  <1>1. PICK i \in 1..Len(requests) : IsScan(requests[i])  BY DEF Walks
  <1>2. PICK j \in 1..Len(requests') : requests'[j] = requests[i]
    BY <1>1, DatKept DEF IsScan
  <1> QED  BY <1>1, <1>2 DEF IsScan

LEMMA WalksStep ==
  ASSUME TypeOK, Round, Walks, ~tangled, [RtosNext]_allVars
  PROVE  Walks'
  <1>1. CASE OtherHandler
    <2>1. UNCHANGED <<awaited, stopReply>> /\ status = "ok"
      BY <1>1 DEF OtherHandler, updateVars, ReadClient, WriteRequestDone,
                  WriteResponseDone
    <2> QED
      BY <1>1, <2>1, OthersWalk DEF OtherHandler, WriteResponseDone
  <1>2. CASE Peers
    <2>1. UNCHANGED <<requests, stopReply, status>>
      BY <1>2 DEF Peers, Client, Target, SendCommand, SendBreak, Retransmit,
                  ReceiveAck, ReceiveReply, RefuseReply, ClientToProxy,
                  TargetAccept, TargetRefuse, TargetSignal, Halt, queues
    <2>2. UNCHANGED awaited  BY <1>2 DEF Peers, updateVars
    <2> QED  BY <2>1, <2>2, OthersWalk
  <1>3. CASE UNCHANGED allVars
    BY <1>3, OthersWalk DEF allVars, vars, proxyVars, queues, updateVars
  <1> QED
    BY <1>1, <1>2, <1>3, HaltWalks, UpdateWalks, OtherReadWalks DEF RtosNext

-----------------------------------------------------------------------------
(* The update and the target.  memory is what the update follows, but for   *)
(* the time between a halt and the stop reply that tells of it.             *)

HasDat(s) == \E i \in 1..Len(s) : s[i].type = "dat"

Due ==   \* the target has halted and the proxy has not read of it
  /\ requests # <<>> /\ Head(requests).internal /\ Head(requests).pkt.kind = "stop"
  /\ HasDat(t2p)

Ahead ==   \* the target has not halted for the command that waits
  /\ status = "ok" /\ stopReply = 0 /\ responses = <<>> /\ p2c = <<>>
  /\ ~HasDat(t2p) /\ \E w : waiting = <<w>> /\ w.kind = "stop"

Placed(m) ==
  /\ m = [items |-> m.items, running |-> m.running, halts |-> m.halts]
  /\ m.items \in Update!Layouts /\ m.halts \in Nat
  /\ m.running \in IF Update!Tasks(m.items) = {} THEN {0} ELSE Update!Tasks(m.items)

Followed ==
  /\ ~tangled /\ stops \in Nat /\ memory.halts \in Nat
  /\ status = "ok" => memory.halts = IF Due THEN stops + 1 ELSE stops
  /\ IF stops = memory.halts
     THEN memory = [items |-> items, running |-> task, halts |-> stops]
     ELSE Placed(memory)
  /\ memory.halts <= commands /\ commands <= MaxSent
  /\ Ahead => memory.halts < commands

(* The shape of a session in which the target has sent something.           *)
LEMMA ReplyShape ==
  ASSUME Round, t2p # <<>>
  PROVE  \E w, t : /\ waiting = <<w>> /\ Command(w) /\ Asked(w, t) /\ status = "ok"
                   /\ requests = <<t>> /\ reqWrites = <<>> /\ c2p = <<>> /\ p2t = <<>>
                   /\ \/ t2p = <<Ack(t.pkt.tag)>> /\ t.pkt.kind = "stop"
                      \/ \E y : /\ ReplyTo(t, y) /\ running = <<>>
                                /\ t2p = <<y>> \/ t2p = <<Ack(t.pkt.tag), y>>
  <1>1. PICK w, t : waiting = <<w>> /\ Command(w) /\ Underway(w, t)
    BY DEF Round, Resting, Stage, Fresh, Settled, Thrown, Free, Up
  <1>2. Runs(t) \/ Returned(w, t)
    BY <1>1 DEF Underway, Sending, Chased, Up
  <1>3. CASE Runs(t)
    <2>1. Up(<<>>, <<t>>, <<>>, <<>>, <<t.pkt>>, <<Ack(t.pkt.tag)>>) /\ t.pkt.kind = "stop"
      BY <1>3 DEF Runs, Up
    <2> QED  BY <1>1, <2>1 DEF Up, Underway
  <1>4. CASE Returned(w, t)
    <2>1. PICK y : /\ ReplyTo(t, y)
                   /\ \/ Up(<<>>, <<t>>, <<>>, <<>>, <<>>, <<Ack(t.pkt.tag), y>>)
                      \/ Up(<<>>, <<t>>, <<>>, <<>>, <<>>, <<y>>)
      BY <1>4 DEF Returned
    <2> QED  BY <1>1, <2>1 DEF Up, Underway
  <1> QED  BY <1>2, <1>3, <1>4

LEMMA Dats ==
  /\ ~HasDat(<<>>)
  /\ \A x : HasDat(<<x>>) <=> x.type = "dat"
  /\ \A g, y : ~HasDat(<<Ack(g)>>) /\ (HasDat(<<Ack(g), y>>) <=> y.type = "dat")
  <1>1. \A g : Ack(g).type = "ack"  BY DEF Ack
  <1>2. Len(<<>>) = 0  OBVIOUS
  <1>3. \A x : HasDat(<<x>>) <=> x.type = "dat"
    <2>1. \A x : 1 \in 1..Len(<<x>>) /\ <<x>>[1] = x  BY Singletons
    <2> QED  BY <2>1, InSingle DEF HasDat
  <1>4. \A x, y : HasDat(<<x, y>>) <=> x.type = "dat" \/ y.type = "dat"
    <2>1. \A x, y : /\ 1 \in 1..Len(<<x, y>>) /\ <<x, y>>[1] = x
                    /\ 2 \in 1..Len(<<x, y>>) /\ <<x, y>>[2] = y
      BY Pairs
    <2> QED  BY <2>1, InPair DEF HasDat
  <1> QED  BY <1>1, <1>2, <1>3, <1>4 DEF HasDat

(* A step that neither halts the target nor reads of a halt.                *)
LEMMA FollowedStill ==
  ASSUME Followed, UNCHANGED <<updateVars, memory, tangled>>,
         commands \in Nat, commands' \in Nat, commands' >= commands,
         commands' <= MaxSent,
         status' = "ok" => status = "ok" /\ (Due' <=> Due),
         Ahead' => Ahead \/ commands' > commands
  PROVE  Followed'
  <1>1. /\ UNCHANGED <<items, task, stops, memory, tangled>>
        /\ memory.halts \in Nat
    BY DEF updateVars, Followed
  <1>2. (stops # memory.halts => Placed(memory))'  BY <1>1 DEF Followed, Placed
  <1>3. memory'.halts <= commands' /\ (Ahead' => memory'.halts < commands')
        /\ commands' <= MaxSent
    <2>1. memory.halts <= commands /\ (Ahead => memory.halts < commands)
      BY DEF Followed
    <2> HIDE DEF Ahead
    <2> QED  BY <1>1, <2>1
  <1> QED  BY <1>1, <1>2, <1>3 DEF Followed

LEMMA OthersFollowed ==
  ASSUME TypeOK, Round, Followed, OtherHandler
  PROVE  Followed'
  <1>1. /\ status = "ok" /\ responses \in Seq(Transfer) /\ p2c \in Seq(Packet)
        /\ commands \in Nat /\ commands <= MaxSent
        /\ UNCHANGED <<updateVars, memory, tangled, commands, waiting, stopReply, t2p>>
    BY DEF OtherHandler, peerVars, clientVars, TypeOK, ReadClient,
           WriteRequestDone, WriteResponseDone, Followed
  <1>2. ASSUME NEW S, NEW s \in Seq(S), NEW x PROVE Append(s, x) # <<>>
    BY <1>2, Led
  <1>3. CASE ReadClient \/ WriteRequestDone
    <2>1. t2p = <<>>
      BY <1>3, ReplyShape DEF ReadClient, WriteRequestDone
    <2>2. ~Due /\ ~Due'  BY <1>1, <2>1, Dats DEF Due
    <2>3. UNCHANGED p2c /\ (responses' = <<>> => responses = <<>>)
      <3>1. \/ UNCHANGED responses \/ \E p : responses' = Append(responses, p)
        BY <1>3 DEF ReadClient, WriteRequestDone, Route, StartWrite, Respond
      <3> QED  BY <1>1, <1>2, <1>3, <3>1 DEF ReadClient, WriteRequestDone
    <2>4. Ahead' => Ahead  BY <1>1, <2>3 DEF Ahead
    <2> QED  BY <1>1, <2>2, <2>4, FollowedStill
  <1>4. CASE WriteResponseDone
    <2>1. UNCHANGED requests /\ p2c' = Append(p2c, Head(responses).pkt)
      BY <1>4 DEF WriteResponseDone
    <2>2. Due' <=> Due  BY <1>1, <2>1 DEF Due
    <2>3. ~Ahead'  BY <1>1, <1>2, <2>1 DEF Ahead
    <2> QED  BY <1>1, <2>2, <2>3, FollowedStill
  <1> QED  BY <1>3, <1>4 DEF OtherHandler

-----------------------------------------------------------------------------
(* The peers, when the target does not halt.                                *)
LEMMA NoNaks ==
  ASSUME Orderly, TypeOK, Round
  PROVE  ~RefuseReply /\ ~TargetRefuse
  <1>1. /\ cliAck \in BOOLEAN /\ tgtAck \in BOOLEAN /\ naks \in Nat /\ refused \in Nat
    BY DEF TypeOK
  <1>2. (cliAck => StartAck) /\ (tgtAck => cliAck)  BY DEF Round, Modes, AckOrder
  <1>3. StartAck => MaxNaks = 0  BY DEF Orderly
  <1> QED  BY <1>1, <1>2, <1>3 DEF RefuseReply, TargetRefuse

LEMMA AckKeepsAhead ==
  ASSUME TypeOK, Round, ReceiveAck, Ahead'
  PROVE  Ahead
  <1>1. /\ UNCHANGED <<status, stopReply, responses, t2p, waiting>>
        /\ p2c # <<>> /\ p2c' = Tail(p2c) /\ Head(p2c).type # "dat"
    BY DEF ReceiveAck, queues
  <1>2. status = "ok" /\ responses = <<>> /\ Tail(p2c) = <<>>
        /\ \E w : waiting = <<w>> /\ w.kind = "stop"
    BY <1>1 DEF Ahead
  <1>3. PICK w : waiting = <<w>> /\ Command(w) /\ Stage(w) /\ w.kind = "stop"
    <2>1. PICK v : waiting = <<v>> /\ v.kind = "stop"  BY <1>2
    <2>2. \A x, y : <<x>> = <<y>> => x = y  OBVIOUS
    <2> QED  BY <2>1, <2>2, Singletons DEF Round, Resting
  <1>4. ~Fresh(w) /\ ~Thrown(w)
    BY <1>1 DEF Fresh, Down, Thrown
  <1>5. ASSUME NEW t, Underway(w, t) PROVE FALSE
    <2>1. t.internal  BY <1>3, <1>5, AskedIs DEF Underway
    <2> QED  BY <1>1, <1>5, <2>1 DEF Underway, Down, Returned
  <1>6. ASSUME Settled(w) PROVE FALSE
    <2>1. PICK d : /\ AnswerTo(w, d)
                   /\ \/ Down(<<d>>, <<>>) \/ Down(<<>>, <<d.pkt>>)
                      \/ Down(<<Ext(Ack(w.tag)), d>>, <<>>)
                      \/ Down(<<d>>, <<Ack(w.tag)>>)
                      \/ Down(<<>>, <<Ack(w.tag), d.pkt>>)
      BY <1>6 DEF Settled
    <2>2. CASE Down(<<>>, <<d.pkt>>)
      BY <1>1, <2>1, <2>2, Singletons DEF Down, AnswerTo
    <2>3. CASE Down(<<>>, <<Ack(w.tag), d.pkt>>)
      BY <1>2, <2>3, Pairs, Singletons DEF Down
    <2>4. \A x, y : <<x>> # <<>> /\ <<x, y>> # <<>>  OBVIOUS
    <2> QED  BY <1>1, <1>2, <2>1, <2>2, <2>3, <2>4 DEF Down
  <1> QED  BY <1>3, <1>4, <1>5, <1>6 DEF Stage

LEMMA ClientFollowed ==
  ASSUME Orderly, TypeOK, Round, Followed, Client,
         UNCHANGED <<updateVars, memory, tangled>>
  PROVE  Followed'
  <1>1. commands \in Nat /\ waiting \in Seq(Packet) /\ commands <= MaxSent
    BY DEF TypeOK, Followed
  <1>2. UNCHANGED <<status, stopReply, requests, responses, t2p>>
    BY DEF Client, SendCommand, SendBreak, Retransmit, ReceiveAck, ReceiveReply,
           RefuseReply, ClientToProxy, queues
  <1>3. Due' <=> Due  BY <1>2 DEF Due
  <1>4. ASSUME NEW k, SendCommand(k) PROVE commands' = commands + 1 /\ commands < MaxSent
    BY <1>4 DEF SendCommand
  <1>5. CASE SendBreak \/ Retransmit
    <2>1. UNCHANGED <<waiting, p2c, commands>>
      BY <1>5 DEF SendBreak, Retransmit, ClientToProxy
    <2>2. Ahead' => Ahead  BY <1>2, <2>1 DEF Ahead
    <2> QED  BY <1>1, <1>2, <1>3, <2>1, <2>2, FollowedStill
  <1>6. CASE ReceiveAck
    <2>1. UNCHANGED commands  BY <1>6 DEF ReceiveAck
    <2> QED  BY <1>1, <1>2, <1>3, <1>6, <2>1, AckKeepsAhead, FollowedStill
  <1>7. CASE ReceiveReply
    <2>1. UNCHANGED commands /\ (waiting = <<>> \/ waiting' = Tail(waiting))
          /\ (waiting = <<>> => waiting' = <<>>)
      BY <1>7 DEF ReceiveReply
    <2>2. waiting' = <<>>  BY <2>1, Singletons DEF Round, Resting
    <2>3. ~Ahead'  BY <2>2, Singletons DEF Ahead
    <2> QED  BY <1>1, <1>2, <1>3, <2>1, <2>3, FollowedStill
  <1>8. CASE \E k \in Kinds : SendCommand(k)
    <2>1. commands' = commands + 1 /\ commands < MaxSent  BY <1>4, <1>8
    <2>2. commands' > commands /\ commands' \in Nat /\ commands' >= commands
          /\ commands' <= MaxSent
      BY <1>1, <2>1, SessionAssumption
    <2> QED  BY <1>1, <1>2, <1>3, <2>2, FollowedStill
  <1> QED  BY <1>5, <1>6, <1>7, <1>8, NoNaks DEF Client

LEMMA AcceptDue ==
  ASSUME Round, TargetAccept
  PROVE  ~Due /\ ~Due' /\ (HasDat(t2p) => HasDat(t2p'))
  <1>1. /\ p2t # <<>> /\ running = <<>> /\ Head(p2t).type = "dat" /\ UNCHANGED requests
    BY DEF TargetAccept, queues
  <1>2. t2p = <<>>  BY <1>1, ReplyShape
  <1>3. ~Due /\ ~HasDat(t2p)  BY <1>2, Dats DEF Due
  <1>4. ~Resting
    <2>1. ASSUME NEW p \in Seq(Plus) PROVE p2t # p
      BY <1>1, <2>1, HeadTailProperties DEF Plus, IsAck
    <2> QED  BY <2>1 DEF Resting, Free, Up
  <1>5. PICK w : waiting = <<w>> /\ Command(w) /\ Stage(w)  BY <1>4 DEF Round
  <1>6. PICK t : Head(p2t) = t.pkt /\ (requests = <<t>> \/ t.pkt.kind = "stop")
    BY <1>1, <1>5, RequestArrives DEF Up, Chased
  <1>7. CASE t.pkt.kind = "stop"
    <2>1. t2p' = IF tgtAck THEN Append(t2p, Ack(t.pkt.tag)) ELSE t2p
      BY <1>6, <1>7 DEF TargetAccept
    <2>2. t2p' = <<>> \/ t2p' = <<Ack(t.pkt.tag)>>  BY <1>2, <2>1, Singletons
    <2> QED  BY <1>3, <2>2, Dats DEF Due
  <1>8. CASE t.pkt.kind # "stop"
    <2>1. requests' = <<t>>  BY <1>1, <1>6, <1>8
    <2> QED  BY <1>3, <1>8, <2>1, Singletons DEF Due
  <1> QED  BY <1>7, <1>8

LEMMA SignalSent ==
  ASSUME Round, p2t # <<>>
  PROVE  Head(p2t).type # "nak"
  <1>1. ASSUME NEW p \in Seq(Plus), p # <<>>
        PROVE  Head(p).type = "ack"
    BY <1>1, HeadTailProperties DEF Plus, IsAck
  <1>2. CASE \E p \in Seq(Plus) : p2t = p  BY <1>1, <1>2
  <1>3. ASSUME NEW w, NEW t, Command(w), Underway(w, t) PROVE Head(p2t).type # "nak"
    <2>1. t.pkt.type = "dat"  BY <1>3, AskedIs DEF Underway
    <2>2. CASE Sending(w, t)
      <3>1. ASSUME NEW p \in Seq(Plus), p2t = Append(p, t.pkt)
            PROVE  Head(p2t).type # "nak"
        BY <1>1, <2>1, <3>1, Led
      <3> QED  BY <1>2, <2>2, <3>1 DEF Sending, Up
    <2>3. CASE Chased(t)
      <3>1. PICK b : /\ Break(b)
                     /\ \/ p2t = <<t.pkt>> \/ p2t = <<t.pkt, b.pkt>> \/ p2t = <<b.pkt>>
        BY <2>3 DEF Chased, Up
      <3> QED  BY <2>1, <3>1, Singletons, Pairs DEF Break
    <2> QED  BY <1>3, <2>2, <2>3 DEF Underway, Runs, Returned, Up
  <1>4. Resting \/ \E w : Command(w) /\ Stage(w)  BY DEF Round
  <1> QED
    BY <1>2, <1>3, <1>4, EmptyPlus DEF Resting, Stage, Fresh, Settled, Thrown, Free, Up

LEMMA TargetFollowed ==
  ASSUME Orderly, TypeOK, Round, Followed, Target, running = <<>> \/ running' # <<>>,
         UNCHANGED <<updateVars, memory, tangled>>
  PROVE  Followed'
  <1>1. /\ commands \in Nat /\ commands <= MaxSent
        /\ UNCHANGED <<commands, status, stopReply, requests, responses, p2c, waiting>>
    BY DEF TypeOK, Target, TargetAccept, TargetRefuse, TargetSignal, Halt, queues,
           clientVars, Followed
  <1>2. CASE TargetAccept
    <2>1. Ahead' => Ahead  BY <1>1, <1>2, AcceptDue DEF Ahead
    <2> QED  BY <1>1, <1>2, <2>1, AcceptDue, FollowedStill
  <1>3. CASE TargetSignal
    <2>1. UNCHANGED t2p
      <3>1. Head(p2t).type # "nak"  BY <1>3, SignalSent DEF TargetSignal
      <3> QED  BY <1>3, <3>1 DEF TargetSignal, Halted
    <2>2. (Due' <=> Due) /\ (Ahead' => Ahead)  BY <1>1, <2>1 DEF Due, Ahead
    <2> QED  BY <1>1, <2>2, FollowedStill
  <1>4. ~Halt  BY DEF Halt, Halted
  <1> QED  BY <1>2, <1>3, <1>4, NoNaks DEF Target

-----------------------------------------------------------------------------
(* The target halts, the proxy reads of it, the walk goes on.               *)
LEMMA HaltFollowed ==
  ASSUME Orderly, TypeOK, Round, Walks, Followed, Peers, running # <<>>,
         running' = <<>>
  PROVE  /\ Followed' /\ awaited = "none" /\ stops = memory.halts
         /\ awaited' = "none" /\ stops' # memory'.halts /\ UNCHANGED found
  <1>1. /\ Layout /\ UNCHANGED <<awaited, stops, items, task, found, tangled>>
        /\ TargetSignal \/ Halt
    BY DEF Peers, updateVars, Client, Target, SendCommand, SendBreak, Retransmit,
           ReceiveAck, ReceiveReply, RefuseReply, targetVars, TargetAccept,
           TargetRefuse
  <1>2. UNCHANGED <<commands, status, stopReply, requests, responses, p2c, waiting>>
    BY <1>1 DEF TargetSignal, Halt, queues, clientVars
  <1>3. PICK w, t : /\ waiting = <<w>> /\ Command(w) /\ Underway(w, t)
                    /\ Runs(t) \/ Chased(t)
    <2>1. PICK w, t : waiting = <<w>> /\ Command(w) /\ Underway(w, t)
      BY DEF Round, Resting, Stage, Fresh, Settled, Thrown, Free, Up
    <2> QED  BY <2>1 DEF Underway, Sending, Returned, Up
  <1>4. t.pkt.kind = "stop" /\ t.internal /\ w.kind = "stop" /\ status = "ok"
        /\ Down(<<>>, <<>>)
    BY <1>3, AskedIs DEF Underway, Runs, Chased, Returned, Up
  <1>5. requests = <<t>> /\ (t2p = <<>> \/ t2p = <<Ack(t.pkt.tag)>>)
    <2>1. CASE Runs(t)  BY <2>1 DEF Runs, Up
    <2>2. CASE Chased(t)
      <3>1. ~Halt  BY <2>2 DEF Halt, Orderly, Chased, Break, Round, Modes
      <3>2. p2t # <<>> /\ Head(p2t).type # "dat"  BY <1>1, <3>1 DEF TargetSignal
      <3> QED  BY <2>2, <3>2 DEF Chased, Up
    <2> QED  BY <1>3, <2>1, <2>2
  <1>6. awaited = "none" /\ stopReply = 0
    <2>1. \A i \in 1..Len(requests) : requests[i] = t  BY <1>5, InSingle
    <2> QED  BY <1>4, <2>1 DEF Walks, IsScan
  <1>7. ~HasDat(t2p)  BY <1>5, Dats
  <1>8. ~Due /\ Ahead
    BY <1>3, <1>4, <1>6, <1>7 DEF Due, Ahead, Down
  <1>9. stops = memory.halts /\ memory.halts \in Nat /\ memory.halts < commands
        /\ commands \in Nat /\ commands <= MaxSent
    BY <1>4, <1>8 DEF Followed, TypeOK
  <1>10. PICK k : Halted(k)
    BY <1>1, <1>7 DEF TargetSignal, Halt
  <1>11. HasDat(t2p')
    <2>1. PICK y : y = Dat(k, running[1].tag)  OBVIOUS
    <2>0. y.type = "dat"  BY <2>1 DEF Dat
    <2>2. t2p' = <<y>> \/ t2p' = <<Ack(t.pkt.tag), y>>
      BY <1>5, <1>10, <2>1, Singletons, Pairs DEF Halted
    <2> QED  BY <2>0, <2>2, Dats
  <1>12. Due' /\ ~Ahead'
    BY <1>2, <1>4, <1>5, <1>11, Singletons DEF Due, Ahead
  <1>13. Placed(memory') /\ memory'.halts = memory.halts + 1
    BY <1>1, <1>9 DEF Layout, Placed
  <1>14. Placed(memory)'  BY <1>13 DEF Placed
  <1>15. /\ stops' = stops /\ tangled' = tangled /\ commands' = commands
         /\ memory'.halts = stops + 1 /\ stops' # memory'.halts
         /\ memory'.halts <= commands' /\ commands' <= MaxSent
    BY <1>1, <1>2, <1>9, <1>13
  <1>16. Followed'
    BY <1>9, <1>12, <1>13, <1>14, <1>15 DEF Followed, Placed
  <1> QED  BY <1>1, <1>6, <1>9, <1>15, <1>16

(* What the proxy reads of the target when a callback gets the reply.       *)
LEMMA CallbackReads ==
  ASSUME Round, NEW k \in {"stop", "scan"}, Callback(k), ReadTarget
  PROVE  /\ \E w, t : /\ waiting = <<w>> /\ Command(w) /\ requests = <<t>>
                      /\ Asked(w, t) /\ t.internal /\ t.pkt.kind = k
                      /\ Head(t2p).tag = t.pkt.tag /\ Answer(t, Head(t2p))
         /\ status = "ok" /\ HasDat(t2p) /\ t2p' = <<>> /\ (Due <=> k = "stop")
  <1>1. t2p # <<>> /\ Head(t2p).type = "dat" /\ Head(requests).internal
        /\ Head(requests).pkt.kind = k /\ requests # <<>>
    BY DEF Callback
  <1>2. PICK w, t : /\ waiting = <<w>> /\ Command(w) /\ Asked(w, t) /\ status = "ok"
                    /\ requests = <<t>>
                    /\ \/ t2p = <<Ack(t.pkt.tag)>>
                       \/ \E y : /\ ReplyTo(t, y)
                                 /\ t2p = <<y>> \/ t2p = <<Ack(t.pkt.tag), y>>
    BY <1>1, ReplyShape
  <1>3. \A g : Ack(g).type # "dat"  BY DEF Ack
  <1>4. PICK y : ReplyTo(t, y) /\ t2p = <<y>>
    BY <1>1, <1>2, <1>3, Singletons, Pairs
  <1>5. t2p' = <<>> /\ Head(t2p) = y /\ y.tag = t.pkt.tag /\ HasDat(t2p)
    BY <1>4, Singletons, Dats DEF ReadTarget, ReplyTo
  <1>6. Answer(t, Head(t2p)) /\ t.internal /\ t.pkt.kind = k
    BY <1>1, <1>2, Singletons DEF ReadTarget
  <1>7. Due <=> k = "stop"  BY <1>1, <1>5 DEF Due
  <1> QED  BY <1>2, <1>5, <1>6, <1>7

LEMMA HaltSeenFollowed ==
  ASSUME TypeOK, Round, Walks, Followed, HaltSeen
  PROVE  /\ Followed'
         /\ stops # memory.halts /\ awaited = "none" /\ UNCHANGED memory
         /\ \/ Update!Halted /\ Update!Begin /\ awaited' # "none"
            \/ UNCHANGED updateVars
  <1>1. Callback("stop") /\ ReadTarget /\ UNCHANGED <<memory, commands, waiting>>
    BY DEF HaltSeen, peerVars, clientVars
  <1>2. PICK w, t : /\ waiting = <<w>> /\ Command(w) /\ requests = <<t>>
                    /\ Asked(w, t) /\ t.internal /\ t.pkt.kind = "stop"
                    /\ Head(t2p).tag = t.pkt.tag /\ Answer(t, Head(t2p))
    BY <1>1, CallbackReads
  <1>3. status = "ok" /\ t2p' = <<>> /\ Due
    BY <1>1, CallbackReads
  <1>4. awaited = "none"
    <2>1. \A i \in 1..Len(requests) : requests[i] = t  BY <1>2, InSingle
    <2> QED  BY <1>2, <1>3, <2>1 DEF Walks, IsScan
  <1>5. /\ memory.halts = stops + 1 /\ stops \in Nat /\ memory.halts <= commands
        /\ commands \in Nat /\ ~tangled /\ Placed(memory) /\ stops # memory.halts
        /\ commands <= MaxSent
    BY <1>3 DEF Followed, TypeOK
  <1>6. memory' = memory /\ memory.halts \in Nat  BY <1>1, <1>5 DEF Placed
  <1>7. ~Due'  BY <1>3, Dats DEF Due
  <1>8. CASE status' = "ok"
    <2>1. /\ Update!Begin /\ items' = memory.items /\ task' = memory.running
          /\ stops' = memory.halts /\ ReadQueued
          /\ tangled' = (tangled \/ Scans(Tail(requests)) # {})
      BY <1>8 DEF HaltSeen
    <2>2. ~tangled'
      <3>1. Tail(requests) = <<>>  BY <1>2, Singletons
      <3>2. Len(<<>>) = 0  OBVIOUS
      <3>3. Scans(<<>>) = {}  BY <3>2 DEF Scans
      <3> QED  BY <1>5, <2>1, <3>1, <3>3
    <2>3. ~Ahead'
      <3>1. StopReplied(t.pkt, Head(t2p))  BY <1>2 DEF Answer
      <3>2. t.pkt = w  BY <1>2, AskedIs
      <3>3. stopReply' = Head(t2p).tag[1] \/ responses' # <<>>
        <4>1. responses \in Seq(Transfer)  BY DEF TypeOK
        <4>2. \A x : Append(responses, x) # <<>>  BY <4>1, Led
        <4> QED  BY <1>8, <3>1, <4>2 DEF StopReplied, Finish
      <3> QED  BY <1>2, <3>2, <3>3 DEF Ahead, Command
    <2>4. memory' = [items |-> items', running |-> task', halts |-> stops']
      BY <1>1, <1>5, <2>1 DEF Placed
    <2>5. Followed'
      BY <1>1, <1>5, <1>6, <1>7, <2>1, <2>2, <2>3, <2>4 DEF Followed, Placed
    <2>6. Update!Halted
      <3>1. stops < MaxSent
        <4>1. commands <= MaxSent  BY DEF Followed
        <4> QED  BY <1>5, <4>1, SessionAssumption
      <3> QED  BY <1>4, <1>5, <2>1, <3>1 DEF Update!Halted, Placed
    <2>7. awaited' # "none"  BY <2>1 DEF Update!Begin
    <2> QED  BY <1>1, <1>4, <1>5, <1>8, <2>1, <2>5, <2>6, <2>7
  <1>9. CASE status' # "ok"
    <2>1. UNCHANGED <<updateVars, tangled>>  BY <1>9 DEF HaltSeen
    <2>2. UNCHANGED <<items, task, stops, awaited, found>>  BY <2>1 DEF updateVars
    <2>3. ~Ahead'  BY <1>9 DEF Ahead
    <2>4. Followed'
      BY <1>1, <1>5, <1>6, <1>9, <2>1, <2>2, <2>3 DEF Followed
    <2> QED  BY <1>1, <1>4, <1>5, <1>9, <2>1, <2>2, <2>4
  <1> QED  BY <1>8, <1>9

LEMMA UpdateReadFollowed ==
  ASSUME TypeOK, Round, Walks, Followed, UpdateRead
  PROVE  /\ Followed' /\ Update!ReadReply /\ stops = memory.halts
         /\ UNCHANGED <<memory, stops>>
  <1>1. /\ Callback("scan") /\ ReadTarget
        /\ UNCHANGED <<memory, commands, waiting, tangled>>
    BY DEF UpdateRead, peerVars, clientVars
  <1>2. PICK w, t : /\ waiting = <<w>> /\ Command(w) /\ requests = <<t>>
                    /\ Asked(w, t) /\ t.internal /\ t.pkt.kind = "scan"
                    /\ Head(t2p).tag = t.pkt.tag /\ Answer(t, Head(t2p))
    BY <1>1, CallbackReads
  <1>3. status = "ok" /\ t2p' = <<>> /\ ~Due
    BY <1>1, CallbackReads
  <1>4. /\ stops = memory.halts /\ memory.halts <= commands /\ ~tangled
        /\ commands <= MaxSent
        /\ stops \in Nat
        /\ memory = [items |-> items, running |-> task, halts |-> stops]
    BY <1>3 DEF Followed
  <1>5. Intact  BY <1>2, <1>4, Singletons DEF Intact
  <1>6. Update!ReadReply  BY <1>4, <1>5 DEF UpdateRead
  <1>7. UNCHANGED <<items, task, stops>>
    BY <1>6 DEF Update!ReadReply, Update!rtosVars
  <1>8. ~Due'  BY <1>3, Dats DEF Due
  <1>9. ~Ahead'
    <2>1. ScanReturned(t.pkt)  BY <1>2 DEF Answer
    <2>2. stopReply # 0  BY <1>2, AskedIs DEF Command
    <2>3. responses \in Seq(Transfer)  BY DEF TypeOK
    <2>4. \A x : Append(responses, x) # <<>>  BY <2>3, Led
    <2> QED  BY <2>1, <2>2, <2>4 DEF ScanReturned, Finish, Ahead
  <1>10. Followed'
    BY <1>1, <1>4, <1>7, <1>8, <1>9 DEF Followed
  <1> QED  BY <1>1, <1>4, <1>6, <1>7, <1>10

LEMMA OtherReadFollowed ==
  ASSUME TypeOK, Round, Walks, Followed, OtherRead
  PROVE  Followed'
  <1>1. /\ ReadTarget /\ status = "ok" /\ t2p # <<>> /\ t2p' = Tail(t2p)
        /\ ~Callback("stop") /\ ~Callback("scan") /\ UNCHANGED p2c
        /\ UNCHANGED <<updateVars, memory, tangled, commands, waiting>>
    BY DEF OtherRead, ReadTarget, peerVars, clientVars
  <1>2. commands \in Nat /\ responses \in Seq(Transfer) /\ commands <= MaxSent
    BY DEF TypeOK, Followed
  <1>3. PICK w, t : /\ waiting = <<w>> /\ Command(w) /\ Asked(w, t)
                    /\ requests = <<t>>
                    /\ \/ t2p = <<Ack(t.pkt.tag)>>
                       \/ \E y : /\ ReplyTo(t, y)
                                 /\ t2p = <<y>> \/ t2p = <<Ack(t.pkt.tag), y>>
    BY <1>1, ReplyShape
  <1>4. requests # <<>> /\ Head(requests) = t  BY <1>3, Singletons
  <1>5. CASE Head(t2p).type = "dat"
    <2>1. ~(t.internal /\ t.pkt.kind \in {"stop", "scan"})
      BY <1>1, <1>4, <1>5 DEF Callback
    <2>2. ~Due  BY <1>4, <2>1 DEF Due
    <2>3. t2p' = <<>>
      <3>1. \A g : Ack(g).type # "dat"  BY DEF Ack
      <3>2. PICK y : t2p = <<y>>  BY <1>3, <1>5, <3>1, Singletons, Pairs
      <3> QED  BY <1>1, <3>2, Singletons
    <2>4. ~Due'  BY <2>3, Dats DEF Due
    <2>5. w.kind # "stop"  BY <1>3, <2>1, AskedIs
    <2>6. ~Ahead'
      <3>1. waiting' = <<w>>  BY <1>1, <1>3
      <3>2. \A x : waiting' = <<x>> => x = w  BY <3>1, Singletons
      <3> QED  BY <2>5, <3>2 DEF Ahead
    <2> QED  BY <1>1, <1>2, <2>2, <2>4, <2>6, FollowedStill
  <1>6. CASE Head(t2p).type # "dat"
    <2>1. Acknowledge(t, Head(t2p))  BY <1>1, <1>4, <1>6 DEF ReadTarget
    <2>2. UNCHANGED <<requests, status, stopReply>>
          /\ (responses' = <<>> => responses = <<>>)
      <3>1. \A x : Append(responses, x) # <<>>  BY <1>2, Led
      <3> QED  BY <2>1, <3>1 DEF Acknowledge
    <2>3. HasDat(t2p') <=> HasDat(t2p)
      <3>1. CASE t2p = <<Ack(t.pkt.tag)>>
        BY <1>1, <3>1, Singletons, Dats
      <3>2. ASSUME NEW y, ReplyTo(t, y), t2p = <<y>> \/ t2p = <<Ack(t.pkt.tag), y>>
            PROVE  HasDat(t2p') <=> HasDat(t2p)
        <4>0. y.type = "dat"  BY <3>2 DEF ReplyTo
        <4>1. t2p = <<Ack(t.pkt.tag), y>>  BY <1>6, <3>2, <4>0, Singletons
        <4>2. t2p' = <<y>>  BY <1>1, <4>1, Pairs
        <4> QED  BY <4>1, <4>2, Dats
      <3> QED  BY <1>3, <3>1, <3>2
    <2>4. (Due' <=> Due) /\ (Ahead' => Ahead)
      BY <1>1, <2>2, <2>3 DEF Due, Ahead
    <2> QED  BY <1>1, <1>2, <2>2, <2>4, FollowedStill
  <1> QED  BY <1>5, <1>6

-----------------------------------------------------------------------------
LEMMA InStep ==
  ASSUME Round, Walks, ~tangled
  PROVE  ReadsInStep
  <1> SUFFICES ASSUME status = "ok" PROVE ReadsInStep
    BY DEF ReadsInStep
  <1>1. CASE awaited = "none"
    <2>1. stopReply = 0  BY <1>1 DEF Walks
    <2>2. Scans(requests) = {}  BY <2>1, ScanAlone DEF Scans
    <2> QED  BY <1>1, <2>1, <2>2 DEF ReadsInStep
  <1>2. CASE awaited # "none"
    <2>1. PICK i \in 1..Len(requests) : requests[i].pkt.kind = "scan"
      BY <1>2 DEF Walks, IsScan
    <2>2. stopReply # 0 /\ running = <<>> /\ Scans(requests) = {i}
      BY <2>1, ScanAlone
    <2> QED  BY <1>2, <2>2 DEF ReadsInStep
  <1> QED  BY <1>1, <1>2

InSession == TypeOK /\ Round /\ Walks /\ Followed

LEMMA FollowedInit == RtosInit => Walks /\ Followed
  <1> SUFFICES ASSUME RtosInit PROVE Walks /\ Followed  OBVIOUS
  <1>1. /\ requests = <<>> /\ commands = 0 /\ waiting = <<>> /\ stopReply = 0
        /\ stops = 0 /\ memory = [items |-> items, running |-> task, halts |-> stops]
        /\ ~tangled
        /\ awaited = "none"
    BY DEF RtosInit, Init, ProxyInit, Update!UpdateInit
  <1>2. ~Due /\ ~Ahead  BY <1>1, Singletons DEF Due, Ahead
  <1>3. memory.halts = 0 /\ commands <= MaxSent  BY <1>1, SessionAssumption
  <1> HIDE DEF Due, Ahead
  <1> QED  BY <1>1, <1>2, <1>3 DEF Walks, Followed

LEMMA FollowedStep ==
  ASSUME Orderly, InSession, [RtosNext]_allVars
  PROVE  Walks' /\ Followed'
  <1>0. TypeOK /\ Round /\ Walks /\ Followed  BY DEF InSession
  <1>1. Walks'  BY <1>0, WalksStep DEF Followed
  <1>2. CASE Peers
    <2>1. CASE running # <<>> /\ running' = <<>>  BY <1>0, <1>1, <1>2, <2>1, HaltFollowed
    <2>2. CASE running = <<>> \/ running' # <<>>
      <3>1. UNCHANGED <<updateVars, memory, tangled>>  BY <1>2, <2>2 DEF Peers
      <3>2. CASE Client  BY <1>0, <1>1, <3>1, <3>2, ClientFollowed
      <3>3. CASE Target  BY <1>0, <1>1, <2>2, <3>1, <3>3, TargetFollowed
      <3> QED  BY <1>2, <3>2, <3>3 DEF Peers
    <2> QED  BY <2>1, <2>2
  <1>3. CASE UNCHANGED allVars
    <2>1. UNCHANGED <<updateVars, memory, tangled, commands, status>>
          /\ (Due' <=> Due) /\ (Ahead' <=> Ahead)
      BY <1>3 DEF allVars, vars, proxyVars, clientVars, queues, streams, Due, Ahead
    <2>2. commands \in Nat /\ commands <= MaxSent  BY <1>0 DEF TypeOK, Followed
    <2>3. commands' >= commands  BY <2>1, <2>2
    <2> QED  BY <1>0, <1>1, <2>1, <2>2, <2>3, FollowedStill
  <1> QED
    BY <1>0, <1>1, <1>2, <1>3, HaltSeenFollowed, UpdateReadFollowed,
       OtherReadFollowed, OthersFollowed DEF RtosNext

LEMMA SessionHolds == Orderly => (RtosSpec => []InSession)
  <1>1. TypeOK /\ Round /\ Walks /\ Followed /\ Orderly /\ [RtosNext]_allVars
          => Walks' /\ Followed'
    BY FollowedStep DEF InSession
  <1>2. CASE Orderly
    BY <1>1, <1>2, FollowedInit, ImplementsSession, OrderlyInvariant, PTL
       DEF RtosSpec, InSession
  <1> QED  BY <1>2

(* The queue of the connection and the update of the target object stay in  *)
(* step, for any lists, any number of tasks and any words the reads return, *)
(* with the breaks of the client or the acknowledges in between; and no     *)
(* update is started while a read of another is in the queue.               *)
THEOREM ReadsStayInStep == Orderly => (RtosSpec => []ReadsInStep)
  <1>1. InSession => ReadsInStep  BY InStep DEF InSession, Followed
  <1>2. CASE Orderly  BY <1>1, <1>2, SessionHolds, PTL
  <1> QED  BY <1>2

-----------------------------------------------------------------------------
LEMMA UpdateStep ==
  ASSUME Orderly, InSession, [RtosNext]_allVars
  PROVE  [Update!UpdateNext]_(Update!updateVars)
  <1> USE DEF InSession
  <1>1. UNCHANGED updateVars => UNCHANGED Update!updateVars
    BY DEF updateVars, Update!updateVars, Update!rtosVars, Update!threadVars,
           Update!listVars
  <1>2. CASE HaltSeen  BY <1>1, <1>2, HaltSeenFollowed DEF Update!UpdateNext
  <1>3. CASE UpdateRead  BY <1>3, UpdateReadFollowed DEF Update!UpdateNext
  <1>4. CASE OtherRead \/ OtherHandler \/ Peers
    BY <1>1, <1>4 DEF OtherRead, OtherHandler, Peers
  <1>5. CASE UNCHANGED allVars  BY <1>1, <1>5 DEF allVars
  <1> QED  BY <1>2, <1>3, <1>4, <1>5 DEF RtosNext

(* In an orderly session the thread update, driven by the queue of the      *)
(* connection, is one of ThreadUpdate.  Every callback gets the reply to    *)
(* the read it was registered for, while the target still is as it was when *)
(* the update began; no stop reply starts an update that runs, or another   *)
(* one for the same halt.                                                   *)
THEOREM ImplementsUpdate == Orderly => (RtosSpec => Update!UpdateSpec)
  <1>1. RtosInit => Update!UpdateInit  BY DEF RtosInit
  <1>2. CASE Orderly
    BY <1>1, <1>2, SessionHolds, UpdateStep, PTL DEF RtosSpec, Update!UpdateSpec
  <1> QED  BY <1>2

-----------------------------------------------------------------------------
(* The update of the session is the one ThreadUpdateProofs is about: the    *)
(* same module under the same substitution, which the provers are told      *)
(* definition by definition.                                                *)
Proved == INSTANCE ThreadUpdateProofs WITH running <- task, MaxStops <- MaxSent

LEMMA SameAssumption == Proved!UpdateAssumption
  BY RtosAssumption
  DEF Proved!UpdateAssumption, Update!UpdateAssumption, Proved!IsFiniteSet,
      Update!IsFiniteSet, Update!CurrentExecution, Proved!CurrentExecution

LEMMA SameUpdate == Update!UpdateSpec <=> Proved!UpdateSpec
  BY ZenonT(60)
     DEF Update!IsFiniteSet, Proved!IsFiniteSet, Update!Cardinality,
         Proved!Cardinality, Update!Range, Proved!Range, Update!SetToSeqs,
         Proved!SetToSeqs, Update!FlattenSeq, Proved!FlattenSeq,
         Update!Reverse, Proved!Reverse, Update!Last, Proved!Last,
         Update!CurrentExecution, Proved!CurrentExecution, Update!FirstId,
         Proved!FirstId, Update!NoIds, Proved!NoIds, Update!Expected,
         Proved!Expected, Update!FirstMisnumbered, Proved!FirstMisnumbered,
         Update!Numbered, Proved!Numbered, Update!Kept, Proved!Kept,
         Update!Ready, Proved!Ready, Update!Lists, Proved!Lists,
         Update!rtosVars, Proved!rtosVars, Update!listVars, Proved!listVars,
         Update!threadVars, Proved!threadVars, Update!updateVars,
         Proved!updateVars, Update!Linked, Proved!Linked, Update!Tasks,
         Proved!Tasks, Update!Layouts, Proved!Layouts, Update!Previous,
         Proved!Previous, Update!Owner, Proved!Owner, Update!TopPriority,
         Proved!TopPriority, Update!Received, Proved!Received, Update!Thread,
         Proved!Thread, Update!TcbsOf, Proved!TcbsOf, Update!Nothing,
         Proved!Nothing, Update!UpdateInit, Proved!UpdateInit, Update!Halted,
         Proved!Halted, Update!Begin, Proved!Begin, Update!Done, Proved!Done,
         Update!Walk, Proved!Walk, Update!NextList, Proved!NextList,
         Update!All, Proved!All, Update!Present, Proved!Present,
         Update!WalkAll, Proved!WalkAll, Update!Element, Proved!Element,
         Update!CountRead, Proved!CountRead, Update!CurrentRead,
         Proved!CurrentRead, Update!TopRead, Proved!TopRead, Update!ItemsRead,
         Proved!ItemsRead, Update!FirstRead, Proved!FirstRead,
         Update!OwnerRead, Proved!OwnerRead, Update!NameRead, Proved!NameRead,
         Update!NextRead, Proved!NextRead, Update!ReadReply, Proved!ReadReply,
         Update!UpdateNext, Proved!UpdateNext, Update!UpdateSpec,
         Proved!UpdateSpec

LEMMA SameLayouts ==
  /\ \A lay : Update!ListingOf(lay) = Proved!ListingOf(lay)
  /\ \A lay : Update!Tasks(lay) = Proved!Tasks(lay)
  /\ Update!Layouts = Proved!Layouts
  /\ Update!CurrentExecution = Proved!CurrentExecution
  /\ \A infos : Update!TcbsOf(infos) = Proved!TcbsOf(infos)
  /\ \A r : View!Shown(r) = Proved!View!Shown(r)
  <1> USE DEF Update!Ready, Proved!Ready, Update!Range, Proved!Range, Update!Lists,
          Proved!Lists, Update!CurrentExecution, Proved!CurrentExecution
  <1>1. \A lay : Update!ListingOf(lay) = Proved!ListingOf(lay)
    BY DEF Update!ListingOf, Proved!ListingOf, Update!All, Proved!All,
           Update!FlattenSeq, Proved!FlattenSeq, Update!Reverse, Proved!Reverse
  <1>2. \A lay : Update!Tasks(lay) = Proved!Tasks(lay)
    BY DEF Update!Tasks, Proved!Tasks
  <1>3. Update!Layouts = Proved!Layouts
    <2>1. \A S : Update!SetToSeqs(S) = Proved!SetToSeqs(S)
      BY DEF Update!SetToSeqs, Proved!SetToSeqs, Update!Cardinality,
             Proved!Cardinality
    <2> QED  BY <2>1, Zenon DEF Update!Layouts, Proved!Layouts
  <1>4. \A infos : Update!TcbsOf(infos) = Proved!TcbsOf(infos)
    BY DEF Update!TcbsOf, Proved!TcbsOf
  <1>5. \A r : View!Shown(r) = Proved!View!Shown(r)
    BY DEF View!Shown, Proved!View!Shown, View!Entry, Proved!View!Entry
  <1> QED  BY <1>1, <1>2, <1>3, <1>4, <1>5

-----------------------------------------------------------------------------
(* The view of the session.                                                 *)

SeenRtos == [tasks |-> Update!ListingOf(memory.items), running |-> memory.running]
Seen     == IF awaited # "none" \/ stops # memory.halts THEN <<>>
            ELSE [i \in DOMAIN found |->
                   [tcb |-> found[i].tcb, running |-> found[i].running]]

WalkHolds ==
  /\ Proved!IInv /\ Proved!Typed /\ Proved!Shows /\ Proved!Current /\ ~failed

LEMMA SeenShown ==
  InSession /\ WalkHolds /\ awaited = "none" /\ stops = memory.halts
    => Seen = View!Shown(SeenRtos) /\ Seen # <<>>
  <1> SUFFICES ASSUME InSession, WalkHolds, awaited = "none", stops = memory.halts
               PROVE  Seen = View!Shown(SeenRtos) /\ Seen # <<>>
    OBVIOUS
  <1>1. Proved!ViewShown = Proved!View!Shown(Proved!ViewRtos) /\ Proved!ViewShown # <<>>
    BY SameAssumption, Proved!ShownClean DEF WalkHolds
  <1>2. Seen = Proved!ViewShown  BY DEF Seen, Proved!ViewShown
  <1>3. memory.items = items /\ memory.running = task
    BY DEF InSession, Followed
  <1>4. SeenRtos = Proved!ViewRtos
    BY <1>3, SameLayouts DEF SeenRtos, Proved!ViewRtos, Proved!Listing
  <1> QED  BY <1>1, <1>2, <1>4, SameLayouts

LEMMA SeenInit ==
  ASSUME RtosInit, InSession, WalkHolds
  PROVE  SeenRtos = [tasks |-> <<>>, running |-> 0] /\ Seen = View!Shown(SeenRtos)
  <1>1. /\ memory.items = items /\ memory.running = task /\ memory.halts = stops
        /\ awaited = "none" /\ task = 0
    BY DEF RtosInit, Update!UpdateInit
  <1>2. Proved!UpdateInit
    BY DEF RtosInit, Update!UpdateInit, Proved!UpdateInit, Update!Lists, Proved!Lists,
           Update!CurrentExecution, Proved!CurrentExecution, Update!Thread,
           Proved!Thread, Update!NoIds, Proved!NoIds
  <1>3. Update!ListingOf(items) = <<>>
    BY <1>2, SameAssumption, SameLayouts, Proved!EmptyWalk DEF Proved!Listing
  <1> QED  BY <1>1, <1>3, SeenShown DEF SeenRtos

LEMMA HaltSeenNext ==
  ASSUME Orderly, InSession, WalkHolds, InSession', Peers, running # <<>>, running' = <<>>
  PROVE  Seen # <<>> /\ Seen' = <<>>
         /\ \/ SeenRtos'.running = 0
            \/ \E i \in DOMAIN SeenRtos'.tasks : SeenRtos'.tasks[i] = SeenRtos'.running
  <1>1. /\ awaited = "none" /\ stops = memory.halts
        /\ awaited' = "none" /\ stops' # memory'.halts
    BY HaltFollowed DEF InSession
  <1>2. Seen # <<>> /\ Seen' = <<>>  BY <1>1, SeenShown DEF Seen
  <1> DEFINE lay == memory'.items
  <1>3. /\ lay \in Update!Layouts
        /\ memory'.running \in IF Update!Tasks(lay) = {} THEN {0} ELSE Update!Tasks(lay)
    BY <1>1 DEF InSession, Followed, Placed
  <1> HIDE DEF lay
  <1>4. Proved!Heap(lay)
    BY <1>3, SameAssumption, SameLayouts, Proved!LayoutsAreHeaps
  <1>5. \A t \in Update!Tasks(lay) :
          \E i \in DOMAIN Update!ListingOf(lay) : Update!ListingOf(lay)[i] = t
    BY <1>4, SameAssumption, SameLayouts, Proved!ListingComplete
  <1>6. SeenRtos' = [tasks |-> Update!ListingOf(lay), running |-> memory'.running]
    BY DEF SeenRtos, lay
  <1> QED  BY <1>2, <1>3, <1>5, <1>6

LEMMA SeenNext ==
  ASSUME Orderly, InSession, WalkHolds, InSession', WalkHolds', [RtosNext]_allVars
  PROVE  [View!Next]_<<SeenRtos, Seen>>
  <1>0. TypeOK /\ Round /\ Walks /\ Followed  BY DEF InSession
  <1>1. UNCHANGED <<updateVars, memory>> => UNCHANGED <<SeenRtos, Seen>>
    BY DEF updateVars, SeenRtos, Seen
  <1>2. UNCHANGED memory => UNCHANGED SeenRtos  BY DEF SeenRtos
  <1>3. CASE HaltSeen
    <2>1. /\ stops # memory.halts /\ awaited = "none" /\ UNCHANGED memory
          /\ awaited' # "none" \/ UNCHANGED updateVars
      BY <1>0, <1>3, HaltSeenFollowed
    <2>2. Seen = <<>> /\ (awaited' # "none" => Seen' = <<>>)  BY <2>1 DEF Seen
    <2> QED  BY <1>1, <1>2, <2>1, <2>2
  <1>4. CASE UpdateRead
    <2>1. Update!ReadReply /\ stops = memory.halts /\ UNCHANGED <<memory, stops>>
      BY <1>0, <1>4, UpdateReadFollowed
    <2>2. awaited # "none"
      BY <2>1 DEF Update!ReadReply, Update!CountRead, Update!CurrentRead,
         Update!TopRead, Update!ItemsRead, Update!FirstRead, Update!OwnerRead,
         Update!NameRead, Update!NextRead
    <2>3. Seen = <<>>  BY <2>2 DEF Seen
    <2>4. CASE awaited' # "none"
      BY <1>2, <2>1, <2>3, <2>4 DEF Seen
    <2>5. CASE awaited' = "none"
      <3>1. (InSession /\ WalkHolds /\ awaited = "none" /\ stops = memory.halts
               => Seen = View!Shown(SeenRtos) /\ Seen # <<>>)'
        BY SeenShown, PTL
      <3>2. Seen' = View!Shown(SeenRtos)' /\ UNCHANGED SeenRtos
        BY <1>2, <2>1, <2>5, <3>1
      <3>3. Seen' = View!Shown(SeenRtos)
        BY <3>2 DEF View!Shown, View!Entry
      <3> QED  BY <2>3, <3>2, <3>3
           DEF View!Next, View!Publish, View!Updating, SeenRtos, Seen
    <2> QED  BY <2>4, <2>5
  <1>5. CASE OtherRead \/ OtherHandler
    BY <1>1, <1>5 DEF OtherRead, OtherHandler
  <1>6. CASE Peers
    <2>1. CASE running # <<>> /\ running' = <<>>
      BY <1>6, <2>1, HaltSeenNext
         DEF View!Next, View!Halt, View!Updating, SeenRtos, Seen
    <2>2. CASE ~(running # <<>> /\ running' = <<>>)
      BY <1>1, <1>6, <2>2 DEF Peers
    <2> QED  BY <2>1, <2>2
  <1>7. CASE UNCHANGED allVars  BY <1>1, <1>7 DEF allVars
  <1> QED  BY <1>3, <1>4, <1>5, <1>6, <1>7 DEF RtosNext

LEMMA WalkKept ==
  Orderly /\ Wrong = {} /\ ~TopKnown => (RtosSpec => [](InSession /\ WalkHolds))
  <1>1. CASE Orderly /\ Wrong = {} /\ ~TopKnown
    <2>1. RtosSpec => Proved!UpdateSpec  BY <1>1, ImplementsUpdate, SameUpdate
    <2>2. Proved!UpdateSpec => []Proved!IInv
      BY SameAssumption, Proved!Inductive
    <2>3. Proved!UpdateSpec => []Proved!Typed
      BY SameAssumption, Proved!TypedHolds
    <2>4. Proved!UpdateSpec => [](Proved!Shows /\ Proved!Current)
      BY <1>1, SameAssumption, Proved!ShowsHolds
    <2>5. Proved!UpdateSpec => []~failed
      BY <1>1, SameAssumption, Proved!NoneFails
    <2>6. RtosSpec => []InSession  BY <1>1, SessionHolds
    <2> QED  BY <2>1, <2>2, <2>3, <2>4, <2>5, <2>6, PTL DEF WalkHolds
  <1> QED  BY <1>1

(* In an orderly session with a target that answers every read, what the    *)
(* client is shown after each halt of the target is the tasks it halted     *)
(* with and no others, once each, and nothing from the halt until its       *)
(* update has ended: although the halt, the stop reply that tells of it and *)
(* the replies to the reads pass through the queues that breaks or          *)
(* acknowledges share, and the callbacks take each for what the queue says. *)
THEOREM SessionShowsTasks ==
  Orderly /\ Wrong = {} /\ ~TopKnown => (RtosSpec => SessionView)
  <1>1. CASE Orderly /\ Wrong = {} /\ ~TopKnown
    <2>1. RtosSpec => [](InSession /\ WalkHolds)  BY <1>1, WalkKept
    <2>2. Orderly /\ InSession /\ WalkHolds /\ (InSession /\ WalkHolds)' /\ [RtosNext]_allVars
            => [View!Next]_<<SeenRtos, Seen>>
      BY SeenNext
    <2>3. RtosInit /\ InSession /\ WalkHolds => View!Init
      <3>1. SeenRtos = [tasks |-> <<>>, running |-> 0] /\ Seen = View!Shown(SeenRtos)
              => View!Init
        BY DEF View!Init, SeenRtos, Seen
      <3> QED  BY <3>1, SeenInit
    <2>4. [View!Next]_<<SeenRtos, Seen>> =>
            [View!Next]_<<[tasks |-> Update!ListingOf(memory.items),
                           running |-> memory.running],
                          IF awaited # "none" \/ stops # memory.halts THEN <<>>
                          ELSE [i \in DOMAIN found |->
                                 [tcb |-> found[i].tcb, running |-> found[i].running]]>>
      BY DEF SeenRtos, Seen
    <2> QED
      BY <1>1, <2>1, <2>2, <2>3, <2>4, PTL DEF RtosSpec, SessionView, View!Spec
  <1> QED  BY <1>1

-----------------------------------------------------------------------------
(* A stop reply on its way to the client is past the update of its halt,    *)
(* and the target has not halted again.                                     *)
LEMMA ReplyEndsUpdate ==
  ASSUME TypeOK, Round, Walks, Followed, NEW i \in 1..Len(p2c \o Pkts(responses)),
         (p2c \o Pkts(responses))[i].kind = "T"
  PROVE  awaited = "none" /\ memory.items = items
  <1>1. PICK x : x.kind = "T" /\ \/ \E n \in 1..Len(p2c) : p2c[n] = x
                                 \/ \E n \in 1..Len(responses) : responses[n].pkt = x
    <2> DEFINE W == Pkts(responses)
    <2>1. p2c \in Seq(Packet) /\ responses \in Seq(Transfer)  BY DEF TypeOK
    <2>2. W \in Seq(Packet) /\ Len(W) = Len(responses)
          /\ \A n \in 1..Len(W) : W[n] = responses[n].pkt
      BY <2>1, TransferFields, LenProperties DEF Pkts
    <2> HIDE DEF W
    <2>3. \/ i \in 1..Len(p2c) /\ (p2c \o W)[i] = p2c[i]
          \/ i - Len(p2c) \in 1..Len(W) /\ (p2c \o W)[i] = W[i - Len(p2c)]
      <3>1. Len(p2c) \in Nat /\ Len(W) \in Nat  BY <2>1, <2>2, LenProperties
      <3>2. Len(p2c \o W) = Len(p2c) + Len(W)  BY <2>1, <2>2, ConcatProperties
      <3>3. i \in 1..Len(p2c) + Len(W)  BY <3>2 DEF W
      <3>4. (p2c \o W)[i] = IF i <= Len(p2c) THEN p2c[i] ELSE W[i - Len(p2c)]
        BY <2>1, <2>2, <3>3, ConcatProperties
      <3> QED  BY <3>1, <3>3, <3>4
    <2>4. (p2c \o W)[i].kind = "T"  BY DEF W
    <2> QED  BY <2>2, <2>3, <2>4
  <1>2. \A g : Ack(g).kind # "T" /\ Ext(Ack(g)).pkt = Ack(g)  BY DEF Ack, Ext
  <1>3. ~Down(<<>>, <<>>)
    <2>1. Len(<<>>) = 0  OBVIOUS
    <2> QED  BY <1>1, <2>1 DEF Down
  <1>4. ASSUME NEW w, NEW t, Returned(w, t) PROVE FALSE
    <2>1. Down(<<Ext(Ack(w.tag))>>, <<>>) \/ Down(<<>>, <<Ack(w.tag)>>)
      BY <1>3, <1>4 DEF Returned
    <2>2. Len(<<>>) = 0  OBVIOUS
    <2> QED  BY <1>1, <1>2, <2>1, <2>2, InSingle DEF Down
  <1>5. PICK w : Settled(w)
    BY <1>3, <1>4 DEF Round, Resting, Stage, Fresh, Underway, Thrown
  <1>6. PICK v \in Seq(PlusT) : requests = v /\ status = "ok"
    BY <1>5 DEF Settled, Free, Up
  <1>7. ASSUME NEW n \in 1..Len(requests) PROVE ~IsScan(requests[n])
    BY <1>6, <1>7, InAppended DEF PlusT, IsAck, IsScan
  <1>8. ~Due
    <2>1. ASSUME requests # <<>> PROVE Head(requests).pkt.kind # "stop"
      BY <1>6, <2>1, HeadTailProperties DEF PlusT, IsAck
    <2> QED  BY <2>1 DEF Due
  <1>9. memory.items = items  BY <1>6, <1>8 DEF Followed
  <1> QED  BY <1>6, <1>7, <1>9 DEF Walks

(* The client of an orderly session is not told of a halt before the thread *)
(* update has ended, and what it is shown when it asks is the tasks that    *)
(* the target halted with, when the target answers every read.              *)
THEOREM HaltReportedComplete ==
  Orderly /\ Wrong = {} /\ ~TopKnown => (RtosSpec => []ReportsUpdate)
  <1>1. InSession /\ WalkHolds => ReportsUpdate
    <2> SUFFICES ASSUME InSession, WalkHolds,
                        NEW i \in 1..Len(p2c \o Pkts(responses)),
                        (p2c \o Pkts(responses))[i].kind = "T"
                 PROVE  /\ awaited = "none"
                        /\ Update!TcbsOf(found) \ {Update!CurrentExecution}
                             = Update!Tasks(memory.items)
      BY DEF ReportsUpdate
    <2>1. awaited = "none" /\ memory.items = items
      BY ReplyEndsUpdate DEF InSession
    <2>2. Proved!TcbsOf(found) \ {Proved!CurrentExecution} = Proved!Tasks(items)
      BY <2>1, SameAssumption, Proved!FoundIsTasks DEF WalkHolds
    <2> QED  BY <2>1, <2>2, SameLayouts
  <1>2. CASE Orderly /\ Wrong = {} /\ ~TopKnown
    BY <1>1, <1>2, WalkKept, PTL
  <1> QED  BY <1>2
=============================================================================
