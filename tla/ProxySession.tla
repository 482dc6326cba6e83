----------------------------- MODULE ProxySession -----------------------------
(****************************************************************************)
(* A whole session: the proxied connection (ProxyConn) between a debugger   *)
(* and a debug server, both external and modelled by what the remote serial *)
(* protocol lets them do.                                                   *)
(*                                                                          *)
(* The client keeps at most Window commands unanswered, sends nothing but a *)
(* break while it waits for the target to halt, and in acknowledge mode     *)
(* waits for a '+' before anything else.  The target answers the commands   *)
(* in the order it receives them.                                           *)
(****************************************************************************)
EXTENDS ProxyConn

CONSTANTS
  Kinds,           \* the commands the client uses
  AckKinds,        \* those it uses before QStartNoAckMode took effect
  Window,          \* commands the client may have unanswered (1: GDB)
  MaxSent,         \* bound: commands of a session
  MaxBreaks,       \* bound: breaks of a session
  MaxRetransmits,  \* bound: commands repeated for want of a '+'
  MaxNaks,         \* bound: packets each peer refuses with a '-'
  StartAck,        \* TRUE: from the connect; FALSE: acknowledges already off
  SelfStop,        \* TRUE: the target may halt without a break
  StopReplies      \* the stop replies the target may give

ASSUME SessionAssumption ==
  /\ Kinds \subseteq {"plain", "noack", "local", "stop", "regs"}
  /\ AckKinds \subseteq Kinds
  /\ Window \in Nat \ {0}
  /\ MaxSent \in Nat /\ MaxBreaks \in Nat /\ MaxRetransmits \in Nat
  /\ MaxNaks \in Nat
  /\ StartAck \in BOOLEAN /\ SelfStop \in BOOLEAN
  /\ StopReplies \subseteq {"T", "other"} /\ StopReplies # {}

VARIABLES
  sent,      \* serial number of the last packet the client sent
  commands,  \* how many of them were commands
  waiting,   \* commands not yet answered, oldest first
  got,       \* number of the last command answered by a reply of its own
  cliAck,    \* the client acknowledges
  unacked,   \* serial of the command whose '+' is missing, 0: none
  breaks,    \* breaks sent so far
  broke,     \* a break was sent and the target has not been seen to halt
  repeats,   \* commands repeated so far
  naks,      \* replies the client refused so far
  running,   \* the command that set the target running, <<>>: halted
  tgtAck,    \* the target acknowledges
  lastReply, \* the last data packet of the target, repeated on a '-'
  refused    \* commands the target refused so far

clientVars == <<sent, commands, waiting, got, cliAck, unacked, breaks, broke,
                repeats, naks>>
targetVars == <<running, tgtAck, lastReply, refused>>
vars       == <<proxyVars, clientVars, targetVars>>

Init ==
  /\ ProxyInit /\ ackMode = StartAck
  /\ sent = 0 /\ commands = 0 /\ waiting = <<>> /\ got = 0
  /\ cliAck = StartAck /\ unacked = 0
  /\ breaks = 0 /\ broke = FALSE /\ repeats = 0
  /\ naks = 0
  /\ running = <<>> /\ tgtAck = StartAck
  /\ lastReply = <<>> /\ refused = 0

-----------------------------------------------------------------------------
(* The client.                                                              *)
AwaitsStop == \E i \in 1..Len(waiting) : waiting[i].kind = "stop"

ClientToProxy(p) ==
  /\ c2p' = Append(c2p, p)
  /\ UNCHANGED <<queues, ackMode, stopReply, status, p2c, p2t, t2p>>

SendCommand(k) ==
  /\ commands < MaxSent /\ Len(waiting) < Window /\ ~AwaitsStop
  /\ cliAck => waiting = <<>> /\ unacked = 0 /\ k \in AckKinds
  /\ k = "noack" => cliAck
  /\ ClientToProxy(Dat(k, <<sent + 1, 0>>))
  /\ sent' = sent + 1 /\ commands' = commands + 1
  /\ waiting' = Append(waiting, Dat(k, <<sent + 1, 0>>))
  /\ unacked' = IF cliAck THEN sent + 1 ELSE 0
  /\ UNCHANGED <<got, cliAck, breaks, broke, repeats, naks, targetVars>>

SendBreak ==
  /\ breaks < MaxBreaks /\ AwaitsStop /\ ~broke /\ unacked = 0
  /\ ClientToProxy(Brk(<<sent + 1, 0>>))
  /\ sent' = sent + 1 /\ breaks' = breaks + 1 /\ broke' = TRUE
  /\ UNCHANGED <<commands, waiting, got, cliAck, unacked, repeats, naks,
                 targetVars>>

Retransmit ==
  /\ repeats < MaxRetransmits /\ unacked # 0 /\ waiting # <<>>
  /\ ClientToProxy(Dat(Head(waiting).kind, <<unacked, 0>>))
  /\ repeats' = repeats + 1
  /\ UNCHANGED <<sent, commands, waiting, got, cliAck, unacked, breaks, broke,
                 naks, targetVars>>

(* After a '-' the client may repeat its command (Retransmit).              *)
ReceiveAck ==
  /\ p2c # <<>> /\ Head(p2c).type # "dat"
  /\ unacked' = IF Head(p2c).type = "ack" THEN 0 ELSE unacked
  /\ p2c' = Tail(p2c)
  /\ UNCHANGED <<queues, ackMode, stopReply, status, c2p, p2t, t2p, sent,
                 commands, waiting, got, cliAck, breaks, broke, repeats, naks,
                 targetVars>>

(* The command a packet answers; no command, when it answers one of the     *)
(* proxy's memory reads.                                                    *)
Own(p) == IF p.tag[2] = 0 THEN p.tag[1] ELSE 0

(* A reply is taken as the one to the oldest command; a reply that finds no *)
(* command waiting is dropped.  The OK to QStartNoAckMode is acknowledged   *)
(* for the last time.                                                       *)
ReceiveReply ==
  /\ p2c # <<>> /\ Head(p2c).type = "dat"
  /\ p2c' = Tail(p2c)
  /\ IF waiting = <<>>
     THEN UNCHANGED <<got, waiting, broke>>
     ELSE /\ waiting' = Tail(waiting)
          /\ got' = Own(Head(p2c))
          /\ broke' = (broke /\ Head(waiting).kind # "stop")
  /\ IF cliAck
     THEN /\ c2p' = Append(c2p, Ack(<<sent + 1, 0>>))
          /\ sent' = sent + 1
     ELSE UNCHANGED <<c2p, sent>>
  /\ cliAck' = (cliAck /\ Head(p2c).kind # "OK")
  /\ UNCHANGED <<queues, ackMode, stopReply, status, p2t, t2p, commands,
                 unacked, breaks, repeats, naks, targetVars>>

(* A reply that arrives damaged is asked for again, unless the client still *)
(* waits for a '+'.                                                         *)
RefuseReply ==
  /\ p2c # <<>> /\ Head(p2c).type = "dat"
  /\ cliAck /\ unacked = 0 /\ naks < MaxNaks
  /\ p2c' = Tail(p2c)
  /\ c2p' = Append(c2p, Nak(<<sent + 1, 0>>))
  /\ sent' = sent + 1 /\ naks' = naks + 1
  /\ UNCHANGED <<queues, ackMode, stopReply, status, p2t, t2p, commands,
                 waiting, got, cliAck, unacked, breaks, broke, repeats,
                 targetVars>>

-----------------------------------------------------------------------------
(* The target.                                                              *)
Reply(k, p) ==
  /\ t2p' = (IF tgtAck THEN Append(t2p, Ack(p.tag)) ELSE t2p)
            \o <<Dat(k, p.tag)>>
  /\ lastReply' = <<Dat(k, p.tag)>>

TargetAccept ==
  /\ p2t # <<>> /\ running = <<>> /\ Head(p2t).type = "dat"
  /\ p2t' = Tail(p2t)
  /\ \/ /\ Head(p2t).kind = "stop"
        /\ running' = <<Head(p2t)>>
        /\ t2p' = IF tgtAck THEN Append(t2p, Ack(Head(p2t).tag)) ELSE t2p
        /\ UNCHANGED <<tgtAck, lastReply>>
     \/ /\ Head(p2t).kind = "noack"
        /\ \E k \in {"OK", "data"} :
             Reply(k, Head(p2t)) /\ tgtAck' = (tgtAck /\ k # "OK")
        /\ UNCHANGED running
     \/ /\ Head(p2t).kind \in {"plain", "scan", "fetch"}
        /\ Reply("data", Head(p2t))
        /\ UNCHANGED <<running, tgtAck>>
  /\ UNCHANGED <<queues, ackMode, stopReply, status, c2p, p2c, clientVars,
                 refused>>

(* A command that arrives damaged is asked for again.                       *)
TargetRefuse ==
  /\ p2t # <<>> /\ running = <<>> /\ Head(p2t).type = "dat"
  /\ tgtAck /\ refused < MaxNaks
  /\ p2t' = Tail(p2t)
  /\ t2p' = Append(t2p, Nak(Head(p2t).tag))
  /\ refused' = refused + 1
  /\ UNCHANGED <<queues, ackMode, stopReply, status, c2p, p2c, clientVars,
                 running, tgtAck, lastReply>>

Halted(k) ==
  /\ t2p' = Append(t2p, Dat(k, running[1].tag))
  /\ lastReply' = <<Dat(k, running[1].tag)>>
  /\ running' = <<>>

(* A break halts a running target and is ignored otherwise; a '-' makes it  *)
(* repeat its last reply.                                                   *)
TargetSignal ==
  /\ p2t # <<>> /\ Head(p2t).type # "dat"
  /\ p2t' = Tail(p2t)
  /\ \/ /\ Head(p2t).type = "brk" /\ running # <<>>
        /\ \E k \in StopReplies : Halted(k)
     \/ /\ Head(p2t).type = "nak"
        /\ t2p' = t2p \o lastReply
        /\ UNCHANGED <<running, lastReply>>
     \/ /\ Head(p2t).type \in {"ack", "brk"}
        /\ Head(p2t).type = "brk" => running = <<>>
        /\ UNCHANGED <<running, t2p, lastReply>>
  /\ UNCHANGED <<queues, ackMode, stopReply, status, c2p, p2c, clientVars,
                 tgtAck, refused>>

Halt ==
  /\ SelfStop /\ running # <<>>
  /\ \E k \in StopReplies : Halted(k)
  /\ UNCHANGED <<queues, ackMode, stopReply, status, c2p, p2c, p2t,
                 clientVars, tgtAck, refused>>

-----------------------------------------------------------------------------
Proxy ==
  /\ ProxyStep
  /\ UNCHANGED <<clientVars, targetVars>>

Client ==
  \/ \E k \in Kinds : SendCommand(k)
  \/ SendBreak \/ Retransmit \/ ReceiveAck \/ ReceiveReply \/ RefuseReply

Target == TargetAccept \/ TargetRefuse \/ TargetSignal \/ Halt

Next == Proxy \/ Client \/ Target

Spec == Init /\ [][Next]_vars

(* The io_service runs every handler that is ready; the peers read what     *)
(* arrives, and a target that may halt by itself does.  Commands, breaks    *)
(* and repetitions are the user's choice.                                   *)
Fairness ==
  /\ WF_vars(ReadClient /\ UNCHANGED <<clientVars, targetVars>>)
  /\ WF_vars(ReadTarget /\ UNCHANGED <<clientVars, targetVars>>)
  /\ WF_vars(WriteRequestDone /\ UNCHANGED <<clientVars, targetVars>>)
  /\ WF_vars(WriteResponseDone /\ UNCHANGED <<clientVars, targetVars>>)
  /\ WF_vars(TargetAccept) /\ WF_vars(TargetSignal) /\ WF_vars(Halt)
  /\ WF_vars(ReceiveAck) /\ WF_vars(ReceiveReply)

FairSpec == Spec /\ Fairness

-----------------------------------------------------------------------------
(* Properties.                                                              *)

(* Every variable stays in its domain.                                      *)
TypeOK ==
  /\ requests \in Seq(Transfer) /\ reqWrites \in Seq(Transfer)
  /\ responses \in Seq(Transfer)
  /\ ackMode \in BOOLEAN /\ stopReply \in Nat
  /\ status \in {"ok", "aborted", "undefined"}
  /\ c2p \in Seq(Packet) /\ p2c \in Seq(Packet)
  /\ p2t \in Seq(Packet) /\ t2p \in Seq(Packet)
  /\ sent \in Nat /\ commands \in Nat /\ got \in Nat
  /\ waiting \in Seq(Packet)
  /\ cliAck \in BOOLEAN /\ unacked \in Nat
  /\ breaks \in Nat /\ broke \in BOOLEAN /\ repeats \in Nat
  /\ naks \in Nat
  /\ running \in Seq(Packet) /\ tgtAck \in BOOLEAN
  /\ lastReply \in Seq(Packet) /\ refused \in Nat

(* on_response assumes that what arrives from the target answers the front  *)
(* of the requests queue.  It does: there is a front, and it is the request *)
(* the next packet of the target belongs to.                                *)
Matched ==
  status = "ok" /\ t2p # <<>> =>
    requests # <<>> /\ Head(requests).pkt.tag = Head(t2p).tag

(* The requests queue is the round trip: it holds, in this order, what the  *)
(* target has answered, what it is running, what is on its way to it, and   *)
(* what is being written.  Without breaks and acknowledges no transfer is   *)
(* ever lost, duplicated or left behind in the queue.                       *)
Tags(s) == [i \in DOMAIN s |-> s[i].tag]
Pkts(s) == [i \in DOMAIN s |-> s[i].pkt]

InFlight ==
  status = "ok" =>
    Tags(Pkts(requests)) =
      Tags(t2p) \o Tags(running) \o Tags(p2t) \o Tags(Pkts(reqWrites))

(* The comment in start_write's completion handler: "Data packets must be   *)
(* cleaned at the Response handler".  A data request leaves the queue only  *)
(* when the proxy reads the reply to it.                                    *)
DatCleanedByResponse ==
  [][\A i \in 1..Len(requests) :
       /\ requests[i].pkt.type = "dat"
       /\ \A j \in 1..Len(requests') : requests'[j] # requests[i]
       => /\ t2p # <<>> /\ t2p' = Tail(t2p)
          /\ Head(t2p).type = "dat"
          /\ Head(t2p).tag = requests[i].pkt.tag]_vars

(* start_write gives async_write a view of the packet that sits in the      *)
(* queue: as long as the write is not completed its transfer must not be    *)
(* taken out, or the bytes are sent from freed memory.                      *)
BuffersAlive ==
  status = "ok" =>
    \A i \in 1..Len(reqWrites) :
      \E j \in 1..Len(requests) : requests[j] = reqWrites[i]

(* A second async_write on a socket before the first is complete may mix    *)
(* their bytes.  start_write does not look, but with a client that waits    *)
(* for its answers there is never more than one.                            *)
WritesDoNotOverlap == Len(reqWrites) <= 1 /\ Len(responses) <= 1

(* Neither on_response nor a completion handler takes the front of a queue  *)
(* that is empty, whatever breaks, repeated commands and commands the       *)
(* target refused did to its order.  It needs that the client refuses no    *)
(* reply: the repeated reply may find the queue empty.                      *)
FrontExists == naks = 0 => status # "undefined"

(* What was a hazard for every write is left for breaks only: a command, a  *)
(* '+' and a memory read of the proxy stay in the queue until their bytes   *)
(* are written, though completions of other packets pop the front while     *)
(* they are under way.  A break is the only packet whose buffer may go.     *)
OnlyBreaksDropped ==
  naks = 0 /\ status = "ok" =>
    \A i \in 1..Len(reqWrites) :
      reqWrites[i].pkt.type # "brk" =>
        \E j \in 1..Len(requests) : requests[j] = reqWrites[i]

(* The three parties leave acknowledge mode one after the other: the target *)
(* first, the proxy when it reads the OK, the client when it gets it.       *)
AckOrder == (~cliAck => ~ackMode) /\ (~ackMode => ~tgtAck)

(* Every '+' that reaches the client is for the command it waits to be      *)
(* acknowledged; those for the proxy's own requests never get there.        *)
AcksForCommands ==
  \A i \in 1..Len(p2c) : p2c[i].type = "ack" => p2c[i].tag = <<unacked, 0>>

(* A break is put in front of the requests queue, but nothing overtakes on  *)
(* the wire: whatever else goes wrong, the client's packets reach the       *)
(* target in the order the client sent them.                                *)
ClientOrder ==
  LET wire == p2t \o Pkts(reqWrites)
  IN  \A i, j \in 1..Len(wire) :
        i < j /\ wire[i].tag[2] = 0 /\ wire[j].tag[2] = 0 =>
          wire[i].tag[1] <= wire[j].tag[1]

(* Nobody waits for nothing: while a command is unanswered, a data packet   *)
(* for it is somewhere on the round trip, the command itself, a memory read *)
(* made on behalf of it, or its answer, and never just in a queue, a kept   *)
(* stop reply or a callback.                                                *)
Attended ==
  status = "ok" =>
    \A i \in 1..Len(waiting) :
      \E s \in {c2p, Pkts(reqWrites), p2t, running, t2p, Pkts(responses), p2c} :
        \E j \in 1..Len(s) :
          s[j].type = "dat" /\ s[j].tag[1] = waiting[i].tag[1]

(* The client sees an ordered dialogue: the proxy's own requests, breaks    *)
(* and local answers never show up as the answer to another command.        *)
Promise == INSTANCE Dialogue
             WITH asked  <- [i \in DOMAIN waiting |-> waiting[i].tag[1]],
                  serial <- sent
OrderedDialogue == Promise!Spec

(* Every command is answered, with the answer that is its own.              *)
Answered ==
  \A n \in 1..(2 * MaxSent + MaxBreaks) :
    (\E i \in 1..Len(waiting) : waiting[i].tag[1] = n) ~> (got = n)

(* A break halts the target and the client learns of it, although the break *)
(* overtakes the command it interrupts in the requests queue.               *)
BreakAnswered == broke ~> ~broke
=============================================================================
