------------------------------ MODULE ProxyConn ------------------------------
(****************************************************************************)
(* One proxied debug session: class connection and its two channels         *)
(* (proxy-conn.cpp), with the part of target_mb_freertos that decides what  *)
(* happens to a request: forward it, answer it locally, or re-send it as an *)
(* internal request whose answer starts a chain of memory reads.            *)
(*                                                                          *)
(* The io_service is run by a single thread, so a completion handler is one *)
(* atomic step.  A read handler consumes one packet per step: TCP may split *)
(* the stream anywhere, so this covers every batch process_data loops over. *)
(* The bytes of an async_write reach the peer's stream when its completion  *)
(* handler runs; what matters is that other handlers may run in between.    *)
(*                                                                          *)
(* A packet carries its type, the kind of request or reply it stands for,   *)
(* and a tag <<n, j>>: n is the serial number of the client's packet, j the *)
(* number of the memory read the proxy makes on behalf of it (0: none).     *)
(****************************************************************************)
EXTENDS Naturals, Sequences

CONSTANTS MaxReads    \* bound: memory reads of one update_threads

ASSUME MaxReadsAssumption == MaxReads \in Nat

VARIABLES
  requests,   \* m_requests_channel.m_transfers, front first
  reqWrites,  \* async_writes to the target not yet completed, oldest first
  responses,  \* m_responses_channel.m_transfers, all of them being written
  ackMode,    \* m_ack_mode
  stopReply,  \* command whose reply m_stop_reply_response holds, 0: none
  status,     \* "ok", "aborted" (exception or assert), "undefined" behaviour
  c2p, p2c,   \* TCP stream client -> proxy and proxy -> client
  p2t, t2p    \* TCP stream proxy -> target and target -> proxy

queues    == <<requests, reqWrites, responses>>
streams   == <<c2p, p2c, p2t, t2p>>
proxyVars == <<queues, ackMode, stopReply, status, streams>>

-----------------------------------------------------------------------------
Types     == {"dat", "ack", "nak", "brk"}
\* What a request asks: "plain" is forwarded, "noack" is QStartNoAckMode,
\* "local" is answered by the proxy, "stop" is answered when the target
\* halts, "regs" reads the registers of a thread that is not running.  The
\* proxy's own memory reads are a "scan" (update_threads after a stop) or a
\* "fetch" (stack pointer, then stacked registers).
Requested == {"plain", "noack", "local", "stop", "regs", "scan", "fetch"}
\* What a reply says: "OK", a "T" stop reply, another stop reply, or data.
Replied   == {"OK", "T", "other", "data"}
Packet    == [type : Types, kind : Requested \cup Replied \cup {"none"},
              tag : Nat \X Nat]
Transfer  == [pkt : Packet, internal : BOOLEAN]

Dat(k, t)    == [type |-> "dat", kind |-> k, tag |-> t]
Ack(t)       == [type |-> "ack", kind |-> "none", tag |-> t]
Nak(t)       == [type |-> "nak", kind |-> "none", tag |-> t]
Brk(t)       == [type |-> "brk", kind |-> "none", tag |-> t]
Ext(p)       == [pkt |-> p, internal |-> FALSE]
Internal(p)  == [pkt |-> p, internal |-> TRUE]
MemRead(k, n, j) == Internal(Dat(k, <<n, j>>))

ProxyInit ==
  /\ requests = <<>> /\ reqWrites = <<>> /\ responses = <<>>
  /\ stopReply = 0
  /\ status = "ok"
  /\ c2p = <<>> /\ p2c = <<>> /\ p2t = <<>> /\ t2p = <<>>

-----------------------------------------------------------------------------
(* channel::start_write, requests direction: a break overtakes the queue,   *)
(* but its bytes follow those already given to the socket.                  *)
MutEnqueued(q, t) == Append(q, t)   \* mutant: a break queues like the rest

Enqueued(q, t) == IF t.pkt.type = "brk" THEN <<t>> \o q ELSE Append(q, t)

MutStartWrite(t) ==   \* mutant: the bytes of a break overtake as well
  /\ requests'  = Enqueued(requests, t)
  /\ reqWrites' = Enqueued(reqWrites, t)
  /\ UNCHANGED responses

StartWrite(t) ==
  /\ requests'  = Enqueued(requests, t)
  /\ reqWrites' = Append(reqWrites, t)
  /\ UNCHANGED responses

Respond(p) ==
  /\ responses' = Append(responses, Internal(p))
  /\ UNCHANGED <<requests, reqWrites>>

(* on_request for one packet, and start_write when it is not handled.       *)
MutRoute(p) ==   \* mutant: the target hook claims to have handled a break
  \/ /\ p.type = "brk"
     /\ UNCHANGED queues
  \/ /\ p.type \in {"ack", "nak"} \/ p.kind \in {"plain", "noack"}
     /\ StartWrite(Ext(p))
  \/ /\ p.type = "dat" /\ p.kind = "stop"
     /\ StartWrite(Internal(p))
  \/ /\ p.type = "dat" /\ p.kind \in {"local", "regs"}
     /\ Respond(Dat("data", p.tag))

MutRouteLocal(p) ==   \* mutant: a request answered locally is forwarded too
  \/ /\ p.type # "dat" \/ p.kind \in {"plain", "noack", "stop"}
     /\ StartWrite(Ext(p))
  \/ /\ p.type = "dat" /\ p.kind \in {"local", "regs"}
     /\ requests'  = Enqueued(requests, Ext(p))
     /\ reqWrites' = Append(reqWrites, Ext(p))
     /\ responses' = Append(responses, Internal(Dat("data", p.tag)))

Route(p) ==
  \/ /\ p.type # "dat" \/ p.kind \in {"plain", "noack"}
     /\ StartWrite(Ext(p))
  \/ /\ p.type = "dat" /\ p.kind = "local"
     /\ Respond(Dat("data", p.tag))
  \/ /\ p.type = "dat" /\ p.kind = "stop"
     /\ StartWrite(Internal(p))
  \/ /\ p.type = "dat" /\ p.kind = "regs"
     /\ StartWrite(MemRead("fetch", p.tag[1], 1))

ReadClient ==
  /\ status = "ok" /\ c2p # <<>>
  /\ Route(Head(c2p))
  /\ c2p' = Tail(c2p)
  /\ UNCHANGED <<ackMode, stopReply, status, p2c, p2t, t2p>>

-----------------------------------------------------------------------------
(* The on_response callback of the front request runs before pop_front: it  *)
(* queues the next memory read behind what is queued already, then the      *)
(* front goes.                                                              *)
NextRead(k, n, j) ==
  /\ requests'  = Tail(Append(requests, MemRead(k, n, j)))
  /\ reqWrites' = Append(reqWrites, MemRead(k, n, j))
  /\ UNCHANGED responses

MutFinish(p) ==   \* mutant: pop_front is left to the callback, which forgets it
  /\ responses' = Append(responses, Internal(p))
  /\ UNCHANGED <<requests, reqWrites>>

Finish(p) ==
  /\ requests'  = Tail(requests)
  /\ responses' = Append(responses, Internal(p))
  /\ UNCHANGED reqWrites

MutStopReplied(req, rsp) ==   \* mutant: the reply does not wait for the update
  /\ requests'  = Tail(Append(requests, MemRead("scan", req.tag[1], 1)))
  /\ reqWrites' = Append(reqWrites, MemRead("scan", req.tag[1], 1))
  /\ responses' = Append(responses, Internal(Dat("T", rsp.tag)))
  /\ stopReply' = rsp.tag[1]
  /\ UNCHANGED status

(* handle_stop_reply_packets: a reply that is not a 'T' throws out of the   *)
(* handler; a 'T' is kept and update_threads starts (no RTOS: done at once) *)
StopReplied(req, rsp) ==
  IF rsp.kind # "T"
  THEN status' = "aborted" /\ UNCHANGED <<queues, stopReply>>
  ELSE /\ \/ /\ MaxReads > 0
             /\ NextRead("scan", req.tag[1], 1)
             /\ stopReply' = rsp.tag[1]
          \/ Finish(Dat("T", rsp.tag)) /\ stopReply' = 0
       /\ UNCHANGED status

MutScanReturned(req) ==   \* mutant: the reply that was kept is not reset
  \/ /\ req.tag[2] < MaxReads
     /\ NextRead("scan", req.tag[1], req.tag[2] + 1)
     /\ UNCHANGED stopReply
  \/ Finish(Dat("T", <<stopReply, 0>>)) /\ UNCHANGED stopReply

MutScanReturnedLost(req) ==   \* mutant: the reply that was kept is not sent
  \/ /\ req.tag[2] < MaxReads
     /\ NextRead("scan", req.tag[1], req.tag[2] + 1)
     /\ UNCHANGED stopReply
  \/ /\ requests' = Tail(requests) /\ UNCHANGED <<reqWrites, responses>>
     /\ stopReply' = 0

(* A read of the thread update returned: another one is needed, or the     *)
(* update is done and the reply that was kept goes to the client.           *)
ScanReturned(req) ==
  \/ /\ req.tag[2] < MaxReads
     /\ NextRead("scan", req.tag[1], req.tag[2] + 1)
     /\ UNCHANGED stopReply
  \/ /\ Finish(Dat("T", <<stopReply, 0>>))
     /\ stopReply' = 0

(* get_thread_stack_ptr returned, then get_thread_registers.                *)
FetchReturned(req) ==
  /\ \/ req.tag[2] = 1 /\ NextRead("fetch", req.tag[1], 2)
     \/ req.tag[2] = 2 /\ Finish(Dat("data", <<req.tag[1], 0>>))
  /\ UNCHANGED stopReply

MutAnswer(front, rsp) ==   \* mutant: is_internal is never looked at
  /\ ackMode' = (ackMode /\ ~(front.pkt.kind = "noack" /\ rsp.kind = "OK"))
  /\ requests'  = Tail(requests)
  /\ responses' = Append(responses, Ext(rsp))
  /\ UNCHANGED <<reqWrites, stopReply, status>>

(* on_response for a data packet answered to the front request.             *)
Answer(front, rsp) ==
  /\ ackMode' = (ackMode /\ ~(front.pkt.kind = "noack" /\ rsp.kind = "OK"))
  /\ \/ /\ front.internal /\ front.pkt.kind = "stop"
        /\ StopReplied(front.pkt, rsp)
     \/ /\ front.internal /\ front.pkt.kind = "scan"
        /\ ScanReturned(front.pkt) /\ UNCHANGED status
     \/ /\ front.internal /\ front.pkt.kind = "fetch"
        /\ FetchReturned(front.pkt) /\ UNCHANGED status
     \/ /\ ~front.internal
        /\ requests'  = Tail(requests)
        /\ responses' = Append(responses, Ext(rsp))
        /\ UNCHANGED <<reqWrites, stopReply, status>>

MutAcknowledge(front, rsp) ==   \* mutant: every '+' is forwarded
  /\ responses' = Append(responses, Ext(rsp))
  /\ UNCHANGED <<requests, reqWrites, ackMode, stopReply, status>>

(* on_response for the rest: the client never sees the acknowledges of the  *)
(* proxy's own requests, but it is sent every '-'.                          *)
Acknowledge(front, rsp) ==
  /\ IF front.internal /\ rsp.type = "ack"
     THEN UNCHANGED responses
     ELSE responses' = Append(responses, Ext(rsp))
  /\ UNCHANGED <<requests, reqWrites, ackMode, stopReply, status>>

(* The front of the queue is taken for the request being answered without   *)
(* asking whether there is one.                                             *)
ReadTarget ==
  /\ status = "ok" /\ t2p # <<>>
  /\ t2p' = Tail(t2p)
  /\ IF requests = <<>>
     THEN status' = "undefined" /\ UNCHANGED <<queues, ackMode, stopReply>>
     ELSE \/ /\ Head(t2p).type = "dat"
             /\ Answer(Head(requests), Head(t2p))
          \/ /\ Head(t2p).type # "dat"
             /\ Acknowledge(Head(requests), Head(t2p))
  /\ UNCHANGED <<c2p, p2c, p2t>>

-----------------------------------------------------------------------------
(* start_write's completion handler.  It reads the type of the transfer it  *)
(* was started for, which may have left the queue and been destroyed: then  *)
(* the value read is arbitrary.  What it removes is the front.              *)
Queued(t) == \E i \in 1..Len(requests) : requests[i] = t

MutCompleted(t) ==   \* mutant: every completion removes the front
  IF requests = <<>>
  THEN status' = "undefined" /\ UNCHANGED requests
  ELSE requests' = Tail(requests) /\ UNCHANGED status

Completed(t) ==
  \/ /\ t.pkt.type = "dat" \/ ~Queued(t)
     /\ UNCHANGED <<requests, status>>
  \/ /\ t.pkt.type # "dat" \/ ~Queued(t)
     /\ IF requests = <<>>
        THEN status' = "undefined" /\ UNCHANGED requests
        ELSE requests' = Tail(requests) /\ UNCHANGED status

WriteRequestDone ==
  /\ status = "ok" /\ reqWrites # <<>>
  /\ reqWrites' = Tail(reqWrites)
  /\ p2t' = Append(p2t, Head(reqWrites).pkt)
  /\ Completed(Head(reqWrites))
  /\ UNCHANGED <<responses, ackMode, stopReply, c2p, p2c, t2p>>

(* On the responses channel every completion removes the front, and writes  *)
(* complete in queue order.                                                 *)
WriteResponseDone ==
  /\ status = "ok" /\ responses # <<>>
  /\ responses' = Tail(responses)
  /\ p2c' = Append(p2c, Head(responses).pkt)
  /\ UNCHANGED <<requests, reqWrites, ackMode, stopReply, status,
                 c2p, p2t, t2p>>

ProxyStep ==
  \/ ReadClient \/ ReadTarget \/ WriteRequestDone \/ WriteResponseDone
=============================================================================
