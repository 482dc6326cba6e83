--------------------------- MODULE FreeRtosSession ---------------------------
(****************************************************************************)
(* A session whose thread updates are those of a FreeRTOS target: each scan *)
(* of ProxySession is a walk of ThreadUpdate.  The callbacks of the queue   *)
(* drive the walk, the walk decides how many reads the scan takes, and what *)
(* a read returns is what the packet holds that the queue matched with it.  *)
(*                                                                          *)
(* The lists of the RTOS are chosen when the target halts.  The symbols are *)
(* known from the start.                                                    *)
(****************************************************************************)
EXTENDS ProxySession, FiniteSets

CONSTANTS Tcbs, OtherLists, Absent, MaxPriorities, TopKnown, Wrong,
          Stray   \* words the reply to another request may be read as

VARIABLES items, task, stops, awaited, failed, total, current, found, todo, left,
          elem, last, ids,
          memory,  \* the target: its lists and its task when it halted last, and
                   \* how often it halted
          tangled  \* an update was started while a read of another was queued

(* items, task and stops are the memory that the update was started for.    *)
Update == INSTANCE ThreadUpdate WITH running <- task, MaxStops <- MaxSent
Astray == INSTANCE ThreadUpdate
            WITH running <- task, MaxStops <- MaxSent, Wrong <- Stray

ASSUME RtosAssumption == Update!UpdateAssumption /\ Stray \subseteq Nat

peerVars   == <<clientVars, targetVars>>
updateVars == <<items, task, stops, awaited, failed, total, current, found,
                todo, left, elem, last, ids>>
allVars    == <<vars, updateVars, memory, tangled>>

-----------------------------------------------------------------------------
(* The next packet of the target is the reply to a request of kind k, whose *)
(* callback belongs to the thread update.                                   *)
Callback(k) ==
  /\ requests # <<>> /\ t2p # <<>> /\ Head(t2p).type = "dat"
  /\ Head(requests).internal /\ Head(requests).pkt.kind = k

ReadQueued == Len(reqWrites') > Len(reqWrites)   \* by the callback
Scans(s)   == {i \in 1..Len(s) : s[i].pkt.kind = "scan"}

(* handle_stop_reply_packets, update_threads.  The threads found so far are *)
(* thrown away also when an update runs.  If a read of that update is still *)
(* in the queue, its callback goes on with iterators and references to what *)
(* was thrown away: from then on the walk is not followed any more.         *)
HaltSeen ==
  /\ Callback("stop") /\ ReadTarget /\ UNCHANGED <<peerVars, memory>>
  /\ IF status' = "ok"
     THEN /\ ReadQueued /\ Update!Begin
          /\ items' = memory.items /\ task' = memory.running /\ stops' = memory.halts
          /\ tangled' = (tangled \/ Scans(Tail(requests)) # {})
     ELSE UNCHANGED <<updateVars, tangled>>

(* The reply is the one to the read that the callback was registered for,   *)
(* and the target was not resumed in between.                               *)
Intact ==
  /\ Head(t2p).tag = Head(requests).pkt.tag
  /\ memory = [items |-> items, running |-> task, halts |-> stops]

(* The scan takes as many reads as the walk needs.                          *)
UpdateRead ==
  /\ Callback("scan") /\ ReadTarget /\ UNCHANGED <<peerVars, memory, tangled>>
  /\ IF tangled THEN UNCHANGED updateVars
     ELSE /\ IF Intact THEN Update!ReadReply ELSE Astray!ReadReply
          /\ ReadQueued <=> awaited' # "none"

OtherRead ==
  /\ ~Callback("stop") /\ ~Callback("scan")
  /\ ReadTarget /\ UNCHANGED <<peerVars, updateVars, memory, tangled>>

OtherHandler ==
  /\ ReadClient \/ WriteRequestDone \/ WriteResponseDone
  /\ UNCHANGED <<peerVars, updateVars, memory, tangled>>

(* The tasks do what they like until the target halts.                      *)
Layout ==
  \E f \in Update!Layouts :
    \E t \in IF Update!Tasks(f) = {} THEN {0} ELSE Update!Tasks(f) :
      memory' = [items |-> f, running |-> t, halts |-> memory.halts + 1]

Peers ==
  /\ Client \/ Target
  /\ IF running # <<>> /\ running' = <<>> THEN Layout ELSE UNCHANGED memory
  /\ UNCHANGED <<updateVars, tangled>>

-----------------------------------------------------------------------------
RtosInit ==
  /\ Init /\ Update!UpdateInit
  /\ memory = [items |-> items, running |-> task, halts |-> stops]
  /\ tangled = FALSE
RtosNext == HaltSeen \/ UpdateRead \/ OtherRead \/ OtherHandler \/ Peers
RtosSpec == RtosInit /\ [][RtosNext]_allVars

(* As in ProxySession.                                                      *)
RtosFairness ==
  /\ WF_allVars(HaltSeen \/ UpdateRead \/ OtherRead)
  /\ WF_allVars(ReadClient /\ OtherHandler)
  /\ WF_allVars(WriteRequestDone /\ OtherHandler)
  /\ WF_allVars(WriteResponseDone /\ OtherHandler)
  /\ WF_allVars(TargetAccept /\ Peers) /\ WF_allVars(TargetSignal /\ Peers)
  /\ WF_allVars(Halt /\ Peers)
  /\ WF_allVars(ReceiveAck /\ Peers) /\ WF_allVars(ReceiveReply /\ Peers)

FairRtosSpec == RtosSpec /\ RtosFairness

-----------------------------------------------------------------------------
(* Properties.                                                              *)

(* While an update runs, its one read is the one scan request in the queue, *)
(* and the target whose lists it follows stays halted, whatever breaks      *)
(* arrive: the state of the update is kept in the target object, its next   *)
(* step in the queue of the connection.  No update is started while another *)
(* one has a read in the queue.                                             *)
ReadsInStep ==
  /\ ~tangled
  /\ status = "ok" =>
       IF awaited = "none"
       THEN Scans(requests) = {} /\ stopReply = 0
       ELSE /\ \E i \in 1..Len(requests) : Scans(requests) = {i}
            /\ stopReply # 0 /\ running = <<>>

(* A stop reply is not on its way to the client before its update has ended *)
(* and the client, when it asks, is shown the tasks of the latest halt.     *)
ReportsUpdate ==
  LET replies == p2c \o Pkts(responses)
  IN  (\E i \in 1..Len(replies) : replies[i].kind = "T") =>
        /\ awaited = "none"
        /\ Update!TcbsOf(found) \ {Update!CurrentExecution} = Update!Tasks(memory.items)

(* The session as a whole keeps the promise of ThreadView: between any two  *)
(* halts of the target its tasks are found and shown, although the reads    *)
(* and the stop reply that starts them go through queues that breaks share, *)
(* and are taken for what the queue says they answer.  From the halt until  *)
(* the update has ended there is nothing to be seen.                        *)
View == INSTANCE ThreadView
          WITH CurrentExecution <- Update!CurrentExecution,
               rtos <- [tasks |-> Update!ListingOf(memory.items),
                        running |-> memory.running],
               view <- IF awaited # "none" \/ stops # memory.halts THEN <<>>
                       ELSE [i \in DOMAIN found |->
                              [tcb |-> found[i].tcb, running |-> found[i].running]]
SessionView == View!Spec
=============================================================================
