----------------------------- MODULE ProxyServer -----------------------------
(****************************************************************************)
(* The life of the sessions: class server accepts a client, the connection  *)
(* resolves and connects to the target, arms its two channels, and shuts    *)
(* down.  What a packet means is left to ProxyConn: here a read may lead to *)
(* a write in either direction, or to none.                                 *)
(*                                                                          *)
(* A connection lives as long as a completion handler holds it.  close()    *)
(* makes the reads that wait complete with an error, but a read that has    *)
(* data already completes with its data, after the close.                   *)
(****************************************************************************)
EXTENDS Naturals, FiniteSets

CONSTANTS
  MaxConns,      \* bound: clients accepted
  MaxEndpoints,  \* bound: addresses of the target's name
  MaxWrites      \* bound: writes outstanding in one direction

ASSUME ServerAssumption ==
  MaxConns \in Nat \ {0} /\ MaxEndpoints \in Nat /\ MaxWrites \in Nat

Conns   == 1..MaxConns
Sockets == {"client", "target"}
Dirs    == {"requests", "responses"}
Src(d)  == IF d = "requests" THEN "client" ELSE "target"
Dst(d)  == IF d = "requests" THEN "target" ELSE "client"

VARIABLES
  accepting,  \* the connection that waits in async_accept, 0: none
  created,    \* connections created, in this order
  up,         \* the process runs
  setup,      \* what the connection waits for before it is armed
  left,       \* endpoints of the target not tried yet
  open,       \* its sockets that are open
  read,       \* its channels' reads
  writes,     \* its channels' writes that are not completed, how many
  gone        \* its peers that closed their end

connVars == <<setup, left, open, read, writes>>
vars     == <<accepting, created, up, connVars, gone>>

Idle     == [d \in Dirs |-> "none"]
Aborted(r) == [d \in Dirs |-> IF r[d] = "waiting" THEN "error" ELSE r[d]]

Init ==
  /\ accepting = 1 /\ created = 1 /\ up = TRUE
  /\ setup = [c \in Conns |-> "none"]
  /\ left = [c \in Conns |-> 0]
  /\ open = [c \in Conns |-> {}]
  /\ read = [c \in Conns |-> Idle]
  /\ writes = [c \in Conns |-> [d \in Dirs |-> 0]]
  /\ gone = [c \in Conns |-> {}]

-----------------------------------------------------------------------------
(* handle_accept: the session starts, and the next client may come.  After  *)
(* an error nothing waits for clients any more.                             *)
Accept ==
  /\ up /\ accepting # 0 /\ created < MaxConns
  /\ open' = [open EXCEPT ![accepting] = {"client"}]
  /\ setup' = [setup EXCEPT ![accepting] = "resolve"]
  /\ created' = created + 1 /\ accepting' = created + 1
  /\ UNCHANGED <<up, left, read, writes, gone>>

AcceptFailed ==
  /\ up /\ accepting # 0
  /\ accepting' = 0
  /\ UNCHANGED <<created, up, connVars, gone>>

-----------------------------------------------------------------------------
(* shutdown().                                                              *)
MutShutdown(c, reads) ==   \* mutant: only the target's socket is closed
  /\ open' = [open EXCEPT ![c] = @ \ {"target"}]
  /\ read' = [read EXCEPT ![c] = [d \in Dirs |->
                 IF d = "responses" THEN Aborted(reads)[d] ELSE reads[d]]]

Shutdown(c, reads) ==
  /\ open' = [open EXCEPT ![c] = {}]
  /\ read' = [read EXCEPT ![c] = Aborted(reads)]

MutConnect(c, endpoints) ==   \* mutant: the end of the endpoints is not seen
  /\ setup' = [setup EXCEPT ![c] = "connect"]
  /\ left' = [left EXCEPT ![c] = endpoints - 1]
  /\ open' = [open EXCEPT ![c] = @ \cup {"target"}]
  /\ UNCHANGED read

(* Connect to the next endpoint, or give up.                                *)
Connect(c, endpoints) ==
  IF endpoints > 0
  THEN /\ setup' = [setup EXCEPT ![c] = "connect"]
       /\ left' = [left EXCEPT ![c] = endpoints - 1]
       /\ open' = [open EXCEPT ![c] = @ \cup {"target"}]
       /\ UNCHANGED read
  ELSE /\ setup' = [setup EXCEPT ![c] = "none"]
       /\ Shutdown(c, read[c])
       /\ UNCHANGED left

Resolved(c) ==
  /\ up /\ setup[c] = "resolve"
  /\ \E endpoints \in 0..MaxEndpoints : Connect(c, endpoints)
  /\ UNCHANGED <<accepting, created, up, writes, gone>>

ResolveFailed(c) ==
  /\ up /\ setup[c] = "resolve"
  /\ setup' = [setup EXCEPT ![c] = "none"]
  /\ Shutdown(c, read[c])
  /\ UNCHANGED <<accepting, created, up, left, writes, gone>>

MutConnected(c) ==   \* mutant: only the requests channel is armed
  /\ up /\ setup[c] = "connect"
  /\ setup' = [setup EXCEPT ![c] = "none"]
  /\ read' = [read EXCEPT ![c]["requests"] = "waiting"]
  /\ UNCHANGED <<accepting, created, up, left, open, writes, gone>>

Connected(c) ==
  /\ up /\ setup[c] = "connect"
  /\ setup' = [setup EXCEPT ![c] = "none"]
  /\ read' = [read EXCEPT ![c] = [d \in Dirs |-> "waiting"]]
  /\ UNCHANGED <<accepting, created, up, left, open, writes, gone>>

ConnectFailed(c) ==
  /\ up /\ setup[c] = "connect"
  /\ Connect(c, left[c])
  /\ UNCHANGED <<accepting, created, up, writes, gone>>

-----------------------------------------------------------------------------
(* The peers, external: data arrive, or a peer closes its end.              *)
Arrive(c, d) ==
  /\ up /\ read[c][d] = "waiting" /\ Src(d) \notin gone[c]
  /\ read' = [read EXCEPT ![c][d] = "data"]
  /\ UNCHANGED <<accepting, created, up, setup, left, open, writes, gone>>

Leave(c, s) ==
  /\ up /\ s \in open[c] \ gone[c] /\ (s = "target" => setup[c] = "none")
  /\ gone' = [gone EXCEPT ![c] = @ \cup {s}]
  /\ UNCHANGED <<accepting, created, up, connVars>>

(* ... which ends a read that waits for it.                                 *)
EndOfFile(c, d) ==
  /\ up /\ read[c][d] = "waiting" /\ Src(d) \in gone[c]
  /\ read' = [read EXCEPT ![c][d] = "error"]
  /\ UNCHANGED <<accepting, created, up, setup, left, open, writes, gone>>

-----------------------------------------------------------------------------
(* start_read's handler.                                                    *)
MutReadDone(c, d) ==   \* mutant: the channel is not read again
  /\ up /\ read[c][d] = "data"
  /\ \E to \in SUBSET {x \in Dirs : writes[c][x] < MaxWrites} :
       writes' = [writes EXCEPT ![c] =
                    [x \in Dirs |-> @[x] + (IF x \in to THEN 1 ELSE 0)]]
  /\ read' = [read EXCEPT ![c][d] = "none"]
  /\ UNCHANGED <<accepting, created, up, setup, left, open, gone>>

ReadDone(c, d) ==
  /\ up /\ read[c][d] = "data"
  /\ \E to \in SUBSET {x \in Dirs : writes[c][x] < MaxWrites} :
       writes' = [writes EXCEPT ![c] =
                    [x \in Dirs |-> @[x] + (IF x \in to THEN 1 ELSE 0)]]
  /\ read' = [read EXCEPT ![c][d] =
                IF Src(d) \in open[c] THEN "waiting" ELSE "error"]
  /\ UNCHANGED <<accepting, created, up, setup, left, open, gone>>

ReadFailed(c, d) ==
  /\ up /\ read[c][d] = "error"
  /\ Shutdown(c, [read[c] EXCEPT ![d] = "none"])
  /\ UNCHANGED <<accepting, created, up, setup, left, writes, gone>>

(* start_write's handler.  A write that fails has not transferred all: the  *)
(* assertion ends the process before the error is looked at.  A write may   *)
(* have been completed when its socket was closed: then it succeeds.        *)
WriteDone(c, d) ==
  /\ up /\ writes[c][d] > 0
  /\ writes' = [writes EXCEPT ![c][d] = @ - 1]
  /\ UNCHANGED <<accepting, created, up, setup, left, open, read, gone>>

WriteFailed(c, d) ==
  /\ up /\ writes[c][d] > 0
  /\ Dst(d) \notin open[c] \/ Dst(d) \in gone[c]
  /\ up' = FALSE
  /\ UNCHANGED <<accepting, created, connVars, gone>>

-----------------------------------------------------------------------------
Setup(c) == Resolved(c) \/ ResolveFailed(c) \/ Connected(c) \/ ConnectFailed(c)
Handler(c, d) == ReadDone(c, d) \/ ReadFailed(c, d) \/ EndOfFile(c, d)
Written(c, d) == WriteDone(c, d) \/ WriteFailed(c, d)

Next ==
  \/ Accept \/ AcceptFailed
  \/ \E c \in Conns :
       \/ Setup(c)
       \/ \E s \in Sockets : Leave(c, s)
       \/ \E d \in Dirs : Arrive(c, d) \/ Handler(c, d) \/ Written(c, d)

Spec == Init /\ [][Next]_vars

(* The io_service runs every handler that is ready; the resolver and every  *)
(* connect attempt give an answer, and so does every write.  A client need  *)
(* not come, and a peer need neither send nor leave.                        *)
Fairness ==
  \A c \in Conns :
    /\ WF_vars(Setup(c))
    /\ \A d \in Dirs : WF_vars(Handler(c, d)) /\ WF_vars(Written(c, d))

FairSpec == Spec /\ Fairness

-----------------------------------------------------------------------------
(* Properties.                                                              *)

(* Every variable stays in its domain.                                      *)
TypeOK ==
  /\ accepting \in Conns \cup {0} /\ created \in Conns /\ up \in BOOLEAN
  /\ setup \in [Conns -> {"none", "resolve", "connect"}]
  /\ left \in [Conns -> 0..MaxEndpoints]
  /\ open \in [Conns -> SUBSET Sockets]
  /\ read \in [Conns -> [Dirs -> {"none", "waiting", "data", "error"}]]
  /\ writes \in [Conns -> [Dirs -> 0..MaxWrites]]
  /\ gone \in [Conns -> SUBSET Sockets]

(* Some completion handler still holds the connection.                      *)
Held(c) ==
  \/ c = accepting \/ setup[c] # "none"
  \/ \E d \in Dirs : read[c][d] # "none" \/ writes[c][d] > 0

(* A session is all there or not at all: while its client's socket is open  *)
(* it is being connected, with no channel armed, or both channels read; and *)
(* the target's socket is not open without the client's.                    *)
WholeSession ==
  \A c \in Conns :
    /\ "client" \in open[c] =>
         IF setup[c] # "none" THEN read[c] = Idle
         ELSE \A d \in Dirs : read[c][d] # "none"
    /\ "target" \in open[c] => "client" \in open[c]

(* A connection goes when no completion handler holds it any more, and it   *)
(* has shut down by then: neither peer is left with an open socket that     *)
(* nobody reads.                                                            *)
NothingLeaks == \A c \in Conns : ~Held(c) => open[c] = {}

(* When a peer leaves, the session ends: both sockets are closed and every  *)
(* handler lets go of the connection, whatever was being read, written or   *)
(* connected.                                                               *)
SessionEnds ==
  \A c \in Conns : gone[c] # {} ~> (~Held(c) \/ ~up)
=============================================================================
