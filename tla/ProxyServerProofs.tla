-------------------------- MODULE ProxyServerProofs --------------------------
(****************************************************************************)
(* Theorems about the life of the sessions, for any number of clients, of   *)
(* endpoints and of outstanding writes.                                     *)
(****************************************************************************)
EXTENDS ProxyServer, TLAPS

-----------------------------------------------------------------------------
(* Type correctness.                                                        *)

States == {"none", "waiting", "data", "error"}

LEMMA ShutdownType ==
  ASSUME TypeOK, NEW c \in Conns, NEW reads \in [Dirs -> States],
         Shutdown(c, reads)
  PROVE  open' \in [Conns -> SUBSET Sockets] /\ read' \in [Conns -> [Dirs -> States]]
  <1>1. Aborted(reads) \in [Dirs -> States]  BY DEF Aborted, States
  <1> QED  BY <1>1 DEF Shutdown, TypeOK, States

LEMMA ConnectType ==
  ASSUME TypeOK, NEW c \in Conns, NEW n \in 0..MaxEndpoints, Connect(c, n)
  PROVE  /\ setup' \in [Conns -> {"none", "resolve", "connect"}]
         /\ left' \in [Conns -> 0..MaxEndpoints]
         /\ open' \in [Conns -> SUBSET Sockets]
         /\ read' \in [Conns -> [Dirs -> States]]
  <1> USE ServerAssumption
  <1>1. CASE n > 0
    <2>1. n - 1 \in 0..MaxEndpoints  BY <1>1
    <2>2. open[c] \cup {"target"} \in SUBSET Sockets  BY DEF TypeOK, Sockets
    <2> QED  BY <1>1, <2>1, <2>2 DEF Connect, TypeOK, States
  <1>2. CASE ~(n > 0)
    <2>1. read[c] \in [Dirs -> States]  BY DEF TypeOK, States
    <2> QED  BY <1>2, <2>1, ShutdownType DEF Connect, TypeOK
  <1> QED  BY <1>1, <1>2

LEMMA TypeInit == Init => TypeOK
  <1> USE ServerAssumption DEF Conns, Dirs, Sockets, Idle
  <1> QED  BY DEF Init, TypeOK

LEMMA TypeStep == TypeOK /\ [Next]_vars => TypeOK'
  <1> SUFFICES ASSUME TypeOK, [Next]_vars PROVE TypeOK'  OBVIOUS
  <1>1. CASE Accept
    BY <1>1, ServerAssumption DEF Accept, TypeOK, Conns, Sockets
  <1>2. CASE AcceptFailed  BY <1>2 DEF AcceptFailed, TypeOK, connVars
  <1>3. ASSUME NEW c \in Conns, Setup(c) PROVE TypeOK'
    <2>1. CASE Resolved(c)  BY <2>1, ConnectType DEF Resolved, TypeOK, States
    <2>2. CASE ResolveFailed(c)
      <3>1. read[c] \in [Dirs -> States]  BY DEF TypeOK, States
      <3> QED  BY <2>2, <3>1, ShutdownType DEF ResolveFailed, TypeOK, States
    <2>3. CASE Connected(c)  BY <2>3 DEF Connected, TypeOK
    <2>4. CASE ConnectFailed(c)
      <3>1. left[c] \in 0..MaxEndpoints  BY DEF TypeOK
      <3> QED  BY <2>4, <3>1, ConnectType DEF ConnectFailed, TypeOK, States
    <2> QED  BY <1>3, <2>1, <2>2, <2>3, <2>4 DEF Setup
  <1>4. ASSUME NEW c \in Conns, NEW s \in Sockets, Leave(c, s) PROVE TypeOK'
    BY <1>4 DEF Leave, TypeOK, connVars
  <1>5. ASSUME NEW c \in Conns, NEW d \in Dirs,
               Arrive(c, d) \/ Handler(c, d) \/ Written(c, d)
        PROVE  TypeOK'
    <2>1. CASE Arrive(c, d)  BY <2>1 DEF Arrive, TypeOK
    <2>2. CASE EndOfFile(c, d)  BY <2>2 DEF EndOfFile, TypeOK
    <2>3. CASE ReadDone(c, d)
      <3>1. read' \in [Conns -> [Dirs -> States]]
        BY <2>3 DEF ReadDone, TypeOK, States
      <3>2. PICK to \in SUBSET {x \in Dirs : writes[c][x] < MaxWrites} :
              writes' = [writes EXCEPT ![c] =
                           [x \in Dirs |-> @[x] + (IF x \in to THEN 1 ELSE 0)]]
        BY <2>3 DEF ReadDone
      <3>3. \A x \in Dirs :
              writes[c][x] + (IF x \in to THEN 1 ELSE 0) \in 0..MaxWrites
        BY ServerAssumption DEF TypeOK
      <3>4. writes' \in [Conns -> [Dirs -> 0..MaxWrites]]
        BY <3>2, <3>3 DEF TypeOK
      <3> QED  BY <2>3, <3>1, <3>4 DEF ReadDone, TypeOK, States
    <2>4. CASE ReadFailed(c, d)
      <3>1. [read[c] EXCEPT ![d] = "none"] \in [Dirs -> States]
        BY DEF TypeOK, States
      <3> QED  BY <2>4, <3>1, ShutdownType DEF ReadFailed, TypeOK, States
    <2>5. CASE WriteDone(c, d)
      <3>1. writes[c][d] - 1 \in 0..MaxWrites
        BY <2>5, ServerAssumption DEF WriteDone, TypeOK
      <3> QED  BY <2>5, <3>1 DEF WriteDone, TypeOK
    <2>6. CASE WriteFailed(c, d)  BY <2>6 DEF WriteFailed, TypeOK, connVars
    <2> QED  BY <1>5, <2>1, <2>2, <2>3, <2>4, <2>5, <2>6 DEF Handler, Written
  <1>6. CASE UNCHANGED vars  BY <1>6 DEF vars, connVars, TypeOK
  <1> QED  BY <1>1, <1>2, <1>3, <1>4, <1>5, <1>6 DEF Next

(* Every variable stays in its domain; in particular no channel has more    *)
(* writes outstanding than there are, and no endpoint is tried twice.       *)
THEOREM TypeCorrect == Spec => []TypeOK
  BY TypeInit, TypeStep, PTL DEF Spec

-----------------------------------------------------------------------------
(* The inductive invariant.  A connection nobody was accepted for has       *)
(* nothing open; one that is being set up reads nothing yet.                *)

Unused(c)  == c >= created => open[c] = {} /\ setup[c] = "none" /\ read[c] = Idle
SetUp(c)   == setup[c] # "none" => "client" \in open[c] /\ read[c] = Idle
Armed(c)   == "client" \in open[c] /\ setup[c] = "none" =>
                \A d \in Dirs : read[c][d] # "none"
Paired(c)  == "target" \in open[c] => "client" \in open[c]
Sound(c)   == Unused(c) /\ SetUp(c) /\ Armed(c) /\ Paired(c)
Waits      == accepting = 0 \/ accepting = created

IInv == TypeOK /\ Waits /\ \A c \in Conns : Sound(c)

LEMMA InductiveInit == Init => IInv
  BY TypeInit DEF Init, IInv, Waits, Sound, Unused, SetUp, Armed, Paired

(* A step that leaves a connection alone leaves it sound.                   *)
LEMMA Others ==
  ASSUME NEW c \in Conns, Sound(c), UNCHANGED <<created, setup[c], open[c], read[c]>>
  PROVE  Sound(c)'
  BY DEF Sound, Unused, SetUp, Armed, Paired

LEMMA ShutdownSound ==
  ASSUME TypeOK, NEW c \in Conns, Sound(c), NEW reads \in [Dirs -> States],
         Shutdown(c, reads), setup'[c] = "none", UNCHANGED created,
         reads = read[c] \/ created > c
  PROVE  Sound(c)'
  <1>1. open'[c] = {}  BY DEF Shutdown, TypeOK
  <1>2. created <= c => read'[c] = Idle
    <2> SUFFICES ASSUME created <= c PROVE read'[c] = Idle  OBVIOUS
    <2>1. created \in Nat /\ c \in Nat  BY ServerAssumption DEF TypeOK, Conns
    <2>2. reads = Idle  BY <2>1 DEF Sound, Unused
    <2> QED  BY <2>2 DEF Shutdown, Aborted, Idle, TypeOK
  <1> QED  BY <1>1, <1>2, ServerAssumption DEF Sound, Unused, SetUp, Armed, Paired, TypeOK, Conns

LEMMA ConnectSound ==
  ASSUME TypeOK, NEW c \in Conns, Sound(c), NEW n \in 0..MaxEndpoints,
         setup[c] # "none", Connect(c, n), UNCHANGED created
  PROVE  Sound(c)'
  <1>1. ~(c >= created)  BY DEF Sound, Unused
  <1>2. CASE n > 0
    BY <1>1, <1>2 DEF Connect, TypeOK, Sound, Unused, SetUp, Armed, Paired
  <1>3. CASE ~(n > 0)
    <2>1. read[c] \in [Dirs -> States] /\ setup'[c] = "none"
      BY <1>3 DEF TypeOK, States, Connect
    <2> QED  BY <1>3, <2>1, ShutdownSound DEF Connect
  <1> QED  BY <1>2, <1>3

LEMMA InductiveStep == IInv /\ [Next]_vars => IInv'
  <1> SUFFICES ASSUME IInv, [Next]_vars
               PROVE  Waits' /\ \A c \in Conns : Sound(c)'
    BY TypeStep DEF IInv
  <1> USE DEF IInv
  <1>1. CASE Accept
    <2>1. Waits'  BY <1>1 DEF Accept, Waits
    <2>2. accepting = created /\ accepting \in Conns /\ created' = created + 1
      BY <1>1 DEF Accept, Waits, TypeOK
    <2>3. ASSUME NEW c \in Conns, c # accepting PROVE Sound(c)'
      <3>1. UNCHANGED <<setup[c], open[c], read[c]>>
        BY <1>1, <2>2, <2>3 DEF Accept, TypeOK
      <3>2. (c >= created)' => c >= created
        BY <2>2, ServerAssumption DEF Conns
      <3> QED  BY <3>1, <3>2 DEF Sound, Unused, SetUp, Armed, Paired
    <2>4. ASSUME NEW c \in Conns, c = accepting PROVE Sound(c)'
      <3>1. ~(c >= created') /\ c >= created
        BY <2>2, <2>4, ServerAssumption DEF Conns
      <3>2. open'[c] = {"client"} /\ setup'[c] = "resolve" /\ read'[c] = Idle
        BY <1>1, <2>2, <2>4, <3>1 DEF Accept, TypeOK, Sound, Unused
      <3> QED  BY <3>1, <3>2 DEF Sound, Unused, SetUp, Armed, Paired
    <2> QED  BY <2>1, <2>3, <2>4
  <1>2. CASE AcceptFailed
    BY <1>2, Others DEF AcceptFailed, Waits, connVars
  <1>3. ASSUME UNCHANGED <<accepting, created>>, NEW c \in Conns, Sound(c)',
               \A x \in Conns \ {c} : UNCHANGED <<setup[x], open[x], read[x]>>
        PROVE  Waits' /\ \A x \in Conns : Sound(x)'
    BY <1>3, Others DEF Waits
  <1>4. ASSUME NEW c \in Conns, Setup(c)
        PROVE  Waits' /\ \A x \in Conns : Sound(x)'
    <2>1. read[c] \in [Dirs -> States]  BY DEF TypeOK, States
    <2>2. CASE Resolved(c)
      <3>1. PICK n \in 0..MaxEndpoints : Connect(c, n)  BY <2>2 DEF Resolved
      <3>2. Sound(c)'  BY <2>2, <3>1, ConnectSound DEF Resolved
      <3>3. \A x \in Conns \ {c} : UNCHANGED <<setup[x], open[x], read[x]>>
        BY <3>1 DEF Connect, Shutdown, TypeOK
      <3> QED  BY <2>2, <3>2, <3>3, <1>3 DEF Resolved
    <2>3. CASE ResolveFailed(c)
      <3>1. setup'[c] = "none"  BY <2>3 DEF ResolveFailed, TypeOK
      <3>2. Sound(c)'  BY <2>1, <2>3, <3>1, ShutdownSound DEF ResolveFailed
      <3>3. \A x \in Conns \ {c} : UNCHANGED <<setup[x], open[x], read[x]>>
        BY <2>3 DEF ResolveFailed, Shutdown, TypeOK
      <3> QED  BY <2>3, <3>2, <3>3, <1>3 DEF ResolveFailed
    <2>4. CASE Connected(c)
      <3>1. ~(c >= created)  BY <2>4 DEF Connected, Sound, Unused
      <3>2. Sound(c)'
        BY <2>4, <3>1 DEF Connected, TypeOK, Sound, Unused, SetUp, Armed, Paired
      <3>3. \A x \in Conns \ {c} : UNCHANGED <<setup[x], open[x], read[x]>>
        BY <2>4 DEF Connected, TypeOK
      <3> QED  BY <2>4, <3>2, <3>3, <1>3 DEF Connected
    <2>5. CASE ConnectFailed(c)
      <3>1. left[c] \in 0..MaxEndpoints  BY DEF TypeOK
      <3>2. Sound(c)'  BY <2>5, <3>1, ConnectSound DEF ConnectFailed
      <3>3. \A x \in Conns \ {c} : UNCHANGED <<setup[x], open[x], read[x]>>
        BY <2>5 DEF ConnectFailed, Connect, Shutdown, TypeOK
      <3> QED  BY <2>5, <3>2, <3>3, <1>3 DEF ConnectFailed
    <2> QED  BY <1>4, <2>2, <2>3, <2>4, <2>5 DEF Setup
  <1>5. ASSUME NEW c \in Conns, NEW s \in Sockets, Leave(c, s)
        PROVE  Waits' /\ \A x \in Conns : Sound(x)'
    BY <1>5, Others DEF Leave, Waits, connVars
  <1>6. ASSUME NEW c \in Conns, NEW d \in Dirs,
               Arrive(c, d) \/ Handler(c, d) \/ Written(c, d)
        PROVE  Waits' /\ \A x \in Conns : Sound(x)'
    (* A channel that is read was armed: the connection is in use.          *)
    <2>1. ASSUME read[c][d] # "none"
          PROVE  setup[c] = "none" /\ created > c
      <3>1. read[c] # Idle  BY <2>1 DEF Idle
      <3> QED
        BY <3>1, ServerAssumption DEF Sound, Unused, SetUp, TypeOK, Conns
    <2>2. ASSUME NEW v \in {"waiting", "data", "error"}, read[c][d] # "none",
                 read' = [read EXCEPT ![c][d] = v],
                 UNCHANGED <<accepting, created, setup, open>>
          PROVE  Waits' /\ \A x \in Conns : Sound(x)'
      <3>1. setup[c] = "none" /\ ~(c >= created)
        BY <2>1, <2>2, ServerAssumption DEF TypeOK, Conns
      <3>2. \A e \in Dirs : read'[c][e] = IF e = d THEN v ELSE read[c][e]
        BY <2>2 DEF TypeOK
      <3>3. Sound(c)'
        BY <2>2, <3>1, <3>2 DEF Sound, Unused, SetUp, Armed, Paired
      <3>4. \A x \in Conns \ {c} : UNCHANGED <<setup[x], open[x], read[x]>>
        BY <2>2 DEF TypeOK
      <3> QED  BY <2>2, <3>3, <3>4, <1>3
    <2>3. CASE Arrive(c, d)  BY <2>3, <2>2 DEF Arrive
    <2>4. CASE EndOfFile(c, d)  BY <2>4, <2>2 DEF EndOfFile
    <2>5. CASE ReadDone(c, d)  BY <2>5, <2>2 DEF ReadDone
    <2>6. CASE ReadFailed(c, d)
      <3>1. [read[c] EXCEPT ![d] = "none"] \in [Dirs -> States]
        BY DEF TypeOK, States
      <3>2. setup'[c] = "none" /\ created > c  BY <2>6, <2>1 DEF ReadFailed
      <3>3. Sound(c)'  BY <2>6, <3>1, <3>2, ShutdownSound DEF ReadFailed
      <3>4. \A x \in Conns \ {c} : UNCHANGED <<setup[x], open[x], read[x]>>
        BY <2>6 DEF ReadFailed, Shutdown, TypeOK
      <3> QED  BY <2>6, <3>3, <3>4, <1>3 DEF ReadFailed
    <2>7. CASE WriteDone(c, d)  BY <2>7, Others DEF WriteDone, Waits
    <2>8. CASE WriteFailed(c, d)  BY <2>8, Others DEF WriteFailed, Waits, connVars
    <2> QED
      BY <1>6, <2>3, <2>4, <2>5, <2>6, <2>7, <2>8 DEF Handler, Written
  <1>7. CASE UNCHANGED vars
    BY <1>7, Others DEF vars, connVars, Waits
  <1> QED  BY <1>1, <1>2, <1>4, <1>5, <1>6, <1>7 DEF Next

LEMMA Inductive == Spec => []IInv
  BY InductiveInit, InductiveStep, PTL DEF Spec

-----------------------------------------------------------------------------
(* A session is all there or not at all, whatever failed on the way and in  *)
(* whichever order the handlers of its channels ran.                        *)
THEOREM SessionsAreWhole == Spec => []WholeSession
  <1>1. IInv => WholeSession
    BY DEF IInv, Sound, SetUp, Armed, Paired, WholeSession
  <1> QED  BY <1>1, Inductive, PTL

(* When the last handler lets go of a connection its sockets are closed.    *)
THEOREM NoSocketLeaks == Spec => []NothingLeaks
  <1>1. IInv => NothingLeaks
    <2> SUFFICES ASSUME IInv, NEW c \in Conns, ~Held(c) PROVE open[c] = {}
      BY DEF NothingLeaks
    <2>1. setup[c] = "none" /\ \A d \in Dirs : read[c][d] = "none"
      BY DEF Held
    <2>2. "requests" \in Dirs  BY DEF Dirs
    <2>3. "client" \notin open[c]  BY <2>1, <2>2 DEF IInv, Sound, Armed
    <2>4. "target" \notin open[c]  BY <2>3 DEF IInv, Sound, Paired
    <2> QED  BY <2>3, <2>4 DEF IInv, TypeOK, Sockets
  <1> QED  BY <1>1, Inductive, PTL
=============================================================================
