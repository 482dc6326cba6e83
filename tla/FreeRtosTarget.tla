---------------------------- MODULE FreeRtosTarget ----------------------------
(****************************************************************************)
(* target_mb_freertos as its client sees it: which requests it answers from *)
(* what the last thread update found, which it leaves to the target, the    *)
(* lookup of the RTOS symbols, the stop reply that waits for the update, and*)
(* the two memory reads that fetch the registers of a thread.               *)
(*                                                                          *)
(* The client is synchronous: it sends a request when the one before is     *)
(* answered, and nothing while the target runs.  It writes process ids when *)
(* that was agreed on, which the proxy may have missed.                     *)
(****************************************************************************)
EXTENDS ThreadUpdate, ThreadId, StackFrame

CONSTANTS
  Symbols,    \* s_symbols_desc, in its order: 1..Symbols
  Required,   \* those an RTOS program must have
  StackTops,  \* words the target may hold where a stack pointer is read
  MaxLookups  \* bound: symbol lookups, one per program the client loads

ASSUME TargetAssumption ==
  /\ Symbols \in Nat \ {0} /\ Required \subseteq 1..Symbols
  /\ StackTops \subseteq Nat
  /\ MaxLookups \in Nat

VARIABLES
  halted,     \* the target: it is halted
  clientMulti, \* the client: it writes ids with a process
  table,      \* the client: the symbols its program defines
  lookups,    \* the client: how often it offered to look symbols up
  cursor,     \* m_current_symbol while m_process_symbols, else 0
  known,      \* m_symbols: those with an address
  rtosAvail,  \* m_rtos_avail
  multiprocess, \* m_multiprocess
  made,       \* its value when m_threading was filled
  selected,   \* m_current_thread_id
  fetching,   \* the read of a register fetch that is awaited: pointer, frame
  stackPtr,   \* m_registers.stack_ptr, while it is used
  forwarded,  \* qSymbol:: requests sent on to the target
  announced,  \* stop replies sent to the client
  answer      \* the reply to the last request: "target" if it is the target's

symbolVars == <<table, lookups, cursor, known, rtosAvail, forwarded>>
fetchVars  == <<fetching, stackPtr>>
modeVars   == <<clientMulti, multiprocess>>
targetVars == <<symbolVars, fetchVars, modeVars, made, halted, selected,
                announced, answer>>
vars       == <<updateVars, targetVars>>

Unanswered == [to |-> "none", what |-> "none", n |-> 0]
Answer(request, what, n) == [to |-> request, what |-> what, n |-> n]

Init ==
  /\ UpdateInit
  /\ halted = TRUE
  /\ table = {} /\ lookups = 0
  /\ cursor = 0 /\ known = {} /\ rtosAvail = FALSE
  /\ clientMulti = FALSE /\ multiprocess = FALSE /\ made = FALSE
  /\ selected = Id(FALSE, 1, CurrentExecution)
  /\ fetching = "none" /\ stackPtr = 0
  /\ forwarded = 0 /\ announced = 0
  /\ answer = Unanswered

ClientTurn == halted /\ awaited = "none" /\ cursor = 0 /\ fetching = "none"

Local == UNCHANGED <<updateVars, symbolVars, modeVars, made, halted, announced>>

(* qSupported, when the client connects, until it gets the feature.  The    *)
(* proxy looks for it with the semicolon that follows another feature.      *)
QuerySupported ==
  /\ ClientTurn /\ stops = 0 /\ lookups = 0 /\ ~clientMulti
  /\ \E place \in {"absent", "first", "later"} :
       /\ clientMulti' = (place # "absent")
       /\ multiprocess' = (multiprocess \/ place = "later")
  /\ answer' = Unanswered
  /\ UNCHANGED <<updateVars, symbolVars, fetchVars, made, halted, selected, announced>>

-----------------------------------------------------------------------------
(* Symbols: the client's qSymbol:: starts the proxy's own lookup, and is    *)
(* sent on to the target when that is over.                                 *)
QuerySymbols ==
  /\ ClientTurn /\ lookups < MaxLookups
  /\ table' \in SUBSET (1..Symbols)
  /\ lookups' = lookups + 1
  /\ cursor' = 1 /\ known' = {} /\ rtosAvail' = FALSE
  /\ answer' = Unanswered
  /\ UNCHANGED <<forwarded, updateVars, fetchVars, modeVars, made, halted,
                 selected, announced>>

MutSymbolReply ==   \* mutant: the last symbol is not looked at
  /\ cursor # 0
  /\ known' = known \cup ({cursor} \cap table)
  /\ IF cursor + 1 < Symbols
     THEN cursor' = cursor + 1 /\ UNCHANGED <<rtosAvail, forwarded>>
     ELSE /\ cursor' = 0
          /\ rtosAvail' = (Required \ {Symbols} \subseteq known')
          /\ forwarded' = forwarded + 1
  /\ UNCHANGED <<table, lookups, updateVars, fetchVars, modeVars, made, halted,
                 selected, announced, answer>>

SymbolReply ==
  /\ cursor # 0
  /\ known' = known \cup ({cursor} \cap table)
  /\ IF cursor < Symbols
     THEN cursor' = cursor + 1 /\ UNCHANGED <<rtosAvail, forwarded>>
     ELSE /\ cursor' = 0
          /\ rtosAvail' = (Required \subseteq known')
          /\ forwarded' = forwarded + 1
  /\ UNCHANGED <<table, lookups, updateVars, fetchVars, modeVars, made, halted,
                 selected, announced, answer>>

-----------------------------------------------------------------------------
(* Running and halting.  The stop reply goes to the client when the update  *)
(* is done, which is at once when there is no RTOS.  The thread it names is *)
(* the one the client selected.                                             *)
Resume ==
  /\ ClientTurn /\ stops < MaxStops
  /\ halted' = FALSE /\ answer' = Unanswered
  /\ UNCHANGED <<updateVars, symbolVars, fetchVars, modeVars, made, selected, announced>>

Announce ==
  /\ announced' = announced + 1
  /\ answer' = Answer("stop", "thread", selected.tid)

MutHalt ==   \* mutant: the reply is passed on before the update
  /\ ~halted /\ Halted /\ halted' = TRUE
  /\ IF rtosAvail
     THEN Begin /\ Announce
     ELSE UNCHANGED <<awaited, failed, threadVars, listVars>> /\ Announce
  /\ made' = IF rtosAvail THEN multiprocess ELSE made
  /\ UNCHANGED <<symbolVars, fetchVars, modeVars, selected>>

MutHaltNoRtos ==   \* mutant: without an RTOS the done callback is dropped
  /\ ~halted /\ Halted /\ halted' = TRUE
  /\ IF rtosAvail
     THEN Begin
     ELSE UNCHANGED <<awaited, failed, threadVars, listVars>>
  /\ made' = IF rtosAvail THEN multiprocess ELSE made
  /\ UNCHANGED <<symbolVars, fetchVars, modeVars, selected, announced, answer>>

Halt ==
  /\ ~halted /\ Halted /\ halted' = TRUE
  /\ IF rtosAvail
     THEN Begin /\ UNCHANGED <<announced, answer>>
     ELSE UNCHANGED <<awaited, failed, threadVars, listVars>> /\ Announce
  /\ made' = IF rtosAvail THEN multiprocess ELSE made
  /\ UNCHANGED <<symbolVars, fetchVars, modeVars, selected>>

Update ==
  /\ ReadReply
  /\ IF awaited' = "none" THEN Announce ELSE UNCHANGED <<announced, answer>>
  /\ UNCHANGED <<symbolVars, fetchVars, modeVars, made, halted, selected>>

-----------------------------------------------------------------------------
(* Requests about threads.  The client writes back what it was shown.       *)
Ids     == {found[i].id : i \in 1..Len(found)}
Written(n) ==
  Text(IF ~clientMulti THEN None ELSE Numeral(FALSE, IF n = AnyThread THEN 0 ELSE 1),
       MakeId(n))
Names   == {Written(n) : n \in Ids \cup {AnyThread, AllThreads, current.id}}

MadeId(n) == Id(multiprocess, 1, n)   \* make_threadid
Listed(i) == Id(made, 1, found[i].id)
CurrentId == IF current.tcb = 0 THEN Id(FALSE, 0, 0) ELSE Id(made, 1, current.id)
Execution(id) == SameThread(id, MadeId(CurrentExecution))

SelectThread(text) ==   \* Hg
  /\ ClientTurn
  /\ selected' = Parsed(text)
  /\ answer' = Answer("Hg", IF Execution(selected') \/ ~rtosAvail
                            THEN "target" ELSE "OK", selected'.tid)
  /\ UNCHANGED fetchVars /\ Local

Alive(id) ==
  IF ~rtosAvail \/ Execution(id) THEN "target"
  ELSE IF \E i \in 1..Len(found) : SameThread(Listed(i), id) THEN "OK" ELSE "E01"

ThreadAlive(text) ==   \* T
  /\ ClientTurn
  /\ answer' = Answer("T", Alive(Parsed(text)), Parsed(text).tid)
  /\ UNCHANGED <<selected, fetchVars>> /\ Local

(* g.  The registers of a thread that is not running are read from the      *)
(* stack its control block points to, and the selected id is taken for the  *)
(* address of the control block.  It is compared unsigned: all threads, -1, *)
(* is above every address.                                                  *)
ReadRegisters ==
  /\ ClientTurn
  /\ IF Execution(selected) \/ ~rtosAvail \/ SameThread(selected, CurrentId)
        \/ selected.tid \in 0..CurrentExecution
     THEN answer' = Answer("g", "target", running) /\ UNCHANGED fetching
     ELSE answer' = Unanswered /\ fetching' = "pointer"
  /\ UNCHANGED <<selected, stackPtr>> /\ Local

ErrorText == <<69, 48, 49>>   \* "E01"
Memory(address, n) == [k \in 1..n |-> (address + k) % 251]   \* the target's

PointerRead ==   \* get_thread_stack_ptr
  /\ fetching = "pointer"
  /\ \E text \in {ErrorText} \cup {Bin2Hex(Bytes(w)) : w \in StackTops} :
       stackPtr' = WordOf(Hex2Bin(text))
  /\ fetching' = "frame"
  /\ UNCHANGED <<selected, answer>> /\ Local

(* get_thread_registers.  What lies behind a reply that is too short is     *)
(* read nevertheless: the bytes the client gets may be any.                 *)
FrameRead ==
  /\ fetching = "frame"
  /\ \E text \in {ErrorText, Bin2Hex(Memory(stackPtr, ContextSize))} :
       LET bin == Hex2Bin(text)
       IN  answer' = IF Overread(bin) THEN Answer("g", "garbage", selected.tid)
                     ELSE [to |-> "g", what |-> "stack", n |-> selected.tid,
                           regs |-> Registers(bin, stackPtr)]
  /\ fetching' = "none" /\ stackPtr' = 0
  /\ UNCHANGED selected /\ Local

CurrentThread ==   \* qC
  /\ ClientTurn
  /\ answer' = IF rtosAvail THEN Answer("qC", "thread", CurrentId.tid)
                            ELSE Answer("qC", "target", 0)
  /\ UNCHANGED <<selected, fetchVars>> /\ Local

ListThreads ==   \* qfThreadInfo: the ids of m_threading.info
  /\ ClientTurn
  /\ answer' = Answer("qfThreadInfo",
                      IF ~rtosAvail THEN "target"
                      ELSE IF total = 0 THEN "empty" ELSE "list", Len(found))
  /\ UNCHANGED <<selected, fetchVars>> /\ Local

Extra(id) ==
  IF ~rtosAvail \/ total = 0 \/ Execution(id) THEN "target"
  ELSE IF \E i \in 1..Len(found) : SameThread(id, Listed(i)) THEN "name" ELSE "E01"

ExtraInfo(text) ==   \* qThreadExtraInfo: what is known of the first with that id
  /\ ClientTurn
  /\ answer' = Answer("qThreadExtraInfo", Extra(Parsed(text)), Parsed(text).tid)
  /\ UNCHANGED <<selected, fetchVars>> /\ Local

ThreadRequest ==
  \/ \E text \in Names : SelectThread(text) \/ ThreadAlive(text) \/ ExtraInfo(text)
  \/ ReadRegisters \/ CurrentThread \/ ListThreads

-----------------------------------------------------------------------------
Next ==
  \/ QuerySupported \/ QuerySymbols \/ SymbolReply
  \/ Resume \/ Halt \/ Update
  \/ ThreadRequest \/ PointerRead \/ FrameRead

Spec == Init /\ [][Next]_vars

(* The client answers the proxy's symbol requests and the target its memory *)
(* reads, both at once; a running target halts.                             *)
FairSpec == Spec /\ WF_vars(SymbolReply) /\ WF_vars(Update) /\ WF_vars(Halt)

-----------------------------------------------------------------------------
(* Properties.                                                              *)

(* Every variable stays in its domain.                                      *)
TypeOK ==
  /\ UpdateTypeOK
  /\ halted \in BOOLEAN /\ rtosAvail \in BOOLEAN
  /\ table \subseteq 1..Symbols /\ known \subseteq 1..Symbols
  /\ cursor \in 0..Symbols
  /\ lookups \in Nat /\ forwarded \in Nat /\ announced \in Nat
  /\ clientMulti \in BOOLEAN /\ multiprocess \in BOOLEAN /\ made \in BOOLEAN
  /\ selected \in [multi : BOOLEAN, pid : Int, tid : Int]
  /\ fetching \in {"none", "pointer", "frame"} /\ stackPtr \in Nat

(* The RTOS counts as available, and its lists are read, only when the      *)
(* program the client has now defines every required symbol: nothing is     *)
(* left of the program before it.                                           *)
SymbolsResolved ==
  rtosAvail \/ awaited # "none" => Required \subseteq known \cap table

(* Every halt is reported to the client once: not before the threads are    *)
(* updated, and not again.                                                  *)
OneReplyPerHalt ==
  announced = IF awaited = "none" THEN stops ELSE stops - 1

(* ... and it is reported: the stop reply kept during the update is not     *)
(* forgotten, with or without an RTOS.                                      *)
HaltAnnounced == ~halted ~> halted /\ announced = stops

(* What a lookup finds is right: it asked for every symbol, each once, so   *)
(* that an RTOS program is recognised as one, a program that lacks a symbol *)
(* it must have is not, and qSymbol:: is sent on once for each lookup.      *)
LookupExact ==
  /\ forwarded = IF cursor = 0 THEN lookups ELSE lookups - 1
  /\ cursor = 0 /\ lookups > 0 => (rtosAvail <=> Required \subseteq table)

(* Every thread the client is shown is one the proxy answers for when the   *)
(* client asks for it in its own notation, with or without a process,       *)
(* whether or not the two agree that ids have one.                          *)
ListedAnswered ==
  \A i \in 1..Len(found) :
    LET id == Parsed(Written(found[i].id))
    IN  Alive(id) # "E01" /\ Extra(id) # "E01"

(* The task that was running is among them and is the one marked so, when   *)
(* no read of the update failed.  qC need not name it: the walk of the lists*)
(* may give its id to another task, or leave the id it was given to none    *)
(* (FreshId).                                                               *)
CurrentListed ==
  awaited = "none" /\ ~failed /\ current.tcb # 0 =>
    /\ \E i \in 1..Len(found) : found[i].tcb = current.tcb
    /\ \A i \in 2..Len(found) : found[i].running <=> found[i].tcb = current.tcb

(* Registers that are read from a stack in full are what FreeRTOS pushed    *)
(* there: R31 to R2 from its second word upwards, then the nesting count    *)
(* and MSR, R14 being the PC as well; R1 is where the stack was before.     *)
Word(address) == [k \in 1..WordBytes |-> (address + k) % 251]
RegistersRestored ==
  [][fetching = "frame" /\ answer'.what = "stack" =>
       /\ \A k \in 1..30 : answer'.regs[32 - k] = Word(stackPtr + 4 * k)
       /\ answer'.regs[MSR] = Word(stackPtr + 128)
       /\ answer'.regs[PC] = answer'.regs[R14]
       /\ answer'.regs[R1] = Bytes(stackPtr + 132)
       /\ \A r \in 34..58 : answer'.regs[r] = <<>>]_vars

(* THREADS.md: Hg sets the thread for the subsequent g.  Registers that are *)
(* read from a stack come from the stack of the thread that was selected.   *)
SelectedRegisters ==
  answer.to = "g" /\ answer.what = "stack" /\ selected.tid \in Ids =>
    \E i \in 1..Len(found) : found[i].id = selected.tid /\ found[i].tcb = answer.n
=============================================================================
