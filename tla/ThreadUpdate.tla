----------------------------- MODULE ThreadUpdate -----------------------------
(****************************************************************************)
(* The thread update of target_mb_freertos (update_threads .. update_       *)
(* threads_done): a chain of memory reads, each sent by the callback of the *)
(* one before, that walks the task lists of a halted FreeRTOS target.       *)
(*                                                                          *)
(* The RTOS is external.  Its lists are circular: from the end marker the   *)
(* walk follows the "previous" pointers through the items.  List l stands   *)
(* for its own address and end marker, a task for its address and list item *)
(****************************************************************************)
EXTENDS ThreadIds, SequencesExt

CONSTANTS
  Tcbs,           \* addresses of the task control blocks
  OtherLists,     \* delayed, pending, waiting termination, suspended: 1..OtherLists
  Absent,         \* those of them whose symbol the client did not know
  MaxPriorities,  \* MAX_PRIORITIES ready lists, after the others
  TopKnown,       \* the client knows a symbol for the top priority
  Wrong,          \* words a read may return in place of the right one: what an
                  \* error reads as (0xe0 for E01), or what bad memory holds
  MaxStops        \* bound: times the target halts

Ready(i)   == OtherLists + i
Lists      == 1..(OtherLists + MaxPriorities)

ASSUME UpdateAssumption ==
  /\ OtherLists \in Nat /\ MaxPriorities \in Nat \ {0}
  /\ Absent \subseteq 1..OtherLists /\ Absent # 1..OtherLists
  /\ TopKnown \in BOOLEAN
  /\ IsFiniteSet(Tcbs) /\ Tcbs \subseteq Nat
  /\ \A t \in Tcbs : t > OtherLists + MaxPriorities
  /\ IsFiniteSet(Wrong) /\ Wrong \subseteq Nat \ {CurrentExecution}
  /\ TopKnown => \A t \in Tcbs, w \in Wrong : t > OtherLists + w
  /\ MaxStops \in Nat

VARIABLES
  items,    \* the RTOS: the tasks of each list, from the marker's "next" on
  running,  \* the RTOS: pxCurrentTCB
  stops,    \* how many times the target halted
  awaited,  \* the read whose reply is awaited, "none" when no update runs
  failed,   \* a read of this update returned a wrong word
  total,    \* m_threading.threads_count
  current,  \* m_threading.current_thread_tcb and current_thread_id
  found,    \* m_threading.info
  todo,     \* m_threading.lists from list_it on, without null addresses
  left,     \* count of the list at list_it
  elem,     \* its list_elem_ptr
  last,     \* its list_elem_ptr_prev
  ids       \* m_threads_map

rtosVars   == <<items, running, stops>>
listVars   == <<todo, left, elem, last>>
threadVars == <<total, current, found, ids>>
updateVars == <<rtosVars, awaited, failed, threadVars, listVars>>

-----------------------------------------------------------------------------
(* The memory of the halted target.                                         *)
Linked(l, t)  == \E i \in 1..Len(items[l]) : items[l][i] = t
Tasks(layout) == UNION {Range(layout[l]) : l \in Lists}
Layouts ==
  LET Orders == UNION {SetToSeqs(S) : S \in SUBSET Tcbs}
  IN  {f \in [Lists -> Orders] :
         /\ \A l \in Absent : f[l] = <<>>
         /\ \A k, l \in Lists : k # l => Range(f[k]) \cap Range(f[l]) = {}}

Previous(p) ==
  IF p \in Lists
  THEN IF items[p] = <<>> THEN p ELSE items[p][Len(items[p])]
  ELSE IF \E l \in Lists : Linked(l, p)
  THEN LET l == CHOOSE x \in Lists : Linked(x, p)
           i == CHOOSE n \in 1..Len(items[l]) : items[l][n] = p
       IN  IF i = 1 THEN l ELSE items[l][i - 1]
  ELSE 0
Owner(p) == IF p \in Tcbs THEN p ELSE 0

TopPriority ==   \* xTopReadyPriority: the highest priority of a ready task
  LET busy == {i \in 1..MaxPriorities : items[Ready(i)] # <<>>}
  IN  IF busy = {} THEN 0 ELSE (CHOOSE i \in busy : \A j \in busy : j <= i) - 1

(* What the reply to a read of word holds: the word, or something else that *)
(* is decoded all the same.                                                 *)
Received(word) == {word} \cup Wrong

-----------------------------------------------------------------------------
Thread(tcb, id, mark) == [tcb |-> tcb, id |-> id, running |-> mark]
TcbsOf(s) == {s[i].tcb : i \in 1..Len(s)}
Nothing   == [tcb |-> 0, id |-> 0]

UpdateInit ==
  /\ items = [l \in Lists |-> <<>>] /\ running = 0 /\ stops = 0
  /\ awaited = "none" /\ failed = FALSE
  \* make_empty_threading
  /\ total = 1 /\ current = [tcb |-> CurrentExecution, id |-> CurrentExecution]
  /\ found = <<Thread(CurrentExecution, CurrentExecution, FALSE)>>
  /\ ids = NoIds
  /\ todo = <<>> /\ left = 0 /\ elem = 0 /\ last = -1

(* The target halts: whatever the tasks did in between, and update_threads. *)
Halted ==
  /\ awaited = "none" /\ stops < MaxStops
  /\ stops' = stops + 1
  /\ \E f \in Layouts : /\ items' = f
                        /\ running' \in IF Tasks(f) = {} THEN {0} ELSE Tasks(f)

Begin ==
  /\ awaited' = "count" /\ failed' = FALSE
  /\ total' = 0 /\ current' = Nothing /\ found' = <<>>
  /\ todo' = <<>> /\ left' = 0 /\ elem' = 0 /\ last' = -1
  /\ UNCHANGED ids

(* update_threads_done.                                                     *)
Done(infos, map) ==
  /\ awaited' = "none"
  /\ total' = Len(infos) /\ found' = infos
  /\ ids' = Kept(map, TcbsOf(infos))
  /\ todo' = <<>> /\ left' = 0 /\ elem' = 0 /\ last' = -1

(* get_thread_list_data: the next list to read, if there is one.            *)
Walk(lists) ==
  /\ todo' = lists
  /\ awaited' = "items"
  /\ left' = 0 /\ elem' = 0 /\ last' = -1

MutNextList ==   \* mutant: the end of the lists is not the end of the update
  IF Tail(todo) = <<>>
  THEN awaited' = "end" /\ UNCHANGED <<total, found, ids, listVars>>
  ELSE Walk(Tail(todo)) /\ UNCHANGED <<total, found, ids>>

NextList ==
  IF Tail(todo) = <<>>
  THEN Done(found, ids)
  ELSE Walk(Tail(todo)) /\ UNCHANGED <<total, found, ids>>

(* The lists there are, ready lists first; those at address 0 are skipped.  *)
All(ready)     == [i \in 1..ready |-> Ready(i)] \o [i \in 1..OtherLists |-> i]
Present(lists) == FlattenSeq([i \in DOMAIN lists |->
                                IF lists[i] \in Absent THEN <<>> ELSE <<lists[i]>>])

MutWalkAll(ready) == Walk(Present(All(ready - 1)))   \* mutant: one ready list less

WalkAll(ready) == Walk(Present(All(ready)))

(* get_list_elem_thread_id: the element at p, unless the list is done.      *)
MutElement(p, before) ==   \* mutant: the count does not end the list
  IF p = 0 \/ p = before
  THEN NextList
  ELSE /\ elem' = p /\ last' = before /\ awaited' = "owner"
       /\ UNCHANGED <<todo, left, total, found, ids>>

Element(p, before) ==
  IF left = 0 \/ p = 0 \/ p = before
  THEN NextList
  ELSE /\ elem' = p /\ last' = before /\ awaited' = "owner"
       /\ UNCHANGED <<todo, left, total, found, ids>>

-----------------------------------------------------------------------------
(* The replies, in the order of the chain.                                  *)
CountRead ==   \* get_threads_count
  /\ awaited = "count"
  /\ LET word == Cardinality(Tasks(items))
     IN  \E v \in Received(word) : total' = v /\ failed' = (failed \/ v # word)
  /\ awaited' = "current"
  /\ UNCHANGED <<current, found, ids, listVars>>

CurrentRead ==   \* get_current_thread, add_current_execution
  /\ awaited = "current"
  /\ \E v \in Received(running) :
       LET map   == IF v = 0 THEN ids ELSE Numbered(ids, v)
           infos == Append(found, Thread(CurrentExecution, CurrentExecution, FALSE))
       IN  /\ failed' = (failed \/ v # running)
           /\ current' = [tcb |-> v, id |-> IF v = 0 THEN 0 ELSE map[v]]
           /\ IF total = 0
              THEN Done(infos, map)
              ELSE /\ total' = total + 1 /\ found' = infos /\ ids' = map
                   /\ IF TopKnown
                      THEN awaited' = "top" /\ UNCHANGED listVars
                      ELSE WalkAll(MaxPriorities)

TopRead ==   \* get_thread_lists_count
  /\ awaited = "top"
  /\ \E v \in Received(TopPriority) :
       WalkAll(v) /\ failed' = (failed \/ v # TopPriority)
  /\ UNCHANGED threadVars

ItemsRead ==   \* get_list_threads_count; what follows the ready lists is 0
  /\ awaited = "items"
  /\ LET word == IF Head(todo) \in Lists THEN Len(items[Head(todo)]) ELSE 0
     IN  \E v \in Received(word) :
           /\ failed' = (failed \/ v # word)
           /\ IF v = 0
              THEN NextList
              ELSE /\ left' = v /\ awaited' = "first"
                   /\ UNCHANGED <<todo, elem, last, total, found, ids>>
  /\ UNCHANGED current

FirstRead ==   \* get_list_elem_ptr
  /\ awaited = "first"
  /\ \E v \in Received(Previous(Head(todo))) :
       /\ failed' = (failed \/ v # Previous(Head(todo)))
       /\ Element(v, last)
  /\ UNCHANGED current

OwnerRead ==   \* get_list_elem_thread_id
  /\ awaited = "owner"
  /\ \E v \in Received(Owner(elem)) :
       /\ failed' = (failed \/ v # Owner(elem))
       /\ ids' = Numbered(ids, v)
       /\ found' = Append(found, Thread(v, ids'[v], FALSE))
  /\ awaited' = "name"
  /\ UNCHANGED <<total, current, listVars>>

NameRead ==   \* get_list_elem_thread_name, get_list_elem_next
  /\ awaited = "name"
  /\ found' = [found EXCEPT ![Len(found)].running = (current.tcb = Last(found).tcb)]
  /\ left' = left - 1
  /\ awaited' = "next"
  /\ UNCHANGED <<failed, total, current, ids, todo, elem, last>>

NextRead ==   \* get_list_elem_next
  /\ awaited = "next"
  /\ \E v \in Received(Previous(elem)) :
       /\ failed' = (failed \/ v # Previous(elem))
       /\ Element(v, elem)
  /\ UNCHANGED current

ReadReply ==
  /\ \/ CountRead \/ CurrentRead \/ TopRead \/ ItemsRead \/ FirstRead
     \/ OwnerRead \/ NameRead \/ NextRead
  /\ UNCHANGED rtosVars

-----------------------------------------------------------------------------
UpdateNext == (Halted /\ Begin) \/ ReadReply

UpdateSpec == UpdateInit /\ [][UpdateNext]_updateVars

(* The target answers every read.                                           *)
FairUpdate == UpdateSpec /\ WF_updateVars(ReadReply)

-----------------------------------------------------------------------------
(* Properties.                                                              *)
(* Every variable stays in its domain; the count of a list never goes       *)
(* below zero, where the code's size_t would wrap.                          *)
UpdateTypeOK ==
  /\ running \in Nat /\ stops \in Nat
  /\ awaited \in {"none", "count", "current", "top", "items", "first", "owner",
                  "name", "next"}
  /\ failed \in BOOLEAN
  /\ total \in Nat /\ left \in Nat /\ elem \in Nat /\ last \in Nat \cup {-1}
  /\ current \in [tcb : Nat, id : Int]
  /\ found \in Seq([tcb : Nat, id : Int, running : BOOLEAN])
  /\ todo \in Seq(Nat)

(* The client is shown the tasks of the RTOS and nothing else: every update *)
(* ends, and publishes the current execution and then each task of each     *)
(* list once, in the order of the walk, with the running one marked; no     *)
(* list of an earlier halt is shown again.                                  *)
ListingOf(layout) ==
  LET order == All(MaxPriorities)
  IN  FlattenSeq([i \in DOMAIN order |-> Reverse(layout[order[i]])])
Listing == ListingOf(items)

View == INSTANCE ThreadView
          WITH rtos <- [tasks |-> Listing, running |-> running],
               view <- IF awaited # "none" THEN <<>>
                       ELSE [i \in DOMAIN found |->
                              [tcb |-> found[i].tcb, running |-> found[i].running]]
ViewPublished == View!Spec

(* Between updates the map of ids holds the tasks that were found, those    *)
(* and no others, whatever the reads returned.                              *)
MapTracksTasks ==
  awaited = "none" => DOMAIN ids = TcbsOf(found) \ {CurrentExecution}

(* No task gets the id of the current execution, and the ids do not run     *)
(* away: with N addresses at most, they stay within N + 1 of the first.     *)
Addresses == Tcbs \cup {0} \cup Wrong

IdsInRange ==
  \A t \in DOMAIN ids : ids[t] \in FirstId..(FirstId + Cardinality(Addresses))

(* An update ends, and the stop reply that waits for it is sent, whichever  *)
(* of its reads fail or return a wrong word.                                *)
UpdateEnds == awaited # "none" ~> awaited = "none"

(* Why it ends, without counting on what the target answers: each reply     *)
(* leaves less to do, whatever it says.  The lists still to read come       *)
(* first, then the count of the one being walked, read once and counted     *)
(* down; the pointers that are followed do not count at all.                *)
Effort ==
  << CASE awaited = "none" -> 0 [] awaited = "top" -> 2 [] awaited = "current" -> 3
       [] awaited = "count" -> 4 [] OTHER -> 1,
     Len(todo),
     IF awaited = "items" THEN 1 ELSE 0,
     left,
     CASE awaited \in {"first", "next"} -> 2 [] awaited = "owner" -> 1 [] OTHER -> 0 >>

UpdateProgress ==
  [][awaited # "none" =>
       \E i \in 1..5 : /\ Effort'[i] \in Nat /\ Effort'[i] < Effort[i]
                       /\ \A j \in 1..(i - 1) : Effort'[j] = Effort[j]]_updateVars

(* "search minimal id": the id of a new task is one that no other has.      *)
FreshId ==
  [][\A t \in DOMAIN ids' \ DOMAIN ids, u \in DOMAIN ids :
       ids'[t] # ids[u]]_updateVars
=============================================================================
