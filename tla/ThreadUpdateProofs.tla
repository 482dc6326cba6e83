-------------------------- MODULE ThreadUpdateProofs --------------------------
(****************************************************************************)
(* Theorems about the thread update: for any number of tasks, lists and     *)
(* halts, and whichever reads fail, the map of ids holds what was found and *)
(* the ids stay within bounds. When the reads are answered, an update finds *)
(* every task of its halt: ThreadUpdate implements ThreadView.              *)
(****************************************************************************)
EXTENDS ThreadUpdate, SequenceInduction

-----------------------------------------------------------------------------
(* Addresses and memory.                                                    *)

LEMMA AddressFacts ==
  /\ IsFiniteSet(Addresses) /\ Cardinality(Addresses) \in Nat
  /\ Addresses \subseteq Nat /\ CurrentExecution \notin Addresses
  /\ Lists \subseteq Nat \ {0}
  <1> USE UpdateAssumption
  <1>1. IsFiniteSet(Addresses)
    <2>1. IsFiniteSet(Tcbs \cup {0})  BY FS_AddElement
    <2> QED  BY <2>1, FS_Union DEF Addresses
  <1>2. Addresses \subseteq Nat /\ CurrentExecution \notin Addresses
    BY DEF Addresses, CurrentExecution
  <1> QED  BY <1>1, <1>2, FS_CardinalityType DEF Lists

(* What a read of the target may return as the address of a task.           *)
Readable == running \in Tcbs \cup {0}

LEMMA HaltedReadable == Halted => Readable'
  <1> SUFFICES ASSUME Halted PROVE running' \in Tcbs \cup {0}
    BY DEF Readable
  <1>1. PICK f \in Layouts : running' \in IF Tasks(f) = {} THEN {0} ELSE Tasks(f)
    BY DEF Halted
  <1>2. Tasks(f) \subseteq Tcbs
    <2>1. ASSUME NEW l \in Lists PROVE Range(f[l]) \subseteq Tcbs
      <3>1. PICK S \in SUBSET Tcbs : f[l] \in SetToSeqs(S)  BY DEF Layouts
      <3>2. f[l] \in [1..Cardinality(S) -> S]  BY <3>1 DEF SetToSeqs
      <3> QED  BY <3>2 DEF Range
    <2> QED  BY <2>1 DEF Tasks
  <1> QED  BY <1>1, <1>2

LEMMA ReceivedAddress ==
  ASSUME NEW w \in Addresses, NEW v \in Received(w)
  PROVE  v \in Addresses
  BY DEF Received, Addresses

-----------------------------------------------------------------------------
(* The numbers of the tasks.                                                *)

IdRange == FirstId..(FirstId + Cardinality(Addresses))

NumbersTasks(m) == m \in [DOMAIN m -> IdRange] /\ DOMAIN m \subseteq Addresses

LEMMA EmptyMap == NumbersTasks(NoIds) /\ DOMAIN NoIds = {}
  BY DEF NumbersTasks, NoIds

(* get_threadid keeps the ids in their range: start_id counts entries of    *)
(* the map, and the new task is not one of them.                            *)
LEMMA NumberedInRange ==
  ASSUME NEW m, NumbersTasks(m), NEW tcb \in Addresses
  PROVE  /\ NumbersTasks(Numbered(m, tcb))
         /\ DOMAIN Numbered(m, tcb) = DOMAIN m \cup {tcb}
  <1>1. CASE tcb \in DOMAIN m
    <2>1. Numbered(m, tcb) = m  BY <1>1 DEF Numbered
    <2>2. DOMAIN m \cup {tcb} = DOMAIN m  BY <1>1
    <2> QED  BY <2>1, <2>2
  <1>2. CASE tcb \notin DOMAIN m
    <2> DEFINE D     == DOMAIN m
               fixed == FirstMisnumbered(m)
               start == IF fixed = {} THEN FirstId + Cardinality(D)
                        ELSE Expected(m, CHOOSE t \in fixed : TRUE)
    <2>1. IsFiniteSet(D) /\ D \in SUBSET Addresses
      BY AddressFacts, FS_Subset DEF NumbersTasks
    <2>2. Cardinality(D) \in Nat /\ Cardinality(D) + 1 <= Cardinality(Addresses)
      <3>1. Cardinality(D \cup {tcb}) = Cardinality(D) + 1
        BY <1>2, <2>1, FS_AddElement
      <3>2. D \cup {tcb} \in SUBSET Addresses  BY <2>1
      <3>3. Cardinality(D \cup {tcb}) <= Cardinality(Addresses)
        BY <3>2, AddressFacts, FS_Subset
      <3> QED  BY <2>1, <3>1, <3>3, FS_CardinalityType
    <2>3. \A t \in D : /\ Expected(m, t) \in Nat /\ Expected(m, t) >= FirstId
                       /\ Expected(m, t) <= FirstId + Cardinality(D)
      <3> SUFFICES ASSUME NEW t \in D
                   PROVE  /\ Expected(m, t) \in Nat /\ Expected(m, t) >= FirstId
                          /\ Expected(m, t) <= FirstId + Cardinality(D)
        OBVIOUS
      <3> DEFINE before == {u \in D : u < t}
      <3>1. before \in SUBSET D  OBVIOUS
      <3>2. Cardinality(before) \in Nat /\ Cardinality(before) <= Cardinality(D)
        BY <2>1, <3>1, FS_Subset, FS_CardinalityType
      <3>3. Expected(m, t) = FirstId + Cardinality(before)  BY DEF Expected
      <3> HIDE DEF before
      <3> QED  BY <2>2, <3>2, <3>3 DEF FirstId, CurrentExecution
    <2>4. start \in Nat /\ start >= FirstId /\ start <= FirstId + Cardinality(D)
      <3>1. CASE fixed = {}
        BY <2>2, <3>1 DEF FirstId, CurrentExecution
      <3>2. CASE fixed # {}
        <4>1. (CHOOSE t \in fixed : TRUE) \in D  BY <3>2 DEF FirstMisnumbered
        <4> QED  BY <3>2, <4>1, <2>3
      <3> QED  BY <3>1, <3>2
    <2>5. start \in IdRange /\ start + 1 \in IdRange
      BY <2>2, <2>4, AddressFacts DEF IdRange, FirstId, CurrentExecution
    <2>6. Numbered(m, tcb) =
            [t \in D \cup {tcb} |-> IF t = tcb THEN start + 1
                                    ELSE IF t \in fixed THEN start ELSE m[t]]
      BY <1>2 DEF Numbered
    <2> HIDE DEF start, fixed
    <2>7. \A t \in D : m[t] \in IdRange  BY DEF NumbersTasks
    <2> QED  BY <2>1, <2>5, <2>6, <2>7 DEF NumbersTasks
  <1> QED  BY <1>1, <1>2

LEMMA KeptInRange ==
  ASSUME NEW m, NumbersTasks(m), NEW tcbs
  PROVE  NumbersTasks(Kept(m, tcbs)) /\ DOMAIN Kept(m, tcbs) = DOMAIN m \cap tcbs
  BY DEF NumbersTasks, Kept

-----------------------------------------------------------------------------
(* What was found.                                                          *)

Infos == [tcb : Nat, id : Nat \ {0}, running : BOOLEAN]

LEMMA FirstInfo ==
  /\ Thread(CurrentExecution, CurrentExecution, FALSE) \in Infos
  /\ <<Thread(CurrentExecution, CurrentExecution, FALSE)>> \in Seq(Infos)
  /\ TcbsOf(<<Thread(CurrentExecution, CurrentExecution, FALSE)>>) = {CurrentExecution}
  BY DEF Thread, Infos, CurrentExecution, TcbsOf

LEMMA AppendInfo ==
  ASSUME NEW s \in Seq(Infos), NEW i \in Infos
  PROVE  Append(s, i) \in Seq(Infos) /\ TcbsOf(Append(s, i)) = TcbsOf(s) \cup {i.tcb}
  <1> DEFINE t == Append(s, i)
  <1>1. /\ t \in Seq(Infos) /\ Len(t) = Len(s) + 1 /\ t[Len(t)] = i
        /\ \A n \in 1..Len(s) : t[n] = s[n]
    OBVIOUS
  <1> HIDE DEF t
  <1>2. Len(s) \in Nat  OBVIOUS
  <1>3. 1..Len(t) = 1..Len(s) \cup {Len(t)}  BY <1>1, <1>2
  <1> QED  BY <1>1, <1>3 DEF TcbsOf, t

(* The map holds every task that was found, and the current execution is    *)
(* the only entry without a task.                                           *)
Recorded(infos, m) ==
  /\ NumbersTasks(m) /\ infos \in Seq(Infos)
  /\ TcbsOf(infos) \subseteq DOMAIN m \cup {CurrentExecution}

Tracked == awaited = "none" => DOMAIN ids = TcbsOf(found) \ {CurrentExecution}

IInv == Readable /\ Recorded(found, ids) /\ Tracked

LEMMA InductiveInit == UpdateInit => IInv
  <1> SUFFICES ASSUME UpdateInit PROVE IInv  OBVIOUS
  <1>1. Readable  BY DEF UpdateInit, Readable
  <1>2. Recorded(found, ids)  BY FirstInfo, EmptyMap DEF UpdateInit, Recorded
  <1>3. Tracked  BY FirstInfo, EmptyMap DEF UpdateInit, Tracked
  <1> QED  BY <1>1, <1>2, <1>3 DEF IInv

LEMMA BeginKeeps == IInv /\ Halted /\ Begin => IInv'
  <1> SUFFICES ASSUME IInv, Halted, Begin PROVE IInv'  OBVIOUS
  <1>1. Readable'  BY HaltedReadable
  <1>2. found' = <<>> /\ ids' = ids /\ awaited' = "count"  BY DEF Begin
  <1>3. Recorded(found', ids')
    BY <1>2 DEF IInv, Recorded, TcbsOf
  <1> QED  BY <1>1, <1>2, <1>3 DEF IInv, Recorded, Tracked

LEMMA HaltKeeps ==
  IInv /\ Halted /\ UNCHANGED <<awaited, threadVars>> => IInv'
  <1> SUFFICES ASSUME IInv, Halted, UNCHANGED <<awaited, threadVars>> PROVE IInv'
    OBVIOUS
  <1>1. Readable'  BY HaltedReadable
  <1> QED  BY <1>1 DEF IInv, Recorded, Tracked, threadVars

(* A step of the chain that goes on, and one that is its last.              *)
LEMMA GoesOn ==
  ASSUME Readable, UNCHANGED running, awaited' # "none", Recorded(found', ids')
  PROVE  IInv'
  BY DEF IInv, Readable, Recorded, Tracked

LEMMA DoneKeeps ==
  ASSUME Readable, UNCHANGED running, NEW infos, NEW m, Recorded(infos, m),
         Done(infos, m)
  PROVE  IInv'
  <1>1. /\ NumbersTasks(ids') /\ DOMAIN ids' = DOMAIN m \cap TcbsOf(infos)
        /\ found' = infos
    BY KeptInRange DEF Done, Recorded
  <1>2. CurrentExecution \notin DOMAIN m
    BY AddressFacts DEF Recorded, NumbersTasks
  <1>3. DOMAIN ids' = TcbsOf(found') \ {CurrentExecution}
    BY <1>1, <1>2 DEF Recorded
  <1>4. Recorded(found', ids')  BY <1>1, <1>3 DEF Recorded
  <1> QED  BY <1>3, <1>4 DEF IInv, Readable, Recorded, Tracked

LEMMA WalkKeeps ==
  ASSUME Readable, UNCHANGED running, NEW lists, Walk(lists), Recorded(found', ids')
  PROVE  IInv'
  BY GoesOn DEF Walk

LEMMA NextListKeeps ==
  ASSUME IInv, UNCHANGED running, NextList
  PROVE  IInv'
  <1>1. CASE Tail(todo) = <<>>
    BY <1>1, DoneKeeps DEF NextList, IInv
  <1>2. CASE Tail(todo) # <<>>
    BY <1>2, WalkKeeps DEF NextList, IInv, Recorded
  <1> QED  BY <1>1, <1>2

LEMMA ElementKeeps ==
  ASSUME IInv, UNCHANGED running, NEW p, NEW before, Element(p, before)
  PROVE  IInv'
  <1>1. CASE NextList  BY <1>1, NextListKeeps
  <1>2. CASE awaited' = "owner" /\ UNCHANGED <<found, ids>>
    BY <1>2, GoesOn DEF IInv, Recorded
  <1> QED  BY <1>1, <1>2 DEF Element

LEMMA ChainKeeps == IInv /\ ReadReply => IInv'
  <1> SUFFICES ASSUME IInv, ReadReply PROVE IInv'  OBVIOUS
  <1>1. /\ Readable /\ Recorded(found, ids) /\ found \in Seq(Infos)
        /\ NumbersTasks(ids)
    BY DEF IInv, Recorded
  <1>2. UNCHANGED running  BY DEF ReadReply, rtosVars
  <1>3. CASE CountRead
    BY <1>1, <1>2, <1>3, GoesOn DEF CountRead
  <1>4. CASE CurrentRead
    <2>1. PICK v \in Received(running) :
            LET map   == IF v = 0 THEN ids ELSE Numbered(ids, v)
                infos == Append(found, Thread(CurrentExecution, CurrentExecution, FALSE))
            IN  IF total = 0
                THEN Done(infos, map)
                ELSE /\ found' = infos /\ ids' = map
                     /\ \/ awaited' = "top"
                        \/ WalkAll(MaxPriorities)
      BY <1>4 DEF CurrentRead
    <2> DEFINE map   == IF v = 0 THEN ids ELSE Numbered(ids, v)
               infos == Append(found, Thread(CurrentExecution, CurrentExecution, FALSE))
    <2>2. v \in Addresses
      BY <1>1, ReceivedAddress DEF Readable, Addresses
    <2>3. NumbersTasks(map) /\ DOMAIN ids \subseteq DOMAIN map
      BY <1>1, <2>2, NumberedInRange
    <2>4. infos \in Seq(Infos) /\ TcbsOf(infos) = TcbsOf(found) \cup {CurrentExecution}
      <3>1. Thread(CurrentExecution, CurrentExecution, FALSE).tcb = CurrentExecution
        BY DEF Thread
      <3> QED  BY <1>1, <3>1, FirstInfo, AppendInfo
    <2>5. Recorded(infos, map)  BY <1>1, <2>3, <2>4 DEF Recorded
    <2>6. \/ Done(infos, map)
          \/ /\ found' = infos /\ ids' = map
             /\ awaited' = "top" \/ \E lists : Walk(lists)
      BY <2>1 DEF WalkAll
    <2> HIDE DEF infos, map
    <2> QED  BY <1>1, <1>2, <2>5, <2>6, DoneKeeps, GoesOn, WalkKeeps
  <1>5. CASE TopRead
    <2>1. \E lists : Walk(lists)  BY <1>5 DEF TopRead, WalkAll
    <2>2. Recorded(found', ids')  BY <1>1, <1>5 DEF TopRead, threadVars
    <2> QED  BY <1>1, <1>2, <2>1, <2>2, WalkKeeps
  <1>6. CASE ItemsRead
    <2>1. CASE NextList  BY <1>2, <2>1, NextListKeeps
    <2>2. CASE awaited' = "first" /\ UNCHANGED <<found, ids>>
      BY <1>1, <1>2, <2>2, GoesOn
    <2> QED  BY <1>6, <2>1, <2>2 DEF ItemsRead
  <1>7. CASE FirstRead  BY <1>2, <1>7, ElementKeeps DEF FirstRead
  <1>8. CASE OwnerRead
    <2>1. PICK v \in Received(Owner(elem)) :
            ids' = Numbered(ids, v) /\ found' = Append(found, Thread(v, ids'[v], FALSE))
      BY <1>8 DEF OwnerRead
    <2>2. v \in Addresses  BY <2>1, ReceivedAddress DEF Owner, Addresses
    <2>3. NumbersTasks(ids') /\ DOMAIN ids' = DOMAIN ids \cup {v}
      BY <1>1, <2>1, <2>2, NumberedInRange
    <2>4. ids'[v] \in Nat \ {0}
      BY <2>3, AddressFacts DEF NumbersTasks, IdRange, FirstId, CurrentExecution
    <2>5. Thread(v, ids'[v], FALSE) \in Infos /\ Thread(v, ids'[v], FALSE).tcb = v
      BY <2>2, <2>4, AddressFacts DEF Thread, Infos
    <2>6. found' \in Seq(Infos) /\ TcbsOf(found') = TcbsOf(found) \cup {v}
      BY <1>1, <2>1, <2>5, AppendInfo
    <2>7. Recorded(found', ids')
      BY <2>3, <2>6, <1>1 DEF Recorded
    <2>8. awaited' # "none"  BY <1>8 DEF OwnerRead
    <2> QED  BY <1>1, <1>2, <2>7, <2>8, GoesOn
  <1>9. CASE NameRead
    <2> DEFINE n == Len(found)
               b == (current.tcb = Last(found).tcb)
    <2>1. found' = [found EXCEPT ![n].running = b] /\ ids' = ids /\ awaited' = "next"
      BY <1>9 DEF NameRead
    <2>2. DOMAIN found = 1..n /\ n \in Nat /\ b \in BOOLEAN
      BY <1>1
    <2>3. \A i \in 1..n : /\ found[i] \in Infos
                          /\ found'[i] = IF i = n THEN [found[i] EXCEPT !.running = b]
                                          ELSE found[i]
      BY <1>1, <2>1, <2>2
    <2> HIDE DEF b
    <2>4. \A i \in 1..n : found'[i] \in Infos /\ found'[i].tcb = found[i].tcb
      BY <2>2, <2>3 DEF Infos
    <2>5. found' \in Seq(Infos) /\ Len(found') = n
      <3>1. found' = [i \in 1..n |-> found'[i]]  BY <2>1, <2>2
      <3> HIDE DEF n
      <3> QED  BY <2>2, <2>4, <3>1
    <2>6. TcbsOf(found') = TcbsOf(found)  BY <2>4, <2>5 DEF TcbsOf
    <2>7. Recorded(found', ids')  BY <1>1, <2>1, <2>5, <2>6 DEF Recorded
    <2> QED  BY <1>1, <1>2, <2>1, <2>7, GoesOn
  <1>10. CASE NextRead  BY <1>2, <1>10, ElementKeeps DEF NextRead
  <1> QED
    BY <1>3, <1>4, <1>5, <1>6, <1>7, <1>8, <1>9, <1>10 DEF ReadReply

LEMMA Inductive == UpdateSpec => []IInv
  <1>1. IInv /\ UNCHANGED updateVars => IInv'
    BY DEF IInv, Readable, Recorded, Tracked, updateVars, rtosVars, threadVars
  <1>2. IInv /\ [UpdateNext]_updateVars => IInv'
    BY <1>1, BeginKeeps, ChainKeeps DEF UpdateNext
  <1> QED  BY InductiveInit, <1>2, PTL DEF UpdateSpec

-----------------------------------------------------------------------------
(* No id ever stays behind for a task that is gone, and none is missing,    *)
(* whatever the reads of any number of updates returned.                    *)
THEOREM MapFollowsTasks == UpdateSpec => []MapTracksTasks
  <1>1. IInv => MapTracksTasks  BY DEF IInv, Tracked, MapTracksTasks
  <1> QED  BY <1>1, Inductive, PTL

(* Over any number of halts the ids neither reach that of the current       *)
(* execution nor run away.                                                  *)
THEOREM IdsStayInRange == UpdateSpec => []IdsInRange
  <1>1. IInv => IdsInRange
    BY DEF IInv, Recorded, NumbersTasks, IdRange, IdsInRange
  <1> QED  BY <1>1, Inductive, PTL

-----------------------------------------------------------------------------
(* The memory of the target, and what the pointers of its lists read as.    *)

Heap(f) ==
  /\ f \in [Lists -> Seq(Tcbs)]
  /\ \A l \in Absent : f[l] = <<>>
  /\ \A k, l \in Lists : \A i \in 1..Len(f[k]), j \in 1..Len(f[l]) :
       f[k][i] = f[l][j] => k = l /\ i = j

LEMMA LayoutsAreHeaps == \A f \in Layouts : Heap(f)
  <1> SUFFICES ASSUME NEW f \in Layouts PROVE Heap(f)  OBVIOUS
  <1>1. ASSUME NEW l \in Lists
        PROVE  /\ f[l] \in Seq(Tcbs)
               /\ \A i, j \in 1..Len(f[l]) : f[l][i] = f[l][j] => i = j
               /\ \A i \in 1..Len(f[l]) : f[l][i] \in Range(f[l])
    <2>1. PICK S \in SUBSET Tcbs : f[l] \in SetToSeqs(S)  BY DEF Layouts
    <2> DEFINE c == Cardinality(S)
               s == f[l]
    <2>2. c \in Nat  BY UpdateAssumption, FS_Subset, FS_CardinalityType
    <2>3. s \in [1..c -> S] /\ \A i, j \in 1..c : i # j => s[i] # s[j]
      BY <2>1 DEF SetToSeqs
    <2> HIDE DEF c, s
    <2>4. s \in Seq(Tcbs) /\ Len(s) = c /\ DOMAIN s = 1..c  BY <2>2, <2>3
    <2> QED  BY <2>3, <2>4 DEF s, Range
  <1>2. f \in [Lists -> Seq(Tcbs)]
    <2>1. f \in [Lists -> UNION {SetToSeqs(S) : S \in SUBSET Tcbs}]  BY DEF Layouts
    <2> QED  BY <1>1, <2>1
  <1>3. \A l \in Absent : f[l] = <<>>  BY DEF Layouts
  <1>4. \A k, l \in Lists : k # l => Range(f[k]) \cap Range(f[l]) = {}
    BY DEF Layouts
  <1>5. ASSUME NEW k \in Lists, NEW l \in Lists,
               NEW i \in 1..Len(f[k]), NEW j \in 1..Len(f[l]), f[k][i] = f[l][j]
        PROVE  k = l /\ i = j
    <2>1. f[k][i] \in Range(f[k]) /\ f[l][j] \in Range(f[l])  BY <1>1
    <2>2. k = l  BY <1>4, <1>5, <2>1
    <2> QED  BY <1>1, <1>5, <2>2
  <1> QED  BY <1>2, <1>3, <1>5 DEF Heap

LEMMA NoTasksInHeap == Heap([l \in Lists |-> <<>>])
  <1>1. \A l \in Absent : l \in Lists  BY UpdateAssumption DEF Lists
  <1> QED  BY <1>1 DEF Heap

LEMMA HeapFacts ==
  ASSUME NEW lay, Heap(lay)
  PROVE  /\ \A l \in Lists : /\ lay[l] \in Seq(Tcbs) /\ Len(lay[l]) \in Nat
                             /\ \A i \in 1..Len(lay[l]) : lay[l][i] \in Tcbs
         /\ Tasks(lay) \subseteq Tcbs /\ Cardinality(Tasks(lay)) \in Nat
         /\ \A l \in Lists : \A i \in 1..Len(lay[l]) : lay[l][i] \in Tasks(lay)
         /\ \A t \in Tasks(lay) : \E l \in Lists : \E i \in 1..Len(lay[l]) : lay[l][i] = t
  <1>1. ASSUME NEW l \in Lists
        PROVE  /\ lay[l] \in Seq(Tcbs) /\ Len(lay[l]) \in Nat
               /\ DOMAIN lay[l] = 1..Len(lay[l])
               /\ \A i \in 1..Len(lay[l]) : lay[l][i] \in Tcbs
    <2>1. lay[l] \in Seq(Tcbs)  BY DEF Heap
    <2> QED  BY <2>1, LenProperties, ElementOfSeq
  <1>2. \A t : t \in Tasks(lay) <=>
               \E l \in Lists : \E i \in 1..Len(lay[l]) : lay[l][i] = t
    BY <1>1 DEF Tasks, Range
  <1>3. Tasks(lay) \in SUBSET Tcbs  BY <1>1, <1>2
  <1>4. Cardinality(Tasks(lay)) \in Nat
    BY <1>3, UpdateAssumption, FS_Subset, FS_CardinalityType
  <1> QED  BY <1>1, <1>2, <1>3, <1>4

LEMMA Apart == \A t \in Tcbs : t \in Nat \ {0, CurrentExecution} /\ t \notin Lists
  BY UpdateAssumption DEF Lists, CurrentExecution

(* From a task the walk goes to the one before it in the same list.         *)
LEMMA PreviousIs ==
  ASSUME Heap(items)
  PROVE  /\ \A p : Previous(p) \in Nat
         /\ \A l \in Lists :
              items[l] # <<>> => Previous(l) = items[l][Len(items[l])]
         /\ \A l \in Lists : \A k \in 1..Len(items[l]) :
              Previous(items[l][k]) = IF k = 1 THEN l ELSE items[l][k - 1]
  <1> USE Apart, HeapFacts
  <1>1. ASSUME NEW l \in Lists, items[l] # <<>>
        PROVE  Previous(l) = items[l][Len(items[l])] /\ Previous(l) \in Nat
    <2>1. Len(items[l]) \in 1..Len(items[l])  BY <1>1, EmptySeq
    <2> QED  BY <1>1, <2>1 DEF Previous
  <1>2. ASSUME NEW l \in Lists, NEW k \in 1..Len(items[l])
        PROVE  /\ Previous(items[l][k]) = IF k = 1 THEN l ELSE items[l][k - 1]
               /\ Previous(items[l][k]) \in Nat
    <2> DEFINE p == items[l][k]
               m == CHOOSE x \in Lists : Linked(x, p)
               i == CHOOSE n \in 1..Len(items[m]) : items[m][n] = p
    <2>1. Linked(l, p) /\ p \notin Lists  BY DEF Linked
    <2>2. m \in Lists /\ Linked(m, p)  BY <2>1
    <2> HIDE DEF m, p
    <2>3. i \in 1..Len(items[m]) /\ items[m][i] = p  BY <2>2 DEF Linked
    <2> HIDE DEF i
    <2>4. m = l /\ i = k  BY <2>2, <2>3 DEF Heap, p
    <2>5. Previous(p) = IF i = 1 THEN m ELSE items[m][i - 1]
      BY <2>1 DEF Previous, i, m
    <2>6. k # 1 => k - 1 \in 1..Len(items[l])  OBVIOUS
    <2>7. Previous(p) \in Nat
      <3>1. CASE k = 1  BY <2>4, <2>5, <3>1, AddressFacts
      <3>2. CASE k # 1  BY <2>4, <2>5, <2>6, <3>2
      <3> QED  BY <3>1, <3>2
    <2> QED  BY <2>4, <2>5, <2>7 DEF p
  <1>3. ASSUME NEW p PROVE Previous(p) \in Nat
    <2>1. CASE p \in Lists /\ items[p] = <<>>  BY <2>1, AddressFacts DEF Previous
    <2>2. CASE p \in Lists /\ items[p] # <<>>  BY <1>1, <2>2
    <2>3. CASE p \notin Lists /\ \E l \in Lists : Linked(l, p)
      BY <1>2, <2>3 DEF Linked
    <2>4. CASE p \notin Lists /\ ~ \E l \in Lists : Linked(l, p)
      BY <2>4 DEF Previous
    <2> QED  BY <2>1, <2>2, <2>3, <2>4
  <1> QED  BY <1>1, <1>2, <1>3

LEMMA TopIsNatural == TopPriority \in Nat
  <1> DEFINE busy == {i \in 1..MaxPriorities : items[Ready(i)] # <<>>}
  <1>1. CASE busy = {}  BY <1>1 DEF TopPriority
  <1>2. CASE busy # {}
    <2> DEFINE T == {MaxPriorities - i : i \in busy}
    <2>1. T \in SUBSET Nat /\ T # {}  BY <1>2, UpdateAssumption
    <2>2. PICK m \in T : \A k \in T : m <= k
      <3> HIDE DEF T
      <3> QED  BY <2>1, LeastNatural
    <2>3. \E i \in busy : \A j \in busy : j <= i
      <3>1. PICK i \in busy : m = MaxPriorities - i  BY <2>2
      <3>2. ASSUME NEW j \in busy PROVE j <= i
        <4>1. m <= MaxPriorities - j  BY <2>2
        <4>2. i \in 1..MaxPriorities /\ j \in 1..MaxPriorities  OBVIOUS
        <4> HIDE DEF busy
        <4> QED  BY <3>1, <4>1, <4>2, UpdateAssumption
      <3> QED  BY <3>2
    <2>4. (CHOOSE i \in busy : \A j \in busy : j <= i) \in busy  BY <2>3
    <2> HIDE DEF T
    <2>5. (CHOOSE i \in busy : \A j \in busy : j <= i) \in 1..MaxPriorities  BY <2>4
    <2>6. TopPriority = (CHOOSE i \in busy : \A j \in busy : j <= i) - 1
      BY <1>2 DEF TopPriority
    <2> QED  BY <2>5, <2>6, UpdateAssumption
  <1> QED  BY <1>1, <1>2

(* The lists that are read: those that are there, and there is one.         *)
LEMMA PresentLists ==
  ASSUME NEW D, D \subseteq Nat
  PROVE  /\ Present(<<>>) = <<>>
         /\ \A s \in Seq(D) : Present(s) \in Seq(D)
         /\ \A s \in Seq(D), d \in D :
              Present(Append(s, d)) = IF d \in Absent THEN Present(s)
                                      ELSE Append(Present(s), d)
         /\ \A s \in Seq(D) : (\E i \in 1..Len(s) : s[i] \notin Absent) => Present(s) # <<>>
  <1> DEFINE F == [d \in D |-> IF d \in Absent THEN <<>> ELSE <<d>>]
  <1>1. F \in [D -> Seq(D)]  OBVIOUS
  <1>2. \A s \in Seq(D) : Present(s) = FlattenSeq(Mapped(F, s))
    <2> SUFFICES ASSUME NEW s \in Seq(D) PROVE Present(s) = FlattenSeq(Mapped(F, s))
      OBVIOUS
    <2>1. DOMAIN s = 1..Len(s) /\ \A i \in 1..Len(s) : s[i] \in D
      BY LenProperties, ElementOfSeq
    <2>2. Mapped(F, s) = [i \in DOMAIN s |-> IF s[i] \in Absent THEN <<>> ELSE <<s[i]>>]
      BY <2>1 DEF Mapped
    <2> QED  BY <2>2 DEF Present
  <1> HIDE DEF F
  <1>3. /\ FlattenSeq(Mapped(F, <<>>)) = <<>>
        /\ \A s \in Seq(D) : FlattenSeq(Mapped(F, s)) \in Seq(D)
        /\ \A s \in Seq(D), d \in D :
              FlattenSeq(Mapped(F, Append(s, d))) = FlattenSeq(Mapped(F, s)) \o F[d]
        /\ \A s \in Seq(D) : s # <<>> =>
              FlattenSeq(Mapped(F, s)) = F[Head(s)] \o FlattenSeq(Mapped(F, Tail(s)))
    BY <1>1, FlattenMapped
  <1>4. Present(<<>>) = <<>> /\ \A s \in Seq(D) : Present(s) \in Seq(D)
    <2>1. <<>> \in Seq(D)  OBVIOUS
    <2> QED  BY <1>2, <1>3, <2>1
  <1>5. ASSUME NEW s \in Seq(D), NEW d \in D
        PROVE  Present(Append(s, d)) = IF d \in Absent THEN Present(s)
                                       ELSE Append(Present(s), d)
    <2>1. Append(s, d) \in Seq(D)  OBVIOUS
    <2>2. Present(Append(s, d)) = Present(s) \o F[d]  BY <1>2, <1>3, <2>1
    <2>3. Present(s) \in Seq(D)  BY <1>4
    <2>4. Present(s) \o <<>> = Present(s)  BY <2>3, ConcatEmptySeq
    <2>5. Append(Present(s), d) = Present(s) \o <<d>>  BY <2>3, AppendIsConcat
    <2> QED  BY <2>2, <2>4, <2>5 DEF F
  <1>6. \A s \in Seq(D) : (\E i \in 1..Len(s) : s[i] \notin Absent) => Present(s) # <<>>
    <2> DEFINE P == {s \in Seq(D) :
                      (\E i \in 1..Len(s) : s[i] \notin Absent) => Present(s) # <<>>}
    <2>1. <<>> \in P  OBVIOUS
    <2>2. ASSUME NEW s \in Seq(D), NEW d \in D, s \in P PROVE Append(s, d) \in P
      <3> DEFINE t == Append(s, d)
      <3>1. /\ Len(s) \in Nat /\ t \in Seq(D) /\ Len(t) = Len(s) + 1 /\ t[Len(s) + 1] = d
            /\ \A i \in 1..Len(s) : t[i] = s[i]
        BY LenProperties, AppendProperties
      <3>2. Present(s) \in Seq(D)  BY <1>4
      <3>3. d \notin Absent => Present(t) # <<>>
        BY <1>5, <3>2, AppendProperties
      <3> HIDE DEF t
      <3>4. ASSUME d \in Absent, NEW i \in 1..Len(t), t[i] \notin Absent
            PROVE  Present(t) # <<>>
        <4>1. i \in 1..Len(s) /\ s[i] \notin Absent  BY <3>1, <3>4
        <4>2. Present(s) # <<>>  BY <2>2, <4>1
        <4> QED  BY <1>5, <3>4, <4>2 DEF t
      <3> QED  BY <3>1, <3>3, <3>4 DEF t
    <2>3. Seq(D) \subseteq P
      <3> HIDE DEF P
      <3> QED  BY <2>1, <2>2, SequenceInduct
    <2> QED  BY <2>3
  <1> QED  BY <1>4, <1>5, <1>6

LEMMA AllLists ==
  ASSUME NEW n \in Nat
  PROVE  /\ All(n) \in Seq(Nat) /\ Len(All(n)) = n + OtherLists
         /\ \A i \in 1..(n + OtherLists) :
              All(n)[i] = IF i <= n THEN Ready(i) ELSE i - n
         /\ n <= MaxPriorities => All(n) \in Seq(Lists)
         /\ Present(All(n)) \in Seq(Nat) /\ Present(All(n)) # <<>>
  <1> DEFINE r == [i \in 1..n |-> Ready(i)]
             o == [i \in 1..OtherLists |-> i]
             N == n + OtherLists
  <1>1. OtherLists \in Nat /\ MaxPriorities \in Nat  BY UpdateAssumption
  <1>2. r \in Seq(Nat) /\ Len(r) = n /\ \A i \in 1..n : r[i] = Ready(i)
    BY <1>1 DEF Ready
  <1>3. o \in Seq(Nat) /\ Len(o) = OtherLists /\ \A i \in 1..OtherLists : o[i] = i
    BY <1>1
  <1> HIDE DEF r, o
  <1>4. /\ r \o o \in Seq(Nat) /\ Len(r \o o) = N
        /\ \A i \in 1..N : (r \o o)[i] = IF i <= n THEN r[i] ELSE o[i - n]
    BY <1>2, <1>3, ConcatProperties
  <1>5. All(n) = r \o o  BY DEF All, r, o
  <1>6. /\ All(n) \in Seq(Nat) /\ Len(All(n)) = N
        /\ \A i \in 1..N : All(n)[i] = IF i <= n THEN Ready(i) ELSE i - n
    <2> SUFFICES ASSUME NEW i \in 1..N
                 PROVE  All(n)[i] = IF i <= n THEN Ready(i) ELSE i - n
      BY <1>4, <1>5
    <2>1. CASE i <= n  BY <1>2, <1>4, <1>5, <2>1
    <2>2. CASE ~(i <= n)
      <3>1. i - n \in 1..OtherLists  BY <1>1, <2>2
      <3> QED  BY <1>3, <1>4, <1>5, <2>2, <3>1
    <2> QED  BY <2>1, <2>2
  <1>7. n <= MaxPriorities => All(n) \in Seq(Lists)
    <2> SUFFICES ASSUME n <= MaxPriorities PROVE All(n) \in Seq(Lists)  OBVIOUS
    <2>1. ASSUME NEW i \in 1..N PROVE All(n)[i] \in Lists
      <3>1. CASE i <= n  BY <1>1, <1>6, <3>1 DEF Lists, Ready
      <3>2. CASE ~(i <= n)  BY <1>1, <1>6, <3>2 DEF Lists
      <3> QED  BY <3>1, <3>2
    <2>2. N \in Nat /\ All(n) = [i \in 1..N |-> All(n)[i]]
      BY <1>1, <1>6, LenProperties
    <2> HIDE DEF N
    <2> QED  BY <2>1, <2>2
  <1>8. Present(All(n)) \in Seq(Nat) /\ Present(All(n)) # <<>>
    <2>1. PICK l \in 1..OtherLists : l \notin Absent  BY UpdateAssumption
    <2>2. n + l \in 1..N /\ ~(n + l <= n) /\ (n + l) - n = l  BY <1>1
    <2>3. All(n)[n + l] = l  BY <1>6, <2>2
    <2> QED  BY <1>6, <2>1, <2>2, <2>3, PresentLists
  <1> QED  BY <1>6, <1>7, <1>8

-----------------------------------------------------------------------------
(* Types.  A list is walked only while there is one, and its count is above *)
(* zero where it is counted down.                                           *)

Walks == {"items", "first", "owner", "name", "next"}

Placed ==
  /\ awaited \in Walks => todo # <<>>
  /\ awaited \in {"owner", "name"} => left > 0

Typed == UpdateTypeOK /\ Heap(items) /\ Placed

LEMMA TypedInit == UpdateInit => Typed
  <1> SUFFICES ASSUME UpdateInit PROVE Typed  OBVIOUS
  <1>1. UpdateTypeOK
    <2>1. <<Thread(CurrentExecution, CurrentExecution, FALSE)>>
            \in Seq([tcb : Nat, id : Int, running : BOOLEAN])
      BY DEF Thread, CurrentExecution
    <2>2. <<>> \in Seq(Nat) /\ CurrentExecution \in Nat  BY DEF CurrentExecution
    <2>3. [tcb |-> CurrentExecution, id |-> CurrentExecution] \in [tcb : Nat, id : Int]
      BY <2>2
    <2> DEFINE shown == <<Thread(CurrentExecution, CurrentExecution, FALSE)>>
    <2>4. found = shown /\ shown \in Seq([tcb : Nat, id : Int, running : BOOLEAN])
      BY <2>1 DEF UpdateInit
    <2> HIDE DEF shown
    <2> QED  BY <2>2, <2>3, <2>4 DEF UpdateInit, UpdateTypeOK
  <1>2. Heap(items)  BY NoTasksInHeap DEF UpdateInit
  <1>3. Placed  BY DEF UpdateInit, Placed, Walks
  <1> QED  BY <1>1, <1>2, <1>3 DEF Typed

LEMMA HaltedHeap ==
  ASSUME Halted, stops \in Nat
  PROVE  /\ Heap(items') /\ running' \in Nat /\ stops' \in Nat
         /\ running' # 0 => running' \in Tasks(items')
  <1>1. PICK f \in Layouts :
          items' = f /\ running' \in IF Tasks(f) = {} THEN {0} ELSE Tasks(f)
    BY DEF Halted
  <1>2. Heap(items')  BY <1>1, LayoutsAreHeaps
  <1>3. running' \in Nat  BY HaltedReadable, Apart DEF Readable
  <1> QED  BY <1>1, <1>2, <1>3 DEF Halted

LEMMA TypedBegin == Typed /\ Halted /\ Begin => Typed'
  <1> SUFFICES ASSUME Typed, Halted, Begin PROVE Typed'  OBVIOUS
  <1>1. Heap(items') /\ running' \in Nat /\ stops' \in Nat
    BY HaltedHeap DEF Typed, UpdateTypeOK
  <1>2. <<>> \in Seq([tcb : Nat, id : Int, running : BOOLEAN])  OBVIOUS
  <1>3. Nothing \in [tcb : Nat, id : Int]  BY DEF Nothing
  <1>4. UpdateTypeOK'
    <2>1. todo' \in Seq(Nat) /\ left' \in Nat /\ elem' \in Nat
          /\ last' \in Nat \cup {-1}
      BY DEF Begin
    <2>2. awaited' = "count" /\ failed' = FALSE /\ total' = 0
          /\ current' \in [tcb : Nat, id : Int]
          /\ found' \in Seq([tcb : Nat, id : Int, running : BOOLEAN])
      BY <1>2, <1>3 DEF Begin
    <2> QED  BY <1>1, <2>1, <2>2 DEF UpdateTypeOK
  <1>5. Placed'  BY DEF Begin, Placed, Walks
  <1> QED  BY <1>1, <1>4, <1>5 DEF Typed

LEMMA TypedHalt ==
  Typed /\ Halted /\ UNCHANGED <<awaited, failed, threadVars, listVars>> => Typed'
  <1> SUFFICES ASSUME Typed, Halted,
                      UNCHANGED <<awaited, failed, threadVars, listVars>>
               PROVE  Typed'
    OBVIOUS
  <1>1. Heap(items') /\ running' \in Nat /\ stops' \in Nat
    BY HaltedHeap DEF Typed, UpdateTypeOK
  <1> QED  BY <1>1 DEF Typed, UpdateTypeOK, Placed, Walks, threadVars, listVars

LEMMA InfosTyped == Seq(Infos) \subseteq Seq([tcb : Nat, id : Int, running : BOOLEAN])
  <1>1. Infos \subseteq [tcb : Nat, id : Int, running : BOOLEAN]  BY DEF Infos
  <1> QED  BY <1>1, SeqMonotonic

(* The three ways a step of the chain ends.                                 *)
StepTyped ==
  /\ UNCHANGED rtosVars
  /\ failed' \in BOOLEAN /\ current' \in [tcb : Nat, id : Int]

LEMMA TypedDone ==
  ASSUME Typed, StepTyped, NEW infos \in Seq(Infos), NEW m, Done(infos, m)
  PROVE  Typed'
  <1>1. Len(infos) \in Nat /\ <<>> \in Seq(Nat)  OBVIOUS
  <1>2. infos \in Seq([tcb : Nat, id : Int, running : BOOLEAN])
    BY InfosTyped
  <1>3. UpdateTypeOK'
    BY <1>1, <1>2 DEF Done, Typed, UpdateTypeOK, StepTyped, rtosVars
  <1>4. Placed' /\ items' = items
    BY DEF Done, Placed, Walks, StepTyped, rtosVars
  <1> QED  BY <1>3, <1>4 DEF Typed

LEMMA TypedWalk ==
  ASSUME Typed, StepTyped, NEW lists \in Seq(Nat), lists # <<>>, Walk(lists),
         total' \in Nat, found' \in Seq(Infos)
  PROVE  Typed'
  <1>1. UpdateTypeOK'
    <2>1. found' \in Seq([tcb : Nat, id : Int, running : BOOLEAN])  BY InfosTyped
    <2> QED  BY <2>1 DEF Walk, Typed, UpdateTypeOK, StepTyped, rtosVars
  <1>2. Placed' /\ items' = items
    BY DEF Walk, Placed, Walks, StepTyped, rtosVars
  <1> QED  BY <1>1, <1>2 DEF Typed

LEMMA TypedNextList ==
  ASSUME IInv, Typed, awaited \in Walks, StepTyped, NextList
  PROVE  Typed'
  <1>1. found \in Seq(Infos)  BY DEF IInv, Recorded
  <1>2. todo \in Seq(Nat) /\ todo # <<>>  BY DEF Typed, UpdateTypeOK, Placed
  <1>3. Tail(todo) \in Seq(Nat)  BY <1>2
  <1>4. CASE Tail(todo) = <<>>  BY <1>1, <1>4, TypedDone DEF NextList
  <1>5. CASE Tail(todo) # <<>>
    <2>1. Walk(Tail(todo)) /\ total' = total /\ found' = found
      BY <1>5 DEF NextList
    <2> QED  BY <1>1, <1>3, <1>5, <2>1, TypedWalk DEF Typed, UpdateTypeOK
  <1> QED  BY <1>4, <1>5

LEMMA TypedElement ==
  ASSUME IInv, Typed, awaited \in Walks, StepTyped, NEW p \in Nat, NEW before \in Nat \cup {-1},
         Element(p, before)
  PROVE  Typed'
  <1>1. CASE NextList  BY <1>1, TypedNextList
  <1>2. CASE ~NextList
    <2>1. /\ elem' = p /\ last' = before /\ awaited' = "owner" /\ left # 0
          /\ UNCHANGED <<todo, left, total, found, ids>>
      BY <1>2 DEF Element
    <2>2. left \in Nat /\ left > 0  BY <2>1 DEF Typed, UpdateTypeOK
    <2>3. UpdateTypeOK'
      BY <2>1 DEF Typed, UpdateTypeOK, StepTyped, rtosVars
    <2>4. Placed' /\ items' = items
      BY <2>1, <2>2 DEF Typed, Placed, Walks, StepTyped, rtosVars
    <2> QED  BY <2>3, <2>4 DEF Typed
  <1> QED  BY <1>1, <1>2

LEMMA TypedStep == IInv /\ Typed /\ ReadReply => Typed'
  <1> SUFFICES ASSUME IInv, Typed, ReadReply PROVE Typed'  OBVIOUS
  <1>1. UNCHANGED rtosVars  BY DEF ReadReply
  <1>2. /\ UpdateTypeOK /\ Heap(items) /\ Placed /\ found \in Seq(Infos)
        /\ NumbersTasks(ids) /\ running \in Tcbs \cup {0} /\ Wrong \subseteq Nat
    BY UpdateAssumption DEF Typed, IInv, Recorded, Readable
  <1>3. \A w \in Nat : \A v \in Received(w) : v \in Nat  BY <1>2 DEF Received
  <1>4. \A v \in Nat, w \in Nat : (failed \/ v # w) \in BOOLEAN  BY <1>2 DEF UpdateTypeOK
  <1>5. CASE CountRead
    <2>1. Cardinality(Tasks(items)) \in Nat  BY <1>2, HeapFacts
    <2>2. total' \in Nat /\ failed' \in BOOLEAN  BY <1>3, <1>5, <2>1 DEF CountRead
    <2>3. UpdateTypeOK'
      BY <1>1, <1>2, <1>5, <2>2 DEF CountRead, UpdateTypeOK, rtosVars, listVars
    <2>4. Placed' /\ items' = items  BY <1>1, <1>5 DEF CountRead, Placed, Walks, rtosVars
    <2> QED  BY <1>2, <2>3, <2>4 DEF Typed
  <1>6. CASE CurrentRead
    <2> DEFINE infos == Append(found, Thread(CurrentExecution, CurrentExecution, FALSE))
               map(v) == IF v = 0 THEN ids ELSE Numbered(ids, v)
    <2>1. PICK v \in Received(running) :
            /\ failed' = (failed \/ v # running)
            /\ current' = [tcb |-> v, id |-> IF v = 0 THEN 0 ELSE map(v)[v]]
            /\ IF total = 0
               THEN Done(infos, map(v))
               ELSE /\ total' = total + 1 /\ found' = infos
                    /\ IF TopKnown THEN awaited' = "top" /\ UNCHANGED listVars
                       ELSE WalkAll(MaxPriorities)
      BY <1>6 DEF CurrentRead
    <2>2. v \in Addresses /\ v \in Nat
      <3>1. v \in Addresses  BY <1>2, ReceivedAddress DEF Addresses
      <3> QED  BY <3>1, AddressFacts
    <2>3. v # 0 => map(v)[v] \in Nat
      <3> SUFFICES ASSUME v # 0 PROVE Numbered(ids, v)[v] \in Nat  OBVIOUS
      <3>1. NumbersTasks(Numbered(ids, v)) /\ v \in DOMAIN Numbered(ids, v)
        BY <1>2, <2>2, NumberedInRange
      <3> QED  BY <3>1, AddressFacts DEF NumbersTasks, IdRange, FirstId, CurrentExecution
    <2>4. StepTyped
      <3> DEFINE i == IF v = 0 THEN 0 ELSE map(v)[v]
      <3>1. i \in Nat  BY <2>3
      <3>2. current' = [tcb |-> v, id |-> i]  BY <2>1
      <3> HIDE DEF i
      <3>3. current' \in [tcb : Nat, id : Int]  BY <2>2, <3>1, <3>2
      <3>4. failed' \in BOOLEAN  BY <2>1
      <3> QED  BY <1>1, <3>3, <3>4 DEF StepTyped
    <2>5. infos \in Seq(Infos)  BY <1>2, FirstInfo, AppendInfo
    <2> HIDE DEF infos, map
    <2>6. CASE total = 0  BY <2>1, <2>4, <2>5, <2>6, TypedDone
    <2>7. CASE total # 0 /\ TopKnown
      <3>1. total' \in Nat /\ found' = infos /\ awaited' = "top" /\ UNCHANGED listVars
        BY <1>2, <2>1, <2>7 DEF UpdateTypeOK
      <3>2. found' \in Seq([tcb : Nat, id : Int, running : BOOLEAN])
        BY <2>5, <3>1, InfosTyped
      <3>3. UpdateTypeOK'
        BY <1>2, <2>4, <3>1, <3>2 DEF UpdateTypeOK, StepTyped, listVars, rtosVars
      <3>4. Placed' /\ items' = items
        BY <1>1, <3>1 DEF Placed, Walks, rtosVars
      <3> QED  BY <1>2, <3>3, <3>4 DEF Typed
    <2>8. CASE total # 0 /\ ~TopKnown
      <3>1. total' \in Nat /\ found' = infos /\ Walk(Present(All(MaxPriorities)))
        BY <1>2, <2>1, <2>8 DEF UpdateTypeOK, WalkAll
      <3>2. MaxPriorities \in Nat  BY UpdateAssumption
      <3>3. Present(All(MaxPriorities)) \in Seq(Nat) /\ Present(All(MaxPriorities)) # <<>>
        BY <3>2, AllLists
      <3> QED  BY <2>4, <2>5, <3>1, <3>3, TypedWalk
    <2> QED  BY <2>6, <2>7, <2>8
  <1>7. CASE TopRead
    <2>1. PICK v \in Received(TopPriority) :
            Walk(Present(All(v))) /\ failed' = (failed \/ v # TopPriority)
      BY <1>7 DEF TopRead, WalkAll
    <2>2. v \in Nat  BY <1>3, TopIsNatural
    <2>3. Present(All(v)) \in Seq(Nat) /\ Present(All(v)) # <<>>  BY <2>2, AllLists
    <2>4. total' = total /\ current' = current /\ found' = found
      BY <1>7 DEF TopRead, threadVars
    <2>5. StepTyped  BY <1>1, <1>2, <2>1, <2>4 DEF StepTyped, UpdateTypeOK
    <2> QED  BY <1>2, <2>1, <2>3, <2>4, <2>5, TypedWalk DEF UpdateTypeOK
  <1>8. CASE ItemsRead
    <2> DEFINE word == IF Head(todo) \in Lists THEN Len(items[Head(todo)]) ELSE 0
    <2>1. word \in Nat  BY <1>2, HeapFacts
    <2>2. PICK v \in Received(word) :
            /\ failed' = (failed \/ v # word)
            /\ IF v = 0 THEN NextList
               ELSE /\ left' = v /\ awaited' = "first"
                    /\ UNCHANGED <<todo, elem, last, total, found, ids>>
      BY <1>8 DEF ItemsRead
    <2> HIDE DEF word
    <2>3. v \in Nat  BY <1>3, <2>1
    <2>4. StepTyped
      BY <1>1, <1>2, <1>8, <2>2 DEF StepTyped, UpdateTypeOK, ItemsRead
    <2>5. awaited \in Walks  BY <1>8 DEF ItemsRead, Walks
    <2>6. CASE v = 0  BY <2>2, <2>4, <2>5, <2>6, TypedNextList
    <2>7. CASE v # 0
      <3>1. left' = v /\ awaited' = "first" /\ UNCHANGED <<todo, elem, last, total, found, ids>>
        BY <2>2, <2>7
      <3>2. UpdateTypeOK'
        BY <1>2, <2>3, <2>4, <3>1 DEF UpdateTypeOK, StepTyped, rtosVars
      <3>3. Placed' /\ items' = items
        BY <1>1, <1>2, <2>5, <3>1 DEF Placed, Walks, rtosVars
      <3> QED  BY <1>2, <3>2, <3>3 DEF Typed
    <2> QED  BY <2>6, <2>7
  <1>9. CASE FirstRead
    <2>1. PICK v \in Received(Previous(Head(todo))) :
            failed' = (failed \/ v # Previous(Head(todo))) /\ Element(v, last)
      BY <1>9 DEF FirstRead
    <2>2. v \in Nat  BY <1>2, <1>3, PreviousIs
    <2>3. StepTyped /\ awaited \in Walks
      BY <1>1, <1>2, <1>9, <2>1 DEF StepTyped, UpdateTypeOK, FirstRead, Walks
    <2>4. last \in Nat \cup {-1}  BY <1>2 DEF UpdateTypeOK
    <2> QED  BY <2>1, <2>2, <2>3, <2>4, TypedElement
  <1>10. CASE OwnerRead
    <2>1. found' \in Seq(Infos)
      <3>1. IInv'  BY ChainKeeps
      <3> QED  BY <3>1 DEF IInv, Recorded
    <2>2. failed' \in BOOLEAN /\ awaited' = "name" /\ UNCHANGED <<total, current, listVars>>
      BY <1>10 DEF OwnerRead
    <2>3. found' \in Seq([tcb : Nat, id : Int, running : BOOLEAN])
      BY <2>1, InfosTyped
    <2>4. UpdateTypeOK'
      BY <1>1, <1>2, <2>2, <2>3 DEF UpdateTypeOK, rtosVars, listVars
    <2>5. Placed' /\ items' = items
      BY <1>1, <1>2, <1>10, <2>2 DEF Placed, Walks, rtosVars, listVars, OwnerRead
    <2> QED  BY <1>2, <2>4, <2>5 DEF Typed
  <1>11. CASE NameRead
    <2>1. found' \in Seq(Infos)
      <3>1. IInv'  BY ChainKeeps
      <3> QED  BY <3>1 DEF IInv, Recorded
    <2>2. /\ left' = left - 1 /\ awaited' = "next"
          /\ UNCHANGED <<failed, total, current, todo, elem, last>>
      BY <1>11 DEF NameRead
    <2>3. left \in Nat /\ left > 0  BY <1>2, <1>11 DEF UpdateTypeOK, Placed, NameRead
    <2>4. left' \in Nat  BY <2>2, <2>3
    <2>5. found' \in Seq([tcb : Nat, id : Int, running : BOOLEAN])
      BY <2>1, InfosTyped
    <2>6. UpdateTypeOK'
      BY <1>1, <1>2, <2>2, <2>4, <2>5 DEF UpdateTypeOK, rtosVars
    <2>7. Placed' /\ items' = items
      BY <1>1, <1>2, <1>11, <2>2 DEF Placed, Walks, rtosVars, NameRead
    <2> QED  BY <1>2, <2>6, <2>7 DEF Typed
  <1>12. CASE NextRead
    <2>1. PICK v \in Received(Previous(elem)) :
            failed' = (failed \/ v # Previous(elem)) /\ Element(v, elem)
      BY <1>12 DEF NextRead
    <2>2. v \in Nat  BY <1>2, <1>3, PreviousIs
    <2>3. StepTyped /\ awaited \in Walks
      BY <1>1, <1>2, <1>12, <2>1 DEF StepTyped, UpdateTypeOK, NextRead, Walks
    <2>4. elem \in Nat \cup {-1}  BY <1>2 DEF UpdateTypeOK
    <2> QED  BY <2>1, <2>2, <2>3, <2>4, TypedElement
  <1> QED
    BY <1>5, <1>6, <1>7, <1>8, <1>9, <1>10, <1>11, <1>12 DEF ReadReply

LEMMA TypedStable == Typed /\ UNCHANGED updateVars => Typed'
  BY DEF Typed, UpdateTypeOK, Placed, Walks, updateVars, rtosVars, threadVars, listVars

LEMMA TypedHolds == UpdateSpec => []Typed
  <1>1. IInv /\ Typed /\ [UpdateNext]_updateVars => Typed'
    BY TypedBegin, TypedStep, TypedStable DEF UpdateNext
  <1> QED  BY TypedInit, <1>1, Inductive, PTL DEF UpdateSpec

(* The count of a list is never decremented below zero, where the size_t of *)
(* the code would wrap and the walk go round the list, and no walk goes on  *)
(* without a list, whichever reads fail or return a wrong word.             *)
THEOREM UpdateTypeCorrect == UpdateSpec => []UpdateTypeOK
  BY TypedHolds, PTL DEF Typed

-----------------------------------------------------------------------------
(* Each reply leaves less to do.  The steps of the chain, by what they      *)
(* leave less of: stages, lists, the reading of a count, elements, reads of *)
(* an element.                                                              *)
Lessened ==
  \E i \in 1..5 : /\ Effort'[i] \in Nat /\ Effort'[i] < Effort[i]
                  /\ \A j \in 1..(i - 1) : Effort'[j] = Effort[j]

LEMMA LessStages ==
  ASSUME \/ awaited # "none" /\ awaited' = "none"
         \/ awaited = "count" /\ awaited' = "current"
         \/ awaited = "current" /\ awaited' \in {"top", "items"}
         \/ awaited = "top" /\ awaited' = "items"
  PROVE  Lessened
  <1>1. Effort'[1] \in Nat /\ Effort'[1] < Effort[1]  BY DEF Effort
  <1>2. \A j \in 1..(1 - 1) : Effort'[j] = Effort[j]  OBVIOUS
  <1> QED  BY <1>1, <1>2 DEF Lessened

LEMMA LessLists ==
  ASSUME awaited \in Walks, awaited' = "items", todo' = Tail(todo),
         todo \in Seq(Nat), todo # <<>>
  PROVE  Lessened
  <1>1. Len(todo) \in Nat \ {0} /\ Len(Tail(todo)) = Len(todo) - 1
    BY HeadTailProperties, EmptySeq
  <1>2. Effort'[1] = Effort[1]  BY DEF Effort, Walks
  <1>3. Effort'[2] \in Nat /\ Effort'[2] < Effort[2]  BY <1>1 DEF Effort
  <1>4. \A j \in 1..(2 - 1) : j = 1  OBVIOUS
  <1> QED  BY <1>2, <1>3, <1>4 DEF Lessened

LEMMA LessCounts ==
  ASSUME awaited = "items", awaited' = "first", todo' = todo
  PROVE  Lessened
  <1>1. Effort'[1] = Effort[1] /\ Effort'[2] = Effort[2]  BY DEF Effort
  <1>2. Effort'[3] \in Nat /\ Effort'[3] < Effort[3]  BY DEF Effort
  <1>3. \A j \in 1..(3 - 1) : j \in {1, 2}  OBVIOUS
  <1> QED  BY <1>1, <1>2, <1>3 DEF Lessened

LEMMA LessElements ==
  ASSUME awaited = "name", awaited' = "next", todo' = todo,
         left \in Nat, left > 0, left' = left - 1
  PROVE  Lessened
  <1>1. Effort'[1] = Effort[1] /\ Effort'[2] = Effort[2] /\ Effort'[3] = Effort[3]
    BY DEF Effort
  <1>2. Effort'[4] \in Nat /\ Effort'[4] < Effort[4]  BY DEF Effort
  <1>3. \A j \in 1..(4 - 1) : j \in {1, 2, 3}  OBVIOUS
  <1> QED  BY <1>1, <1>2, <1>3 DEF Lessened

LEMMA LessReads ==
  ASSUME \/ awaited \in {"first", "next"} /\ awaited' = "owner"
         \/ awaited = "owner" /\ awaited' = "name",
         UNCHANGED <<todo, left>>
  PROVE  Lessened
  <1>1. /\ Effort'[1] = Effort[1] /\ Effort'[2] = Effort[2]
        /\ Effort'[3] = Effort[3] /\ Effort'[4] = Effort[4]
    BY DEF Effort
  <1>2. Effort'[5] \in Nat /\ Effort'[5] < Effort[5]  BY DEF Effort
  <1>3. \A j \in 1..(5 - 1) : j \in {1, 2, 3, 4}  OBVIOUS
  <1> QED  BY <1>1, <1>2, <1>3 DEF Lessened

LEMMA LessNextList ==
  ASSUME Typed, awaited \in Walks, NextList
  PROVE  Lessened
  <1>1. CASE Tail(todo) = <<>>
    BY <1>1, LessStages DEF NextList, Done, Walks
  <1>2. CASE Tail(todo) # <<>>
    <2>1. awaited' = "items" /\ todo' = Tail(todo)  BY <1>2 DEF NextList, Walk
    <2>2. todo \in Seq(Nat) /\ todo # <<>>  BY DEF Typed, UpdateTypeOK, Placed
    <2> QED  BY <2>1, <2>2, LessLists
  <1> QED  BY <1>1, <1>2

LEMMA LessElement ==
  ASSUME Typed, awaited \in {"first", "next"}, NEW p, NEW before, Element(p, before)
  PROVE  Lessened
  <1>1. CASE NextList  BY <1>1, LessNextList DEF Walks
  <1>2. CASE ~NextList
    <2>1. awaited' = "owner" /\ UNCHANGED <<todo, left>>  BY <1>2 DEF Element
    <2> QED  BY <2>1, LessReads
  <1> QED  BY <1>1, <1>2

LEMMA LessStep ==
  ASSUME Typed, ReadReply
  PROVE  Lessened
  <1>1. CASE CountRead  BY <1>1, LessStages DEF CountRead
  <1>2. CASE CurrentRead
    <2>1. awaited' \in {"none", "top", "items"}
      BY <1>2 DEF CurrentRead, Done, WalkAll, Walk
    <2> QED  BY <1>2, <2>1, LessStages DEF CurrentRead
  <1>3. CASE TopRead
    <2>1. awaited' = "items"  BY <1>3 DEF TopRead, WalkAll, Walk
    <2> QED  BY <1>3, <2>1, LessStages DEF TopRead
  <1>4. CASE ItemsRead
    <2> DEFINE word == IF Head(todo) \in Lists THEN Len(items[Head(todo)]) ELSE 0
    <2>1. PICK v \in Received(word) :
            IF v = 0 THEN NextList ELSE awaited' = "first" /\ todo' = todo
      BY <1>4 DEF ItemsRead
    <2>2. awaited = "items"  BY <1>4 DEF ItemsRead
    <2> QED  BY <2>1, <2>2, LessNextList, LessCounts DEF Walks
  <1>5. CASE FirstRead
    <2>1. PICK v : Element(v, last)  BY <1>5 DEF FirstRead
    <2> QED  BY <1>5, <2>1, LessElement DEF FirstRead
  <1>6. CASE OwnerRead  BY <1>6, LessReads DEF OwnerRead, listVars
  <1>7. CASE NameRead
    <2>1. left \in Nat /\ left > 0  BY <1>7 DEF Typed, UpdateTypeOK, Placed, NameRead
    <2> QED  BY <1>7, <2>1, LessElements DEF NameRead
  <1>8. CASE NextRead
    <2>1. PICK v : Element(v, elem)  BY <1>8 DEF NextRead
    <2> QED  BY <1>8, <2>1, LessElement DEF NextRead
  <1> QED
    BY <1>1, <1>2, <1>3, <1>4, <1>5, <1>6, <1>7, <1>8 DEF ReadReply

(* An update takes a bounded number of reads, whichever of them fail or     *)
(* return a wrong word: a reply lowers what is left to do in an order that  *)
(* admits no endless descent.                                               *)
THEOREM UpdatesProgress == UpdateSpec => UpdateProgress
  <1> DEFINE Falls == awaited # "none" =>
               \E i \in 1..5 : /\ Effort'[i] \in Nat /\ Effort'[i] < Effort[i]
                               /\ \A j \in 1..(i - 1) : Effort'[j] = Effort[j]
  <1>1. Typed /\ [UpdateNext]_updateVars => [Falls]_updateVars
    <2> SUFFICES ASSUME Typed, UpdateNext PROVE Falls  OBVIOUS
    <2>1. CASE Halted /\ Begin  BY <2>1 DEF Halted
    <2>2. CASE ReadReply  BY <2>2, LessStep DEF Lessened
    <2> QED  BY <2>1, <2>2 DEF UpdateNext
  <1> HIDE DEF Falls
  <1>2. UpdateSpec => [][Falls]_updateVars  BY <1>1, TypedHolds, PTL DEF UpdateSpec
  <1> QED  BY <1>2 DEF UpdateProgress, Falls

-----------------------------------------------------------------------------
(* What a walk finds.  Read from the end marker backwards, the lists that   *)
(* are there give the listing; the walk has always found a first part of it.*)

Backwards(m)   == [l \in Lists |-> Reverse(m[l])]
Flat(m, lists) == FlattenSeq(Mapped(Backwards(m), lists))
Down(s, k)     == [i \in 1..k |-> s[k + 1 - i]]
TcbSeq(infos)  == [i \in DOMAIN infos |-> infos[i].tcb]

LEMMA DownProperties ==
  ASSUME NEW s \in Seq(Nat)
  PROVE  /\ \A k \in 0..Len(s) : Down(s, k) \in Seq(Nat)
         /\ Down(s, 0) = <<>> /\ Down(s, Len(s)) = Reverse(s)
         /\ \A k \in 1..Len(s) : Down(s, k) = <<s[k]>> \o Down(s, k - 1)
  <1> DEFINE n == Len(s)
  <1>1. n \in Nat /\ \A i \in 1..n : s[i] \in Nat  BY LenProperties, ElementOfSeq
  <1> HIDE DEF n
  <1>2. ASSUME NEW k \in 0..n
        PROVE  /\ Down(s, k) \in Seq(Nat) /\ Len(Down(s, k)) = k
               /\ \A i \in 1..k : Down(s, k)[i] = s[k + 1 - i]
    <2>1. k \in Nat /\ \A i \in 1..k : k + 1 - i \in 1..n  BY <1>1
    <2>2. \A i \in 1..k : s[k + 1 - i] \in Nat  BY <1>1, <2>1
    <2> QED  BY <2>1, <2>2 DEF Down
  <1>3. Down(s, 0) = <<>>  BY DEF Down
  <1>4. Down(s, n) = Reverse(s)
    <2>1. \A i \in 1..n : n + 1 - i = (n - i) + 1  BY <1>1
    <2> QED  BY <2>1 DEF Down, Reverse, n
  <1>5. ASSUME NEW k \in 1..n PROVE Down(s, k) = <<s[k]>> \o Down(s, k - 1)
    <2> DEFINE d == Down(s, k)
               e == Down(s, k - 1)
               h == <<s[k]>>
               c == h \o e
    <2>1. k \in 0..n /\ k - 1 \in 0..n /\ k \in Nat /\ k >= 1  BY <1>1
    <2>2. d \in Seq(Nat) /\ Len(d) = k /\ \A i \in 1..k : d[i] = s[k + 1 - i]
      BY <1>2, <2>1
    <2>3. /\ e \in Seq(Nat) /\ Len(e) = k - 1
          /\ \A i \in 1..(k - 1) : e[i] = s[(k - 1) + 1 - i]
      BY <1>2, <2>1
    <2>4. h \in Seq(Nat) /\ Len(h) = 1 /\ h[1] = s[k]  BY <1>1
    <2> HIDE DEF d, e, h
    <2>5. /\ c \in Seq(Nat) /\ Len(c) = 1 + (k - 1)
          /\ \A i \in 1..(1 + (k - 1)) : c[i] = IF i <= 1 THEN h[i] ELSE e[i - 1]
      <3>1. /\ c \in Seq(Nat) /\ Len(c) = Len(h) + Len(e)
            /\ \A i \in 1..(Len(h) + Len(e)) :
                 c[i] = IF i <= Len(h) THEN h[i] ELSE e[i - Len(h)]
        BY <2>3, <2>4, ConcatProperties
      <3> HIDE DEF c
      <3> QED  BY <2>3, <2>4, <3>1
    <2>6. 1 + (k - 1) = k  BY <2>1
    <2> HIDE DEF c
    <2>7. \A i \in 1..k : d[i] = c[i]
      <3> SUFFICES ASSUME NEW i \in 1..k PROVE d[i] = c[i]  OBVIOUS
      <3>1. CASE i = 1
        <4>1. k + 1 - i = k  BY <2>1, <3>1
        <4> QED  BY <2>2, <2>4, <2>5, <2>6, <3>1, <4>1
      <3>2. CASE i # 1
        <4>1. i - 1 \in 1..(k - 1) /\ (k - 1) + 1 - (i - 1) = k + 1 - i /\ ~(i <= 1)
          BY <2>1, <3>2
        <4>2. c[i] = e[i - 1]  BY <2>5, <2>6, <4>1
        <4> QED  BY <2>2, <2>3, <4>1, <4>2
      <3> QED  BY <3>1, <3>2
    <2>8. d = c  BY <2>2, <2>5, <2>6, <2>7, SeqEqual
    <2> QED  BY <2>8 DEF c, d, e, h
  <1> QED  BY <1>2, <1>3, <1>4, <1>5 DEF n

LEMMA FlatFacts ==
  ASSUME NEW lay, Heap(lay)
  PROVE  /\ Flat(lay, <<>>) = <<>>
         /\ \A s \in Seq(Lists) :
              /\ Flat(lay, s) \in Seq(Nat)
              /\ \A l \in Lists :
                   Flat(lay, Append(s, l)) = Flat(lay, s) \o Reverse(lay[l])
              /\ s # <<>> => Flat(lay, s) = Reverse(lay[Head(s)]) \o Flat(lay, Tail(s))
              /\ Flat(lay, Present(s)) = Flat(lay, s)
  <1> DEFINE F == Backwards(lay)
  <1>1. ASSUME NEW l \in Lists PROVE lay[l] \in Seq(Nat) /\ Reverse(lay[l]) \in Seq(Nat)
    <2>1. lay[l] \in Seq(Tcbs) /\ Tcbs \subseteq Nat
      BY HeapFacts, UpdateAssumption
    <2>2. lay[l] \in Seq(Nat)  BY <2>1, SeqMonotonic
    <2>3. Len(lay[l]) \in 0..Len(lay[l])  BY <2>2, LenProperties
    <2>4. Down(lay[l], Len(lay[l])) \in Seq(Nat)  BY <2>2, <2>3, DownProperties
    <2> QED  BY <2>2, <2>4, DownProperties
  <1>2. F \in [Lists -> Seq(Nat)] /\ \A l \in Lists : F[l] = Reverse(lay[l])
    BY <1>1 DEF Backwards
  <1> HIDE DEF F
  <1>3. /\ FlattenSeq(Mapped(F, <<>>)) = <<>>
        /\ \A s \in Seq(Lists) : FlattenSeq(Mapped(F, s)) \in Seq(Nat)
        /\ \A s \in Seq(Lists), d \in Lists :
             FlattenSeq(Mapped(F, Append(s, d))) = FlattenSeq(Mapped(F, s)) \o F[d]
        /\ \A s \in Seq(Lists) : s # <<>> =>
             FlattenSeq(Mapped(F, s)) = F[Head(s)] \o FlattenSeq(Mapped(F, Tail(s)))
    BY ONLY <1>2, FlattenMapped
  <1>4. \A s : Flat(lay, s) = FlattenSeq(Mapped(F, s))  BY DEF Flat, F
  <1>5. Flat(lay, <<>>) = <<>>  BY <1>3, <1>4
  <1>6. ASSUME NEW s \in Seq(Lists)
        PROVE  /\ Flat(lay, s) \in Seq(Nat)
               /\ \A l \in Lists :
                    Flat(lay, Append(s, l)) = Flat(lay, s) \o Reverse(lay[l])
               /\ s # <<>> => Flat(lay, s) = Reverse(lay[Head(s)]) \o Flat(lay, Tail(s))
    <2>1. s # <<>> => Head(s) \in Lists  BY HeadTailProperties
    <2> QED  BY <1>2, <1>3, <1>4, <2>1
  <1>7. ASSUME NEW s \in Seq(Lists) PROVE Flat(lay, Present(s)) = Flat(lay, s)
    <2> DEFINE P == {t \in Seq(Lists) : Flat(lay, Present(t)) = Flat(lay, t)}
    <2>1. Lists \subseteq Nat  BY AddressFacts
    <2>2. <<>> \in P
      <3>1. Present(<<>>) = <<>> /\ <<>> \in Seq(Lists)  BY <2>1, PresentLists
      <3> QED  BY <3>1
    <2>3. ASSUME NEW t \in Seq(Lists), NEW l \in Lists, t \in P PROVE Append(t, l) \in P
      <3>1. Append(t, l) \in Seq(Lists) /\ Present(t) \in Seq(Lists)
        BY <2>1, PresentLists, AppendProperties
      <3>2. Present(Append(t, l)) = IF l \in Absent THEN Present(t)
                                    ELSE Append(Present(t), l)
        BY <2>1, PresentLists
      <3>3. Flat(lay, Append(t, l)) = Flat(lay, t) \o Reverse(lay[l])
        BY <1>6
      <3>4. Flat(lay, t) \o <<>> = Flat(lay, t)  BY <1>6, ConcatEmptySeq
      <3>5. l \in Absent => Reverse(lay[l]) = <<>>
        <4> SUFFICES ASSUME l \in Absent PROVE Reverse(lay[l]) = <<>>  OBVIOUS
        <4>1. lay[l] = <<>>  BY DEF Heap
        <4> QED  BY <4>1 DEF Reverse
      <3>6. Flat(lay, Append(Present(t), l)) = Flat(lay, Present(t)) \o Reverse(lay[l])
        BY <1>6, <3>1
      <3>7. Flat(lay, Present(t)) = Flat(lay, t)  BY <2>3
      <3>8. Flat(lay, Present(Append(t, l))) = Flat(lay, Append(t, l))
        <4>1. CASE l \in Absent  BY <3>2, <3>3, <3>4, <3>5, <3>7, <4>1
        <4>2. CASE l \notin Absent  BY <3>2, <3>3, <3>6, <3>7, <4>2
        <4> QED  BY <4>1, <4>2
      <3> QED  BY <3>1, <3>8
    <2>4. Seq(Lists) \subseteq P
      <3> HIDE DEF P
      <3> QED  BY <2>2, <2>3, SequenceInduct
    <2> QED  BY <2>4
  <1> QED  BY <1>5, <1>6, <1>7

LEMMA ListingIsFlat ==
  ASSUME NEW lay, Heap(lay)
  PROVE  /\ ListingOf(lay) = Flat(lay, All(MaxPriorities)) /\ ListingOf(lay) \in Seq(Nat)
         /\ ListingOf(lay) = Flat(lay, Present(All(MaxPriorities)))
         /\ Present(All(MaxPriorities)) \in Seq(Lists)
  <1> DEFINE order == All(MaxPriorities)
  <1>1. MaxPriorities \in Nat /\ MaxPriorities <= MaxPriorities  BY UpdateAssumption
  <1>2. order \in Seq(Lists)  BY <1>1, AllLists
  <1> HIDE DEF order
  <1>3. DOMAIN order = 1..Len(order) /\ \A i \in 1..Len(order) : order[i] \in Lists
    BY <1>2, LenProperties, ElementOfSeq
  <1>4. Mapped(Backwards(lay), order) = [i \in DOMAIN order |-> Reverse(lay[order[i]])]
    BY <1>3 DEF Mapped, Backwards
  <1>5. ListingOf(lay) = Flat(lay, order)  BY <1>4 DEF ListingOf, Flat, order
  <1>6. Flat(lay, order) \in Seq(Nat) /\ Flat(lay, Present(order)) = Flat(lay, order)
    BY <1>2, FlatFacts
  <1>7. Present(order) \in Seq(Lists)  BY <1>2, AddressFacts, PresentLists
  <1> QED  BY <1>5, <1>6, <1>7 DEF order

(* Every task is listed, and no tasks make an empty listing.                *)
LEMMA ListingComplete ==
  ASSUME NEW lay, Heap(lay)
  PROVE  /\ \A t \in Tasks(lay) : \E j \in DOMAIN ListingOf(lay) : ListingOf(lay)[j] = t
         /\ Tasks(lay) = {} => ListingOf(lay) = <<>>
  <1> DEFINE order   == All(MaxPriorities)
             In(t, s) == \E j \in 1..Len(s) : s[j] = t
             P == {s \in Seq(Lists) : \A n \in 1..Len(s) :
                     \A i \in 1..Len(lay[s[n]]) : In(lay[s[n]][i], Flat(lay, s))}
             Q == {s \in Seq(Lists) : Flat(lay, s) = <<>>}
  <1>1. MaxPriorities \in Nat /\ OtherLists \in Nat  BY UpdateAssumption
  <1>2. order \in Seq(Lists)  BY <1>1, AllLists
  <1>3. Seq(Lists) \subseteq P
    <2>1. <<>> \in P  OBVIOUS
    <2>2. ASSUME NEW s \in Seq(Lists), NEW l \in Lists, s \in P PROVE Append(s, l) \in P
      <3> DEFINE u == Append(s, l)
                 f == Flat(lay, s)
                 b == Reverse(lay[l])
                 m == Len(lay[l])
      <3>1. /\ Len(s) \in Nat /\ u \in Seq(Lists) /\ Len(u) = Len(s) + 1 /\ u[Len(s) + 1] = l
            /\ \A n \in 1..Len(s) : u[n] = s[n]
        BY LenProperties, AppendProperties
      <3>2. Flat(lay, u) = f \o b /\ f \in Seq(Nat)  BY FlatFacts
      <3>3. lay[l] \in Seq(Nat) /\ m \in Nat
        <4>1. lay[l] \in Seq(Tcbs) /\ Tcbs \subseteq Nat
          BY HeapFacts, UpdateAssumption
        <4> QED  BY <4>1, SeqMonotonic, LenProperties
      <3>4. b \in Seq(Nat) /\ Len(b) = m /\ \A i \in 1..m : b[i] = lay[l][(m - i) + 1]
        <4>1. m \in 0..m  BY <3>3
        <4>2. b \in Seq(Nat)  BY <3>3, <4>1, DownProperties
        <4> HIDE DEF m
        <4>3. b = [i \in 1..m |-> lay[l][(m - i) + 1]]  BY DEF Reverse, m
        <4> HIDE DEF b
        <4> QED  BY <3>3, <4>2, <4>3
      <3> HIDE DEF u, f, b, m
      <3>5. /\ Len(f) \in Nat /\ Len(f \o b) = Len(f) + m
            /\ \A i \in 1..(Len(f) + m) : (f \o b)[i] = IF i <= Len(f) THEN f[i] ELSE b[i - Len(f)]
        BY <3>2, <3>4, ConcatProperties, LenProperties
      <3>6. ASSUME NEW t, In(t, f) PROVE In(t, f \o b)
        <4>1. PICK j \in 1..Len(f) : f[j] = t  BY <3>6
        <4>2. j \in 1..(Len(f) + m) /\ j <= Len(f)  BY <3>3, <3>5
        <4> QED  BY <3>5, <4>1, <4>2
      <3>7. ASSUME NEW i \in 1..m PROVE In(lay[l][i], f \o b)
        <4> DEFINE j == (m - i) + 1
        <4>1. j \in 1..m /\ (m - j) + 1 = i /\ Len(f) + j \in 1..(Len(f) + m)
              /\ ~(Len(f) + j <= Len(f)) /\ (Len(f) + j) - Len(f) = j
          BY <3>3, <3>5
        <4> HIDE DEF j
        <4>2. b[j] = lay[l][i]  BY <3>4, <4>1
        <4>3. (f \o b)[Len(f) + j] = b[j]  BY <3>5, <4>1
        <4> QED  BY <3>5, <4>1, <4>2, <4>3
      <3>8. ASSUME NEW n \in 1..Len(u), NEW i \in 1..Len(lay[u[n]])
            PROVE  In(lay[u[n]][i], Flat(lay, u))
        <4>1. CASE n = Len(s) + 1  BY <3>1, <3>2, <3>7, <4>1 DEF m
        <4>2. CASE n # Len(s) + 1
          <5>1. n \in 1..Len(s) /\ u[n] = s[n]  BY <3>1, <4>2
          <5>2. In(lay[s[n]][i], f)  BY <2>2, <5>1 DEF f
          <5> HIDE DEF In
          <5> QED  BY <3>2, <3>6, <5>1, <5>2
        <4> QED  BY <4>1, <4>2
      <3> QED  BY <3>1, <3>8 DEF u
    <2> HIDE DEF P
    <2> QED  BY <2>1, <2>2, SequenceInduct
  <1>4. ASSUME NEW t \in Tasks(lay)
        PROVE  \E j \in DOMAIN ListingOf(lay) : ListingOf(lay)[j] = t
    <2>1. PICK l \in Lists : \E i \in 1..Len(lay[l]) : lay[l][i] = t
      BY HeapFacts
    <2>2. PICK n \in 1..Len(order) : order[n] = l
      <3>1. CASE l <= OtherLists
        <4>1. /\ MaxPriorities + l \in 1..(MaxPriorities + OtherLists)
              /\ ~(MaxPriorities + l <= MaxPriorities)
              /\ (MaxPriorities + l) - MaxPriorities = l
          BY <1>1, <3>1 DEF Lists
        <4> QED  BY <1>1, <4>1, AllLists
      <3>2. CASE ~(l <= OtherLists)
        <4>1. /\ l - OtherLists \in 1..(MaxPriorities + OtherLists)
              /\ l - OtherLists <= MaxPriorities
              /\ Ready(l - OtherLists) = l
          BY <1>1, <3>2 DEF Lists, Ready
        <4> QED  BY <1>1, <4>1, AllLists
      <3> QED  BY <3>1, <3>2
    <2>3. order \in P  BY <1>2, <1>3
    <2>4. In(t, Flat(lay, order))  BY <2>1, <2>2, <2>3
    <2>5. ListingOf(lay) = Flat(lay, order) /\ DOMAIN ListingOf(lay) = 1..Len(ListingOf(lay))
      BY ListingIsFlat, LenProperties
    <2> QED  BY <2>4, <2>5
  <1>5. ASSUME Tasks(lay) = {} PROVE ListingOf(lay) = <<>>
    <2>1. \A l \in Lists : lay[l] = <<>>
      <3> SUFFICES ASSUME NEW l \in Lists, lay[l] # <<>> PROVE FALSE  OBVIOUS
      <3>1. lay[l] \in Seq(Tcbs)  BY HeapFacts
      <3>2. 1 \in 1..Len(lay[l])  BY <3>1, EmptySeq
      <3> QED  BY <1>5, <3>2, HeapFacts
    <2>2. <<>> \in Q  BY FlatFacts
    <2>3. ASSUME NEW s \in Seq(Lists), NEW l \in Lists, s \in Q PROVE Append(s, l) \in Q
      <3>1. Reverse(lay[l]) = <<>>  BY <2>1 DEF Reverse
      <3>2. Flat(lay, Append(s, l)) = <<>> \o <<>>  BY <2>3, <3>1, FlatFacts
      <3>3. Append(s, l) \in Seq(Lists) /\ <<>> \o <<>> = <<>>  OBVIOUS
      <3> QED  BY <3>2, <3>3
    <2>4. Seq(Lists) \subseteq Q
      <3> HIDE DEF Q
      <3> QED  BY <2>2, <2>3, SequenceInduct
    <2> QED  BY <1>2, <2>4, ListingIsFlat
  <1> QED  BY <1>4, <1>5

LEMMA TcbSeqFacts ==
  \A infos \in Seq(Infos) :
    /\ TcbSeq(infos) \in Seq(Nat) /\ Len(TcbSeq(infos)) = Len(infos)
    /\ \A i \in 1..Len(infos) : TcbSeq(infos)[i] = infos[i].tcb
    /\ \A x \in Infos : TcbSeq(Append(infos, x)) = Append(TcbSeq(infos), x.tcb)
  <1> DEFINE F == [x \in Infos |-> x.tcb]
  <1>1. F \in [Infos -> Nat]  BY DEF Infos
  <1>2. ASSUME NEW s \in Seq(Infos) PROVE TcbSeq(s) = Mapped(F, s)
    <2>1. DOMAIN s = 1..Len(s) /\ \A i \in 1..Len(s) : s[i] \in Infos
      BY LenProperties, ElementOfSeq
    <2> QED  BY <2>1 DEF TcbSeq, Mapped
  <1>3. \A x \in Infos : F[x] = x.tcb  OBVIOUS
  <1> HIDE DEF F
  <1> SUFFICES ASSUME NEW infos \in Seq(Infos)
               PROVE  /\ TcbSeq(infos) \in Seq(Nat) /\ Len(TcbSeq(infos)) = Len(infos)
                      /\ \A i \in 1..Len(infos) : TcbSeq(infos)[i] = infos[i].tcb
                      /\ \A x \in Infos : TcbSeq(Append(infos, x)) = Append(TcbSeq(infos), x.tcb)
    OBVIOUS
  <1>4. \A i \in 1..Len(infos) : infos[i] \in Infos  BY ElementOfSeq
  <1>5. \A x \in Infos : Append(infos, x) \in Seq(Infos)  BY AppendProperties
  <1>6. /\ Mapped(F, infos) \in Seq(Nat) /\ Len(Mapped(F, infos)) = Len(infos)
        /\ \A i \in 1..Len(infos) : Mapped(F, infos)[i] = F[infos[i]]
        /\ \A x \in Infos : Mapped(F, Append(infos, x)) = Append(Mapped(F, infos), F[x])
    <2>1. Mapped(F, infos) \in Seq(Nat)  BY <1>1, MappedType
    <2>2. Len(Mapped(F, infos)) = Len(infos)  BY <1>1, MappedLen
    <2>3. \A i \in 1..Len(infos) : Mapped(F, infos)[i] = F[infos[i]]
      BY LenProperties DEF Mapped
    <2>4. \A x \in Infos : Mapped(F, Append(infos, x)) = Append(Mapped(F, infos), F[x])
      BY <1>1, MappedAppend
    <2> QED  BY <2>1, <2>2, <2>3, <2>4
  <1>7. TcbSeq(infos) = Mapped(F, infos)  BY <1>2
  <1>8. \A x \in Infos : TcbSeq(Append(infos, x)) = Mapped(F, Append(infos, x))
    BY <1>2, <1>5
  <1> QED  BY <1>3, <1>4, <1>6, <1>7, <1>8

Here    == items[Head(todo)]
Rest(k) == Down(Here, k) \o Flat(items, Tail(todo))

Comes(infos, rest) == TcbSeq(infos) \o rest = <<CurrentExecution>> \o Listing
Marked(infos, n)   ==
  \A i \in 1..Len(infos) : infos[i].running <=> infos[i].tcb = running /\ i # n

Walked ==
  /\ awaited \in {"count", "current"} => found = <<>>
  /\ awaited = "current" => total = Cardinality(Tasks(items))
  /\ awaited # "top"
  /\ awaited \in Walks => current.tcb = running /\ todo \in Seq(Lists)
  /\ awaited = "items" =>
       last = 0 - 1 /\ Comes(found, Flat(items, todo)) /\ Marked(found, 0)
  /\ awaited = "first" =>
       /\ last = 0 - 1 /\ left = Len(Here) /\ left > 0
       /\ Comes(found, Flat(items, todo)) /\ Marked(found, 0)
  /\ awaited = "owner" =>
       /\ left \in 1..Len(Here) /\ elem = Here[left]
       /\ Comes(found, Rest(left)) /\ Marked(found, 0)
  /\ awaited = "name" =>
       /\ left \in 1..Len(Here) /\ elem = Here[left] /\ found # <<>>
       /\ Comes(found, Rest(left - 1)) /\ Marked(found, Len(found))
  /\ awaited = "next" =>
       /\ left \in 0..(Len(Here) - 1) /\ elem = Here[left + 1]
       /\ Comes(found, Rest(left)) /\ Marked(found, 0)

Published == Comes(found, <<>>) /\ Marked(found, 0) /\ current.tcb = running

Goes == Walked /\ (awaited = "none" => Published)

LEMMA HereFacts ==
  ASSUME Heap(items), todo \in Seq(Lists), todo # <<>>
  PROVE  /\ Head(todo) \in Lists /\ Here \in Seq(Nat) /\ Len(Here) \in Nat
         /\ \A i \in 1..Len(Here) : Here[i] \in Tcbs
         /\ Tail(todo) \in Seq(Lists) /\ Flat(items, Tail(todo)) \in Seq(Nat)
         /\ Flat(items, todo) = Rest(Len(Here))
         /\ Rest(0) = Flat(items, Tail(todo))
         /\ \A k \in 1..Len(Here) : Rest(k) = <<Here[k]>> \o Rest(k - 1)
         /\ \A k \in 0..Len(Here) : Rest(k) \in Seq(Nat)
  <1>1. Head(todo) \in Lists /\ Tail(todo) \in Seq(Lists)
    BY HeadTailProperties
  <1>2. Here \in Seq(Tcbs) /\ Tcbs \subseteq Nat
    BY <1>1, HeapFacts, UpdateAssumption DEF Here
  <1>3. Here \in Seq(Nat)  BY <1>2, SeqMonotonic
  <1>4. Len(Here) \in Nat /\ \A i \in 1..Len(Here) : Here[i] \in Tcbs
    BY <1>2, LenProperties, ElementOfSeq
  <1> DEFINE flat == Flat(items, Tail(todo))
  <1>5. flat \in Seq(Nat)  BY <1>1, FlatFacts
  <1>6. \A k \in 0..Len(Here) : Down(Here, k) \in Seq(Nat)  BY <1>3, DownProperties
  <1> HIDE DEF flat
  <1>7. \A k : Rest(k) = Down(Here, k) \o flat  BY DEF Rest, flat
  <1>8. \A k \in 0..Len(Here) : Rest(k) \in Seq(Nat)
    BY <1>5, <1>6, <1>7, ConcatProperties
  <1>9. Rest(0) = flat
    <2>1. Down(Here, 0) = <<>>  BY <1>3, DownProperties
    <2>2. <<>> \o flat = flat  BY <1>5, ConcatEmptySeq
    <2> QED  BY <1>7, <2>1, <2>2
  <1>10. Flat(items, todo) = Rest(Len(Here))
    <2>1. Flat(items, todo) = Reverse(Here) \o flat  BY FlatFacts DEF Here, flat
    <2>2. Reverse(Here) = Down(Here, Len(Here))  BY <1>3, DownProperties
    <2> QED  BY <1>7, <2>1, <2>2
  <1>11. ASSUME NEW k \in 1..Len(Here) PROVE Rest(k) = <<Here[k]>> \o Rest(k - 1)
    <2>1. PICK h, d : h = <<Here[k]>> /\ d = Down(Here, k - 1)  OBVIOUS
    <2>2. PICK f : f = flat  OBVIOUS
    <2>3. h \in Seq(Nat) /\ d \in Seq(Nat) /\ f \in Seq(Nat)
      <3>1. k - 1 \in 0..Len(Here)  BY <1>4
      <3>2. Here[k] \in Nat  BY <1>2, <1>4
      <3> QED  BY <1>5, <1>6, <2>1, <2>2, <3>1, <3>2
    <2>4. (h \o d) \o f = h \o (d \o f)  BY ONLY <2>3, NaturalsAssociate, ZenonT(30)
    <2>5. Rest(k) = (h \o d) \o f
      <3>1. Down(Here, k) = <<Here[k]>> \o Down(Here, k - 1)  BY <1>3, DownProperties
      <3>2. Down(Here, k) = h \o d  BY ONLY <2>1, <3>1
      <3> QED  BY <1>7, <2>2, <3>2
    <2>6. Rest(k - 1) = d \o f  BY <1>7, <2>1, <2>2
    <2> QED  BY <2>1, <2>4, <2>5, <2>6
  <1> QED  BY <1>1, <1>3, <1>4, <1>5, <1>8, <1>9, <1>10, <1>11 DEF flat

LEMMA SameListing == UNCHANGED rtosVars => Listing' = Listing
  BY DEF rtosVars, Listing, ListingOf

(* The next list, or the end of the update.                                 *)
LEMMA WalkedNextList ==
  ASSUME UNCHANGED rtosVars, current' = current, NextList, found \in Seq(Infos),
         todo \in Seq(Lists), todo # <<>>, current.tcb = running,
         Comes(found, Flat(items, Tail(todo))), Marked(found, 0), Heap(items)
  PROVE  Goes'
  <1>1. items' = items /\ running' = running /\ Listing' = Listing
    BY SameListing DEF rtosVars
  <1>2. Tail(todo) \in Seq(Lists)  BY HeadTailProperties
  <1>3. CASE Tail(todo) = <<>>
    <2>1. found' = found /\ awaited' = "none"  BY <1>3 DEF NextList, Done
    <2>2. Comes(found, <<>>)  BY <1>3, FlatFacts
    <2>3. Published'  BY <1>1, <2>1, <2>2 DEF Published, Comes, Marked
    <2> QED  BY <2>1, <2>3 DEF Goes, Walked, Walks
  <1>4. CASE Tail(todo) # <<>>
    <2>1. /\ found' = found /\ awaited' = "items" /\ todo' = Tail(todo)
          /\ last' = -1
      BY <1>4 DEF NextList, Walk
    <2>2. Comes(found, Flat(items, todo))' /\ Marked(found, 0)'
      <3>1. TcbSeq(found') \o Flat(items', todo') = <<CurrentExecution>> \o Listing'
        BY <1>1, <2>1 DEF Comes
      <3>2. Comes(found, Flat(items, todo))'  BY <3>1 DEF Comes
      <3> QED  BY <1>1, <2>1, <3>2 DEF Marked
    <2> QED  BY <1>1, <1>2, <2>1, <2>2 DEF Goes, Walked, Walks
  <1> QED  BY <1>3, <1>4

(* The element at p, which is the next one unless the list is done.         *)
LEMMA WalkedElement ==
  ASSUME UNCHANGED rtosVars, current' = current, found \in Seq(Infos),
         todo \in Seq(Lists), todo # <<>>, current.tcb = running, Heap(items),
         left \in 0..Len(Here), Comes(found, Rest(left)), Marked(found, 0),
         NEW p, NEW before, left # 0 => p = Here[left] /\ p # before,
         Element(p, before)
  PROVE  Goes'
  <1>1. CASE left = 0
    <2>1. NextList  BY <1>1 DEF Element
    <2>2. Comes(found, Flat(items, Tail(todo)))  BY <1>1, HereFacts
    <2> QED  BY <2>1, <2>2, WalkedNextList
  <1>2. CASE left # 0
    <2>1. left \in 1..Len(Here) /\ Here[left] \in Tcbs  BY <1>2, HereFacts
    <2>2. p # 0 /\ p # before  BY <1>2, <2>1, Apart
    <2>3. /\ elem' = p /\ awaited' = "owner"
          /\ todo' = todo /\ left' = left /\ found' = found
      BY <1>2, <2>2 DEF Element
    <2>4. items' = items /\ running' = running /\ Listing' = Listing
      BY SameListing DEF rtosVars
    <2>5. Here' = Here  BY <2>3, <2>4 DEF Here
    <2>6. Rest(left)' = Rest(left)  BY <2>3, <2>4, <2>5 DEF Rest
    <2>7. Comes(found, Rest(left))'  BY <2>3, <2>4, <2>6 DEF Comes
    <2>8. Marked(found, 0)'  BY <2>3, <2>4 DEF Marked
    <2>9. left' \in 1..Len(Here') /\ elem' = Here'[left']
      BY <1>2, <2>1, <2>3, <2>5
    <2> QED  BY <2>3, <2>4, <2>7, <2>8, <2>9 DEF Goes, Walked, Walks
  <1> QED  BY <1>1, <1>2

(* What each step of the chain needs, and a read that did not fail.         *)
StepWalked ==
  /\ IInv /\ Typed /\ Walked /\ ~TopKnown
  /\ UNCHANGED rtosVars /\ ~failed'

LEMMA StepFacts ==
  ASSUME StepWalked
  PROVE  /\ Heap(items) /\ found \in Seq(Infos) /\ running \in Tcbs \cup {0}
         /\ items' = items /\ running' = running /\ Listing' = Listing
         /\ Listing \in Seq(Nat) /\ running # CurrentExecution
         /\ awaited \in Walks => todo \in Seq(Lists) /\ todo # <<>> /\ current.tcb = running
  <1>1. Heap(items) /\ found \in Seq(Infos) /\ running \in Tcbs \cup {0}
    BY DEF StepWalked, Typed, IInv, Recorded, Readable
  <1>2. items' = items /\ running' = running /\ Listing' = Listing
    BY SameListing DEF StepWalked, rtosVars
  <1>3. Listing \in Seq(Nat)  BY <1>1, ListingIsFlat DEF Listing
  <1>4. running # CurrentExecution  BY <1>1, Apart DEF CurrentExecution
  <1>5. awaited \in Walks => todo \in Seq(Lists) /\ todo # <<>> /\ current.tcb = running
    BY DEF StepWalked, Walked, Typed, Placed
  <1> QED  BY <1>1, <1>2, <1>3, <1>4, <1>5

LEMMA WalkedCount ==
  ASSUME StepWalked, CountRead
  PROVE  Goes'
  <1> DEFINE word == Cardinality(Tasks(items))
  <1>1. total' = word /\ awaited' = "current" /\ found' = found /\ found = <<>>
    BY DEF StepWalked, Walked, CountRead
  <1>2. Tasks(items)' = Tasks(items)  BY StepFacts DEF Tasks
  <1> QED  BY <1>1, <1>2 DEF Goes, Walked, Walks

LEMMA WalkedFirst ==
  ASSUME StepWalked, FirstRead
  PROVE  Goes'
  <1>1. awaited = "first" /\ awaited \in Walks /\ current' = current
    BY DEF FirstRead, Walks
  <1>2. Element(Previous(Head(todo)), last)  BY DEF StepWalked, FirstRead
  <1>3. /\ left = Len(Here) /\ left > 0 /\ last = 0 - 1
        /\ Comes(found, Flat(items, todo)) /\ Marked(found, 0)
    BY <1>1 DEF StepWalked, Walked
  <1>4. Head(todo) \in Lists /\ Len(Here) \in Nat /\ Flat(items, todo) = Rest(Len(Here))
        /\ \A i \in 1..Len(Here) : Here[i] \in Tcbs
    BY <1>1, StepFacts, HereFacts
  <1>5. left \in 0..Len(Here) /\ left \in 1..Len(Here)  BY <1>3, <1>4
  <1>6. Previous(Head(todo)) = Here[left]
    <2>1. Here # <<>>  BY <1>5
    <2> QED  BY <1>3, <1>4, <2>1, StepFacts, PreviousIs DEF Here
  <1>7. Here[left] # last  BY <1>3, <1>4, <1>5, Apart
  <1>8. Comes(found, Rest(left))  BY <1>3, <1>4
  <1> QED
    BY <1>1, <1>2, <1>3, <1>5, <1>6, <1>7, <1>8, StepFacts, WalkedElement DEF StepWalked

LEMMA WalkedNext ==
  ASSUME StepWalked, NextRead
  PROVE  Goes'
  <1>1. awaited = "next" /\ awaited \in Walks /\ current' = current
    BY DEF NextRead, Walks
  <1>2. Element(Previous(elem), elem)  BY DEF StepWalked, NextRead
  <1>3. /\ left \in 0..(Len(Here) - 1) /\ elem = Here[left + 1]
        /\ Comes(found, Rest(left)) /\ Marked(found, 0)
    BY <1>1 DEF StepWalked, Walked
  <1>4. Head(todo) \in Lists /\ Len(Here) \in Nat
    BY <1>1, StepFacts, HereFacts
  <1>5. left \in 0..Len(Here) /\ left + 1 \in 1..Len(Here)  BY <1>3, <1>4
  <1>6. ASSUME left # 0 PROVE Previous(elem) = Here[left] /\ Here[left] # elem
    <2>1. left \in 1..Len(Here) /\ left + 1 # 1 /\ (left + 1) - 1 = left /\ left # left + 1
      BY <1>5, <1>6
    <2>2. Previous(elem) = Here[left]
      BY <1>3, <1>4, <1>5, <2>1, StepFacts, PreviousIs DEF Here
    <2>3. Here[left] # Here[left + 1]
      BY <1>4, <1>5, <2>1, StepFacts DEF Heap, Here
    <2> QED  BY <1>3, <2>2, <2>3
  <1> QED
    BY <1>1, <1>2, <1>3, <1>5, <1>6, StepFacts, WalkedElement DEF StepWalked

LEMMA WalkedItems ==
  ASSUME StepWalked, ItemsRead
  PROVE  Goes'
  <1>1. awaited = "items" /\ awaited \in Walks /\ current' = current
    BY DEF ItemsRead, Walks
  <1>2. /\ last = 0 - 1 /\ Comes(found, Flat(items, todo)) /\ Marked(found, 0)
    BY <1>1 DEF StepWalked, Walked
  <1>3. /\ Head(todo) \in Lists /\ Len(Here) \in Nat
        /\ Flat(items, todo) = Rest(Len(Here)) /\ Rest(0) = Flat(items, Tail(todo))
    BY <1>1, StepFacts, HereFacts
  <1>4. IF Len(Here) = 0
        THEN NextList
        ELSE /\ left' = Len(Here) /\ awaited' = "first"
             /\ UNCHANGED <<todo, elem, last, total, found, ids>>
    BY <1>3 DEF StepWalked, ItemsRead, Here
  <1>5. CASE Len(Here) = 0
    BY <1>1, <1>2, <1>3, <1>4, <1>5, StepFacts, WalkedNextList DEF StepWalked
  <1>6. CASE Len(Here) # 0
    <2>1. Here' = Here /\ todo' = todo /\ found' = found /\ last' = last
          /\ awaited' = "first" /\ left' = Len(Here) /\ Len(Here) > 0
      BY <1>3, <1>4, <1>6, StepFacts DEF Here
    <2>2. Flat(items, todo)' = Flat(items, todo)  BY <2>1, StepFacts
    <2>3. Comes(found, Flat(items, todo))'
      BY <1>2, <2>1, <2>2, StepFacts DEF Comes
    <2>4. Marked(found, 0)'  BY <1>2, <2>1, StepFacts DEF Marked
    <2> QED
      BY <1>1, <1>2, <2>1, <2>3, <2>4, StepFacts DEF Goes, Walked, Walks
  <1> QED  BY <1>5, <1>6

LEMMA WalkedCurrent ==
  ASSUME StepWalked, CurrentRead
  PROVE  Goes'
  <1> DEFINE x     == Thread(CurrentExecution, CurrentExecution, FALSE)
             shown == <<x>>
             map   == IF running = 0 THEN ids ELSE Numbered(ids, running)
  <1>1. found = <<>> /\ total = Cardinality(Tasks(items))
    BY DEF StepWalked, Walked, CurrentRead
  <1>2. /\ current'.tcb = running
        /\ IF total = 0
           THEN Done(shown, map)
           ELSE found' = shown /\ Walk(Present(All(MaxPriorities)))
    <2>1. Append(<<>>, x) = shown  BY FirstInfo
    <2> DEFINE c == [tcb |-> running, id |-> IF running = 0 THEN 0 ELSE map[running]]
    <2>2. /\ current' = c
          /\ IF total = 0 THEN Done(Append(found, x), map)
             ELSE found' = Append(found, x) /\ WalkAll(MaxPriorities)
      BY DEF StepWalked, CurrentRead
    <2>3. c.tcb = running  OBVIOUS
    <2> HIDE DEF map, x, c
    <2> QED  BY <1>1, <2>1, <2>2, <2>3 DEF WalkAll
  <1>3. /\ shown \in Seq(Infos) /\ Len(shown) = 1 /\ shown[1] = x
        /\ x.tcb = CurrentExecution /\ x.running = FALSE
    BY FirstInfo DEF Thread
  <1> HIDE DEF shown, map, x
  <1>4. TcbSeq(shown) = <<CurrentExecution>>
    <2>1. TcbSeq(shown) \in Seq(Nat) /\ Len(TcbSeq(shown)) = 1
          /\ TcbSeq(shown)[1] = CurrentExecution
      BY <1>3, TcbSeqFacts
    <2>2. <<CurrentExecution>> \in Seq(Nat) /\ Len(<<CurrentExecution>>) = 1
          /\ <<CurrentExecution>>[1] = CurrentExecution
      BY DEF CurrentExecution
    <2>3. \A i \in 1..1 : i = 1  OBVIOUS
    <2>4. \A i \in 1..Len(TcbSeq(shown)) : TcbSeq(shown)[i] = <<CurrentExecution>>[i]
      BY <2>1, <2>2, <2>3
    <2> HIDE DEF TcbSeq
    <2> QED  BY <2>1, <2>2, <2>4, SeqEqual
  <1>5. Comes(shown, Listing) /\ Marked(shown, 0)
    <2>1. \A i \in 1..1 : i = 1  OBVIOUS
    <2> QED  BY <1>3, <1>4, <2>1, StepFacts DEF Comes, Marked
  <1>6. CASE total = 0
    <2>1. Tasks(items) = {}
      <3>1. Tasks(items) \in SUBSET Tcbs /\ IsFiniteSet(Tcbs)
        BY StepFacts, HeapFacts, UpdateAssumption
      <3> QED  BY <1>1, <1>6, <3>1, FS_Subset, FS_EmptySet
    <2>2. Listing = <<>>  BY <2>1, StepFacts, ListingComplete DEF Listing
    <2>3. found' = shown /\ awaited' = "none"  BY <1>2, <1>6 DEF Done
    <2>4. Published'
      BY <1>2, <1>5, <2>2, <2>3, StepFacts DEF Published, Comes, Marked
    <2> QED  BY <2>3, <2>4 DEF Goes, Walked, Walks
  <1>7. CASE total # 0
    <2> DEFINE lists == Present(All(MaxPriorities))
    <2>1. /\ found' = shown /\ awaited' = "items" /\ todo' = lists /\ last' = -1
      BY <1>2, <1>7 DEF Walk
    <2>2. Listing = Flat(items, lists) /\ lists \in Seq(Lists)
      BY StepFacts, ListingIsFlat DEF Listing
    <2> HIDE DEF lists
    <2>3. Flat(items, todo)' = Listing  BY <2>1, <2>2, StepFacts
    <2>4. Comes(found, Flat(items, todo))' /\ Marked(found, 0)'
      BY <1>5, <2>1, <2>3, StepFacts DEF Comes, Marked
    <2> QED  BY <1>2, <2>1, <2>2, <2>4, StepFacts DEF Goes, Walked, Walks
  <1> QED  BY <1>6, <1>7

LEMMA WalkedOwner ==
  ASSUME StepWalked, OwnerRead
  PROVE  Goes'
  <1>1. awaited = "owner" /\ awaited \in Walks  BY DEF OwnerRead, Walks
  <1>2. /\ left \in 1..Len(Here) /\ elem = Here[left]
        /\ Comes(found, Rest(left)) /\ Marked(found, 0)
    BY <1>1 DEF StepWalked, Walked
  <1>3. /\ Len(Here) \in Nat /\ elem \in Tcbs /\ Rest(left) = <<elem>> \o Rest(left - 1)
        /\ Rest(left - 1) \in Seq(Nat)
    <2>1. Len(Here) \in Nat  BY <1>1, StepFacts, HereFacts
    <2>2. left - 1 \in 0..Len(Here)  BY <1>2, <2>1
    <2> QED  BY <1>1, <1>2, <2>1, <2>2, StepFacts, HereFacts
  <1> DEFINE x == Thread(elem, ids'[elem], FALSE)
  <1>4. /\ ids' = Numbered(ids, elem) /\ found' = Append(found, x) /\ awaited' = "name"
        /\ UNCHANGED <<todo, left, elem, current>>
    BY <1>3 DEF StepWalked, OwnerRead, Owner, listVars
  <1>5. x \in Infos /\ x.tcb = elem /\ x.running = FALSE
    <2>1. NumbersTasks(ids) /\ elem \in Addresses /\ elem \in Nat
      BY <1>3, AddressFacts DEF StepWalked, IInv, Recorded, Addresses
    <2>2. NumbersTasks(ids') /\ elem \in DOMAIN ids'
      BY <1>4, <2>1, NumberedInRange
    <2>3. ids'[elem] \in Nat \ {0}
      BY <2>2, AddressFacts DEF NumbersTasks, IdRange, FirstId, CurrentExecution
    <2> QED  BY <2>1, <2>3 DEF Thread, Infos
  <1> HIDE DEF x
  <1>6. /\ found' \in Seq(Infos) /\ Len(found') = Len(found) + 1 /\ Len(found) \in Nat
        /\ found'[Len(found) + 1] = x
        /\ \A i \in 1..Len(found) : found'[i] = found[i]
    BY <1>4, <1>5, StepFacts, AppendProperties, LenProperties
  <1>7. Here' = Here  BY <1>4, StepFacts DEF Here
  <1>8. Rest(left - 1)' = Rest(left - 1)  BY <1>4, <1>7, StepFacts DEF Rest
  <1>9. Comes(found, Rest(left - 1))'
    <2> DEFINE t == TcbSeq(found)
               r == Rest(left - 1)
               e == <<elem>>
    <2>1. TcbSeq(found') = Append(t, elem)
      BY <1>4, <1>5, StepFacts, TcbSeqFacts
    <2>2. t \in Seq(Nat) /\ r \in Seq(Nat) /\ e \in Seq(Nat) /\ elem \in Nat
      BY <1>3, StepFacts, TcbSeqFacts, Apart
    <2>3. t \o (e \o r) = <<CurrentExecution>> \o Listing
      BY <1>2, <1>3 DEF Comes
    <2> HIDE DEF t, r
    <2>4. Append(t, elem) = t \o e  BY <2>2, AppendIsConcat
    <2>5. (t \o e) \o r = t \o (e \o r)  BY ONLY <2>2, NaturalsAssociate, ZenonT(30)
    <2> HIDE DEF e
    <2>6. TcbSeq(found') \o r = <<CurrentExecution>> \o Listing
      BY <2>1, <2>3, <2>4, <2>5
    <2> QED  BY <1>8, <2>6, StepFacts DEF Comes, r
  <1>10. Marked(found, Len(found))'
    <2> SUFFICES ASSUME NEW i \in 1..Len(found')
                 PROVE  found'[i].running <=> found'[i].tcb = running /\ i # Len(found')
      BY StepFacts DEF Marked
    <2>1. CASE i = Len(found) + 1  BY <1>5, <1>6, <2>1
    <2>2. CASE i # Len(found) + 1
      <3>1. i \in 1..Len(found) /\ i # 0 /\ i # Len(found')  BY <1>6, <2>2
      <3> QED  BY <1>2, <1>6, <3>1 DEF Marked
    <2> QED  BY <2>1, <2>2
  <1>11. found' # <<>>  BY <1>6, EmptySeq
  <1> QED
    BY <1>1, <1>2, <1>4, <1>7, <1>9, <1>10, <1>11, StepFacts DEF Goes, Walked, Walks

LEMMA WalkedName ==
  ASSUME StepWalked, NameRead
  PROVE  Goes'
  <1>1. awaited = "name" /\ awaited \in Walks  BY DEF NameRead, Walks
  <1>2. /\ left \in 1..Len(Here) /\ elem = Here[left] /\ found # <<>>
        /\ Comes(found, Rest(left - 1)) /\ Marked(found, Len(found))
    BY <1>1 DEF StepWalked, Walked
  <1> DEFINE n == Len(found)
             b == (current.tcb = Last(found).tcb)
  <1>3. /\ found' = [found EXCEPT ![n].running = b] /\ left' = left - 1
        /\ awaited' = "next" /\ UNCHANGED <<current, todo, elem>>
    BY DEF NameRead
  <1>4. /\ Len(Here) \in Nat /\ n \in Nat /\ n > 0 /\ DOMAIN found = 1..n
        /\ \A i \in 1..n : found[i] \in Infos
    <2>1. n \in Nat /\ n > 0 /\ DOMAIN found = 1..n
      BY <1>2, StepFacts, LenProperties, EmptySeq
    <2> QED  BY <1>1, <2>1, StepFacts, HereFacts, ElementOfSeq
  <1>5. b \in BOOLEAN /\ (b <=> found[n].tcb = running)
    BY <1>1, StepFacts DEF Last
  <1> HIDE DEF b
  <1>6. \A i \in 1..n : found'[i] = IF i = n THEN [found[i] EXCEPT !.running = b]
                                    ELSE found[i]
    BY <1>3, <1>4
  <1>7. \A i \in 1..n : found'[i].tcb = found[i].tcb
    BY <1>4, <1>6 DEF Infos
  <1>8. DOMAIN found' = 1..n /\ Len(found') = n
    <2>1. DOMAIN found' = 1..n  BY <1>3, <1>4
    <2>2. IInv'  BY ChainKeeps DEF StepWalked, ReadReply
    <2>3. found' \in Seq(Infos)  BY <2>2 DEF IInv, Recorded
    <2>4. DOMAIN found' = 1..Len(found') /\ Len(found') \in Nat  BY <2>3, LenProperties
    <2> HIDE DEF n
    <2> QED  BY <1>4, <2>1, <2>4
  <1>9. TcbSeq(found') = TcbSeq(found)
    <2> HIDE DEF n
    <2> QED  BY <1>4, <1>7, <1>8 DEF TcbSeq
  <1>10. Here' = Here  BY <1>3, StepFacts DEF Here
  <1>11. Rest(left)' = Rest(left - 1)  BY <1>3, <1>10, StepFacts DEF Rest
  <1>12. Comes(found, Rest(left))'  BY <1>2, <1>9, <1>11, StepFacts DEF Comes
  <1>13. Marked(found, 0)'
    <2> SUFFICES ASSUME NEW i \in 1..n
                 PROVE  found'[i].running <=> found'[i].tcb = running
      BY <1>8, StepFacts DEF Marked
    <2>1. CASE i = n
      <3>1. found'[i].running = b  BY <1>4, <1>6, <2>1 DEF Infos
      <3> QED  BY <1>5, <1>7, <2>1, <3>1
    <2>2. CASE i # n
      BY <1>2, <1>6, <2>2 DEF Marked
    <2> QED  BY <2>1, <2>2
  <1>14. left' \in 0..(Len(Here') - 1) /\ elem' = Here'[left' + 1]
    <2>1. (left - 1) + 1 = left /\ left - 1 \in 0..(Len(Here) - 1)  BY <1>2, <1>4
    <2> QED  BY <1>2, <1>3, <1>10, <2>1
  <1> QED
    BY <1>1, <1>3, <1>12, <1>13, <1>14, StepFacts DEF Goes, Walked, Walks

LEMMA WalkedStep ==
  ASSUME IInv, Typed, ~failed => Walked, ~TopKnown, ReadReply, ~failed'
  PROVE  Goes'
  <1>1. UNCHANGED rtosVars  BY DEF ReadReply
  <1>2. ~failed
    BY DEF ReadReply, CountRead, CurrentRead, TopRead, ItemsRead, FirstRead, OwnerRead,
           NameRead, NextRead
  <1>3. StepWalked  BY <1>1, <1>2 DEF StepWalked
  <1>4. ~TopRead  BY <1>3 DEF StepWalked, Walked, TopRead
  <1> QED
    BY <1>3, <1>4, WalkedCount, WalkedCurrent, WalkedItems, WalkedFirst, WalkedOwner,
       WalkedName, WalkedNext DEF ReadReply

-----------------------------------------------------------------------------
(* What the client is shown.  Between updates, when all reads of the last   *)
(* one were answered, it is the listing.                                    *)

Clean == awaited = "none" /\ ~failed

Shows ==
  /\ ~failed => Walked
  /\ Clean => Comes(found, <<>>) /\ Marked(found, 0)

Current == running # 0 => running \in Tasks(items)

LEMMA EmptyWalk ==
  ASSUME UpdateInit
  PROVE  Heap(items) /\ Tasks(items) = {} /\ Listing = <<>>
  <1>1. Heap(items)  BY NoTasksInHeap DEF UpdateInit
  <1>2. Tasks(items) = {}
    <2> SUFFICES ASSUME NEW t \in Tasks(items) PROVE FALSE  OBVIOUS
    <2>1. PICK l \in Lists : \E i \in 1..Len(items[l]) : items[l][i] = t
      BY <1>1, HeapFacts
    <2> QED  BY <2>1 DEF UpdateInit
  <1> QED  BY <1>1, <1>2, ListingComplete DEF Listing

LEMMA FirstShown ==
  LET x == Thread(CurrentExecution, CurrentExecution, FALSE)
  IN  /\ <<x>> \in Seq(Infos) /\ Len(<<x>>) = 1 /\ <<x>>[1] = x
      /\ x.tcb = CurrentExecution /\ x.running = FALSE
      /\ TcbSeq(<<x>>) = <<CurrentExecution>>
  <1> DEFINE x     == Thread(CurrentExecution, CurrentExecution, FALSE)
             shown == <<x>>
             e     == <<CurrentExecution>>
  <1>1. /\ shown \in Seq(Infos) /\ Len(shown) = 1 /\ shown[1] = x
        /\ x.tcb = CurrentExecution /\ x.running = FALSE
    BY FirstInfo DEF Thread
  <1>2. e \in Seq(Nat) /\ Len(e) = 1 /\ e[1] = CurrentExecution
    BY DEF CurrentExecution
  <1> HIDE DEF shown, x, e
  <1>3. TcbSeq(shown) \in Seq(Nat) /\ Len(TcbSeq(shown)) = 1
        /\ TcbSeq(shown)[1] = CurrentExecution
    BY <1>1, TcbSeqFacts
  <1>4. \A i \in 1..1 : i = 1  OBVIOUS
  <1>5. TcbSeq(shown) = e
    <2>1. \A i \in 1..Len(TcbSeq(shown)) : TcbSeq(shown)[i] = e[i]
      BY <1>2, <1>3, <1>4
    <2> HIDE DEF TcbSeq
    <2> QED  BY <1>2, <1>3, <2>1, SeqEqual
  <1> QED  BY <1>1, <1>5 DEF shown, x, e

LEMMA ShowsInit == UpdateInit => Shows /\ Current
  <1> SUFFICES ASSUME UpdateInit PROVE Shows /\ Current  OBVIOUS
  <1> DEFINE x == Thread(CurrentExecution, CurrentExecution, FALSE)
             e == <<CurrentExecution>>
  <1>1. found = <<x>> /\ running = 0 /\ awaited = "none"  BY DEF UpdateInit
  <1>2. Listing = <<>>  BY EmptyWalk
  <1>3. Comes(found, <<>>)
    <2>1. TcbSeq(found) = e  BY <1>1, FirstShown
    <2> HIDE DEF e
    <2>2. TcbSeq(found) \o <<>> = e \o Listing  BY <1>2, <2>1
    <2> QED  BY <2>2 DEF Comes, e
  <1>4. Marked(found, 0)
    <2>1. \A i \in 1..1 : i = 1 /\ i # 0  OBVIOUS
    <2> HIDE DEF x
    <2>2. Len(found) = 1 /\ found[1] = x  BY <1>1, FirstShown DEF x
    <2>3. x.running = FALSE /\ x.tcb = CurrentExecution  BY FirstShown DEF x
    <2> QED  BY <1>1, <2>1, <2>2, <2>3 DEF Marked, CurrentExecution
  <1> QED  BY <1>1, <1>3, <1>4 DEF Shows, Walked, Walks, Current

LEMMA ShowsBegin == Typed /\ Halted /\ Begin => Shows' /\ Current'
  <1> SUFFICES ASSUME Typed, Halted, Begin PROVE Shows' /\ Current'  OBVIOUS
  <1>1. awaited' = "count" /\ found' = <<>>  BY DEF Begin
  <1>2. running' # 0 => running' \in Tasks(items')
    BY HaltedHeap DEF Typed, UpdateTypeOK
  <1>3. Current'  BY <1>2 DEF Current, Tasks
  <1> QED  BY <1>1, <1>3 DEF Shows, Clean, Walked, Walks

LEMMA ShowsStep ==
  ASSUME IInv, Typed, Shows, Current, ~TopKnown, ReadReply
  PROVE  Shows' /\ Current'
  <1>1. Current'  BY DEF ReadReply, rtosVars, Current, Tasks
  <1>2. ~failed' => Goes'  BY WalkedStep DEF Shows
  <1> QED  BY <1>1, <1>2 DEF Shows, Clean, Goes, Published

LEMMA ShowsStable == Shows /\ Current /\ UNCHANGED updateVars => Shows' /\ Current'
  <1> SUFFICES ASSUME Shows, Current, UNCHANGED updateVars PROVE Shows' /\ Current'
    OBVIOUS
  <1>1. UNCHANGED <<rtosVars, awaited, failed, total, current, found, todo, left, elem, last>>
    BY DEF updateVars, threadVars, listVars
  <1>2. Listing' = Listing  BY <1>1, SameListing
  <1>3. Current'  BY <1>1 DEF Current, rtosVars, Tasks
  <1>4. Here' = Here  BY <1>1 DEF Here, rtosVars
  <1>5. Walked' <=> Walked
    BY <1>1, <1>2, <1>4 DEF Walked, Comes, Marked, Rest, rtosVars, Tasks
  <1>6. Clean => (Comes(found, <<>>) /\ Marked(found, 0))'
    BY <1>1, <1>2 DEF Shows, Comes, Marked, rtosVars
  <1> QED  BY <1>1, <1>3, <1>5, <1>6 DEF Shows, Clean

LEMMA ShowsHolds == ~TopKnown => (UpdateSpec => [](Shows /\ Current))
  <1>1. IInv /\ Typed /\ Shows /\ Current /\ ~TopKnown /\ [UpdateNext]_updateVars
          => Shows' /\ Current'
    BY ShowsBegin, ShowsStep, ShowsStable DEF UpdateNext
  <1>2. CASE ~TopKnown
    BY <1>1, <1>2, ShowsInit, Inductive, TypedHolds, PTL DEF UpdateSpec
  <1> QED  BY <1>2

-----------------------------------------------------------------------------
(* The refinement of ThreadView.                                            *)

ViewOf(infos) == [i \in DOMAIN infos |->
                   [tcb |-> infos[i].tcb, running |-> infos[i].running]]

LEMMA ShownIs ==
  ASSUME NEW infos \in Seq(Infos), Comes(infos, <<>>), Marked(infos, 0),
         Heap(items), Readable
  PROVE  /\ ViewOf(infos) = View!Shown([tasks |-> Listing, running |-> running])
         /\ ViewOf(infos) # <<>>
  <1> DEFINE N == Len(Listing)
             e == <<CurrentExecution>>
             t == TcbSeq(infos)
  <1>1. Listing \in Seq(Nat) /\ N \in Nat /\ DOMAIN Listing = 1..N
    BY ListingIsFlat, LenProperties DEF Listing
  <1>2. /\ t \in Seq(Nat) /\ Len(t) = Len(infos) /\ Len(infos) \in Nat
        /\ DOMAIN infos = 1..Len(infos)
        /\ \A i \in 1..Len(infos) : t[i] = infos[i].tcb /\ infos[i] \in Infos
    BY TcbSeqFacts, LenProperties, ElementOfSeq
  <1> HIDE DEF t
  <1>3. t = e \o Listing
    <2>1. t \o <<>> = t  BY <1>2, ConcatEmptySeq
    <2> QED  BY <2>1 DEF Comes, t
  <1>4. e \in Seq(Nat) /\ Len(e) = 1 /\ e[1] = CurrentExecution
    BY DEF CurrentExecution
  <1> HIDE DEF e, N
  <1>5. /\ Len(e \o Listing) = 1 + N
        /\ \A i \in 1..(1 + N) : (e \o Listing)[i] = IF i <= 1 THEN e[i] ELSE Listing[i - 1]
    <2>1. /\ Len(e \o Listing) = Len(e) + Len(Listing)
          /\ \A i \in 1..(Len(e) + Len(Listing)) :
               (e \o Listing)[i] = IF i <= Len(e) THEN e[i] ELSE Listing[i - Len(e)]
      BY <1>1, <1>4, ConcatProperties
    <2> QED  BY <1>4, <2>1 DEF N
  <1>6. /\ Len(infos) = 1 + N /\ t[1] = CurrentExecution
        /\ \A i \in 2..(1 + N) : t[i] = Listing[i - 1]
    <2>1. 1 \in 1..(1 + N) /\ 1 <= 1 /\ \A i \in 2..(1 + N) : i \in 1..(1 + N) /\ ~(i <= 1)
      BY <1>1
    <2> QED  BY <1>2, <1>3, <1>4, <1>5, <2>1
  <1>7. running # CurrentExecution  BY Apart DEF Readable, CurrentExecution
  <1> DEFINE E(c, b) == [tcb |-> c, running |-> b]
             head == <<E(CurrentExecution, FALSE)>>
             rest == [i \in 1..N |-> E(Listing[i], Listing[i] = running)]
             D == [tcb : Nat, running : BOOLEAN]
             v == ViewOf(infos)
  <1>8. head \in Seq(D) /\ Len(head) = 1 /\ head[1] = E(CurrentExecution, FALSE)
    BY DEF CurrentExecution
  <1>9. rest \in Seq(D) /\ Len(rest) = N /\ \A i \in 1..N : rest[i] = E(Listing[i], Listing[i] = running)
    <2>1. \A i \in 1..N : Listing[i] \in Nat /\ (Listing[i] = running) \in BOOLEAN
      BY <1>1, ElementOfSeq DEF N
    <2>2. \A i \in 1..N : E(Listing[i], Listing[i] = running) \in D  BY <2>1
    <2>3. \A i \in 1..N : rest[i] = E(Listing[i], Listing[i] = running)  OBVIOUS
    <2> HIDE DEF E, D
    <2> QED  BY <1>1, <2>2, <2>3
  <1>10. v = [i \in 1..(1 + N) |-> E(infos[i].tcb, infos[i].running)]
    BY <1>2, <1>6 DEF ViewOf
  <1>11. v \in Seq(D) /\ Len(v) = 1 + N
         /\ \A i \in 1..(1 + N) : v[i] = E(infos[i].tcb, infos[i].running)
    <2>1. \A i \in 1..(1 + N) : infos[i].tcb \in Nat /\ infos[i].running \in BOOLEAN
      BY <1>2, <1>6 DEF Infos
    <2>2. \A i \in 1..(1 + N) : E(infos[i].tcb, infos[i].running) \in D  BY <2>1
    <2>3. 1 + N \in Nat  BY <1>1
    <2> HIDE DEF E, D, v
    <2> QED  BY <1>10, <2>2, <2>3
  <1> HIDE DEF head, rest, v
  <1>12. /\ head \o rest \in Seq(D) /\ Len(head \o rest) = 1 + N
         /\ \A i \in 1..(1 + N) :
              (head \o rest)[i] = IF i <= 1 THEN head[i] ELSE rest[i - 1]
    <2> HIDE DEF D, E
    <2>1. /\ head \o rest \in Seq(D) /\ Len(head \o rest) = Len(head) + Len(rest)
          /\ \A i \in 1..(Len(head) + Len(rest)) :
               (head \o rest)[i] = IF i <= Len(head) THEN head[i] ELSE rest[i - Len(head)]
      BY <1>8, <1>9, ConcatProperties
    <2> QED  BY <1>8, <1>9, <2>1
  <1>13. \A i \in 1..(1 + N) : v[i] = (head \o rest)[i]
    <2> SUFFICES ASSUME NEW i \in 1..(1 + N) PROVE v[i] = (head \o rest)[i]
      OBVIOUS
    <2>1. infos[i].running <=> infos[i].tcb = running
      BY <1>6 DEF Marked
    <2>2. infos[i].tcb = t[i] /\ infos[i].running \in BOOLEAN
      BY <1>2, <1>6 DEF Infos
    <2>3. CASE i = 1
      <3>1. (head \o rest)[i] = E(CurrentExecution, FALSE)
        <4> HIDE DEF D, E
        <4>1. 1 <= 1  OBVIOUS
        <4> QED  BY <1>8, <1>12, <2>3, <4>1
      <3>2. infos[i].tcb = CurrentExecution  BY <1>6, <2>2, <2>3
      <3>3. infos[i].running = FALSE  BY <1>7, <2>1, <2>2, <3>2
      <3> HIDE DEF E
      <3> QED  BY <1>11, <3>1, <3>2, <3>3
    <2>4. CASE i # 1
      <3>1. i \in 2..(1 + N) /\ i - 1 \in 1..N /\ ~(i <= 1)  BY <1>1, <2>4
      <3>2. (head \o rest)[i] = E(Listing[i - 1], Listing[i - 1] = running)
        BY <1>9, <1>12, <3>1
      <3>3. infos[i].tcb = Listing[i - 1]  BY <1>6, <2>2, <3>1
      <3>4. infos[i].running = (Listing[i - 1] = running)  BY <2>1, <2>2, <3>3
      <3> HIDE DEF E
      <3> QED  BY <1>11, <3>2, <3>3, <3>4
    <2> QED  BY <2>3, <2>4
  <1>14. v = head \o rest
    <2> HIDE DEF D
    <2> QED  BY <1>11, <1>12, <1>13, SeqEqual
  <1>15. View!Shown([tasks |-> Listing, running |-> running]) = head \o rest
    BY <1>1 DEF View!Shown, View!Entry, head, rest
  <1>16. v # <<>>  BY <1>1, <1>11
  <1> QED  BY <1>14, <1>15, <1>16 DEF v

ViewRtos == [tasks |-> Listing, running |-> running]
ViewShown == IF awaited # "none" THEN <<>>
             ELSE [i \in DOMAIN found |->
                    [tcb |-> found[i].tcb, running |-> found[i].running]]

LEMMA ShownClean ==
  IInv /\ Typed /\ Shows /\ ~failed /\ awaited = "none"
    => ViewShown = View!Shown(ViewRtos) /\ ViewShown # <<>>
  <1> SUFFICES ASSUME IInv, Typed, Shows, ~failed, awaited = "none"
               PROVE  ViewShown = View!Shown(ViewRtos) /\ ViewShown # <<>>
    OBVIOUS
  <1>1. /\ found \in Seq(Infos) /\ Comes(found, <<>>) /\ Marked(found, 0)
        /\ Heap(items) /\ Readable
    BY DEF IInv, Recorded, Typed, Shows, Clean
  <1>2. ViewShown = ViewOf(found)  BY DEF ViewShown, ViewOf
  <1> QED  BY <1>1, <1>2, ShownIs DEF ViewRtos

LEMMA ListedTasks ==
  Heap(items) /\ Current =>
    running = 0 \/ \E i \in DOMAIN Listing : Listing[i] = running
  BY ListingComplete DEF Current, Listing

LEMMA ViewInit == UpdateInit => View!Init
  <1> SUFFICES ASSUME UpdateInit PROVE View!Init  OBVIOUS
  <1>1. IInv /\ Typed /\ Shows /\ ~failed /\ awaited = "none"
    BY InductiveInit, TypedInit, ShowsInit DEF UpdateInit
  <1>2. ViewRtos = [tasks |-> <<>>, running |-> 0]
    BY EmptyWalk DEF ViewRtos, UpdateInit
  <1>3. ViewShown = View!Shown(ViewRtos)  BY <1>1, ShownClean
  <1> QED  BY <1>2, <1>3 DEF View!Init, ViewRtos, ViewShown

LEMMA ViewHalt ==
  ASSUME IInv, Typed, Shows, ~failed, Halted, Begin, IInv', Typed', Current'
  PROVE  View!Halt
  <1>1. awaited = "none" /\ awaited' = "count"  BY DEF Halted, Begin
  <1>2. ViewShown # <<>>  BY <1>1, ShownClean
  <1>3. ViewShown' = <<>>  BY <1>1 DEF ViewShown
  <1>4. (Heap(items) /\ Current =>
           running = 0 \/ \E i \in DOMAIN Listing : Listing[i] = running)'
    BY ListedTasks, PTL
  <1>5. running' = 0 \/ \E i \in DOMAIN Listing' : Listing'[i] = running'
    BY <1>4 DEF Typed
  <1>6. ViewRtos'.running = 0
        \/ \E i \in DOMAIN ViewRtos'.tasks : ViewRtos'.tasks[i] = ViewRtos'.running
    BY <1>5 DEF ViewRtos
  <1> QED
    BY <1>2, <1>3, <1>6 DEF View!Halt, View!Updating, ViewRtos, ViewShown

LEMMA ViewStep ==
  ASSUME IInv, awaited # "none", ReadReply, IInv', Typed', Shows', ~failed'
  PROVE  View!Publish \/ UNCHANGED <<ViewRtos, ViewShown>>
  <1>1. ViewRtos' = ViewRtos  BY SameListing DEF ReadReply, ViewRtos, rtosVars
  <1>2. ViewShown = <<>>  BY DEF ViewShown
  <1>3. CASE awaited' # "none"  BY <1>1, <1>2, <1>3 DEF ViewShown
  <1>4. CASE awaited' = "none"
    <2>1. (IInv /\ Typed /\ Shows /\ ~failed /\ awaited = "none"
             => ViewShown = View!Shown(ViewRtos) /\ ViewShown # <<>>)'
      BY ShownClean, PTL
    <2>2. ViewShown' = View!Shown(ViewRtos)'  BY <1>4, <2>1
    <2> QED
      BY <1>1, <1>2, <2>2 DEF View!Publish, View!Updating, ViewRtos, ViewShown
  <1> QED  BY <1>3, <1>4

(* A target that answers every read lets no update fail.                    *)
LEMMA NoneFails == Wrong = {} => (UpdateSpec => []~failed)
  <1>1. ASSUME Wrong = {}, ~failed, [UpdateNext]_updateVars PROVE ~failed'
    <2>1. \A w : \A v \in Received(w) : v = w  BY <1>1 DEF Received
    <2> QED
      BY <1>1, <2>1 DEF UpdateNext, Begin, ReadReply, CountRead, CurrentRead, TopRead,
         ItemsRead, FirstRead, OwnerRead, NameRead, NextRead, updateVars
  <1>2. UpdateInit => ~failed  BY DEF UpdateInit
  <1>3. CASE Wrong = {}  BY <1>1, <1>2, <1>3, PTL DEF UpdateSpec
  <1> QED  BY <1>3

(* Every update puts in the place of the thread list of the halt before, in *)
(* one step, each task of each list once and nothing else, with the running *)
(* one marked: for any number of tasks, lists and halts, as long as the     *)
(* target answers its reads and the symbol of the top priority, with which  *)
(* the code leaves out a list, is not known.                                *)
THEOREM ImplementsView ==
  Wrong = {} /\ ~TopKnown => (UpdateSpec => ViewPublished)
  <1> DEFINE View1 == IInv /\ Typed /\ Shows /\ Current
  <1>1. ASSUME View1, View1', ~failed, ~failed', [UpdateNext]_updateVars
        PROVE  [View!Next]_<<ViewRtos, ViewShown>>
    <2>1. CASE Halted /\ Begin
      BY <1>1, <2>1, ViewHalt DEF View!Next
    <2>2. CASE ReadReply
      <3>1. awaited # "none"
        BY <2>2 DEF ReadReply, CountRead, CurrentRead, TopRead, ItemsRead, FirstRead,
           OwnerRead, NameRead, NextRead
      <3> QED  BY <1>1, <2>2, <3>1, ViewStep DEF View!Next
    <2>3. CASE UNCHANGED updateVars
      BY <2>3, SameListing DEF updateVars, rtosVars, threadVars, ViewRtos, ViewShown
    <2> QED  BY <1>1, <2>1, <2>2, <2>3 DEF UpdateNext
  <1>2. [View!Next]_<<ViewRtos, ViewShown>> =>
          [View!Next]_<<[tasks |-> Listing, running |-> running],
                        IF awaited # "none" THEN <<>>
                        ELSE [i \in DOMAIN found |->
                               [tcb |-> found[i].tcb, running |-> found[i].running]]>>
    BY DEF ViewRtos, ViewShown
  <1> HIDE DEF View1
  <1>3. CASE Wrong = {} /\ ~TopKnown
    <2>1. UpdateSpec => []View1
      BY <1>3, Inductive, TypedHolds, ShowsHolds, PTL DEF View1
    <2>2. UpdateSpec => []~failed  BY <1>3, NoneFails
    <2> QED
      BY <1>1, <1>2, <2>1, <2>2, ViewInit, PTL DEF UpdateSpec, ViewPublished, View!Spec
  <1> QED  BY <1>3

-----------------------------------------------------------------------------
(* The tasks of the listing are those of the RTOS.                          *)
LEMMA OnlyTasksListed ==
  ASSUME Heap(items)
  PROVE  \A j \in DOMAIN Listing : Listing[j] \in Tasks(items)
  <1> DEFINE order == All(MaxPriorities)
             T == Tasks(items)
             F == Backwards(items)
  <1>1. ASSUME NEW l \in Lists PROVE Reverse(items[l]) \in Seq(T)
    <2>1. items[l] \in Seq(Nat) /\ Len(items[l]) \in Nat
      <3>1. items[l] \in Seq(Tcbs) /\ Tcbs \subseteq Nat
        BY HeapFacts, UpdateAssumption
      <3> QED  BY <3>1, SeqMonotonic, LenProperties
    <2> DEFINE n == Len(items[l])
    <2>2. Reverse(items[l]) = Down(items[l], n)  BY <2>1, DownProperties
    <2>3. \A i \in 1..n : n + 1 - i \in 1..n  BY <2>1
    <2>4. \A i \in 1..n : items[l][n + 1 - i] \in T  BY <2>3, HeapFacts
    <2> HIDE DEF T, n
    <2>5. Down(items[l], n) \in Seq(T)  BY <2>1, <2>4 DEF Down, n
    <2> QED  BY <2>2, <2>5
  <1>2. F \in [Lists -> Seq(T)]  BY <1>1 DEF Backwards
  <1>3. order \in Seq(Lists)
    <2>1. MaxPriorities \in Nat /\ MaxPriorities <= MaxPriorities  BY UpdateAssumption
    <2> QED  BY <2>1, AllLists
  <1>4. Listing = FlattenSeq(Mapped(F, order))  BY ListingIsFlat DEF Flat, Listing
  <1> HIDE DEF F, order, T
  <1>5. FlattenSeq(Mapped(F, order)) \in Seq(T)  BY <1>2, <1>3, FlattenMapped
  <1>6. Listing \in Seq(T)  BY <1>4, <1>5
  <1>7. \A j \in DOMAIN Listing : Listing[j] \in T
    BY <1>6, LenProperties, ElementOfSeq
  <1> QED  BY <1>7 DEF T

LEMMA FoundIsTasks ==
  ASSUME Typed, IInv, Shows, awaited = "none", ~failed
  PROVE  TcbsOf(found) \ {CurrentExecution} = Tasks(items)
  <1>1. found \in Seq(Infos) /\ Comes(found, <<>>) /\ Heap(items)
    BY DEF IInv, Recorded, Typed, Shows, Clean
  <1> DEFINE e == <<CurrentExecution>>
             t == TcbSeq(found)
             N == Len(Listing)
  <1>2. Listing \in Seq(Nat) /\ N \in Nat /\ DOMAIN Listing = 1..N
    BY <1>1, ListingIsFlat, LenProperties DEF Listing
  <1>3. /\ t \in Seq(Nat) /\ Len(t) = Len(found) /\ Len(found) \in Nat
        /\ \A i \in 1..Len(found) : t[i] = found[i].tcb
    BY <1>1, TcbSeqFacts, LenProperties
  <1>4. e \in Seq(Nat) /\ Len(e) = 1 /\ e[1] = CurrentExecution
    BY DEF CurrentExecution
  <1> HIDE DEF t, e
  <1>5. t = e \o Listing
    <2>1. t \o <<>> = t  BY <1>3, ConcatEmptySeq
    <2> QED  BY <1>1, <2>1 DEF Comes, t, e
  <1>6. /\ Len(t) = 1 + N
        /\ \A i \in 1..(1 + N) : t[i] = IF i <= 1 THEN e[i] ELSE Listing[i - 1]
    <2>1. /\ Len(e \o Listing) = Len(e) + Len(Listing)
          /\ \A i \in 1..(Len(e) + Len(Listing)) :
               (e \o Listing)[i] = IF i <= Len(e) THEN e[i] ELSE Listing[i - Len(e)]
      BY <1>2, <1>4, ConcatProperties
    <2> QED  BY <1>4, <1>5, <2>1
  <1> HIDE DEF N
  <1>7. \A x \in TcbsOf(found) : x = CurrentExecution \/ x \in Tasks(items)
    <2> SUFFICES ASSUME NEW i \in 1..Len(found)
                 PROVE  found[i].tcb = CurrentExecution \/ found[i].tcb \in Tasks(items)
      BY DEF TcbsOf
    <2>1. CASE i = 1
      <3>1. 1 \in 1..(1 + N) /\ 1 <= 1  BY <1>2
      <3> QED  BY <1>3, <1>4, <1>6, <2>1, <3>1
    <2>2. CASE i # 1
      <3>1. i \in 1..(1 + N) /\ ~(i <= 1) /\ i - 1 \in 1..N  BY <1>2, <1>3, <1>6, <2>2
      <3>2. Listing[i - 1] \in Tasks(items)  BY <1>1, <1>2, <3>1, OnlyTasksListed
      <3> QED  BY <1>3, <1>6, <3>1, <3>2
    <2> QED  BY <2>1, <2>2
  <1>8. ASSUME NEW x \in Tasks(items) PROVE x \in TcbsOf(found) /\ x # CurrentExecution
    <2>1. x \in Tcbs /\ x # CurrentExecution  BY <1>1, HeapFacts, Apart
    <2>2. PICK j \in 1..N : Listing[j] = x  BY <1>1, <1>2, ListingComplete
      DEF Listing
    <2>3. j + 1 \in 1..(1 + N) /\ ~(j + 1 <= 1) /\ (j + 1) - 1 = j  BY <1>2
    <2>4. t[j + 1] = x  BY <1>6, <2>2, <2>3
    <2> QED  BY <1>3, <1>6, <2>1, <2>3, <2>4 DEF TcbsOf
  <1> QED  BY <1>7, <1>8

(* Between updates the threads the client is shown are the tasks there are. *)
TasksFound == awaited = "none" => TcbsOf(found) \ {CurrentExecution} = Tasks(items)

THEOREM EveryTaskFound ==
  Wrong = {} /\ ~TopKnown => (UpdateSpec => []TasksFound)
  <1>1. Typed /\ IInv /\ Shows /\ ~failed => TasksFound
    BY FoundIsTasks DEF TasksFound
  <1>2. CASE Wrong = {} /\ ~TopKnown
    BY <1>1, <1>2, NoneFails, Inductive, TypedHolds, ShowsHolds, PTL
  <1> QED  BY <1>2
=============================================================================
