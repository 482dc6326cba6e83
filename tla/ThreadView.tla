------------------------------ MODULE ThreadView ------------------------------
(****************************************************************************)
(* What the thread update promises: each time the target halts the client's *)
(* thread list is replaced, in one step, by the tasks the RTOS has then,    *)
(* with the running one marked; in between there is none to be seen.        *)
(****************************************************************************)
EXTENDS Naturals, Sequences

CONSTANTS CurrentExecution   \* what stands for the processor itself

VARIABLES
  rtos,  \* the tasks of the halted target, and the one that was running
  view   \* what the client is shown, Updating while an update runs

Updating         == <<>>
Entry(tcb, mark) == [tcb |-> tcb, running |-> mark]

Shown(r) ==
  <<Entry(CurrentExecution, FALSE)>> \o
  [i \in DOMAIN r.tasks |-> Entry(r.tasks[i], r.tasks[i] = r.running)]

Init ==
  /\ rtos = [tasks |-> <<>>, running |-> 0]
  /\ view = Shown(rtos)

Halt ==
  /\ view # Updating
  /\ view' = Updating
  /\ rtos'.running = 0 \/ \E i \in DOMAIN rtos'.tasks : rtos'.tasks[i] = rtos'.running

Publish ==
  /\ view = Updating
  /\ view' = Shown(rtos)
  /\ UNCHANGED rtos

Next == Halt \/ Publish

Spec == Init /\ [][Next]_<<rtos, view>>
=============================================================================
