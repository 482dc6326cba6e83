------------------------------ MODULE ThreadIds ------------------------------
(****************************************************************************)
(* The numbers the proxy gives to the tasks of the target:                  *)
(* target_mb_freertos::get_threadid and the clean-up of m_threads_map at    *)
(* the end of update_threads.  A map is a function from the addresses of    *)
(* the task control blocks it holds to their ids; the code walks it in the  *)
(* order of the addresses.                                                  *)
(****************************************************************************)
EXTENDS Integers, FiniteSets

CurrentExecution == 1            \* THREAD_ID_CURRENT_EXECUTION
FirstId == CurrentExecution + 1  \* where start_id starts

NoIds == [t \in {} |-> FirstId]

(* start_id when the walk arrives at tcb: every entry before it had the id  *)
(* that was expected of it.                                                 *)
Expected(m, tcb) == FirstId + Cardinality({t \in DOMAIN m : t < tcb})

(* The walk stops at the first entry with another id than the expected one. *)
FirstMisnumbered(m) ==
  {t \in DOMAIN m : /\ m[t] # Expected(m, t)
                    /\ \A u \in DOMAIN m : u < t => m[u] = Expected(m, u)}

MutNumbered(m, tcb) ==   \* mutant: start_id starts at the current execution
  IF tcb \in DOMAIN m THEN m
  ELSE [t \in DOMAIN m \cup {tcb} |-> IF t = tcb THEN CurrentExecution ELSE m[t]]

(* get_threadid with update.  The loop variable of the walk shadows the     *)
(* result and refers to the entry: at the first misnumbered entry it is the *)
(* entry that gets start_id, and the result stays 0.  Then the new task     *)
(* always gets start_id + 1.                                                *)
Numbered(m, tcb) ==
  IF tcb \in DOMAIN m THEN m
  ELSE LET fixed == FirstMisnumbered(m)
           start == IF fixed = {}
                    THEN FirstId + Cardinality(DOMAIN m)
                    ELSE Expected(m, CHOOSE t \in fixed : TRUE)
       IN  [t \in DOMAIN m \cup {tcb} |->
              IF t = tcb THEN start + 1
              ELSE IF t \in fixed THEN start ELSE m[t]]

(* update_threads_done erases the entries of the tasks that were not found. *)
MutKept(m, tcbs) == m   \* mutant: nothing is ever erased

Kept(m, tcbs) == [t \in DOMAIN m \cap tcbs |-> m[t]]
=============================================================================
