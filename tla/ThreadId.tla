------------------------------- MODULE ThreadId -------------------------------
(****************************************************************************)
(* class threadid (threadid.h): the thread ids of the protocol, as the      *)
(* proxy parses them, prints them and compares them.                        *)
(*                                                                          *)
(* "p<process>.<thread>", "p<process>" and "<thread>" are a pair of         *)
(* numerals, each a sign and a magnitude.  None is a part that is not there,*)
(* Malformed one that is there and no number, as both are in "p.".          *)
(****************************************************************************)
EXTENDS Integers

CONSTANT Mask   \* the largest AddressSpace, 2^32 - 1 for a 32 bit target

ASSUME MaskAssumption == Mask \in Nat

AnyThread  == 0
AllThreads == 0 - 1

Numeral(neg, mag) == [neg |-> neg, mag |-> mag]
None              == Numeral(FALSE, 0 - 1)
Malformed         == Numeral(FALSE, 0 - 2)
Text(proc, thread) == [proc |-> proc, thread |-> thread]
Id(multi, pid, tid) == [multi |-> multi, pid |-> pid, tid |-> tid]

(* parse_id.  Whatever begins with "-1" is taken for -1, another negative   *)
(* number is complemented, and what is no number is 0.                      *)
LeadingOne(mag) ==
  \E place \in {1, 16, 256, 4096, 65536, 1048576, 16777216, 268435456} :
    mag \div place = 1

ParseId(numeral) ==
  IF numeral \in {None, Malformed} THEN AnyThread
  ELSE IF numeral.neg
  THEN IF LeadingOne(numeral.mag) THEN AllThreads ELSE Mask - numeral.mag
  ELSE numeral.mag

MakeId(n) == IF n < 0 THEN Numeral(TRUE, 0 - n) ELSE Numeral(FALSE, n)

(* The constructor from a text; a process alone means all of its threads.   *)
Parsed(text) ==
  IF text.proc = None THEN Id(FALSE, 0, ParseId(text.thread))
  ELSE Id(TRUE, ParseId(text.proc),
          IF text.thread = None THEN AllThreads ELSE ParseId(text.thread))

Printed(id) ==   \* to_string
  Text(IF id.multi THEN MakeId(id.pid) ELSE None, MakeId(id.tid))

MutSameThread(a, b) ==   \* mutant: the process is always compared
  a.tid = b.tid /\ a.pid = b.pid

(* operator==: the left side decides whether the processes count.           *)
SameThread(a, b) == a.tid = b.tid /\ (a.multi => a.pid = b.pid)
=============================================================================
