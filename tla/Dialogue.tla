------------------------------- MODULE Dialogue -------------------------------
(****************************************************************************)
(* What a debug session looks like to the client, with or without a proxy   *)
(* in the middle: commands are numbered, and each reply answers the oldest  *)
(* command that has none.  Nothing else may ever reach the client as the    *)
(* reply to a command.                                                      *)
(****************************************************************************)
EXTENDS Naturals, Sequences

VARIABLES
  asked,   \* numbers of the commands not yet answered, oldest first
  serial,  \* number of the last packet the client sent
  got      \* number of the last command answered, 0: none

vars == <<asked, serial, got>>

Init == asked = <<>> /\ serial = 0 /\ got = 0

(* The client sends a command, or a packet that needs no reply.             *)
Ask  == /\ \/ asked' = Append(asked, serial + 1)
           \/ UNCHANGED asked
        /\ serial' = serial + 1
        /\ UNCHANGED got

(* The oldest command is answered; the client may acknowledge the reply.    *)
Reply == /\ asked # <<>>
         /\ got' = Head(asked)
         /\ asked' = Tail(asked)
         /\ serial' \in {serial, serial + 1}

Next == Ask \/ Reply

Spec     == Init /\ [][Next]_vars
FairSpec == Spec /\ WF_vars(Reply)
=============================================================================
