------------------------------ MODULE Readiness ------------------------------
(***************************************************************************)
(* What the program may rely on for its connections: each of them, once it *)
(* has been set up, is handed over, once and whatever its client does or   *)
(* leaves undone, unless the thread that serves them all is lost.          *)
(***************************************************************************)
EXTENDS Naturals

CONSTANT Connections

VARIABLES phase,  \* connection -> "new", "waiting", "ready" or "lost"
          told    \* connection -> how often the program was handed it

vars == <<phase, told>>

Init ==
  /\ phase = [c \in Connections |-> "new"]
  /\ told = [c \in Connections |-> 0]

SetUp(c) ==
  /\ phase[c] = "new"
  /\ phase' = [phase EXCEPT ![c] = "waiting"]
  /\ UNCHANGED told

HandOver(c) ==
  /\ phase[c] = "waiting"
  /\ phase' = [phase EXCEPT ![c] = "ready"]
  /\ told' = [told EXCEPT ![c] = @ + 1]

(* The thread is lost to every connection.                                 *)
Lose ==
  /\ phase' = [c \in Connections |-> "lost"]
  /\ UNCHANGED told

Next == (\E c \in Connections : SetUp(c) \/ HandOver(c)) \/ Lose

(* No connection waits for ever.                                           *)
Served == \A c \in Connections : phase[c] = "waiting" ~> phase[c] # "waiting"

Spec == Init /\ [][Next]_vars /\ Served
=============================================================================
