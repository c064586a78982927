---------------------------- MODULE ReplyChannel ----------------------------
(***************************************************************************)
(* What a connection's output promises: bytes that are queued for the      *)
(* client reach it in the order in which they were queued, each at most    *)
(* once, with none skipped.  It promises nothing about when, and once more *)
(* has been queued than the first storage holds, it does not promise that  *)
(* a byte is the right one.                                                *)
(***************************************************************************)
EXTENDS Naturals, Sequences

CONSTANTS Capacity,   \* bytes the first storage holds
          Garbage     \* a byte that is not the queued one

VARIABLES queued,   \* every byte handed to the outbox so far
          wire      \* every byte the client's socket has been given

vars == <<queued, wire>>

Init == queued = << >> /\ wire = << >>

(* More bytes are queued behind the earlier ones.                          *)
Queue ==
  /\ Len(queued') > Len(queued)
  /\ SubSeq(queued', 1, Len(queued)) = queued
  /\ UNCHANGED wire

(* Byte i of the queue may reach the client as this byte.                  *)
MayArrive(byte, i) ==
  \/ byte = queued[i]
  \/ Len(queued) > Capacity /\ byte = Garbage

(* The next bytes in line reach the client.                                *)
Deliver ==
  /\ Len(wire') \in Len(wire) + 1 .. Len(queued)
  /\ SubSeq(wire', 1, Len(wire)) = wire
  /\ \A i \in Len(wire) + 1 .. Len(wire') : MayArrive(wire'[i], i)
  /\ UNCHANGED queued

Next == Queue \/ Deliver

Spec == Init /\ [][Next]_vars
=============================================================================
