------------------------------- MODULE Outbox -------------------------------
(***************************************************************************)
(* The output side of a telnet connection as a value: the boost streambuf  *)
(* "outbox", the flag isWriting and the asynchronous writes that have been *)
(* initiated and whose completion handler has not run yet.  The operators  *)
(* are the calls that TelnetMudConnection makes on them; each takes the    *)
(* outbox before the call and returns the outbox after it.                 *)
(*                                                                         *)
(*   data       the readable bytes, outbox.data()                          *)
(*   gap        bytes of storage before the readable ones, already consumed*)
(*   room       bytes of storage left behind the readable ones             *)
(*   isWriting  the flag of MudConnection                                  *)
(*   writes     the outstanding async_write_some operations; each has the  *)
(*              bytes its buffer designated when it was initiated, the     *)
(*              number that the socket has taken (0: none yet), and moved, *)
(*              true when the storage it points into has been shifted or   *)
(*              regrown under it                                           *)
(***************************************************************************)
EXTENDS Naturals, Sequences

CONSTANT Capacity   \* bytes of storage a new boost streambuf holds

ASSUME CapacityAssumption == Capacity \in Nat \ {0}

NewOutbox ==
  [data |-> << >>, gap |-> 0, room |-> Capacity,
   isWriting |-> FALSE, writes |-> {}]

(* Mutated form of Prepare: makes room for the bytes twice.                *)
PrepareTwice(box, n) ==
  LET reclaimed == box.room + box.gap
  IN  IF 2 * n <= box.room
      THEN box
      ELSE [box EXCEPT !.gap    = 0,
                       !.room   = IF n <= reclaimed THEN reclaimed ELSE n,
                       !.writes = {[w EXCEPT !.moved = TRUE] : w \in @}]

(* outbox.prepare(n): makes n bytes of room, shifting the readable bytes   *)
(* to the front of the storage and then growing it.  Both take the storage *)
(* from under a write that the socket has not yet read from.               *)
Prepare(box, n) ==
  LET reclaimed == box.room + box.gap
  IN  IF n <= box.room
      THEN box
      ELSE [box EXCEPT !.gap    = 0,
                       !.room   = IF n <= reclaimed THEN reclaimed ELSE n,
                       !.writes = {[w EXCEPT !.moved = TRUE] : w \in @}]

(* outbox.commit of bytes that were copied into the prepared room.         *)
Commit(box, bytes) ==
  [box EXCEPT !.data = @ \o bytes, !.room = @ - Len(bytes)]

(* outbox.consume(n), which drops no more than there is.                   *)
Consume(box, n) ==
  LET k == IF n <= Len(box.data) THEN n ELSE Len(box.data)
  IN  [box EXCEPT !.data = SubSeq(@, k + 1, Len(@)), !.gap = @ + k]

(* async_write_some is called on everything that is readable.              *)
StartWrite(box) ==
  [box EXCEPT !.isWriting = TRUE,
              !.writes = @ \cup {[bytes |-> box.data, sent |-> 0,
                                  moved |-> FALSE]}]

(* Mutated form of Send: without the test of isWriting.                    *)
SendUnguarded(box) == IF box.data # << >> THEN StartWrite(box) ELSE box

(* TelnetMudConnection::send.                                              *)
Send(box) ==
  IF ~box.isWriting /\ box.data # << >> THEN StartWrite(box) ELSE box

(* Mutated forms of SendNegotiate: one starts a write whatever isWriting   *)
(* says, one commits bytes that it has made no room for.                   *)
SendNegotiateAlways(box, command, option) ==
  SendUnguarded(Commit(Prepare(box, 3), <<"IAC", command, option>>))

SendNegotiateUnprepared(box, command, option) ==
  Send(Commit(box, <<"IAC", command, option>>))

(* TelnetMudConnection::sendNegotiate.                                     *)
SendNegotiate(box, command, option) ==
  Send(Commit(Prepare(box, 3), <<"IAC", command, option>>))

(* The socket takes the first k bytes of write w.                          *)
Taken(box, w, k) ==
  [box EXCEPT !.writes = (@ \ {w}) \cup {[w EXCEPT !.sent = k]}]

(* Mutated forms of WriteDone: one clears isWriting without looking at     *)
(* what is left, one clears it before it calls send(), one consumes        *)
(* nothing.                                                                *)
WriteDoneForgetful(box, w, len) ==
  [Consume([box EXCEPT !.writes = @ \ {w}], len) EXCEPT !.isWriting = FALSE]

WriteDoneResuming(box, w, len) ==
  Send([Consume([box EXCEPT !.writes = @ \ {w}], len)
          EXCEPT !.isWriting = FALSE])

WriteDoneRepeating(box, w, len) ==
  Send([box EXCEPT !.writes = @ \ {w}, !.isWriting = FALSE])

(* The completion handler of async_write_some, called with len bytes; it   *)
(* does not look at the error code.                                        *)
WriteDone(box, w, len) ==
  LET left == Consume([box EXCEPT !.writes = @ \ {w}], len)
  IN  IF left.data # << >> THEN Send(left)
                           ELSE [left EXCEPT !.isWriting = FALSE]

(* Nothing is being written and no completion will come, but isWriting     *)
(* says that a write is under way, so that send() returns at once.         *)
IsStalled(box) == box.isWriting /\ box.writes = {}

=============================================================================
