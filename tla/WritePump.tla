----------------------------- MODULE WritePump ------------------------------
(***************************************************************************)
(* The write pump of one telnet connection: sendNegotiate is called at     *)
(* any time, also while an async_write_some is outstanding; the socket     *)
(* takes some of the bytes of an outstanding write; its completion handler *)
(* then runs and is meant to keep the pump going.                          *)
(*                                                                         *)
(* All calls and handlers run on the thread that runs the io_context, one  *)
(* at a time.  What the socket does lies between them.                     *)
(***************************************************************************)
EXTENDS Outbox

CONSTANTS Commands,   \* the commands that are sent: WILL, WONT, DO, DONT
          Options,    \* the option codes they are sent for
          Garbage,    \* a byte read from storage that was moved or freed
          MaxBytes    \* bound: bytes queued in one behaviour

ASSUME MaxBytesAssumption == MaxBytes \in Nat

VARIABLES outbox,
          queued,     \* history: every byte committed to the outbox
          wire        \* every byte the socket has taken

vars == <<outbox, queued, wire>>

Byte == {"IAC"} \cup Commands \cup Options

ASSUME GarbageAssumption == Garbage \notin Byte

Write == [bytes : Seq(Byte), sent : Nat, moved : BOOLEAN]

TypeOK ==
  /\ outbox \in [data : Seq(Byte), gap : Nat, room : Nat,
                 isWriting : BOOLEAN, writes : SUBSET Write]
  /\ queued \in Seq(Byte)
  /\ wire \in Seq(Byte \cup {Garbage})

Init ==
  /\ outbox = NewOutbox
  /\ queued = << >>
  /\ wire = << >>

(* The connection sends IAC command option.                                *)
Negotiate(command, option) ==
  /\ Len(queued) + 3 <= MaxBytes
  /\ outbox' = SendNegotiate(outbox, command, option)
  /\ queued' = queued \o <<"IAC", command, option>>
  /\ UNCHANGED wire

(* The socket takes k bytes of an outstanding write.  If the storage was   *)
(* moved under the write, what it takes may be anything.                   *)
Transmit(w, k) ==
  /\ w.sent = 0
  /\ k \in 1 .. Len(w.bytes)
  /\ \/ wire' = wire \o SubSeq(w.bytes, 1, k)
     \/ w.moved /\ wire' = wire \o [i \in 1 .. k |-> Garbage]
  /\ outbox' = Taken(outbox, w, k)
  /\ UNCHANGED queued

(* The completion handler runs with the number of bytes taken.             *)
WriteHandler(w) ==
  /\ w.sent > 0
  /\ outbox' = WriteDone(outbox, w, w.sent)
  /\ UNCHANGED <<queued, wire>>

(* The write fails: the same handler runs with an error and no bytes.      *)
WriteFails(w) ==
  /\ w.sent = 0
  /\ outbox' = WriteDone(outbox, w, 0)
  /\ UNCHANGED <<queued, wire>>

SocketStep ==
  \E w \in outbox.writes :
    \/ \E k \in 1 .. Len(w.bytes) : Transmit(w, k)
    \/ WriteFails(w)

HandlerStep == \E w \in outbox.writes : WriteHandler(w)

Next ==
  \/ \E command \in Commands, option \in Options : Negotiate(command, option)
  \/ SocketStep
  \/ HandlerStep

Spec == Init /\ [][Next]_vars

(* The operating system ends every write, with bytes or with an error, and *)
(* the io_context runs the handler of every write that has ended.          *)
FairSpec == Spec /\ WF_vars(SocketStep) /\ WF_vars(HandlerStep)

-----------------------------------------------------------------------------
(* The pump has stopped for good.                                          *)
Stalled == IsStalled(outbox)

(* At most one async_write_some is outstanding, however calls of           *)
(* sendNegotiate and completions interleave: boost forbids overlapping     *)
(* writes on one stream, and isWriting is there to prevent them.           *)
OneWrite == \A v, w \in outbox.writes : v = w

(* No byte sits in the outbox of a pump that believes it is idle: nothing  *)
(* but the next call of send() would ever look at it.                      *)
NothingWaitsIdle == ~outbox.isWriting => outbox.data = << >>

(* The client is given the queued bytes in order, none twice and none left *)
(* out; a byte may only be wrong where a write read storage that prepare() *)
(* had moved under it.                                                     *)
WireInOrder ==
  /\ Len(wire) <= Len(queued)
  /\ \A i \in 1 .. Len(wire) : wire[i] \in {queued[i], Garbage}

(* The storage is never moved under a write before more bytes have been    *)
(* queued than a new streambuf holds: until then every byte is right.      *)
WireExactWithinCapacity ==
  Len(queued) <= Capacity => wire = SubSeq(queued, 1, Len(wire))

(* A stalled pump never gives the client another byte: the completion      *)
(* handler called send() with isWriting still set, and no later call gets  *)
(* past that flag.                                                         *)
StallIsFinal == [][Stalled => Stalled' /\ wire' = wire]_vars

(* A write that will not have taken everything that is readable, because   *)
(* more was queued while it was outstanding or because the socket took     *)
(* only a part, always ends in the stall: its handler finds the outbox not *)
(* empty and calls send(), which returns at once.                          *)
LeavesBytes(w) ==
  Len(outbox.data) > IF w.sent = 0 THEN Len(w.bytes) ELSE w.sent

(* A write that fails ends in the stall at once, even if nothing but its   *)
(* own bytes is queued: the handler ignores the error, finds those bytes   *)
(* still there and calls send().                                           *)
FailedWriteStalls ==
  [][\A w \in outbox.writes : WriteFails(w) => Stalled']_vars

(* So whatever a write leaves, and why ever it does, nothing sends it.     *)
UnfinishedWriteStalls ==
  /\ (\E w \in outbox.writes : LeavesBytes(w)) ~> []Stalled
  /\ FailedWriteStalls

(* The pump implements the channel that the connection's peer relies on.   *)
Channel == INSTANCE ReplyChannel
ImplementsChannel == Channel!Spec

=============================================================================
