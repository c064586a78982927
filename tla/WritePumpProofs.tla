-------------------------- MODULE WritePumpProofs ---------------------------
(***************************************************************************)
(* Safety of the write pump for every capacity, every set of commands and  *)
(* options and every bound on the bytes queued.                            *)
(***************************************************************************)
EXTENDS WritePump, SequenceTheorems, TLAPS

-----------------------------------------------------------------------------
(* The inductive invariant, as a relation between an outbox, the bytes     *)
(* queued so far and the bytes on the wire.  The readable bytes are the    *)
(* last ones queued; the only write there can be was initiated on a prefix *)
(* of them; the wire holds what has been consumed and what that write has  *)
(* taken.                                                                  *)

Box == [data : Seq(Byte), gap : Nat, room : Nat,
        isWriting : BOOLEAN, writes : SUBSET Write]

DataIsTail(box, q) ==
  /\ Len(box.data) <= Len(q)
  /\ \A i \in 1 .. Len(box.data) :
       box.data[i] = q[Len(q) - Len(box.data) + i]

WritesArePrefixes(box) ==
  /\ \A v, w \in box.writes : v = w
  /\ \A w \in box.writes :
       /\ Len(w.bytes) \in 1 .. Len(box.data)
       /\ w.sent \in 0 .. Len(w.bytes)
       /\ \A i \in 1 .. Len(w.bytes) : w.bytes[i] = box.data[i]

FlagIsRight(box) ==
  /\ box.writes # {} => box.isWriting
  /\ ~box.isWriting => box.data = << >>

WireLength(box, q, s) ==
  /\ box.writes = {} => Len(s) = Len(q) - Len(box.data)
  /\ \A w \in box.writes : Len(s) = Len(q) - Len(box.data) + w.sent

WireRight(q, s) == \A i \in 1 .. Len(s) : s[i] \in {q[i], Garbage}

(* While no more bytes have been queued than the storage holds, the bytes  *)
(* of storage add up and none has been moved or given out wrong.           *)
StorageWithin(box, q, s) ==
  Len(q) <= Capacity =>
    /\ box.room = Capacity - Len(q)
    /\ box.gap = Len(q) - Len(box.data)
    /\ \A w \in box.writes : ~w.moved
    /\ \A i \in 1 .. Len(s) : s[i] = q[i]

Consistent(box, q, s) ==
  /\ box \in Box
  /\ q \in Seq(Byte)
  /\ s \in Seq(Byte \cup {Garbage})
  /\ DataIsTail(box, q)
  /\ WritesArePrefixes(box)
  /\ FlagIsRight(box)
  /\ WireLength(box, q, s)
  /\ WireRight(q, s)
  /\ StorageWithin(box, q, s)

IInv == Consistent(outbox, queued, wire)

Message(command, option) == <<"IAC", command, option>>

-----------------------------------------------------------------------------
(* What the calls on an outbox return.                                     *)

LEMMA MessageType ==
  ASSUME NEW command \in Commands, NEW option \in Options
  PROVE  /\ Message(command, option) \in Seq(Byte)
         /\ Len(Message(command, option)) = 3
  BY DEF Message, Byte

LEMMA PrepareEffect ==
  ASSUME NEW box \in Box, NEW n \in Nat
  PROVE  /\ Prepare(box, n) \in Box
         /\ Prepare(box, n).data = box.data
         /\ Prepare(box, n).isWriting = box.isWriting
         /\ Prepare(box, n).room >= n
         /\ n <= box.room => Prepare(box, n) = box
         /\ n > box.room =>
              Prepare(box, n).writes =
                {[w EXCEPT !.moved = TRUE] : w \in box.writes}
  <1>1. \A w \in Write : [w EXCEPT !.moved = TRUE] \in Write
    BY DEF Write
  <1>2. CASE n <= box.room
    BY <1>2 DEF Prepare, Box
  <1>3. CASE n > box.room
    <2> DEFINE moved == {[w EXCEPT !.moved = TRUE] : w \in box.writes}
               room == IF n <= box.room + box.gap THEN box.room + box.gap
                                                  ELSE n
    <2>1. moved \in SUBSET Write
      BY <1>1 DEF Box
    <2>2. room \in Nat /\ room >= n
      BY DEF Box
    <2>3. Prepare(box, n) = [box EXCEPT !.gap = 0, !.room = room,
                                        !.writes = moved]
      BY <1>3 DEF Prepare, Box
    <2> HIDE DEF moved, room
    <2>4. /\ Prepare(box, n) \in Box
          /\ Prepare(box, n).data = box.data
          /\ Prepare(box, n).isWriting = box.isWriting
          /\ Prepare(box, n).room = room
          /\ Prepare(box, n).writes = moved
      <3>1. Prepare(box, n) = [data |-> box.data, gap |-> 0, room |-> room,
                               isWriting |-> box.isWriting, writes |-> moved]
        BY <2>3 DEF Box
      <3> QED BY <2>1, <2>2, <3>1 DEF Box
    <2>5. Prepare(box, n).writes
            = {[w EXCEPT !.moved = TRUE] : w \in box.writes}
      BY <2>4 DEF moved
    <2>6. ~(n <= box.room)
      BY <1>3 DEF Box
    <2> QED BY <2>2, <2>4, <2>5, <2>6
  <1> QED BY <1>2, <1>3 DEF Box

LEMMA CommitEffect ==
  ASSUME NEW box \in Box, NEW bytes \in Seq(Byte), Len(bytes) <= box.room
  PROVE  /\ Commit(box, bytes) \in Box
         /\ Commit(box, bytes).data = box.data \o bytes
         /\ Commit(box, bytes).gap = box.gap
         /\ Commit(box, bytes).room = box.room - Len(bytes)
         /\ Commit(box, bytes).isWriting = box.isWriting
         /\ Commit(box, bytes).writes = box.writes
  <1>1. box.room - Len(bytes) \in Nat
    BY DEF Box
  <1>2. box.data \o bytes \in Seq(Byte)
    BY DEF Box
  <1> QED BY <1>1, <1>2 DEF Commit, Box

LEMMA SendEffect ==
  ASSUME NEW box \in Box
  PROVE  /\ Send(box) \in Box
         /\ Send(box).data = box.data
         /\ Send(box).gap = box.gap
         /\ Send(box).room = box.room
         /\ Send(box).isWriting = (box.isWriting \/ box.data # << >>)
         /\ Send(box).writes =
              IF ~box.isWriting /\ box.data # << >>
              THEN box.writes \cup {[bytes |-> box.data, sent |-> 0,
                                     moved |-> FALSE]}
              ELSE box.writes
  <1> DEFINE write == [bytes |-> box.data, sent |-> 0, moved |-> FALSE]
  <1>1. write \in Write
    BY DEF Box, Write
  <1>2. CASE ~box.isWriting /\ box.data # << >>
    <2>1. Send(box) = [box EXCEPT !.isWriting = TRUE,
                                  !.writes = @ \cup {write}]
      BY <1>2 DEF Send, StartWrite
    <2> HIDE DEF write
    <2>2. /\ Send(box) \in Box
          /\ Send(box).data = box.data
          /\ Send(box).gap = box.gap
          /\ Send(box).room = box.room
          /\ Send(box).isWriting = TRUE
          /\ Send(box).writes = box.writes \cup {write}
      BY <1>1, <2>1 DEF Box
    <2> QED BY <1>2, <2>2 DEF write
  <1>3. CASE ~(~box.isWriting /\ box.data # << >>)
    <2>1. Send(box) = box
      BY <1>3 DEF Send
    <2>2. box.isWriting \in BOOLEAN
      BY DEF Box
    <2> QED BY <1>3, <2>1, <2>2
  <1> QED BY <1>2, <1>3

LEMMA ConsumeEffect ==
  ASSUME NEW box \in Box, NEW n \in 0 .. Len(box.data)
  PROVE  /\ Consume(box, n) \in Box
         /\ Consume(box, n).data = SubSeq(box.data, n + 1, Len(box.data))
         /\ Len(Consume(box, n).data) = Len(box.data) - n
         /\ \A i \in 1 .. Len(box.data) - n :
              Consume(box, n).data[i] = box.data[n + i]
         /\ Consume(box, n).gap = box.gap + n
         /\ Consume(box, n).room = box.room
         /\ Consume(box, n).isWriting = box.isWriting
         /\ Consume(box, n).writes = box.writes
  <1> DEFINE rest == SubSeq(box.data, n + 1, Len(box.data))
  <1>1. /\ box.data \in Seq(Byte) /\ Len(box.data) \in Nat /\ n \in Nat
        /\ n <= Len(box.data) /\ box.gap + n \in Nat
    BY DEF Box
  <1>2. /\ rest \in Seq(Byte)
        /\ Len(rest) = Len(box.data) - n
        /\ \A i \in 1 .. Len(box.data) - n : rest[i] = box.data[n + i]
    <2>1. \A i \in n + 1 .. Len(box.data) : box.data[i] \in Byte
      BY <1>1, ElementOfSeq
    <2> QED BY <1>1, <2>1, SubSeqProperties
  <1> QED BY <1>1, <1>2 DEF Consume, Box

-----------------------------------------------------------------------------
(* The invariant holds at first and every step keeps it.                   *)

LEMMA InitConsistent == Consistent(NewOutbox, << >>, << >>)
  <1>1. NewOutbox \in Box
    BY CapacityAssumption DEF NewOutbox, Box
  <1> QED BY <1>1, CapacityAssumption
      DEF Consistent, NewOutbox, DataIsTail, WritesArePrefixes,
          FlagIsRight, WireLength, WireRight, StorageWithin

(* The lengths of the sequences, and what they say of one another.         *)
LEMMA Lengths ==
  ASSUME NEW box, NEW q, NEW s, Consistent(box, q, s)
  PROVE  /\ Len(box.data) \in Nat /\ Len(q) \in Nat /\ Len(s) \in Nat
         /\ Len(box.data) <= Len(q)
         /\ Len(s) <= Len(q)
         /\ \A w \in box.writes : Len(w.bytes) \in Nat /\ w.sent \in Nat
  <1>1. /\ box.data \in Seq(Byte) /\ q \in Seq(Byte)
        /\ s \in Seq(Byte \cup {Garbage})
        /\ box.writes \in SUBSET Write
    BY DEF Consistent, Box
  <1>2. Len(box.data) \in Nat /\ Len(q) \in Nat /\ Len(s) \in Nat
    BY <1>1, LenProperties
  <1>3. Len(box.data) <= Len(q)
    BY DEF Consistent, DataIsTail
  <1>4. \A w \in box.writes : Len(w.bytes) \in Nat /\ w.sent \in Nat
    BY <1>1, LenProperties DEF Write
  <1>5. CASE box.writes = {}
    BY <1>2, <1>3, <1>4, <1>5 DEF Consistent, WireLength
  <1>6. ASSUME NEW w \in box.writes
        PROVE  Len(s) <= Len(q)
    <2>1. /\ Len(w.bytes) \in 1 .. Len(box.data)
          /\ w.sent \in 0 .. Len(w.bytes)
      BY DEF Consistent, WritesArePrefixes
    <2>2. Len(s) = Len(q) - Len(box.data) + w.sent
      BY DEF Consistent, WireLength
    <2> QED BY <1>2, <1>4, <2>1, <2>2
  <1> QED BY <1>2, <1>3, <1>4, <1>5, <1>6

(* What sendNegotiate leaves behind, in the two cases of its call of send. *)
LEMMA Append3 ==
  ASSUME NEW S, NEW s \in Seq(S), NEW msg \in Seq(S), Len(msg) = 3
  PROVE  /\ s \o msg \in Seq(S)
         /\ Len(s) \in Nat
         /\ Len(s \o msg) = Len(s) + 3
         /\ \A i \in 1 .. Len(s) : (s \o msg)[i] = s[i]
         /\ \A i \in 1 .. 3 : (s \o msg)[Len(s) + i] = msg[i]
  <1>1. /\ s \o msg \in Seq(S)
        /\ Len(s \o msg) = Len(s) + Len(msg)
        /\ \A i \in 1 .. Len(s) + Len(msg) :
             (s \o msg)[i] = IF i <= Len(s) THEN s[i] ELSE msg[i - Len(s)]
    BY ConcatProperties
  <1>2. Len(s) \in Nat
    BY LenProperties
  <1>3. ASSUME NEW i \in 1 .. 3
        PROVE  (s \o msg)[Len(s) + i] = msg[i]
    <2>1. /\ Len(s) + i \in 1 .. Len(s) + Len(msg)
          /\ ~(Len(s) + i <= Len(s))
          /\ (Len(s) + i) - Len(s) = i
      BY <1>2
    <2> QED BY <1>1, <2>1
  <1> QED BY <1>1, <1>2, <1>3

LEMMA NegotiateEffect ==
  ASSUME NEW box \in Box, NEW command \in Commands, NEW option \in Options
  PROVE  LET msg == Message(command, option)
             new == SendNegotiate(box, command, option)
         IN  /\ new \in Box
             /\ new.data = box.data \o msg
             /\ new.isWriting = TRUE
             /\ box.room >= 3 => new.room = box.room - 3 /\ new.gap = box.gap
             /\ box.isWriting =>
                  new.writes = IF 3 <= box.room THEN box.writes
                               ELSE {[w EXCEPT !.moved = TRUE] : w \in box.writes}
             /\ ~box.isWriting /\ box.writes = {} =>
                  new.writes = {[bytes |-> box.data \o msg, sent |-> 0,
                                 moved |-> FALSE]}
  <1> DEFINE msg == Message(command, option)
             ready == Prepare(box, 3)
             filled == Commit(ready, msg)
             new == SendNegotiate(box, command, option)
             fresh == [bytes |-> box.data \o msg, sent |-> 0, moved |-> FALSE]
             shifted == {[w EXCEPT !.moved = TRUE] : w \in box.writes}
  <1>1. msg \in Seq(Byte) /\ Len(msg) = 3
    BY MessageType
  <1>2. new = Send(filled)
    BY DEF SendNegotiate, Message
  <1>3. /\ ready \in Box /\ ready.data = box.data
        /\ ready.isWriting = box.isWriting
        /\ ready.room >= 3
        /\ 3 <= box.room => ready = box
        /\ 3 > box.room => ready.writes = shifted
    BY PrepareEffect
  <1>4. box.writes = {} => shifted = {}
    OBVIOUS
  <1>5. box.room \in Nat /\ box.isWriting \in BOOLEAN /\ box.data \in Seq(Byte)
    BY DEF Box
  <1> HIDE DEF msg, ready, shifted, new
  <1>6. /\ filled \in Box /\ filled.data = box.data \o msg
        /\ filled.room = ready.room - 3 /\ filled.gap = ready.gap
        /\ filled.isWriting = box.isWriting
        /\ filled.writes = ready.writes
    <2>1. ready \in Box /\ Len(msg) <= ready.room
      BY <1>1, <1>3
    <2>2. /\ filled \in Box /\ filled.data = ready.data \o msg
          /\ filled.room = ready.room - Len(msg) /\ filled.gap = ready.gap
          /\ filled.isWriting = ready.isWriting
          /\ filled.writes = ready.writes
      BY <1>1, <2>1, CommitEffect
    <2>3. ready.data = box.data /\ ready.isWriting = box.isWriting
      BY <1>3
    <2> HIDE DEF filled
    <2> QED BY <1>1, <2>2, <2>3
  <1>7. box.data \o msg # << >>
    <2>1. /\ Len(box.data) \in Nat
          /\ Len(box.data \o msg) = Len(box.data) + 3
      BY <1>1, <1>5, Append3
    <2>2. Len(box.data \o msg) # 0
      BY <2>1
    <2>3. Len(<< >>) = 0
      OBVIOUS
    <2> QED BY <2>2, <2>3, Zenon
  <1> HIDE DEF filled
  <1>8. /\ new \in Box /\ new.data = box.data \o msg
        /\ new.gap = ready.gap /\ new.room = ready.room - 3
        /\ new.isWriting = TRUE
        /\ box.isWriting => new.writes = ready.writes
        /\ ~box.isWriting => new.writes = ready.writes \cup {fresh}
    BY <1>2, <1>5, <1>6, <1>7, SendEffect
  <1>9. ready.writes = IF 3 <= box.room THEN box.writes ELSE shifted
    BY <1>3, <1>5
  <1> HIDE DEF fresh
  <1>10. box.writes = {} => ready.writes = {}
    BY <1>4, <1>9
  <1>11. /\ box.isWriting =>
              new.writes = IF 3 <= box.room THEN box.writes ELSE shifted
         /\ ~box.isWriting /\ box.writes = {} => new.writes = {fresh}
    BY <1>8, <1>9, <1>10
  <1>12. box.room >= 3 => new.room = box.room - 3 /\ new.gap = box.gap
    BY <1>3, <1>5, <1>8
  <1> QED BY <1>8, <1>11, <1>12 DEF msg, shifted, new, fresh

(* Appending the same bytes to the outbox and to the queue.                *)
LEMMA NegotiateConsistent ==
  ASSUME NEW box, NEW q, NEW s, Consistent(box, q, s),
         NEW command \in Commands, NEW option \in Options
  PROVE  Consistent(SendNegotiate(box, command, option),
                    q \o Message(command, option), s)
  <1> DEFINE msg == Message(command, option)
             new == SendNegotiate(box, command, option)
             long == q \o msg
             shifted == {[w EXCEPT !.moved = TRUE] : w \in box.writes}
  <1>1. /\ box \in Box /\ q \in Seq(Byte) /\ s \in Seq(Byte \cup {Garbage})
        /\ box.data \in Seq(Byte) /\ box.room \in Nat /\ box.gap \in Nat
        /\ box.isWriting \in BOOLEAN /\ box.writes \in SUBSET Write
    BY DEF Consistent, Box
  <1>2. msg \in Seq(Byte) /\ Len(msg) = 3
    BY MessageType
  <1>3. /\ new \in Box /\ new.data = box.data \o msg
        /\ new.isWriting = TRUE
        /\ box.room >= 3 => new.room = box.room - 3 /\ new.gap = box.gap
        /\ box.isWriting => new.writes = IF 3 <= box.room THEN box.writes
                                                          ELSE shifted
        /\ ~box.isWriting /\ box.writes = {} =>
             new.writes = {[bytes |-> box.data \o msg, sent |-> 0,
                            moved |-> FALSE]}
    BY <1>1, NegotiateEffect
  <1>4. ~box.isWriting => box.writes = {} /\ box.data = << >>
    BY <1>1 DEF Consistent, FlagIsRight
  <1>5. ASSUME NEW w \in box.writes
        PROVE  LET v == [w EXCEPT !.moved = TRUE]
               IN  v.bytes = w.bytes /\ v.sent = w.sent
    BY <1>1 DEF Write
  <1>6. box.isWriting =>
          \A v \in new.writes : \E w \in box.writes :
            v.bytes = w.bytes /\ v.sent = w.sent
    <2>1. \A v \in shifted : \E w \in box.writes :
            v.bytes = w.bytes /\ v.sent = w.sent
      BY <1>5
    <2> QED BY <1>3, <2>1
  <1>7. box.isWriting => \A v, w \in new.writes : v = w
    <2>1. \A v, w \in box.writes : v = w
      BY DEF Consistent, WritesArePrefixes
    <2>2. \A v, w \in shifted : v = w
      BY <2>1
    <2> QED BY <1>3, <2>1, <2>2
  <1>8. box.isWriting /\ new.writes = {} => box.writes = {}
    <2>1. shifted = {} => box.writes = {}
      OBVIOUS
    <2> QED BY <1>3, <2>1
  <1>9. 3 <= box.room /\ box.isWriting => new.writes = box.writes
    BY <1>3
  <1>10. /\ Len(box.data) \in Nat /\ Len(q) \in Nat /\ Len(s) \in Nat
         /\ Len(box.data) <= Len(q)
         /\ Len(s) <= Len(q)
    BY Lengths
  <1>11. /\ new.data \in Seq(Byte)
         /\ Len(new.data) = Len(box.data) + 3
         /\ \A i \in 1 .. Len(box.data) : new.data[i] = box.data[i]
         /\ \A i \in 1 .. 3 : new.data[Len(box.data) + i] = msg[i]
    <2>1. new.data = box.data \o msg
      BY <1>3
    <2>2. /\ box.data \o msg \in Seq(Byte)
          /\ Len(box.data \o msg) = Len(box.data) + 3
          /\ \A i \in 1 .. Len(box.data) :
               (box.data \o msg)[i] = box.data[i]
          /\ \A i \in 1 .. 3 : (box.data \o msg)[Len(box.data) + i] = msg[i]
      <3> HIDE DEF msg
      <3> QED BY <1>1, <1>2, Append3
    <2> HIDE DEF new, msg
    <2> QED BY <2>1, <2>2, Zenon
  <1>12. /\ long \in Seq(Byte)
         /\ Len(long) = Len(q) + 3
         /\ \A i \in 1 .. Len(q) : long[i] = q[i]
         /\ \A i \in 1 .. 3 : long[Len(q) + i] = msg[i]
    BY <1>1, <1>2, Append3
  <1>11a. Len(new.data) = Len(box.data) + 3 /\ Len(long) = Len(q) + 3
    BY <1>11, <1>12
  <1>13. ~box.isWriting =>
           new.writes = {[bytes |-> new.data, sent |-> 0, moved |-> FALSE]}
    BY <1>3, <1>4
  <1> HIDE DEF new, long, msg, shifted
  <1>14. DataIsTail(new, long)
    <2>1. /\ Len(box.data) <= Len(q)
          /\ \A i \in 1 .. Len(box.data) :
               box.data[i] = q[Len(q) - Len(box.data) + i]
      BY DEF Consistent, DataIsTail
    <2>2. ASSUME NEW i \in 1 .. Len(new.data)
          PROVE  new.data[i] = long[Len(long) - Len(new.data) + i]
      <3>1. Len(long) - Len(new.data) = Len(q) - Len(box.data)
        BY <1>10, <1>11a
      <3>2. CASE i <= Len(box.data)
        <4>1. /\ i \in 1 .. Len(box.data)
              /\ Len(q) - Len(box.data) + i \in 1 .. Len(q)
          BY <1>10, <3>2
        <4>2. new.data[i] = box.data[i]
          BY <1>11, <4>1, Zenon
        <4>3. box.data[i] = q[Len(q) - Len(box.data) + i]
          BY <2>1, <4>1, Zenon
        <4>4. long[Len(q) - Len(box.data) + i]
                = q[Len(q) - Len(box.data) + i]
          BY <1>12, <4>1, Zenon
        <4> QED BY <3>1, <4>2, <4>3, <4>4, Zenon
      <3>3. CASE i > Len(box.data)
        <4> DEFINE j == i - Len(box.data)
        <4>1. /\ j \in 1 .. 3 /\ i = Len(box.data) + j
              /\ Len(q) - Len(box.data) + i = Len(q) + j
          BY <1>10, <1>11a, <3>3
        <4> HIDE DEF j
        <4>2. Len(long) - Len(new.data) + i = Len(q) + j
          BY <3>1, <4>1
        <4>3. new.data[Len(box.data) + j] = long[Len(q) + j]
          BY <1>11, <1>12, <4>1
        <4> QED BY <4>1, <4>2, <4>3, Zenon
      <3>4. i <= Len(box.data) \/ i > Len(box.data)
        BY <1>10, <1>11a
      <3> QED BY <3>2, <3>3, <3>4, Zenon
    <2>3. Len(new.data) <= Len(long)
      BY <1>10, <1>11a
    <2> QED BY <2>2, <2>3, Zenon DEF DataIsTail
  <1>15. WritesArePrefixes(new)
    <2>1. CASE box.isWriting
      <3> SUFFICES ASSUME NEW v \in new.writes
                   PROVE  /\ Len(v.bytes) \in 1 .. Len(new.data)
                          /\ v.sent \in 0 .. Len(v.bytes)
                          /\ \A i \in 1 .. Len(v.bytes) :
                               v.bytes[i] = new.data[i]
        BY <1>7, <2>1 DEF WritesArePrefixes
      <3>1. PICK w \in box.writes : v.bytes = w.bytes /\ v.sent = w.sent
        BY <1>6, <2>1
      <3>2. /\ Len(w.bytes) \in 1 .. Len(box.data)
            /\ w.sent \in 0 .. Len(w.bytes)
            /\ \A i \in 1 .. Len(w.bytes) : w.bytes[i] = box.data[i]
        BY DEF Consistent, WritesArePrefixes
      <3>3. /\ Len(v.bytes) \in 1 .. Len(new.data)
            /\ v.sent \in 0 .. Len(v.bytes)
            /\ Len(v.bytes) <= Len(box.data)
        BY <1>10, <1>11a, <3>1, <3>2
      <3>4. ASSUME NEW i \in 1 .. Len(v.bytes)
            PROVE  v.bytes[i] = new.data[i]
        <4>1. i \in 1 .. Len(box.data) /\ i \in 1 .. Len(w.bytes)
          BY <1>10, <3>1, <3>2, <3>3
        <4> QED BY <1>11, <3>1, <3>2, <4>1
      <3> QED BY <3>3, <3>4
    <2>2. CASE ~box.isWriting
      <3> DEFINE fresh == [bytes |-> new.data, sent |-> 0, moved |-> FALSE]
      <3>1. fresh.bytes = new.data /\ fresh.sent = 0
        OBVIOUS
      <3>2. new.writes = {fresh}
        BY <1>13, <2>2
      <3> HIDE DEF fresh
      <3>3. /\ Len(fresh.bytes) \in 1 .. Len(new.data)
            /\ fresh.sent \in 0 .. Len(fresh.bytes)
        BY <1>10, <1>11a, <3>1
      <3>4. \A i \in 1 .. Len(fresh.bytes) : fresh.bytes[i] = new.data[i]
        BY <3>1
      <3> QED BY <3>2, <3>3, <3>4 DEF WritesArePrefixes
    <2> QED BY <2>1, <2>2
  <1>16. FlagIsRight(new)
    BY <1>3 DEF FlagIsRight
  <1>17. WireLength(new, long, s)
    <2>1. Len(long) - Len(new.data) = Len(q) - Len(box.data)
      BY <1>10, <1>11a
    <2>2. /\ box.writes = {} => Len(s) = Len(q) - Len(box.data)
          /\ \A w \in box.writes :
               Len(s) = Len(q) - Len(box.data) + w.sent
      BY DEF Consistent, WireLength
    <2>3. CASE box.isWriting
      BY <1>6, <1>8, <2>1, <2>2, <2>3 DEF WireLength
    <2>4. CASE ~box.isWriting
      BY <1>4, <1>10, <1>13, <2>1, <2>2, <2>4 DEF WireLength
    <2> QED BY <2>3, <2>4
  <1>18. WireRight(long, s)
    BY <1>10, <1>12 DEF Consistent, WireRight
  <1>19. StorageWithin(new, long, s)
    <2> SUFFICES ASSUME Len(long) <= Capacity
                 PROVE  /\ new.room = Capacity - Len(long)
                        /\ new.gap = Len(long) - Len(new.data)
                        /\ \A w \in new.writes : ~w.moved
                        /\ \A i \in 1 .. Len(s) : s[i] = long[i]
      BY DEF StorageWithin
    <2>1. /\ box.room = Capacity - Len(q)
          /\ box.gap = Len(q) - Len(box.data)
          /\ \A w \in box.writes : ~w.moved
          /\ \A i \in 1 .. Len(s) : s[i] = q[i]
      BY <1>10, <1>11a, CapacityAssumption DEF Consistent, StorageWithin
    <2>2. box.room >= 3
      BY <1>10, <1>11a, <2>1, CapacityAssumption
    <2>3. \A w \in new.writes : ~w.moved
      BY <1>1, <1>9, <1>13, <2>1, <2>2
    <2>4. \A i \in 1 .. Len(s) : s[i] = long[i]
      BY <1>10, <1>12, <2>1
    <2>5. /\ new.room = Capacity - Len(long)
          /\ new.gap = Len(long) - Len(new.data)
      <3>1. new.room = box.room - 3 /\ new.gap = box.gap
        BY <1>3, <2>2
      <3> QED BY <1>10, <1>11a, <2>1, <3>1, CapacityAssumption
    <2> QED BY <2>3, <2>4, <2>5
  <1>20. Consistent(new, long, s)
    BY <1>1, <1>3, <1>12, <1>14, <1>15, <1>16, <1>17, <1>18, <1>19
       DEF Consistent
  <1> QED BY <1>20 DEF new, long, msg

LEMMA TransmitConsistent ==
  ASSUME NEW box, NEW q, NEW s, Consistent(box, q, s),
         NEW w \in box.writes, w.sent = 0,
         NEW k \in 1 .. Len(w.bytes),
         NEW t \in Seq(Byte \cup {Garbage}), Len(t) = k,
         \A i \in 1 .. k : t[i] \in {w.bytes[i], Garbage},
         ~w.moved => \A i \in 1 .. k : t[i] = w.bytes[i]
  PROVE  Consistent(Taken(box, w, k), q, s \o t)
  <1> DEFINE new == Taken(box, w, k)
             taken == [w EXCEPT !.sent = k]
             line == s \o t
  <1>1. /\ box \in Box /\ q \in Seq(Byte) /\ s \in Seq(Byte \cup {Garbage})
        /\ box.data \in Seq(Byte) /\ box.room \in Nat /\ box.gap \in Nat
        /\ box.isWriting \in BOOLEAN /\ box.writes \in SUBSET Write
        /\ w \in Write
    BY DEF Consistent, Box
  <1>2. /\ Len(box.data) \in Nat /\ Len(q) \in Nat /\ Len(s) \in Nat
        /\ Len(box.data) <= Len(q) /\ Len(s) <= Len(q)
        /\ Len(w.bytes) \in Nat /\ k \in Nat
    BY Lengths
  <1>3. /\ taken \in Write /\ taken.bytes = w.bytes /\ taken.sent = k
        /\ taken.moved = w.moved
    BY <1>1, <1>2 DEF Write
  <1>4. \A v \in box.writes : v = w
    BY DEF Consistent, WritesArePrefixes
  <1> HIDE DEF taken
  <1>5. (box.writes \ {w}) \cup {taken} = {taken}
    BY <1>4
  <1>6. new = [box EXCEPT !.writes = {taken}]
    BY <1>5 DEF Taken, taken
  <1>7. /\ new \in Box /\ new.data = box.data /\ new.gap = box.gap
        /\ new.room = box.room /\ new.isWriting = box.isWriting
        /\ new.writes = {taken}
    BY <1>1, <1>3, <1>6 DEF Box
  <1>8. /\ line \in Seq(Byte \cup {Garbage})
        /\ Len(line) = Len(s) + k
        /\ \A i \in 1 .. Len(s) + k :
             line[i] = IF i <= Len(s) THEN s[i] ELSE t[i - Len(s)]
    <2>1. /\ line \in Seq(Byte \cup {Garbage})
          /\ Len(line) = Len(s) + Len(t)
          /\ \A i \in 1 .. Len(s) + Len(t) :
               line[i] = IF i <= Len(s) THEN s[i] ELSE t[i - Len(s)]
      BY <1>1, ConcatProperties
    <2> QED BY <2>1
  <1> HIDE DEF new, line
  <1>9. /\ Len(w.bytes) \in 1 .. Len(box.data)
        /\ \A i \in 1 .. Len(w.bytes) : w.bytes[i] = box.data[i]
    BY DEF Consistent, WritesArePrefixes
  <1>10. Len(s) = Len(q) - Len(box.data)
    <2>1. Len(s) = Len(q) - Len(box.data) + w.sent
      BY DEF Consistent, WireLength
    <2> QED BY <1>2, <2>1
  (* What the socket has just taken continues the queue where the wire ends. *)
  <1>11. \A j \in 1 .. k : w.bytes[j] = q[Len(s) + j]
    <2>1. \A i \in 1 .. Len(box.data) :
            box.data[i] = q[Len(q) - Len(box.data) + i]
      BY DEF Consistent, DataIsTail
    <2>2. \A j \in 1 .. k : j \in 1 .. Len(w.bytes) /\ j \in 1 .. Len(box.data)
      BY <1>2, <1>9
    <2> QED BY <1>9, <1>10, <2>1, <2>2
  <1>12. DataIsTail(new, q)
    BY <1>7 DEF Consistent, DataIsTail
  <1>13. WritesArePrefixes(new)
    <2>1. taken.sent \in 0 .. Len(taken.bytes)
      BY <1>2, <1>3
    <2> QED BY <1>3, <1>7, <1>9, <2>1 DEF WritesArePrefixes
  <1>14. FlagIsRight(new)
    BY <1>7 DEF Consistent, FlagIsRight
  <1>15. WireLength(new, q, line)
    <2>1. Len(line) = Len(q) - Len(new.data) + taken.sent
      BY <1>2, <1>3, <1>7, <1>8, <1>10
    <2> QED BY <1>7, <2>1 DEF WireLength
  <1>16. WireRight(q, line)
    <2> SUFFICES ASSUME NEW i \in 1 .. Len(line)
                 PROVE  line[i] \in {q[i], Garbage}
      BY DEF WireRight
    <2>1. CASE i <= Len(s)
      BY <1>2, <1>8, <2>1 DEF Consistent, WireRight
    <2>2. CASE i > Len(s)
      <3> DEFINE j == i - Len(s)
      <3>1. j \in 1 .. k /\ i = Len(s) + j /\ ~(i <= Len(s))
        BY <1>2, <1>8, <2>2
      <3>2. line[i] = t[j]
        BY <1>8, <3>1
      <3> HIDE DEF j
      <3>3. t[j] \in {q[Len(s) + j], Garbage}
        BY <1>11, <3>1
      <3> QED BY <3>1, <3>2, <3>3, Zenon
    <2>3. i <= Len(s) \/ i > Len(s)
      BY <1>2, <1>8
    <2> QED BY <2>1, <2>2, <2>3, Zenon
  <1>17. StorageWithin(new, q, line)
    <2> SUFFICES ASSUME Len(q) <= Capacity
                 PROVE  /\ new.room = Capacity - Len(q)
                        /\ new.gap = Len(q) - Len(new.data)
                        /\ \A v \in new.writes : ~v.moved
                        /\ \A i \in 1 .. Len(line) : line[i] = q[i]
      BY DEF StorageWithin
    <2>1. /\ box.room = Capacity - Len(q)
          /\ box.gap = Len(q) - Len(box.data)
          /\ \A v \in box.writes : ~v.moved
          /\ \A i \in 1 .. Len(s) : s[i] = q[i]
      BY DEF Consistent, StorageWithin
    <2>2. ~w.moved
      BY <2>1
    <2>3. ASSUME NEW i \in 1 .. Len(line)
          PROVE  line[i] = q[i]
      <3>1. CASE i <= Len(s)
        BY <1>2, <1>8, <2>1, <3>1
      <3>2. CASE i > Len(s)
        <4> DEFINE j == i - Len(s)
        <4>1. j \in 1 .. k /\ i = Len(s) + j /\ ~(i <= Len(s))
          BY <1>2, <1>8, <3>2
        <4>2. line[i] = t[j]
          BY <1>8, <4>1
        <4> HIDE DEF j
        <4>3. t[j] = q[Len(s) + j]
          BY <1>11, <2>2, <4>1
        <4> QED BY <4>1, <4>2, <4>3, Zenon
      <3>3. i <= Len(s) \/ i > Len(s)
        BY <1>2, <1>8
      <3> QED BY <3>1, <3>2, <3>3, Zenon
    <2> QED BY <1>3, <1>7, <2>1, <2>2, <2>3
  <1>18. Consistent(new, q, line)
    BY <1>1, <1>7, <1>8, <1>12, <1>13, <1>14, <1>15, <1>16, <1>17
       DEF Consistent
  <1> QED BY <1>18 DEF new, line

(* The handler is given the number of bytes that its write took.  It       *)
(* always leaves no write outstanding: either the outbox is empty and the  *)
(* flag is cleared, or the flag is still set and send() does nothing.      *)
LEMMA WriteDoneEffect ==
  ASSUME NEW box, NEW q, NEW s, Consistent(box, q, s), NEW w \in box.writes
  PROVE  LET new == WriteDone(box, w, w.sent)
         IN  /\ new \in Box
             /\ Len(new.data) = Len(box.data) - w.sent
             /\ \A i \in 1 .. Len(box.data) - w.sent :
                  new.data[i] = box.data[w.sent + i]
             /\ new.gap = box.gap + w.sent
             /\ new.room = box.room
             /\ new.isWriting = (new.data # << >>)
             /\ new.writes = {}
  <1> DEFINE n == w.sent
             ended == [box EXCEPT !.writes = @ \ {w}]
             left == Consume(ended, n)
             new == WriteDone(box, w, n)
  <1>1. /\ box \in Box /\ box.data \in Seq(Byte)
        /\ box.writes \in SUBSET Write /\ box.isWriting = TRUE
    BY DEF Consistent, Box, FlagIsRight
  <1>2. n \in 0 .. Len(box.data)
    <2>1. Len(w.bytes) \in 1 .. Len(box.data) /\ n \in 0 .. Len(w.bytes)
      BY DEF Consistent, WritesArePrefixes
    <2>2. Len(box.data) \in Nat
      BY Lengths
    <2> QED BY <2>1, <2>2
  <1> HIDE DEF n
  <1>3. box.writes \ {w} = {}
    BY DEF Consistent, WritesArePrefixes
  <1>4. /\ ended \in Box /\ ended.data = box.data /\ ended.gap = box.gap
        /\ ended.room = box.room /\ ended.isWriting = TRUE
        /\ ended.writes = {}
    BY <1>1, <1>3 DEF Box
  <1> HIDE DEF ended
  <1>5. /\ left \in Box
        /\ Len(left.data) = Len(box.data) - n
        /\ \A i \in 1 .. Len(box.data) - n : left.data[i] = box.data[n + i]
        /\ left.gap = box.gap + n /\ left.room = box.room
        /\ left.isWriting = TRUE /\ left.writes = {}
    <2>1. n \in 0 .. Len(ended.data)
      BY <1>2, <1>4
    <2>2. /\ left \in Box
          /\ Len(left.data) = Len(ended.data) - n
          /\ \A i \in 1 .. Len(ended.data) - n :
               left.data[i] = ended.data[n + i]
          /\ left.gap = ended.gap + n /\ left.room = ended.room
          /\ left.isWriting = ended.isWriting /\ left.writes = ended.writes
      BY <1>4, <2>1, ConsumeEffect
    <2> HIDE DEF left
    <2> QED BY <1>4, <2>2
  <1>6. new = IF left.data # << >> THEN Send(left)
                                   ELSE [left EXCEPT !.isWriting = FALSE]
    BY DEF WriteDone, ended
  <1> HIDE DEF left, new
  <1>7. /\ new \in Box /\ new.data = left.data /\ new.gap = left.gap
        /\ new.room = left.room /\ new.writes = {}
        /\ new.isWriting = (left.data # << >>)
    <2>1. CASE left.data # << >>
      <3>1. new = left
        BY <1>5, <1>6, <2>1 DEF Send
      <3> QED BY <1>5, <2>1, <3>1
    <2>2. CASE left.data = << >>
      <3>1. new = [left EXCEPT !.isWriting = FALSE]
        BY <1>6, <2>2
      <3>2. /\ new \in Box /\ new.data = left.data /\ new.gap = left.gap
            /\ new.room = left.room /\ new.writes = left.writes
            /\ new.isWriting = FALSE
        BY <1>5, <3>1 DEF Box
      <3> QED BY <1>5, <2>2, <3>2
    <2> QED BY <2>1, <2>2
  <1>8. /\ Len(new.data) = Len(box.data) - n
        /\ \A i \in 1 .. Len(box.data) - n : new.data[i] = box.data[n + i]
        /\ new.gap = box.gap + n /\ new.room = box.room
        /\ new.isWriting = (new.data # << >>)
    BY <1>5, <1>7
  <1> QED BY <1>7, <1>8 DEF new, n

LEMMA WriteDoneConsistent ==
  ASSUME NEW box, NEW q, NEW s, Consistent(box, q, s), NEW w \in box.writes
  PROVE  Consistent(WriteDone(box, w, w.sent), q, s)
  <1> DEFINE n == w.sent
             new == WriteDone(box, w, n)
  <1>1. /\ new \in Box
        /\ Len(new.data) = Len(box.data) - n
        /\ \A i \in 1 .. Len(box.data) - n : new.data[i] = box.data[n + i]
        /\ new.gap = box.gap + n
        /\ new.room = box.room
        /\ new.isWriting = (new.data # << >>)
        /\ new.writes = {}
    BY WriteDoneEffect, Zenon
  <1>2. /\ Len(box.data) \in Nat /\ Len(q) \in Nat /\ Len(s) \in Nat
        /\ Len(box.data) <= Len(q)
        /\ n \in Nat /\ n <= Len(box.data)
    <2>1. Len(w.bytes) \in 1 .. Len(box.data) /\ n \in 0 .. Len(w.bytes)
      BY DEF Consistent, WritesArePrefixes
    <2> QED BY <2>1, Lengths
  <1>3. Len(s) = Len(q) - Len(box.data) + n
    BY DEF Consistent, WireLength
  <1>4. box.gap \in Nat /\ box.room \in Nat
    BY DEF Consistent, Box
  <1> HIDE DEF new, n
  <1>5. DataIsTail(new, q)
    <2>1. \A i \in 1 .. Len(box.data) :
            box.data[i] = q[Len(q) - Len(box.data) + i]
      BY DEF Consistent, DataIsTail
    <2>2. Len(new.data) <= Len(q)
      BY <1>1, <1>2
    <2>3. ASSUME NEW i \in 1 .. Len(new.data)
          PROVE  new.data[i] = q[Len(q) - Len(new.data) + i]
      <3>1. /\ n + i \in 1 .. Len(box.data)
            /\ i \in 1 .. Len(box.data) - n
            /\ Len(q) - Len(new.data) + i = Len(q) - Len(box.data) + (n + i)
        BY <1>1, <1>2
      <3>2. new.data[i] = box.data[n + i]
        BY <1>1, <3>1
      <3>3. box.data[n + i] = q[Len(q) - Len(box.data) + (n + i)]
        BY <2>1, <3>1
      <3> QED BY <3>1, <3>2, <3>3, Zenon
    <2> QED BY <2>2, <2>3, Zenon DEF DataIsTail
  <1>6. WritesArePrefixes(new)
    BY <1>1 DEF WritesArePrefixes
  <1>7. FlagIsRight(new)
    BY <1>1 DEF FlagIsRight
  <1>8. WireLength(new, q, s)
    <2>1. Len(s) = Len(q) - Len(new.data)
      BY <1>1, <1>2, <1>3
    <2> QED BY <1>1, <2>1 DEF WireLength
  <1>9. StorageWithin(new, q, s)
    <2> SUFFICES ASSUME Len(q) <= Capacity
                 PROVE  /\ new.room = Capacity - Len(q)
                        /\ new.gap = Len(q) - Len(new.data)
                        /\ \A i \in 1 .. Len(s) : s[i] = q[i]
      BY <1>1 DEF StorageWithin
    <2>1. /\ box.room = Capacity - Len(q)
          /\ box.gap = Len(q) - Len(box.data)
          /\ \A i \in 1 .. Len(s) : s[i] = q[i]
      BY DEF Consistent, StorageWithin
    <2> QED BY <1>1, <1>2, <1>4, <2>1
  <1>10. Consistent(new, q, s)
    BY <1>1, <1>5, <1>6, <1>7, <1>8, <1>9 DEF Consistent
  <1> QED BY <1>10 DEF new, n

-----------------------------------------------------------------------------
(* The invariant of the specification.                                     *)

LEMMA StepInvariant == IInv /\ [Next]_vars => IInv'
  <1> SUFFICES ASSUME IInv, [Next]_vars PROVE IInv'
    OBVIOUS
  <1> USE DEF IInv
  <1>1. ASSUME NEW command \in Commands, NEW option \in Options,
               Negotiate(command, option)
        PROVE  IInv'
    <2>1. /\ outbox' = SendNegotiate(outbox, command, option)
          /\ queued' = queued \o Message(command, option)
          /\ wire' = wire
      BY <1>1 DEF Negotiate, Message
    <2> QED BY <2>1, NegotiateConsistent
  <1>2. ASSUME NEW w \in outbox.writes, NEW k \in 1 .. Len(w.bytes),
               Transmit(w, k)
        PROVE  IInv'
    <2>1. /\ w.bytes \in Seq(Byte) /\ k \in Nat /\ k <= Len(w.bytes)
      <3>1. w \in Write
        BY DEF Consistent, Box
      <3> QED BY <3>1, LenProperties DEF Write
    <2>2. CASE wire' = wire \o SubSeq(w.bytes, 1, k)
      <3> DEFINE t == SubSeq(w.bytes, 1, k)
      <3>1. /\ t \in Seq(Byte) /\ Len(t) = k
            /\ \A i \in 1 .. k : t[i] = w.bytes[i]
        <4>1. \A i \in 1 .. k : w.bytes[i] \in Byte
          BY <2>1, ElementOfSeq
        <4>2. 1 <= k + 1
          BY <2>1
        <4> QED BY <2>1, <4>1, <4>2, SubSeqProperties
      <3>2. t \in Seq(Byte \cup {Garbage})
        BY <3>1, SeqMonotonic
      <3> HIDE DEF t
      <3> QED BY <1>2, <2>2, <3>1, <3>2, TransmitConsistent DEF Transmit, t
    <2>3. CASE w.moved /\ wire' = wire \o [i \in 1 .. k |-> Garbage]
      <3> DEFINE t == [i \in 1 .. k |-> Garbage]
      <3>1. /\ t \in Seq(Byte \cup {Garbage}) /\ Len(t) = k
            /\ \A i \in 1 .. k : t[i] = Garbage
        BY <2>1
      <3> HIDE DEF t
      <3> QED BY <1>2, <2>3, <3>1, TransmitConsistent DEF Transmit, t
    <2> QED BY <1>2, <2>2, <2>3 DEF Transmit
  <1>3. ASSUME NEW w \in outbox.writes, WriteHandler(w) \/ WriteFails(w)
        PROVE  IInv'
    <2>1. /\ outbox' = WriteDone(outbox, w, w.sent)
          /\ queued' = queued /\ wire' = wire
      BY <1>3 DEF WriteHandler, WriteFails
    <2> QED BY <2>1, WriteDoneConsistent
  <1>4. CASE UNCHANGED vars
    BY <1>4 DEF vars
  <1> QED BY <1>1, <1>2, <1>3, <1>4 DEF Next, SocketStep, HandlerStep

THEOREM Invariance == Spec => []IInv
  <1>1. Init => IInv
    BY InitConsistent DEF Init, IInv
  <1> QED BY <1>1, StepInvariant, PTL DEF Spec

(* Every variable of the pump keeps its type.                              *)
THEOREM TypeCorrect == Spec => []TypeOK
  <1>1. IInv => TypeOK
    BY DEF IInv, Consistent, TypeOK, Box
  <1> QED BY <1>1, Invariance, PTL

(* isWriting keeps writes from overlapping, whatever the order of calls.   *)
THEOREM WritesNeverOverlap == Spec => []OneWrite
  <1>1. IInv => OneWrite
    BY DEF IInv, Consistent, WritesArePrefixes, OneWrite
  <1> QED BY <1>1, Invariance, PTL

(* The flag is cleared only when there is nothing left to write.           *)
THEOREM IdleMeansEmpty == Spec => []NothingWaitsIdle
  <1>1. IInv => NothingWaitsIdle
    BY DEF IInv, Consistent, FlagIsRight, NothingWaitsIdle
  <1> QED BY <1>1, Invariance, PTL

(* The client's bytes are the queued ones in order, apart from those read  *)
(* from storage that was moved.                                            *)
THEOREM WireKeepsOrder == Spec => []WireInOrder
  <1>1. IInv => WireInOrder
    BY Lengths DEF IInv, Consistent, WireRight, WireInOrder
  <1> QED BY <1>1, Invariance, PTL

(* Within the first Capacity bytes no storage is moved under a write, so   *)
(* the client is given exactly the queued bytes.                           *)
THEOREM ExactWithinCapacity == Spec => []WireExactWithinCapacity
  <1>1. IInv => WireExactWithinCapacity
    <2> SUFFICES ASSUME IInv, Len(queued) <= Capacity
                 PROVE  wire = SubSeq(queued, 1, Len(wire))
      BY DEF WireExactWithinCapacity
    <2>1. \A i \in 1 .. Len(wire) : wire[i] = queued[i]
      BY DEF IInv, Consistent, StorageWithin
    <2>2. /\ queued \in Seq(Byte) /\ wire \in Seq(Byte \cup {Garbage})
          /\ Len(wire) \in Nat /\ Len(queued) \in Nat
          /\ Len(wire) <= Len(queued)
      BY Lengths DEF IInv, Consistent
    <2> DEFINE front == SubSeq(queued, 1, Len(wire))
    <2>3. /\ front \in Seq(Byte) /\ Len(front) = Len(wire)
          /\ \A i \in 1 .. Len(wire) : front[i] = queued[i]
      <3>1. \A i \in 1 .. Len(wire) : queued[i] \in Byte
        BY <2>2, ElementOfSeq
      <3> QED BY <2>2, <3>1, SubSeqProperties
    <2>4. front \in Seq(Byte \cup {Garbage})
      BY <2>3, SeqMonotonic
    <2> HIDE DEF front
    <2>5. wire = front
      BY <2>1, <2>2, <2>3, <2>4, SeqEqual
    <2> QED BY <2>5 DEF front
  <1> QED BY <1>1, Invariance, PTL

(* The stall is final: with isWriting set and no write outstanding, no     *)
(* step starts a write, clears the flag or gives the client a byte.        *)
THEOREM StallStays == Spec => StallIsFinal
  <1>1. IInv /\ [Next]_vars => [Stalled => Stalled' /\ wire' = wire]_vars
    <2> SUFFICES ASSUME IInv, Next, Stalled PROVE Stalled' /\ wire' = wire
      BY DEF Stalled, IsStalled, vars
    <2>1. outbox.writes = {} /\ outbox.isWriting
      BY DEF Stalled, IsStalled
    <2>2. PICK command \in Commands, option \in Options :
            Negotiate(command, option)
      BY <2>1 DEF Next, SocketStep, HandlerStep
    <2> DEFINE new == SendNegotiate(outbox, command, option)
    <2>3. outbox \in Box
      BY DEF IInv, Consistent
    <2>4. new.isWriting = TRUE /\ new.writes = {}
      BY <2>1, <2>3, NegotiateEffect
    <2>5. outbox' = new /\ wire' = wire
      BY <2>2 DEF Negotiate
    <2> HIDE DEF new
    <2> QED BY <2>4, <2>5 DEF Stalled, IsStalled
  <1> QED BY <1>1, Invariance, PTL DEF Spec, StallIsFinal

(* A failed write is the end of the pump: the handler ignores the error    *)
(* and finds the bytes of the write, which was started on one at least,    *)
(* still in the outbox.                                                    *)
THEOREM FailureStalls == Spec => FailedWriteStalls
  <1>1. IInv /\ [Next]_vars =>
          [\A w \in outbox.writes : WriteFails(w) => Stalled']_vars
    <2> SUFFICES ASSUME IInv, NEW w \in outbox.writes, WriteFails(w)
                 PROVE  Stalled'
      OBVIOUS
    <2> DEFINE new == WriteDone(outbox, w, w.sent)
    <2>1. w.sent = 0 /\ outbox' = new
      BY DEF WriteFails
    <2>2. Len(new.data) = Len(outbox.data) - w.sent /\ new.isWriting = (new.data # << >>)
          /\ new.writes = {}
      BY WriteDoneEffect DEF IInv
    <2>3. Len(outbox.data) \in Nat /\ Len(outbox.data) > 0
      <3>1. Len(w.bytes) \in 1 .. Len(outbox.data)
        BY DEF IInv, Consistent, WritesArePrefixes
      <3> QED BY <3>1, Lengths DEF IInv, Consistent
    <2> HIDE DEF new
    <2>4. new.data # << >>
      BY <2>1, <2>2, <2>3, EmptySeq
    <2> QED BY <2>1, <2>2, <2>4 DEF Stalled, IsStalled
  <1> QED BY <1>1, Invariance, PTL DEF Spec, FailedWriteStalls

-----------------------------------------------------------------------------
(* The refinement of ReplyChannel.                                         *)

(* What is in front of a concatenation is its beginning.                   *)
LEMMA FrontOfConcat ==
  ASSUME NEW S, NEW s \in Seq(S), NEW t \in Seq(S)
  PROVE  SubSeq(s \o t, 1, Len(s)) = s
  <1>1. /\ s \o t \in Seq(S)
        /\ \A i \in 1 .. Len(s) + Len(t) :
             (s \o t)[i] = IF i <= Len(s) THEN s[i] ELSE t[i - Len(s)]
    BY ConcatProperties
  <1>2. Len(s) \in Nat /\ Len(t) \in Nat
    BY LenProperties
  <1>3. \A i \in 1 .. Len(s) : (s \o t)[i] = s[i]
    BY <1>1, <1>2
  <1>4. \A i \in 1 .. Len(s) : (s \o t)[i] \in S
    BY <1>3, ElementOfSeq
  <1> DEFINE front == SubSeq(s \o t, 1, Len(s))
  <1>5. /\ front \in Seq(S) /\ Len(front) = Len(s)
        /\ \A i \in 1 .. Len(s) : front[i] = (s \o t)[i]
    BY <1>2, <1>4, SubSeqProperties
  <1> HIDE DEF front
  <1>6. front = s
    BY <1>3, <1>5, SeqEqual
  <1> QED BY <1>6 DEF front

(* A byte that the socket is given may arrive, as the channel has it.      *)
LEMMA ArrivesRight ==
  ASSUME NEW box, NEW q, NEW s, Consistent(box, q, s)
  PROVE  \A i \in 1 .. Len(s) :
           s[i] = q[i] \/ (Len(q) > Capacity /\ s[i] = Garbage)
  <1>1. Len(q) \in Nat /\ Capacity \in Nat
    BY Lengths, CapacityAssumption
  <1>2. Len(q) <= Capacity \/ Len(q) > Capacity
    BY <1>1
  <1> QED BY <1>2 DEF Consistent, WireRight, StorageWithin

(* Every step of the pump queues bytes, delivers the next ones, or is      *)
(* none of the channel's concern.                                          *)
LEMMA StepOfChannel ==
  ASSUME IInv, IInv', [Next]_vars
  PROVE  [Channel!Next]_Channel!vars
  <1>1. ASSUME NEW command \in Commands, NEW option \in Options,
               Negotiate(command, option)
        PROVE  Channel!Queue
    <2> DEFINE msg == Message(command, option)
    <2>1. queued' = queued \o msg /\ wire' = wire
      BY <1>1 DEF Negotiate, Message
    <2>2. msg \in Seq(Byte) /\ Len(msg) = 3 /\ queued \in Seq(Byte)
      BY MessageType DEF IInv, Consistent
    <2> HIDE DEF msg
    <2>3. Len(queued') > Len(queued)
      BY <2>1, <2>2, Append3
    <2>4. SubSeq(queued', 1, Len(queued)) = queued
      BY <2>1, <2>2, FrontOfConcat
    <2> QED BY <2>1, <2>3, <2>4 DEF Channel!Queue
  <1>2. ASSUME NEW w \in outbox.writes, NEW k \in 1 .. Len(w.bytes),
               Transmit(w, k)
        PROVE  Channel!Deliver
    <2>1. outbox \in Box /\ wire \in Seq(Byte \cup {Garbage})
      BY DEF IInv, Consistent
    <2>2. w.bytes \in Seq(Byte) /\ Len(w.bytes) \in Nat
      BY <2>1, LenProperties DEF Box, Write
    <2>3. PICK t \in Seq(Byte \cup {Garbage}) : Len(t) = k /\ wire' = wire \o t
      <3>1. CASE wire' = wire \o SubSeq(w.bytes, 1, k)
        <4>1. \A i \in 1 .. k : w.bytes[i] \in Byte \cup {Garbage}
          BY <2>2, ElementOfSeq
        <4>2. /\ SubSeq(w.bytes, 1, k) \in Seq(Byte \cup {Garbage})
              /\ Len(SubSeq(w.bytes, 1, k)) = k
          BY <2>2, <4>1, SubSeqProperties
        <4> QED BY <3>1, <4>2
      <3>2. CASE wire' = wire \o [i \in 1 .. k |-> Garbage]
        <4>1. /\ [i \in 1 .. k |-> Garbage] \in Seq(Byte \cup {Garbage})
              /\ Len([i \in 1 .. k |-> Garbage]) = k
          BY <2>2
        <4> QED BY <3>2, <4>1
      <3> QED BY <1>2, <3>1, <3>2 DEF Transmit
    <2>4. queued' = queued
      BY <1>2 DEF Transmit
    <2>5. Len(wire') \in Len(wire) + 1 .. Len(queued)
      <3>1. Len(wire') = Len(wire) + k
        BY <2>1, <2>3, ConcatProperties
      <3>2. Len(wire') <= Len(queued') /\ Len(queued') \in Nat
        BY Lengths DEF IInv
      <3>3. Len(wire) \in Nat
        BY <2>1, LenProperties
      <3> QED BY <2>2, <2>4, <3>1, <3>2, <3>3
    <2>6. SubSeq(wire', 1, Len(wire)) = wire
      BY <2>1, <2>3, FrontOfConcat
    <2>7. \A i \in Len(wire) + 1 .. Len(wire') : Channel!MayArrive(wire'[i], i)
      <3>1. \A i \in 1 .. Len(wire') :
              wire'[i] = queued'[i]
                \/ (Len(queued') > Capacity /\ wire'[i] = Garbage)
        BY ArrivesRight DEF IInv
      <3>2. Len(wire) \in Nat
        BY <2>1, LenProperties
      <3> QED BY <2>4, <3>1, <3>2 DEF Channel!MayArrive
    <2> QED BY <2>4, <2>5, <2>6, <2>7 DEF Channel!Deliver
  <1>3. ASSUME NEW w \in outbox.writes, WriteHandler(w) \/ WriteFails(w)
        PROVE  UNCHANGED Channel!vars
    BY <1>3 DEF WriteHandler, WriteFails, Channel!vars
  <1>4. CASE UNCHANGED vars
    BY <1>4 DEF vars, Channel!vars
  <1> QED BY <1>1, <1>2, <1>3, <1>4
          DEF Next, SocketStep, HandlerStep, Channel!Next

(* The pump implements the channel: what it queues reaches the client in   *)
(* order and at most once, until it stalls, and unspoiled while all of it  *)
(* fits the first storage.                                                 *)
THEOREM PumpIsChannel == Spec => ImplementsChannel
  <1>1. Init => Channel!Init
    BY DEF Init, Channel!Init
  <1>2. IInv /\ IInv' /\ [Next]_vars => [Channel!Next]_Channel!vars
    BY StepOfChannel
  <1> QED BY <1>1, <1>2, Invariance, PTL DEF Spec, Channel!Spec, ImplementsChannel

=============================================================================
