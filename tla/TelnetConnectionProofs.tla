------------------------ MODULE TelnetConnectionProofs ------------------------
(***************************************************************************)
(* A connection is a receiver for any scripts, options and cuts: what is   *)
(* proved of TelnetReceive holds of it.  The program is handed it as       *)
(* Readiness promises, and misses nothing from then on.                    *)
(***************************************************************************)
EXTENDS TelnetConnection, SequenceLemmas, FiniteSetTheorems

(* TelnetReceive with its theorems, for the receiver of this connection.   *)
Proved ==
  INSTANCE TelnetReceiveProofs
    WITH pc <- IF pc \in {"new", "start"} THEN "reactor" ELSE pc,
         reading <- reading \/ pc = "new"

-----------------------------------------------------------------------------
(* The receiver's operators are its own under either name.                 *)

LEMMA SameTextLength ==
  \A bytes : Receiver!TextLength(bytes) = TextLength(bytes)
  BY DEF Receiver!TextLength, TextLength, Receiver!Min, Min

LEMMA SameTrim == \A bytes : Receiver!Trim(bytes) = Trim(bytes)
  BY DEF Receiver!Trim, Trim, Receiver!Min, Min, Receiver!Max, Max,
         Whitespace, Receiver!Whitespace

LEMMA SameRest == \A bytes, n : Receiver!Rest(bytes, n) = Rest(bytes, n)
  BY DEF Receiver!Rest, Rest

LEMMA SameEncoding == \A m : Receiver!Encoding(m) = Encoding(m)
  BY DEF Receiver!Encoding, Encoding

LEMMA SameIncomplete ==
  \A bytes : Receiver!Incomplete(bytes) = Incomplete(bytes)
  BY DEF Receiver!Incomplete, Incomplete, Receiver!Needed, Needed,
         Receiver!Offer, Offer

LEMMA SameEmit == \A m, n : Receiver!Emit(m, n) <=> Emit(m, n)
  BY SameRest, SameEncoding DEF Receiver!Emit, Emit

LEMMA SameEmitText ==
  ASSUME NEW bytes, NEW n, pc \notin {"new", "start"}, EmitText(bytes, n)
  PROVE  Receiver!EmitText(bytes, n)
  BY SameEmit DEF Receiver!EmitText, EmitText, Receiver!AppData, AppData

LEMMA SameDecoding == Decoding => Receiver!Decoding
  BY SameIncomplete DEF Receiver!Decoding, Decoding

(* Every step of onReceive and onReceiveAppData is one of the receiver.    *)
LEMMA HandlerStepMaps == HandlerStep => Receiver!HandlerStep
  <1> USE DEF bufferVars, historyVars, Receiver!bufferVars,
              Receiver!historyVars, Offer, Receiver!Offer
  <1>1. TakeEscape => Receiver!TakeEscape
    BY SameDecoding, SameEmitText DEF TakeEscape, Decoding, Receiver!TakeEscape
  <1>2. TakeText => Receiver!TakeText
    BY SameDecoding, SameTextLength, SameEmitText
       DEF TakeText, Decoding, Receiver!TakeText
  <1>3. TakeNegotiation => Receiver!TakeNegotiation
    BY SameDecoding, SameEmit
       DEF TakeNegotiation, Decoding, Receiver!TakeNegotiation, Negotiation,
           Receiver!Negotiation
  <1>4. TakeCommand => Receiver!TakeCommand
    BY SameDecoding, SameEmit
       DEF TakeCommand, Decoding, Receiver!TakeCommand, Command,
           Receiver!Command
  <1>5. SeekSubnegotiationEnd => Receiver!SeekSubnegotiationEnd
    BY SameDecoding
       DEF SeekSubnegotiationEnd, Receiver!SeekSubnegotiationEnd, Decoding
  <1>6. CutCommand => Receiver!CutCommand
    BY SameTrim, SameRest DEF CutCommand, Receiver!CutCommand
  <1>7. NoMoreCommands => Receiver!NoMoreCommands
    BY DEF NoMoreCommands, Receiver!NoMoreCommands
  <1>8. Receive => Receiver!Receive
    BY SameIncomplete DEF Receive, Receiver!Receive
  <1> QED BY <1>1, <1>2, <1>3, <1>4, <1>5, <1>6, <1>7, <1>8
          DEF HandlerStep, Receiver!HandlerStep

-----------------------------------------------------------------------------
(* What the mapping rests on: where start() is, and that the socket hands  *)
(* over bytes of the client's script.                                      *)
Shaped ==
  /\ pc \in {"new", "start", "reactor", "onReceive", "onReceiveAppData",
             "seek", "aborted"}
  /\ reading \in BOOLEAN
  /\ pc = "new" => ~reading
  /\ pc = "start" => reading
  /\ script \in Scripts

(* The program has its callback exactly when the connection is ready, and  *)
(* the timer, which makes it so, is started last by start().               *)
HandedOver ==
  /\ timer \in {"unset", "pending", "fired"}
  /\ started \in BOOLEAN
  /\ started <=> timer = "fired"
  /\ pc \in {"new", "start"} => timer = "unset"
  /\ onCommandCB = started

Placed == Shaped /\ HandedOver

LEMMA InitPlaced == InitConnection => Placed
  BY DEF InitConnection, Placed, Shaped, HandedOver

LEMMA StepPlaced == Placed /\ [NextConnection]_vars => Placed'
  <1> SUFFICES ASSUME Placed, [NextConnection]_vars PROVE Placed'
    OBVIOUS
  <1> USE DEF Placed, Shaped, HandedOver
  <1>1. CASE UNCHANGED <<pc, reading, startVars>>
    BY <1>1 DEF startVars
  <1>2. CASE StartStep
    <2>1. CASE Start
      BY <2>1 DEF Start
    <2>2. CASE StartOption
      BY <2>2 DEF StartOption, receiveVars
    <2>3. CASE StartTimer
      BY <2>3 DEF StartTimer
    <2> QED BY <1>2, <2>1, <2>2, <2>3 DEF StartStep
  <1>3. CASE TimerFires
    BY <1>3 DEF TimerFires, FinishReady, receiveVars
  <1>4. CASE /\ UNCHANGED startVars
             /\ pc \notin {"new", "start"} /\ pc' \notin {"new", "start"}
             /\ pc' \in {"reactor", "onReceive", "onReceiveAppData", "seek",
                         "aborted"}
             /\ reading' \in BOOLEAN
    BY <1>4 DEF startVars
  <1>5. CASE ReadSome
    <2>1. UNCHANGED startVars /\ pc = "reactor" /\ pc' = "onReceive"
          /\ reading' = FALSE
      BY <1>5 DEF ReadSome, ReadCompletes
    <2> QED BY <1>4, <2>1
  <1>6. CASE ReadEnds
    BY <1>4, <1>6 DEF ReadEnds, ReadFails
  <1>7. CASE ReceiveStep
    <2>1. HandlerStep /\ UNCHANGED startVars
      BY <1>7 DEF ReceiveStep, ReceiveNegotiation, ReceiveCommandLine,
         ReceiveOther, HandlerStep
    <2>2. /\ pc \notin {"new", "start"} /\ reading' \in BOOLEAN
          /\ pc' \in {"reactor", "onReceive", "onReceiveAppData", "seek",
                      "aborted"}
      BY <2>1 DEF HandlerStep, TakeEscape, TakeText, TakeNegotiation,
         TakeCommand, SeekSubnegotiationEnd, CutCommand, NoMoreCommands,
         Receive, Decoding, EmitText
    <2> QED BY <1>4, <2>1, <2>2
  <1>8. CASE WriteStep
    BY <1>1, <1>8 DEF WriteStep, Transmit, WriteEnds, receiveVars
  <1>9. CASE UNCHANGED vars
    BY <1>1, <1>9 DEF vars, receiveVars
  <1> QED BY <1>2, <1>3, <1>5, <1>6, <1>7, <1>8, <1>9 DEF NextConnection

LEMMA AlwaysPlaced == SpecConnection => []Placed
  BY InitPlaced, StepPlaced, PTL DEF SpecConnection

-----------------------------------------------------------------------------
(* The connection's receiver is the receiver.                              *)

(* What the socket hands over is a chunk of bytes the client may send.     *)
LEMMA ReadMaps ==
  Placed /\ received \in Seq(ClientByte) /\ ReadSome => Receiver!SocketStep
  <1> SUFFICES ASSUME Placed, received \in Seq(ClientByte), ReadSome
               PROVE  Receiver!SocketStep
    OBVIOUS
  <1>1. PICK n \in 1 .. MaxRead :
          /\ Len(received) + n <= Len(script)
          /\ ReadCompletes(SubSeq(script, Len(received) + 1, Len(received) + n))
    BY DEF ReadSome
  <1> DEFINE i == Len(received) + 1
             j == Len(received) + n
             chunk == SubSeq(script, i, j)
  <1>2. /\ script \in Seq(ClientByte) /\ Len(script) \in Nat
        /\ Len(received) \in Nat /\ n \in Nat
    BY ReadAssumption, OptionsAssumption, LenProperties DEF Placed, Shaped
  <1>3. \A k \in i .. j : script[k] \in ClientByte
    BY <1>1, <1>2, ElementOfSeq
  <1>4. chunk \in Seq(ClientByte) /\ Len(chunk) = n
    <2>1. i \in Int /\ j \in Int /\ i <= j /\ j - i + 1 = n
      BY <1>1, <1>2
    <2> HIDE DEF i, j
    <2> QED BY <1>3, <2>1, SubSeqProperties
  <1> HIDE DEF i, j, chunk
  <1>5. chunk \in [1 .. n -> ClientByte]
    BY <1>4, LenProperties
  <1>6. Receiver!ReadCompletes(chunk)
    <2>1. ReadCompletes(chunk)
      BY <1>1 DEF chunk, i, j
    <2> QED BY <2>1 DEF ReadCompletes, Receiver!ReadCompletes
  <1> QED BY <1>5, <1>6 DEF Receiver!SocketStep

LEMMA ReceiverStep ==
  Placed /\ received \in Seq(ClientByte) /\ [NextConnection]_vars
    => [Receiver!Next]_Receiver!receiveVars
  <1> SUFFICES ASSUME Placed, received \in Seq(ClientByte), [NextConnection]_vars
               PROVE  [Receiver!Next]_Receiver!receiveVars
    OBVIOUS
  <1> USE DEF bufferVars, historyVars, Receiver!bufferVars,
              Receiver!historyVars, Receiver!receiveVars, Receiver!Next
  <1>1. CASE UNCHANGED receiveVars
    BY <1>1 DEF receiveVars
  <1>2. CASE Start
    BY <1>2 DEF Start
  <1>3. CASE StartTimer
    BY <1>3 DEF StartTimer, Placed, Shaped
  <1>4. CASE StartOption \/ TimerFires \/ WriteStep \/ UNCHANGED vars
    BY <1>1, <1>4 DEF StartOption, TimerFires, WriteStep, Transmit, WriteEnds,
       vars
  <1>5. CASE ReadSome
    BY <1>5, ReadMaps
  <1>6. CASE ReadEnds
    <2>1. Receiver!ReadFails
      BY <1>6 DEF ReadEnds, ReadFails, Receiver!ReadFails, Placed, Shaped
    <2> QED BY <2>1 DEF Receiver!SocketStep
  <1>7. CASE ReceiveStep
    <2>1. HandlerStep
      BY <1>7 DEF ReceiveStep, ReceiveNegotiation, ReceiveCommandLine,
         ReceiveOther, HandlerStep
    <2> QED BY <2>1, HandlerStepMaps
  <1> QED BY <1>2, <1>3, <1>4, <1>5, <1>6, <1>7
          DEF NextConnection, StartStep

(* A step of Receiver is a step of Proved: the two are one instance.       *)
LEMMA OneReceiver ==
  [Receiver!Next]_Receiver!receiveVars <=> [Proved!Next]_Proved!receiveVars
  BY DEF Receiver!TextLength, Proved!TextLength, Receiver!Trim, Proved!Trim,
         Receiver!Rest, Proved!Rest, Receiver!Min, Proved!Min,
         Receiver!Max, Proved!Max, Receiver!Whitespace,
         Proved!Whitespace, Receiver!Encoding, Proved!Encoding,
         Receiver!Needed, Proved!Needed, Receiver!Incomplete,
         Proved!Incomplete, Receiver!Offer, Proved!Offer,
         Receiver!Emit, Proved!Emit, Receiver!EmitText,
         Proved!EmitText, Receiver!AppData, Proved!AppData,
         Receiver!Command, Proved!Command, Receiver!Negotiation,
         Proved!Negotiation, Receiver!Decoding, Proved!Decoding,
         Receiver!TakeEscape, Proved!TakeEscape, Receiver!TakeText,
         Proved!TakeText, Receiver!TakeNegotiation,
         Proved!TakeNegotiation, Receiver!TakeCommand,
         Proved!TakeCommand, Receiver!SeekSubnegotiationEnd,
         Proved!SeekSubnegotiationEnd, Receiver!CutCommand,
         Proved!CutCommand, Receiver!NoMoreCommands,
         Proved!NoMoreCommands, Receiver!Receive, Proved!Receive,
         Receiver!ReadCompletes, Proved!ReadCompletes,
         Receiver!ReadFails, Proved!ReadFails, Receiver!HandlerStep,
         Proved!HandlerStep, Receiver!SocketStep, Proved!SocketStep,
         Receiver!Next, Proved!Next, Receiver!bufferVars,
         Proved!bufferVars, Receiver!historyVars,
         Proved!historyVars, Receiver!receiveVars,
         Proved!receiveVars

CInv == Placed /\ Proved!IInv

LEMMA ReceiverMoves == CInv /\ [NextConnection]_vars => [Proved!Next]_Proved!receiveVars
  BY ReceiverStep, OneReceiver DEF CInv, Proved!IInv, Proved!TypeOK

LEMMA StepConnection == CInv /\ [NextConnection]_vars => CInv'
  BY StepPlaced, ReceiverMoves, Proved!StepInvariant, ReadAssumption, CharAssumption
     DEF CInv

LEMMA ConnectionInvariance == SpecConnection => []CInv
  <1>1. InitConnection => CInv
    <2>1. InitConnection => Proved!Init
      BY DEF InitConnection, Proved!Init
    <2> QED BY <2>1, InitPlaced, Proved!InitInvariant, ReadAssumption,
            CharAssumption DEF CInv
  <1> QED BY <1>1, StepConnection, PTL DEF SpecConnection

(* The connection implements the receiver: options, timer, callbacks and   *)
(* the pump never disturb how the client's bytes are decoded.              *)
THEOREM ConnectionReceives == SpecConnection => ReceivesAsSpecified
  <1>1. InitConnection => Receiver!Init
    BY DEF InitConnection, Receiver!Init
  <1>2. CInv /\ [NextConnection]_vars => [Receiver!Next]_Receiver!receiveVars
    BY ReceiverStep DEF CInv, Proved!IInv, Proved!TypeOK
  <1> QED BY <1>1, <1>2, ConnectionInvariance, PTL
          DEF SpecConnection, ReceivesAsSpecified, Receiver!Spec

(* What is proved of the receiver alone holds inside the connection.       *)
THEOREM ConnectionLosesNothing == SpecConnection => []NothingLost
  <1>1. CInv => NothingLost
    BY DEF CInv, Proved!IInv, Proved!NothingLost, NothingLost
  <1> QED BY <1>1, ConnectionInvariance, PTL

-----------------------------------------------------------------------------
(* What the program was told, position by position.                        *)

EndOf(told, all) ==
  /\ Len(told) <= Len(all)
  /\ \A i \in 1 .. Len(told) : told[i] = all[Len(all) - Len(told) + i]

LEMMA EndIsSuffix ==
  ASSUME NEW S, NEW told \in Seq(S), NEW all \in Seq(S), EndOf(told, all)
  PROVE  IsSuffix(told, all)
  <1> DEFINE m == Len(told)
             n == Len(all)
             backTold == Reverse(told)
             backAll == Reverse(all)
  <1>1. m \in Nat /\ n \in Nat /\ m <= n
    BY LenProperties DEF EndOf
  <1>2. /\ \A i \in 1 .. m : told[i] \in S
        /\ \A i \in 1 .. n : all[i] \in S
    BY ElementOfSeq
  <1>3. \A i \in 1 .. m : told[i] = all[n - m + i]
    BY DEF EndOf
  <1>4. /\ backTold = [i \in 1 .. m |-> told[(m - i) + 1]]
        /\ backAll = [i \in 1 .. n |-> all[(n - i) + 1]]
    BY DEF Reverse
  <1> HIDE DEF m, n, backTold, backAll
  <1>5. backTold \in Seq(S) /\ Len(backTold) = m
    <2>1. \A i \in 1 .. m : told[(m - i) + 1] \in S
      BY <1>1, <1>2
    <2>2. backTold \in [1 .. m -> S]
      BY <1>4, <2>1
    <2> QED BY <1>1, <2>2, SeqDef, LenProperties
  <1>6. backAll \in Seq(S) /\ Len(backAll) = n
    <2>1. \A i \in 1 .. n : all[(n - i) + 1] \in S
      BY <1>1, <1>2
    <2>2. backAll \in [1 .. n -> S]
      BY <1>4, <2>1
    <2> QED BY <1>1, <2>2, SeqDef, LenProperties
  <1>7. \A i \in 1 .. m : backTold[i] = backAll[i]
    <2> SUFFICES ASSUME NEW i \in 1 .. m PROVE backTold[i] = backAll[i]
      OBVIOUS
    <2>1. /\ (m - i) + 1 \in 1 .. m /\ i \in 1 .. n
          /\ n - m + ((m - i) + 1) = (n - i) + 1
      BY <1>1
    <2> QED BY <1>3, <1>4, <2>1
  <1> DEFINE a == SubSeq(backTold, 1, m)
             b == SubSeq(backAll, 1, m)
  <1>8. /\ a \in Seq(S) /\ Len(a) = m
        /\ \A i \in 1 .. m : a[i] = backTold[i]
    <2>1. \A i \in 1 .. m : backTold[i] \in S
      BY <1>1, <1>5, ElementOfSeq
    <2> QED BY <1>1, <2>1, SubSeqProperties
  <1>9. /\ b \in Seq(S) /\ Len(b) = m
        /\ \A i \in 1 .. m : b[i] = backAll[i]
    <2>1. \A i \in 1 .. m : backAll[i] \in S
      BY <1>1, <1>6, ElementOfSeq
    <2> QED BY <1>1, <2>1, SubSeqProperties
  <1> HIDE DEF a, b
  <1>10. a = b
    BY <1>7, <1>8, <1>9, SeqEqual
  <1> QED BY <1>1, <1>5, <1>6, <1>10 DEF IsSuffix, IsPrefix, a, b, backTold,
     backAll

(* Commands that came before the program had its callback were dropped.    *)
Told ==
  /\ delivered \in Seq(Seq(ClientByte))
  /\ ~started => delivered = << >>
  /\ EndOf(delivered, commands)

LEMMA StepTold == CInv /\ Told /\ [NextConnection]_vars /\ CInv' => Told'
  <1> SUFFICES ASSUME CInv, Told, [NextConnection]_vars, CInv' PROVE Told'
    OBVIOUS
  <1>1. /\ commands \in Seq(Seq(ClientByte)) /\ commands' \in Seq(Seq(ClientByte))
        /\ onCommandCB = started /\ started \in BOOLEAN
    BY DEF CInv, Proved!IInv, Proved!TypeOK, Placed, HandedOver
  <1>2. CASE /\ UNCHANGED <<delivered, commands>>
             /\ started' = started \/ started' = TRUE
    BY <1>1, <1>2 DEF Told
  <1>3. CASE ReceiveCommandLine
    <2>1. PICK n \in DOMAIN cmdbuff :
            commands' = Append(commands, Trim(SubSeq(cmdbuff, 1, n)))
      BY <1>3 DEF ReceiveCommandLine, CutCommand
    <2> DEFINE line == Trim(SubSeq(cmdbuff, 1, n))
               x == Len(delivered)
               y == Len(commands)
    <2>2. /\ started' = started
          /\ delivered' = IF onCommandCB THEN Append(delivered, Last(commands'))
                                         ELSE delivered
      BY <1>3 DEF ReceiveCommandLine, startVars
    <2>3. delivered \in Seq(Seq(ClientByte)) /\ x \in Nat /\ y \in Nat /\ x <= y
          /\ \A i \in 1 .. x : delivered[i] = commands[y - x + i]
      BY <1>1, LenProperties DEF Told, EndOf
    <2> HIDE DEF line
    <2>4. commands' = Append(commands, line)
      BY <2>1 DEF line
    <2>5. /\ Len(commands') = y + 1 /\ commands'[y + 1] = line
          /\ \A i \in 1 .. y : commands'[i] = commands[i]
          /\ line \in Seq(ClientByte)
      <3>1. \A i \in 1 .. y : commands'[i] = commands[i]
        BY <1>1, <2>3, <2>4
      <3>2. Len(commands') = y + 1 /\ commands'[y + 1] = line
        BY <1>1, <2>3, <2>4
      <3>3. y + 1 \in 1 .. Len(commands')
        BY <2>3, <3>2
      <3> QED BY <1>1, <3>1, <3>2, <3>3, ElementOfSeq
    <2>6. CASE started
      <3>1. delivered' = Append(delivered, line)
        BY <1>1, <2>2, <2>5, <2>6 DEF Last
      <3>2. /\ delivered' \in Seq(Seq(ClientByte)) /\ Len(delivered') = x + 1
            /\ delivered'[x + 1] = line
            /\ \A i \in 1 .. x : delivered'[i] = delivered[i]
        BY <2>3, <2>5, <3>1, AppendProperties
      <3>3. ASSUME NEW i \in 1 .. x + 1
            PROVE  delivered'[i] = commands'[(y + 1) - (x + 1) + i]
        <4>1. CASE i \in 1 .. x
          <5>1. y - x + i \in 1 .. y /\ (y + 1) - (x + 1) + i = y - x + i
            BY <2>3, <4>1
          <5> QED BY <2>3, <2>5, <3>2, <4>1, <5>1
        <4>2. CASE i = x + 1
          <5>1. (y + 1) - (x + 1) + i = y + 1
            BY <2>3, <4>2
          <5> QED BY <2>5, <3>2, <4>2, <5>1
        <4> QED BY <2>3, <4>1, <4>2
      <3>4. EndOf(delivered', commands')
        BY <2>3, <2>5, <3>2, <3>3 DEF EndOf
      <3> QED BY <2>2, <2>6, <3>2, <3>4 DEF Told
    <2>7. CASE ~started
      <3>1. delivered' = << >> /\ x = 0
        BY <1>1, <2>2, <2>7, EmptySeq DEF Told
      <3> QED BY <2>3, <2>5, <2>7, <3>1, EmptySeq DEF Told, EndOf
    <2> QED BY <1>1, <2>6, <2>7
  <1>4. CASE StartStep
    BY <1>2, <1>4 DEF StartStep, Start, StartOption, StartTimer, receiveVars,
       historyVars
  <1>5. CASE TimerFires
    BY <1>1, <1>2, <1>5 DEF TimerFires, FinishReady, receiveVars, historyVars
  <1>6. CASE ReadSome \/ ReadEnds
    BY <1>2, <1>6 DEF ReadSome, ReadCompletes, ReadEnds, ReadFails, startVars,
       historyVars
  <1>7. CASE ReceiveNegotiation \/ ReceiveOther
    BY <1>2, <1>7 DEF ReceiveNegotiation, ReceiveOther, TakeNegotiation,
       TakeEscape, TakeText, TakeCommand, SeekSubnegotiationEnd,
       NoMoreCommands, Receive, EmitText, startVars, historyVars
  <1>8. CASE WriteStep
    BY <1>2, <1>8 DEF WriteStep, Transmit, WriteEnds, startVars, receiveVars,
       historyVars
  <1>9. CASE UNCHANGED vars
    BY <1>2, <1>9 DEF vars, startVars, receiveVars, historyVars
  <1> QED BY <1>3, <1>4, <1>5, <1>6, <1>7, <1>8, <1>9
          DEF NextConnection, ReceiveStep

LEMMA InitTold == InitConnection => Told
  <1> SUFFICES ASSUME InitConnection PROVE Told
    OBVIOUS
  <1>1. delivered = << >> /\ commands = << >>
    BY DEF InitConnection
  <1> QED BY <1>1, EmptySeq DEF Told, EndOf

(* From the moment it is handed the connection the program is told every   *)
(* command, once and in order, however reads and the timer interleave.     *)
THEOREM NoCommandMissed == SpecConnection => []DeliveredInOrder
  <1>1. CInv /\ Told => DeliveredInOrder
    BY EndIsSuffix
       DEF CInv, Proved!IInv, Proved!TypeOK, Told, DeliveredInOrder
  <1> QED BY <1>1, InitTold, StepTold, ConnectionInvariance, PTL
          DEF SpecConnection

-----------------------------------------------------------------------------
(* A thread that seeks the end of a subnegotiation is never given back.    *)

LEMMA StepOfReadiness ==
  Placed /\ [NextConnection]_vars => [Promised!Next]_Promised!vars
  <1> SUFFICES ASSUME Placed, [NextConnection]_vars
               PROVE  [Promised!Next]_Promised!vars
    OBVIOUS
  <1>0. UNCHANGED <<pc, started, onCommandCB>> => UNCHANGED Promised!vars
    BY DEF Promised!vars, Phase
  <1>1. CASE UNCHANGED <<pc, started, onCommandCB>>
    BY <1>0, <1>1
  <1>2. CASE Start
    <2>1. /\ pc = "new" /\ pc' = "start" /\ ~started /\ ~started'
          /\ onCommandCB' = onCommandCB
      BY <1>2 DEF Start, Placed, HandedOver
    <2>2. Phase = "new" /\ Phase' = "waiting"
      BY <2>1 DEF Phase
    <2>3. Promised!SetUp(1)
      BY <2>1, <2>2 DEF Promised!SetUp
    <2> QED BY <2>3 DEF Promised!Next
  <1>3. CASE TimerFires
    <2>1. /\ pc = "reactor" /\ pc' = "reactor" /\ ~started /\ started'
          /\ ~onCommandCB /\ onCommandCB'
      BY <1>3 DEF TimerFires, FinishReady, receiveVars, Placed, HandedOver
    <2>2. Phase = "waiting" /\ Phase' = "ready"
      BY <2>1 DEF Phase
    <2>3. [c \in {1} |-> Phase'] = [[c \in {1} |-> Phase] EXCEPT ![1] = "ready"]
      BY <2>2
    <2> DEFINE calls == [c \in {1} |-> IF onCommandCB THEN 1 ELSE 0]
    <2>4. calls[1] = 0 /\ calls' = [c \in {1} |-> 1]
      BY <2>1
    <2>5. calls' = [calls EXCEPT ![1] = calls[1] + 1]
      BY <2>4
    <2>6. Promised!HandOver(1)
      BY <2>2, <2>3, <2>5 DEF Promised!HandOver
    <2> QED BY <2>6 DEF Promised!Next
  <1>4. CASE SeekSubnegotiationEnd /\ UNCHANGED startVars
    <2>1. pc' \in {"seek", "aborted"} /\ onCommandCB' = onCommandCB
      BY <1>4 DEF SeekSubnegotiationEnd, startVars
    <2>2. Phase' = "lost"
      BY <2>1 DEF Phase
    <2>3. Promised!Lose
      BY <2>1, <2>2 DEF Promised!Lose
    <2> QED BY <2>3 DEF Promised!Next
  <1>5. CASE /\ pc \in {"reactor", "onReceive", "onReceiveAppData"}
             /\ pc' \in {"reactor", "onReceive", "onReceiveAppData"}
             /\ UNCHANGED startVars
    BY <1>5 DEF startVars, Promised!vars, Phase
  <1>6. CASE StartTimer
    BY <1>6 DEF StartTimer, Promised!vars, Phase
  <1>7. CASE StartOption \/ WriteStep \/ UNCHANGED vars
    BY <1>1, <1>7 DEF StartOption, WriteStep, Transmit, WriteEnds, vars,
       receiveVars, startVars
  <1>8. CASE ReadSome \/ ReadEnds
    BY <1>5, <1>8 DEF ReadSome, ReadEnds, ReadCompletes, ReadFails
  <1>9. CASE ReceiveStep
    <2>1. UNCHANGED startVars
      BY <1>9 DEF ReceiveStep, ReceiveNegotiation, ReceiveCommandLine,
         ReceiveOther
    <2>2. CASE SeekSubnegotiationEnd
      BY <1>4, <2>1, <2>2
    <2>3. CASE ~SeekSubnegotiationEnd
      BY <1>5, <1>9, <2>1, <2>3
         DEF ReceiveStep, ReceiveNegotiation, ReceiveCommandLine, ReceiveOther,
             TakeEscape, TakeText, TakeNegotiation, TakeCommand, CutCommand,
             NoMoreCommands, Receive, Decoding, EmitText
    <2> QED BY <2>2, <2>3
  <1> QED BY <1>2, <1>3, <1>6, <1>7, <1>8, <1>9 DEF NextConnection, StartStep

(* The safety half of what Readiness promises: the program is handed the   *)
(* connection once, after start(), and never after the thread is lost.     *)
THEOREM HandedOverAsPromised ==
  SpecConnection => Promised!Init /\ [][Promised!Next]_Promised!vars
  <1>1. InitConnection => Promised!Init
    BY DEF InitConnection, Promised!Init, Phase
  <1> QED BY <1>1, StepOfReadiness, AlwaysPlaced, PTL DEF SpecConnection

-----------------------------------------------------------------------------
(* The connection's outbox is a write pump.                                *)

(* WritePump with its theorems, for the outbox of this connection.         *)
Pumped ==
  INSTANCE WritePumpProofs
    WITH Commands <- Offer,
         Options <- ClientByte,
         MaxBytes <- 3 * (MaxBytes + 2 * Cardinality(Options))

Offered == {"WILL", "DO"} \X Options

LEMMA PumpBound ==
  /\ Cardinality(Options) \in Nat
  /\ 3 * (MaxBytes + 2 * Cardinality(Options)) \in Nat
  /\ Garbage \notin Pumped!Byte
  <1>1. Cardinality(Options) \in Nat
    BY OptionsAssumption, FS_CardinalityType
  <1>2. Garbage \notin Pumped!Byte
    BY GarbageAssumption DEF Pumped!Byte
  <1> QED BY <1>1, <1>2, ReadAssumption

LEMMA OrdersAreTyped ==
  ASSUME NEW order, order \in SetToSeqs(Options)
  PROVE  order \in Seq(Options) /\ Len(order) = Cardinality(Options)
  <1>1. PICK n : n = Cardinality(Options) /\ n \in Nat
    BY PumpBound
  <1>2. order \in [1 .. n -> Options]
    BY <1>1 DEF SetToSeqs
  <1>3. order \in Seq(Options) /\ Len(order) = n
    BY <1>1, <1>2, SeqDef, LenProperties
  <1> QED BY <1>1, <1>3

(* At most two negotiations are begun for an option.                       *)
LEMMA OpeningIsShort ==
  ASSUME NEW order, order \in SetToSeqs(Options)
  PROVE  /\ Opening(order) \in Seq(Offered)
         /\ Len(Opening(order)) <= 2 * Cardinality(Options)
  <1> DEFINE Will(o) == IF o \in StartWill THEN <<<<"WILL", o>>>> ELSE << >>
             Do(o) == IF o \in StartDo THEN <<<<"DO", o>>>> ELSE << >>
             Begin(o) == Will(o) \o Do(o)
             parts == [i \in DOMAIN order |-> Begin(order[i])]
  <1>1. PICK T : T = {e \in Seq(Offered) : Len(e) <= 2}
    OBVIOUS
  <1>2. \A o \in Options : Begin(o) \in T
    <2> TAKE o \in Options
    <2>1. <<"WILL", o>> \in Offered /\ <<"DO", o>> \in Offered
      BY DEF Offered
    <2>2. <<<<"WILL", o>>>> \in Seq(Offered) /\ <<<<"DO", o>>>> \in Seq(Offered)
          /\ << >> \in Seq(Offered)
      BY <2>1
    <2>3. PICK will : will = Will(o)
      OBVIOUS
    <2>4. PICK do : do = Do(o)
      OBVIOUS
    <2>5. will \in Seq(Offered) /\ Len(will) \in 0 .. 1
      BY <2>2, <2>3
    <2>6. do \in Seq(Offered) /\ Len(do) \in 0 .. 1
      BY <2>2, <2>4
    <2>7. will \o do \in Seq(Offered) /\ Len(will \o do) <= 2
      BY <2>5, <2>6, ConcatProperties
    <2> QED BY <1>1, <2>3, <2>4, <2>7
  <1> HIDE DEF Begin
  <1>3. order \in Seq(Options) /\ DOMAIN order = 1 .. Len(order) /\ Len(order) \in Nat
        /\ Len(order) = Cardinality(Options)
    BY OrdersAreTyped, LenProperties
  <1>4. \A i \in 1 .. Len(order) : Begin(order[i]) \in T
    BY <1>2, <1>3, ElementOfSeq
  <1>5. parts \in Seq(T) /\ Len(parts) = Len(order)
    <2>1. PICK n : n = Len(order)
      OBVIOUS
    <2>2. n \in Nat /\ parts \in [1 .. n -> T]
      BY <1>3, <1>4, <2>1
    <2> HIDE DEF parts
    <2>3. parts \in Seq(T) /\ Len(parts) = n
      BY <2>2, SeqDef, LenProperties
    <2> QED BY <2>1, <2>3
  <1>6. Opening(order) = FlattenSeq(parts)
    BY DEF Opening, Begin
  <1> HIDE DEF parts
  <1>7. PICK ps : ps = parts
    OBVIOUS
  <1>8. ps \in Seq(T)
    BY <1>5, <1>7
  <1>9. FlattenSeq(ps) \in Seq(Offered) /\ Len(FlattenSeq(ps)) <= 2 * Len(ps)
    BY ONLY <1>1, <1>8, FlattenOfPairs
  <1> QED BY <1>3, <1>5, <1>6, <1>7, <1>9

(* How many bytes can have been queued: three for every negotiation that   *)
(* start() has begun and for every one that has been received.             *)
Counted ==
  /\ pc = "new" =>
       /\ outbox = NewOutbox /\ queued = << >> /\ wire = << >> /\ todo = << >>
       /\ framed = << >>
  /\ pc = "start" => framed = << >>
  /\ pc \notin {"new", "start"} => todo = << >>
  /\ todo \in Seq(Offered)
  /\ Len(received) <= MaxBytes
  /\ Len(queued) + 3 * Len(todo) <= Len(framed) + 6 * Cardinality(Options)

PInv == CInv /\ Pumped!IInv /\ Counted

LEMMA InitPumping == InitConnection => PInv
  <1> SUFFICES ASSUME InitConnection PROVE PInv
    OBVIOUS
  <1>1. Placed /\ Proved!Init
    BY InitPlaced DEF InitConnection, Proved!Init
  <1>2. CInv
    BY <1>1, Proved!InitInvariant, ReadAssumption, CharAssumption DEF CInv
  <1>3. Pumped!Consistent(Pumped!NewOutbox, << >>, << >>)
    BY Pumped!InitConsistent, PumpBound, CapacityAssumption
  <1>4. Pumped!IInv
    BY <1>3 DEF InitConnection, Pumped!IInv, NewOutbox, Pumped!NewOutbox
  <1>5. Counted
    BY PumpBound, ReadAssumption, EmptySeq DEF InitConnection, Counted
  <1> QED BY <1>2, <1>4, <1>5 DEF PInv

(* What the connection's calls on the outbox are to the pump.              *)
LEMMA SameCalls ==
  /\ \A box, command, option :
       Pump!SendNegotiate(box, command, option) = SendNegotiate(box, command, option)
  /\ \A box, w, k : Pump!Taken(box, w, k) = Taken(box, w, k)
  /\ \A box, w, n : Pump!WriteDone(box, w, n) = WriteDone(box, w, n)
  BY DEF Pump!SendNegotiate, SendNegotiate, Pump!Send, Send, Pump!StartWrite,
         StartWrite, Pump!Commit, Commit, Pump!Prepare, Prepare, Pump!Taken, Taken,
         Pump!WriteDone, WriteDone, Pump!Consume, Consume

LEMMA OnePump == [Pump!Next]_Pump!vars <=> [Pumped!Next]_Pumped!vars
  BY DEF Pump!SendNegotiate, Pumped!SendNegotiate, Pump!Send, Pumped!Send,
         Pump!StartWrite, Pumped!StartWrite, Pump!Commit, Pumped!Commit,
         Pump!Prepare, Pumped!Prepare, Pump!Taken, Pumped!Taken,
         Pump!WriteDone, Pumped!WriteDone, Pump!Consume, Pumped!Consume,
         Pump!Negotiate, Pumped!Negotiate, Pump!Transmit, Pumped!Transmit,
         Pump!WriteHandler, Pumped!WriteHandler, Pump!WriteFails,
         Pumped!WriteFails, Pump!SocketStep, Pumped!SocketStep,
         Pump!HandlerStep, Pumped!HandlerStep, Pump!Next, Pumped!Next,
         Pump!vars, Pumped!vars

(* sendNegotiate, as often as the bound allows.                            *)
LEMMA SayMaps ==
  ASSUME NEW command \in Offer, NEW option \in ClientByte, Say(command, option),
         Len(queued) + 3 <= 3 * (MaxBytes + 2 * Cardinality(Options))
  PROVE  Pump!Next
  <1>1. Pump!Negotiate(command, option)
    BY SameCalls DEF Say, Pump!Negotiate
  <1> QED BY <1>1 DEF Pump!Next

LEMMA WriteMaps == PInv /\ WriteStep => Pump!Next
  <1> SUFFICES ASSUME PInv, WriteStep PROVE Pump!Next
    OBVIOUS
  <1>1. PICK w \in outbox.writes :
          (\E k \in 1 .. Len(w.bytes) : Transmit(w, k)) \/ WriteEnds(w)
    BY DEF WriteStep
  <1>2. CASE \E k \in 1 .. Len(w.bytes) : Transmit(w, k)
    <2>1. PICK k \in 1 .. Len(w.bytes) : Transmit(w, k)
      BY <1>2
    <2>2. Pump!Transmit(w, k)
      BY <2>1, SameCalls DEF Transmit, Pump!Transmit
    <2> QED BY <2>2 DEF Pump!Next, Pump!SocketStep
  <1>3. CASE WriteEnds(w)
    <2>1. w.sent \in Nat
      BY DEF PInv, Pumped!IInv, Pumped!Consistent, Pumped!Box, Pumped!Write
    <2>2. CASE w.sent > 0
      <3>1. Pump!WriteHandler(w)
        BY <1>3, <2>2, SameCalls DEF WriteEnds, Pump!WriteHandler
      <3> QED BY <3>1 DEF Pump!Next, Pump!HandlerStep
    <2>3. CASE w.sent = 0
      <3>1. Pump!WriteFails(w)
        BY <1>3, <2>3, SameCalls DEF WriteEnds, Pump!WriteFails
      <3> QED BY <3>1 DEF Pump!Next, Pump!SocketStep
    <2> QED BY <2>1, <2>2, <2>3
  <1> QED BY <1>1, <1>2, <1>3

(* An offer is answered with one negotiation at most.                      *)
LEMMA OneAnswer ==
  ASSUME NEW command, command \in Offer, NEW option,
         OnReceiveNegotiation(command, option)
  PROVE  SayNothing \/ \E c \in Offer : Say(c, option)
  BY DEF OnReceiveNegotiation, Negotiate, Offer

LEMMA SayLength ==
  ASSUME PInv, NEW command \in Offer, NEW option \in ClientByte, Say(command, option)
  PROVE  Len(queued') = Len(queued) + 3
  <1>1. queued \in Seq(Pumped!Byte)
    BY DEF PInv, Pumped!IInv, Pumped!Consistent
  <1>2. PICK m : m = <<"IAC", command, option>>
    OBVIOUS
  <1>3. m \in Seq(Pumped!Byte) /\ Len(m) = 3
    BY <1>2 DEF Pumped!Byte
  <1>4. queued' = queued \o m
    BY <1>2 DEF Say
  <1>5. Len(queued \o m) = Len(queued) + Len(m)
    BY ONLY <1>1, <1>3, ConcatProperties
  <1> QED BY <1>3, <1>4, <1>5

LEMMA StepPumping ==
  PInv /\ [NextConnection]_vars => [Pump!Next]_Pump!vars /\ Counted'
  <1> SUFFICES ASSUME PInv, [NextConnection]_vars
               PROVE  [Pump!Next]_Pump!vars /\ Counted'
    OBVIOUS
  <1> DEFINE C == Cardinality(Options)
  <1>1. CInv' /\ [Proved!Next]_Proved!receiveVars
    BY StepConnection, ReceiverMoves DEF PInv
  <1>2. /\ framed \in Seq(ClientByte) /\ framed' \in Seq(ClientByte)
        /\ inbox' \in Seq(ClientByte) /\ received' = framed' \o inbox'
        /\ inbox \in Seq(ClientByte)
    BY <1>1 DEF PInv, CInv, Proved!IInv, Proved!TypeOK, Proved!NothingLost
  <1>3. PICK e : e \in Seq(ClientByte) /\ framed' = framed \o e
    BY <1>1, Proved!FramedGrows, ReadAssumption, CharAssumption DEF PInv, CInv
  <1>4. /\ Len(framed) \in Nat /\ Len(framed') \in Nat /\ Len(framed) <= Len(framed')
        /\ Len(framed') <= Len(received')
    BY <1>2, <1>3, ConcatProperties, LenProperties
  <1>5. Len(received') <= MaxBytes
    BY <1>1, Proved!ReceivedBounded, ReadAssumption, CharAssumption
       DEF PInv, CInv, Counted
  <1>6. /\ C \in Nat /\ MaxBytes \in Nat /\ Len(queued) \in Nat
        /\ todo \in Seq(Offered) /\ Len(todo) \in Nat
    BY PumpBound, ReadAssumption, LenProperties
       DEF PInv, Counted, Pumped!IInv, Pumped!Consistent
  <1>7. Len(queued) + 3 * Len(todo) <= Len(framed) + 6 * C
    BY DEF PInv, Counted
  <1> HIDE DEF C
  <1>8. CASE UNCHANGED <<outbox, queued, wire, todo>> /\ pc \notin {"new", "start"}
             /\ pc' \notin {"new", "start"}
    <2>1. Len(queued') + 3 * Len(todo') <= Len(framed') + 6 * C
      BY <1>4, <1>6, <1>7, <1>8
    <2> QED BY <1>5, <1>8, <2>1 DEF PInv, Counted, Pump!vars, C
  <1>9. CASE Start
    <2>1. /\ pc = "new" /\ outbox' = Send(outbox) /\ pc' = "start"
          /\ queued' = queued /\ wire' = wire /\ framed' = framed
      BY <1>9 DEF Start, historyVars
    <2>2. outbox = NewOutbox /\ queued = << >> /\ framed = << >>
      BY <2>1 DEF PInv, Counted
    <2>3. outbox' = outbox
      BY <2>1, <2>2 DEF Send, NewOutbox
    <2>4. PICK order \in SetToSeqs(Options) : todo' = Opening(order)
      BY <1>9 DEF Start
    <2>5. todo' \in Seq(Offered) /\ Len(todo') <= 2 * C
      BY <2>4, OpeningIsShort DEF C
    <2>6. Len(queued') = 0 /\ Len(framed') = 0 /\ Len(todo') \in Nat
      BY <2>1, <2>2, <2>5, LenProperties
    <2>7. Len(queued') + 3 * Len(todo') <= Len(framed') + 6 * C
      BY <1>6, <2>5, <2>6
    <2> QED BY <1>5, <2>1, <2>2, <2>3, <2>5, <2>7 DEF Counted, Pump!vars, C
  <1>10. CASE StartOption
    <2>1. /\ pc = "start" /\ pc' = pc /\ framed' = framed /\ todo # << >>
          /\ Negotiate(Head(todo)[1], Head(todo)[2]) /\ todo' = Tail(todo)
      BY <1>10 DEF StartOption, receiveVars, historyVars
    <2>2. Head(todo) \in Offered /\ Tail(todo) \in Seq(Offered)
          /\ Len(Tail(todo)) = Len(todo) - 1 /\ Len(todo) > 0
      BY <1>6, <2>1, HeadTailProperties, EmptySeq
    <2>3. PICK c, o : c = Head(todo)[1] /\ o = Head(todo)[2]
      OBVIOUS
    <2>4. c \in {"WILL", "DO"} /\ c \in Offer /\ o \in ClientByte
      BY <2>2, <2>3, OptionsAssumption DEF Offered, Offer
    <2>5. Say(c, o)
      BY <2>1, <2>3, <2>4 DEF Negotiate
    <2>6. Len(queued') = Len(queued) + 3
      BY <2>4, <2>5, SayLength
    <2>7. framed = << >> /\ Len(framed) = 0
      BY <2>1, EmptySeq DEF PInv, Counted
    <2>8. Len(queued) + 3 <= 3 * (MaxBytes + 2 * C)
      BY <1>6, <1>7, <2>2, <2>7
    <2>9. Pump!Next
      BY <2>4, <2>5, <2>8, SayMaps DEF C
    <2>10. Len(queued') + 3 * Len(todo') <= Len(framed') + 6 * C
      BY <1>6, <1>7, <2>1, <2>2, <2>6
    <2> QED BY <1>5, <2>1, <2>2, <2>7, <2>9, <2>10 DEF Counted, C
  <1>11. CASE StartTimer
    <2>1. /\ todo' = todo /\ todo = << >> /\ pc' = "reactor"
          /\ UNCHANGED <<outbox, queued, wire>>
      BY <1>11 DEF StartTimer, outputVars
    <2>2. Len(queued') + 3 * Len(todo') <= Len(framed') + 6 * C
      BY <1>4, <1>6, <1>7, <2>1
    <2> QED BY <1>5, <1>6, <2>1, <2>2 DEF Counted, Pump!vars, C
  <1>12. CASE WriteStep
    <2>1. UNCHANGED <<queued, todo, pc, framed>>
      BY <1>12 DEF WriteStep, Transmit, WriteEnds, receiveVars, historyVars, startVars
    <2>2. pc # "new"
      BY <1>12 DEF WriteStep, PInv, Counted, NewOutbox
    <2> QED BY <1>5, <1>12, <2>1, <2>2, WriteMaps DEF PInv, Counted
  <1>13. CASE ReceiveNegotiation
    <2>1. /\ pc' = pc /\ pc = "onReceive" /\ todo' = todo /\ inbox[2] \in Offer
          /\ OnReceiveNegotiation(inbox[2], inbox[3])
          /\ framed' = framed \o Encoding(Negotiation(inbox[2], inbox[3]))
      BY <1>13 DEF ReceiveNegotiation, TakeNegotiation, Decoding, Emit, startVars
    <2>2. inbox[1] = "IAC" /\ inbox # << >> /\ ~Incomplete(inbox)
      BY <1>13 DEF ReceiveNegotiation, TakeNegotiation, Decoding
    <2>3. Len(inbox) >= 3 /\ Len(inbox) \in Nat
      BY <1>2, <2>1, <2>2, LenProperties DEF Incomplete, Needed
    <2>4. PICK option : option = inbox[3]
      OBVIOUS
    <2>5. /\ option \in ClientByte /\ inbox[1] \in ClientByte /\ inbox[2] \in ClientByte
      BY <1>2, <2>3, <2>4, ElementOfSeq
    <2>6. PICK m : m = <<"IAC", inbox[2], option>>
      OBVIOUS
    <2>7. m \in Seq(ClientByte) /\ Len(m) = 3
      BY <2>2, <2>5, <2>6
    <2>8. framed' = framed \o m
      BY <2>1, <2>4, <2>6 DEF Encoding, Negotiation
    <2>9. Len(framed') = Len(framed) + 3
      <3>1. framed \in Seq(ClientByte)
        BY <1>2
      <3>2. Len(framed \o m) = Len(framed) + Len(m)
        BY ONLY <2>7, <3>1, ConcatProperties
      <3> QED BY <2>7, <2>8, <3>2
    <2>10. CASE SayNothing
      <3>1. Len(queued') + 3 * Len(todo') <= Len(framed') + 6 * C
        BY <1>4, <1>6, <1>7, <2>1, <2>10 DEF SayNothing
      <3> QED BY <1>5, <2>1, <2>10, <3>1 DEF PInv, Counted, Pump!vars, C, SayNothing
    <2>11. ASSUME NEW c \in Offer, Say(c, option)
           PROVE  [Pump!Next]_Pump!vars /\ Counted'
      <3>1. Len(queued') = Len(queued) + 3
        BY <2>5, <2>11, SayLength
      <3>2. Len(queued) + 3 <= 3 * (MaxBytes + 2 * C)
        BY <1>4, <1>5, <1>6, <1>7, <2>9, <1>2, LenProperties
      <3>3. Pump!Next
        BY <2>5, <2>11, <3>2, SayMaps DEF C
      <3>4. Len(queued') + 3 * Len(todo') <= Len(framed') + 6 * C
        BY <1>4, <1>6, <1>7, <2>1, <2>9, <3>1
      <3> QED BY <1>5, <2>1, <3>3, <3>4 DEF PInv, Counted, C
    <2> QED BY <2>1, <2>4, <2>10, <2>11, OneAnswer
  <1>14. CASE ReceiveCommandLine \/ ReceiveOther \/ ReadSome \/ ReadEnds \/ TimerFires
    <2>1. UNCHANGED <<outbox, queued, wire, todo>>
      BY <1>14 DEF ReceiveCommandLine, ReceiveOther, ReadSome, ReadEnds, TimerFires,
         startVars, outputVars
    <2>2. pc \notin {"new", "start"} /\ pc' \notin {"new", "start"}
      BY <1>14 DEF ReceiveCommandLine, ReceiveOther, ReadSome, ReadEnds, TimerFires,
         TakeEscape, TakeText, TakeCommand, SeekSubnegotiationEnd, CutCommand,
         NoMoreCommands, Receive, Decoding, EmitText, ReadCompletes, ReadFails,
         receiveVars
    <2> QED BY <1>8, <2>1, <2>2
  <1>15. CASE UNCHANGED vars
    <2>1. UNCHANGED <<outbox, queued, wire, todo, pc, framed>>
      BY <1>15 DEF vars, receiveVars, startVars, outputVars, historyVars
    <2> QED BY <1>5, <2>1 DEF PInv, Counted, Pump!vars
  <1> QED BY <1>9, <1>10, <1>11, <1>12, <1>13, <1>14, <1>15
          DEF NextConnection, StartStep, ReceiveStep

LEMMA StepPInv == PInv /\ [NextConnection]_vars => PInv'
  <1> SUFFICES ASSUME PInv, [NextConnection]_vars PROVE PInv'
    OBVIOUS
  <1>1. CInv' /\ Counted'
    BY StepConnection, StepPumping DEF PInv
  <1>2. [Pumped!Next]_Pumped!vars
    BY StepPumping, OnePump
  <1>3. Pumped!IInv'
    BY <1>2, Pumped!StepInvariant, PumpBound, CapacityAssumption DEF PInv
  <1> QED BY <1>1, <1>3 DEF PInv

LEMMA PumpingInvariance == SpecConnection => []PInv
  BY StepPInv, InitPumping, PTL DEF SpecConnection

(* Whatever its options and its client make the connection say, its outbox *)
(* and its writes behave as the write pump does by itself.                 *)
THEOREM ConnectionWrites == SpecConnection => WritesAsSpecified
  <1>1. InitConnection => Pump!Init
    BY DEF InitConnection, Pump!Init, NewOutbox, Pump!NewOutbox
  <1>2. PInv /\ [NextConnection]_vars => [Pump!Next]_Pump!vars
    BY StepPumping
  <1> QED BY <1>1, <1>2, PumpingInvariance, PTL
          DEF SpecConnection, WritesAsSpecified, Pump!Spec

-----------------------------------------------------------------------------
(* The types of the connection: what was read is the beginning of the      *)
(* client's script.                                                        *)

Scripted ==
  /\ Len(received) <= Len(script)
  /\ \A i \in 1 .. Len(received) : received[i] = script[i]

Flagged == negotiating \in [local : SUBSET Options, remote : SUBSET Options]

LEMMA ScriptedIsPrefix ==
  ASSUME NEW S, NEW s, s \in Seq(S), NEW t, t \in Seq(S), Len(s) <= Len(t),
         \A i \in 1 .. Len(s) : s[i] = t[i]
  PROVE  IsPrefix(s, t)
  <1>1. PICK n : n = Len(s)
    OBVIOUS
  <1>2. n \in Nat /\ Len(t) \in Nat
    BY <1>1, LenProperties
  <1>3. /\ \A i \in 1 .. n : s[i] \in S /\ t[i] \in S /\ s[i] = t[i]
    BY <1>1, <1>2, ElementOfSeq
  <1>4. PICK a, b : a = SubSeq(s, 1, n) /\ b = SubSeq(t, 1, n)
    OBVIOUS
  <1>5. a \in Seq(S) /\ Len(a) = n /\ \A i \in 1 .. n : a[i] = s[i]
    BY <1>2, <1>3, <1>4, SubSeqProperties
  <1>6. b \in Seq(S) /\ Len(b) = n /\ \A i \in 1 .. n : b[i] = t[i]
    BY <1>2, <1>3, <1>4, SubSeqProperties
  <1>7. a = b
    BY <1>3, <1>5, <1>6, SeqEqual
  <1> QED BY <1>1, <1>4, <1>7 DEF IsPrefix

(* What the socket hands over is what the script goes on with.             *)
LEMMA ReadScripted ==
  CInv /\ Scripted /\ ReadSome => Scripted'
  <1> SUFFICES ASSUME CInv, Scripted, ReadSome PROVE Scripted'
    OBVIOUS
  <1>1. PICK n \in 1 .. MaxRead :
          /\ Len(received) + n <= Len(script)
          /\ ReadCompletes(SubSeq(script, Len(received) + 1, Len(received) + n))
    BY DEF ReadSome
  <1>2. PICK m : m = Len(received)
    OBVIOUS
  <1>3. PICK text : text = script
    OBVIOUS
  <1>4. /\ received \in Seq(ClientByte) /\ text \in Seq(ClientByte)
        /\ m \in Nat /\ Len(text) \in Nat /\ n \in Nat /\ m + n <= Len(text)
        /\ script' = script
    BY <1>1, <1>2, <1>3, ReadAssumption, OptionsAssumption, LenProperties
       DEF CInv, Placed, Shaped, Proved!IInv, Proved!TypeOK, ReadSome, startVars
  <1>5. PICK chunk : chunk = SubSeq(text, m + 1, m + n)
    OBVIOUS
  <1>6. /\ chunk \in Seq(ClientByte) /\ Len(chunk) = n
        /\ \A i \in 1 .. n : chunk[i] = text[m + i]
    <2>1. \A k \in m + 1 .. m + n : text[k] \in ClientByte
      BY <1>4, ElementOfSeq
    <2>2. /\ chunk \in Seq(ClientByte)
          /\ Len(chunk) = IF m + 1 <= m + n THEN (m + n) - (m + 1) + 1 ELSE 0
          /\ \A i \in 1 .. (m + n) - (m + 1) + 1 : chunk[i] = text[(m + 1) + i - 1]
      BY <1>4, <1>5, <2>1, SubSeqProperties
    <2>3. (m + n) - (m + 1) + 1 = n /\ m + 1 <= m + n
          /\ \A i \in 1 .. n : (m + 1) + i - 1 = m + i
      BY <1>4, <1>1
    <2> QED BY <2>2, <2>3
  <1>7. received' = received \o chunk
    BY <1>1, <1>2, <1>3, <1>5 DEF ReadCompletes
  <1>8. PICK all : all = received \o chunk
    OBVIOUS
  <1>9. /\ Len(all) = m + n
        /\ \A i \in 1 .. m + n : all[i] = IF i <= m THEN received[i] ELSE chunk[i - m]
    BY <1>2, <1>4, <1>6, <1>8, ConcatProperties
  <1>10. ASSUME NEW i \in 1 .. m + n PROVE all[i] = text[i]
    <2>1. CASE i <= m
      BY <1>2, <1>3, <1>4, <1>9, <2>1 DEF Scripted
    <2>2. CASE ~(i <= m)
      <3>1. i - m \in 1 .. n /\ m + (i - m) = i
        BY <1>4, <2>2
      <3> QED BY <1>6, <1>9, <2>2, <3>1
    <2> QED BY <2>1, <2>2
  <1> QED BY <1>3, <1>4, <1>7, <1>8, <1>9, <1>10 DEF Scripted

LEMMA NegotiateFlags ==
  ASSUME NEW command, NEW option, option \in Options, Flagged,
         Negotiate(command, option)
  PROVE  Flagged'
  BY DEF Flagged, Negotiate

LEMMA StepTyped ==
  PInv /\ Scripted /\ Flagged /\ [NextConnection]_vars => Scripted' /\ Flagged'
  <1> SUFFICES ASSUME PInv, Scripted, Flagged, [NextConnection]_vars
               PROVE  Scripted' /\ Flagged'
    OBVIOUS
  <1>1. CASE UNCHANGED <<received, script, negotiating>>
    BY <1>1 DEF Scripted, Flagged
  <1>2. CASE ReadSome
    BY <1>2, ReadScripted DEF PInv, ReadSome, outputVars, Flagged
  <1>3. CASE StartOption
    <2>1. /\ todo # << >> /\ Negotiate(Head(todo)[1], Head(todo)[2])
          /\ UNCHANGED <<received, script>>
      BY <1>3 DEF StartOption, receiveVars, historyVars
    <2>2. Head(todo) \in Offered
      BY <2>1, HeadTailProperties, EmptySeq DEF PInv, Counted
    <2>3. Head(todo)[2] \in Options
      BY <2>2 DEF Offered
    <2>4. Flagged'
      BY <2>1, <2>3, NegotiateFlags
    <2> QED BY <2>1, <2>4 DEF Scripted
  <1>4. CASE ReceiveNegotiation
    <2>1. OnReceiveNegotiation(inbox[2], inbox[3]) /\ UNCHANGED <<received, script>>
      BY <1>4 DEF ReceiveNegotiation, TakeNegotiation, startVars
    <2>2. CASE inbox[3] \in Options
      <3>1. Flagged'
        BY <2>1, <2>2, NegotiateFlags DEF OnReceiveNegotiation
      <3> QED BY <2>1, <3>1 DEF Scripted
    <2>3. CASE inbox[3] \notin Options
      BY <2>1, <2>3 DEF OnReceiveNegotiation, Scripted, Flagged
    <2> QED BY <2>2, <2>3
  <1>5. CASE Start \/ StartTimer \/ TimerFires \/ ReadEnds \/ WriteStep
    BY <1>1, <1>5 DEF Start, StartTimer, TimerFires, ReadEnds, ReadFails, WriteStep,
       Transmit, WriteEnds, receiveVars, historyVars, startVars, outputVars
  <1>6. CASE ReceiveCommandLine \/ ReceiveOther
    BY <1>1, <1>6 DEF ReceiveCommandLine, ReceiveOther, CutCommand, TakeEscape,
       TakeText, TakeCommand, SeekSubnegotiationEnd, NoMoreCommands, Receive,
       EmitText, receiveVars, historyVars, startVars, outputVars
  <1>7. CASE UNCHANGED vars
    BY <1>1, <1>7 DEF vars, receiveVars, historyVars, startVars, outputVars
  <1> QED BY <1>2, <1>3, <1>4, <1>5, <1>6, <1>7
       DEF NextConnection, StartStep, ReceiveStep

(* What the client has sent, what the options flag and what the program    *)
(* was told have their types, and a client is only read along its script.  *)
THEOREM ConnectionTypes == SpecConnection => []TypeOKConnection
  <1> DEFINE All == PInv /\ Told /\ Scripted /\ Flagged
  <1>1. InitConnection => All
    <2> SUFFICES ASSUME InitConnection PROVE All
      OBVIOUS
    <2>1. PInv /\ Told
      BY InitPumping, InitTold
    <2>2. received = << >> /\ negotiating = [local |-> {}, remote |-> {}]
          /\ script \in Seq(ClientByte)
      BY OptionsAssumption DEF InitConnection
    <2>3. Scripted /\ Flagged
      BY <2>2, EmptySeq, LenProperties DEF Scripted, Flagged
    <2> QED BY <2>1, <2>3
  <1>2. All /\ [NextConnection]_vars => All'
    <2> SUFFICES ASSUME All, [NextConnection]_vars PROVE All'
      OBVIOUS
    <2>1. PInv'
      BY StepPInv
    <2>2. Told'
      BY <2>1, StepTold DEF PInv
    <2> QED BY <2>1, <2>2, StepTyped
  <1>3. All => TypeOKConnection
    <2> SUFFICES ASSUME All PROVE TypeOKConnection
      OBVIOUS
    <2>1. received \in Seq(ClientByte) /\ script \in Seq(ClientByte)
      BY OptionsAssumption DEF PInv, CInv, Placed, Shaped, Proved!IInv, Proved!TypeOK
    <2>2. IsPrefix(received, script)
      BY <2>1, ScriptedIsPrefix DEF Scripted
    <2>3. outbox.isWriting \in BOOLEAN /\ outbox.gap \in Nat /\ outbox.room \in Nat
      BY DEF PInv, Pumped!IInv, Pumped!Consistent, Pumped!Box
    <2>4. todo \in Seq({"WILL", "DO"} \X Options)
      BY DEF PInv, Counted, Offered
    <2> QED BY <2>2, <2>3, <2>4
         DEF PInv, CInv, Placed, Shaped, HandedOver, Told, Flagged, TypeOKConnection
  <1> HIDE DEF All
  <1> QED BY <1>1, <1>2, <1>3, PTL DEF SpecConnection

-----------------------------------------------------------------------------
(* What the connection says is what it owes.                               *)

Sayable == ClientByte \cup Offer \cup {"IAC"}

LEMMA SayableBytes ==
  /\ ClientByte \subseteq Sayable /\ Offer \subseteq Sayable /\ "IAC" \in Sayable
  /\ Options \subseteq Sayable
  /\ Seq(ClientByte) \subseteq Seq(Sayable)
  /\ Proved!Octet = Sayable /\ Pumped!Byte = Sayable
  <1>1. /\ ClientByte \subseteq Sayable /\ Offer \subseteq Sayable /\ "IAC" \in Sayable
        /\ Options \subseteq Sayable
    BY OptionsAssumption DEF Sayable
  <1>2. Proved!Octet = Sayable /\ Pumped!Byte = Sayable
    BY DEF Sayable, Proved!Octet, Pumped!Byte, Proved!Offer, Offer
  <1> QED BY <1>1, <1>2, SeqMonotonic

LEMMA SameHeard == \A bytes : Proved!Heard(bytes) = Heard(bytes)
  BY DEF Proved!Heard, Heard, Proved!Hearing, Hearing, Proved!Hear, Hear,
         Proved!Offer, Offer

LEMMA HeardByteStrings ==
  ASSUME NEW bytes, bytes \in Seq(Sayable)
  PROVE  Heard(bytes) \in Seq(Seq(Sayable))
  <1>1. Proved!Heard(bytes) \in Seq(Seq(Sayable))
    BY Proved!HeardIsTyped, ReadAssumption, CharAssumption, SayableBytes
  <1> QED BY <1>1, SameHeard

(* The answers to events, one after the other.                             *)
AnswerMap == [event \in Seq(Sayable) |-> Answer(event)]

LEMMA AnswerIsTyped ==
  ASSUME NEW event, event \in Seq(Sayable)
  PROVE  Answer(event) \in Seq(Sayable)
  <1>1. CASE Len(event) # 3
    BY <1>1, EmptySeq DEF Answer
  <1>2. CASE Len(event) = 3
    <2>1. event[3] \in Sayable
      <3>1. 3 \in 1 .. Len(event)
        BY <1>2
      <3> QED BY <3>1, ElementOfSeq
    <2>2. PICK option : option = event[3]
      OBVIOUS
    <2>3. <<"IAC", "DONT", option>> \in Seq(Sayable)
          /\ <<"IAC", "WONT", option>> \in Seq(Sayable)
      <3>1. "IAC" \in Sayable /\ "DONT" \in Sayable /\ "WONT" \in Sayable
        BY DEF Sayable, Offer
      <3> QED BY ONLY <2>1, <2>2, <3>1
    <2>4. \/ Answer(event) = event
          \/ Answer(event) = <<"IAC", "DONT", option>>
          \/ Answer(event) = <<"IAC", "WONT", option>>
          \/ Answer(event) = << >>
      BY <1>2, <2>2, Zenon DEF Answer
    <2> QED BY <2>3, <2>4, EmptySeq
  <1> QED BY <1>1, <1>2

LEMMA AnswerMapIsTyped == AnswerMap \in Maps(Seq(Sayable), Seq(Sayable))
  BY AnswerIsTyped DEF AnswerMap, Maps

LEMMA AnswersAreMapped ==
  ASSUME NEW events, events \in Seq(Seq(Sayable))
  PROVE  /\ Answers(events) = FlattenSeq(Mapped(AnswerMap, events))
         /\ Mapped(AnswerMap, events) \in Seq(Seq(Sayable))
         /\ Len(Mapped(AnswerMap, events)) = Len(events)
         /\ \A i \in 1 .. Len(events) : Mapped(AnswerMap, events)[i] = Answer(events[i])
         /\ Answers(events) \in Seq(Sayable)
  <1>1. PICK A : A = Seq(Sayable)
    OBVIOUS
  <1>2. events \in Seq(A) /\ DOMAIN events = 1 .. Len(events)
    BY <1>1, LenProperties
  <1>3. \A i \in DOMAIN events : AnswerMap[events[i]] = Answer(events[i])
    <2> TAKE i \in DOMAIN events
    <2>1. events[i] \in Seq(Sayable)
      BY <1>1, <1>2, ElementOfSeq
    <2> QED BY <2>1 DEF AnswerMap
  <1>4. Mapped(AnswerMap, events) = [i \in DOMAIN events |-> Answer(events[i])]
    BY <1>3, Zenon DEF Mapped
  <1>5. AnswerMap \in Maps(A, A)
    BY <1>1, AnswerMapIsTyped
  <1>6. PICK f : f = AnswerMap
    OBVIOUS
  <1>7. f \in Maps(A, A)
    BY <1>5, <1>6
  <1>8. events \in Seq(A)
    BY <1>2
  <1>9. Mapped(f, events) \in Seq(A) /\ Len(Mapped(f, events)) = Len(events)
        /\ \A i \in 1 .. Len(events) : Mapped(f, events)[i] = f[events[i]]
    BY ONLY <1>7, <1>8, MapIsTyped
  <1>10. FlattenSeq(Mapped(f, events)) \in Seq(Sayable)
    <2>1. PICK m : m = Mapped(f, events)
      OBVIOUS
    <2>2. m \in Seq(Seq(Sayable))
      BY <1>1, <1>9, <2>1
    <2>3. FlattenSeq(m) \in Seq(Sayable)
      BY ONLY <2>2, FlattenIsTyped
    <2> QED BY <2>1, <2>3
  <1>11. Answers(events) = FlattenSeq(Mapped(AnswerMap, events))
    BY <1>4, Zenon DEF Answers
  <1>12. \A i \in 1 .. Len(events) : Mapped(AnswerMap, events)[i] = Answer(events[i])
    BY <1>2, <1>4, Zenon
  <1>13. Answers(events) \in Seq(Sayable)
    BY <1>6, <1>10, <1>11, Zenon
  <1>14. Mapped(AnswerMap, events) \in Seq(Seq(Sayable))
         /\ Len(Mapped(AnswerMap, events)) = Len(events)
    BY <1>1, <1>6, <1>9, Zenon
  <1> QED BY <1>11, <1>12, <1>13, <1>14

LEMMA AnswersConcat ==
  ASSUME NEW events, events \in Seq(Seq(Sayable)), NEW more, more \in Seq(Seq(Sayable))
  PROVE  Answers(events \o more) = Answers(events) \o Answers(more)
  <1>1. PICK A : A = Seq(Sayable)
    OBVIOUS
  <1>2. PICK f : f = AnswerMap
    OBVIOUS
  <1>3. events \in Seq(A)
    BY <1>1
  <1>4. more \in Seq(A)
    BY <1>1
  <1>5. f \in Maps(A, A)
    BY <1>1, <1>2, AnswerMapIsTyped
  <1>6. Mapped(f, events \o more) = Mapped(f, events) \o Mapped(f, more)
    BY ONLY <1>3, <1>4, <1>5, MapConcat
  <1>7. events \o more \in Seq(Seq(Sayable))
    BY <1>1, <1>3, <1>4, ConcatProperties
  <1>8. PICK a : a = Mapped(f, events)
    OBVIOUS
  <1>9. PICK b : b = Mapped(f, more)
    OBVIOUS
  <1>10. a \in Seq(Seq(Sayable)) /\ Answers(events) = FlattenSeq(a)
    BY <1>2, <1>8, AnswersAreMapped, Zenon
  <1>11. b \in Seq(Seq(Sayable)) /\ Answers(more) = FlattenSeq(b)
    BY <1>2, <1>9, AnswersAreMapped, Zenon
  <1>12. FlattenSeq(a \o b) = FlattenSeq(a) \o FlattenSeq(b)
    <2>1. a \in Seq(Seq(Sayable))
      BY <1>10
    <2>2. b \in Seq(Seq(Sayable))
      BY <1>11
    <2> QED BY ONLY <2>1, <2>2, FlattenConcat
  <1>13. Answers(events \o more) = FlattenSeq(Mapped(f, events \o more))
    BY <1>2, <1>7, AnswersAreMapped, Zenon
  <1> QED BY <1>6, <1>8, <1>9, <1>10, <1>11, <1>12, <1>13, Zenon

(* Nothing but offers is answered.                                         *)
LEMMA NothingToAnswer ==
  ASSUME NEW events, events \in Seq(Seq(Sayable)),
         \A i \in 1 .. Len(events) : Len(events[i]) # 3
  PROVE  Answers(events) = << >>
  <1>1. PICK m : m = Mapped(AnswerMap, events)
    OBVIOUS
  <1>2. m \in Seq(Seq(Sayable)) /\ Len(m) = Len(events) /\ Answers(events) = FlattenSeq(m)
        /\ \A i \in 1 .. Len(events) : m[i] = Answer(events[i])
    BY <1>1, AnswersAreMapped, Zenon
  <1>3. \A i \in 1 .. Len(m) : m[i] = << >>
    BY <1>2 DEF Answer
  <1>4. m \in Seq(Seq(Sayable))
    BY <1>2
  <1>5. FlattenSeq(m) = << >>
    BY ONLY <1>3, <1>4, FlattenOfEmpties
  <1> QED BY <1>2, <1>5

LEMMA OneToAnswer ==
  ASSUME NEW event, event \in Seq(Sayable)
  PROVE  Answers(<<event>>) = Answer(event)
  <1>1. <<event>> \in Seq(Seq(Sayable)) /\ Len(<<event>>) = 1 /\ <<event>>[1] = event
    <2>1. PICK A : A = Seq(Sayable)
      OBVIOUS
    <2>2. <<event>> \in Seq(A)
      BY <2>1
    <2> QED BY <2>1, <2>2
  <1>2. PICK one : one = <<event>>
    OBVIOUS
  <1>3. PICK m : m = Mapped(AnswerMap, one)
    OBVIOUS
  <1>4. m \in Seq(Seq(Sayable)) /\ Len(m) = 1 /\ m[1] = Answer(event)
        /\ Answers(one) = FlattenSeq(m)
    <2>1. one \in Seq(Seq(Sayable)) /\ Len(one) = 1 /\ one[1] = event
      BY <1>1, <1>2
    <2>2. 1 \in 1 .. 1
      OBVIOUS
    <2> QED BY <1>3, <2>1, <2>2, AnswersAreMapped, Zenon
  <1>5. PICK A : A = Seq(Sayable)
    OBVIOUS
  <1>6. m \in Seq(A)
    BY <1>4, <1>5
  <1>7. m = <<m[1]>>
    BY <1>4, <1>6, WrittenOut
  <1>8. PICK a : a = Answer(event)
    OBVIOUS
  <1>9. a \in Seq(Sayable)
    BY <1>8, AnswerIsTyped
  <1>10. FlattenSeq(<<a>>) = a
    BY ONLY <1>9, FlattenOfOne
  <1> QED BY <1>2, <1>4, <1>7, <1>8, <1>10, Zenon

(* The bytes of the negotiations that start() begins.                      *)
OfferMap == [offer \in Offered |-> <<"IAC">> \o offer]

LEMMA OfferMapIsTyped ==
  /\ OfferMap \in Maps(Offered, Seq(Sayable))
  /\ \A c \in {"WILL", "DO"}, o \in Options : OfferMap[<<c, o>>] = <<"IAC", c, o>>
  <1>1. ASSUME NEW c, c \in {"WILL", "DO"}, NEW o, o \in Options
        PROVE  <<"IAC">> \o <<c, o>> = <<"IAC", c, o>> /\ <<"IAC", c, o>> \in Seq(Sayable)
    <2>1. c \in Sayable /\ o \in Sayable /\ "IAC" \in Sayable
      BY <1>1, SayableBytes DEF Offer
    <2>2. PICK one : one = <<"IAC">>
      OBVIOUS
    <2>3. PICK two : two = <<c, o>>
      OBVIOUS
    <2>4. PICK three : three = <<"IAC", c, o>>
      OBVIOUS
    <2>5. one \in Seq(Sayable) /\ Len(one) = 1 /\ one[1] = "IAC"
      BY ONLY <2>1, <2>2
    <2>6. two \in Seq(Sayable) /\ Len(two) = 2 /\ two[1] = c /\ two[2] = o
      BY ONLY <2>1, <2>3
    <2>7. /\ three \in Seq(Sayable) /\ Len(three) = 3
          /\ three[1] = "IAC" /\ three[2] = c /\ three[3] = o
      BY ONLY <2>1, <2>4
    <2>8. one \o two = three
      <3>1. PICK both : both = one \o two
        OBVIOUS
      <3>2. /\ both \in Seq(Sayable) /\ Len(both) = 3
            /\ both[1] = one[1] /\ both[2] = two[1] /\ both[3] = two[2]
        <4>1. /\ both \in Seq(Sayable) /\ Len(both) = Len(one) + Len(two)
              /\ \A i \in 1 .. Len(one) + Len(two) :
                   both[i] = IF i <= Len(one) THEN one[i] ELSE two[i - Len(one)]
          BY <2>5, <2>6, <3>1, ConcatProperties
        <4>2. 1 \in 1 .. 3 /\ 2 \in 1 .. 3 /\ 3 \in 1 .. 3 /\ 2 - 1 = 1 /\ 3 - 1 = 2
          OBVIOUS
        <4> QED BY <2>5, <2>6, <4>1, <4>2
      <3>3. \A i \in 1 .. 3 : both[i] = three[i]
        BY <2>5, <2>6, <2>7, <3>2
      <3> QED BY <2>7, <3>1, <3>2, <3>3, SeqEqual
    <2> QED BY <2>2, <2>3, <2>4, <2>7, <2>8
  <1>2. \A offer \in Offered : <<"IAC">> \o offer \in Seq(Sayable)
    <2> TAKE offer \in Offered
    <2>1. PICK c \in {"WILL", "DO"}, o \in Options : offer = <<c, o>>
      BY DEF Offered
    <2> QED BY <1>1, <2>1
  <1>3. \A c \in {"WILL", "DO"}, o \in Options : <<c, o>> \in Offered
    BY DEF Offered
  <1> QED BY <1>1, <1>2, <1>3 DEF OfferMap, Maps

LEMMA OpeningBytesAreMapped ==
  ASSUME NEW offers, offers \in Seq(Offered)
  PROVE  /\ OpeningBytes(offers) = FlattenSeq(Mapped(OfferMap, offers))
         /\ Mapped(OfferMap, offers) \in Seq(Seq(Sayable))
         /\ OpeningBytes(offers) \in Seq(Sayable)
  <1>1. PICK A : A = Seq(Sayable)
    OBVIOUS
  <1>2. PICK f : f = OfferMap
    OBVIOUS
  <1>3. f \in Maps(Offered, A)
    BY <1>1, <1>2, OfferMapIsTyped
  <1>4. offers \in Seq(Offered)
    OBVIOUS
  <1>5. Mapped(f, offers) \in Seq(A)
    BY ONLY <1>3, <1>4, MapIsTyped
  <1>6. PICK m : m = Mapped(f, offers)
    OBVIOUS
  <1>7. m \in Seq(Seq(Sayable))
    BY <1>1, <1>5, <1>6
  <1>8. FlattenSeq(m) \in Seq(Sayable)
    BY ONLY <1>7, FlattenIsTyped
  <1>9. \A i \in DOMAIN offers : OfferMap[offers[i]] = <<"IAC">> \o offers[i]
    <2> TAKE i \in DOMAIN offers
    <2>1. offers[i] \in Offered
      BY LenProperties, ElementOfSeq
    <2> QED BY <2>1 DEF OfferMap
  <1>10. Mapped(OfferMap, offers) = [i \in DOMAIN offers |-> <<"IAC">> \o offers[i]]
    BY <1>9, Zenon DEF Mapped
  <1>11. OpeningBytes(offers) = FlattenSeq(Mapped(OfferMap, offers))
    BY <1>10, Zenon DEF OpeningBytes
  <1> QED BY <1>2, <1>6, <1>7, <1>8, <1>11, Zenon

LEMMA OpeningBytesOfNothing == OpeningBytes(<< >>) = << >>
  <1>1. [i \in DOMAIN << >> |-> <<"IAC">> \o << >>[i]] = << >>
    OBVIOUS
  <1> QED BY <1>1, FlattenOfNothing DEF OpeningBytes

LEMMA OpeningBytesOfFirst ==
  ASSUME NEW offers, offers \in Seq(Offered), offers # << >>,
         NEW c, c \in {"WILL", "DO"}, NEW o, o \in Options, Head(offers) = <<c, o>>
  PROVE  OpeningBytes(offers) = <<"IAC", c, o>> \o OpeningBytes(Tail(offers))
  <1>1. PICK rest : rest = Tail(offers)
    OBVIOUS
  <1>2. PICK e : e = <<c, o>>
    OBVIOUS
  <1>3. PICK one : one = <<e>>
    OBVIOUS
  <1>4. e \in Offered /\ one \in Seq(Offered) /\ rest \in Seq(Offered)
        /\ offers = one \o rest
    <2>1. e \in Offered
      BY <1>2 DEF Offered
    <2>2. one \in Seq(Offered)
      BY <1>3, <2>1
    <2>3. rest \in Seq(Offered)
      BY <1>1, HeadTailProperties
    <2>4. offers = <<Head(offers)>> \o Tail(offers)
      BY HeadTailProperties, ConcatProperties, SeqEqual
    <2> QED BY <1>1, <1>2, <1>3, <2>1, <2>2, <2>3, <2>4
  <1>5. PICK A : A = Seq(Sayable)
    OBVIOUS
  <1>6. PICK f : f = OfferMap
    OBVIOUS
  <1>7. f \in Maps(Offered, A)
    BY <1>5, <1>6, OfferMapIsTyped
  <1>8. one \in Seq(Offered)
    BY <1>4
  <1>9. rest \in Seq(Offered)
    BY <1>4
  <1>10. Mapped(f, one \o rest) = Mapped(f, one) \o Mapped(f, rest)
    BY ONLY <1>7, <1>8, <1>9, MapConcat
  <1>11. PICK a : a = Mapped(f, one)
    OBVIOUS
  <1>12. PICK b : b = Mapped(f, rest)
    OBVIOUS
  <1>13. a \in Seq(Seq(Sayable))
    BY <1>6, <1>8, <1>11, OpeningBytesAreMapped, Zenon
  <1>14. b \in Seq(Seq(Sayable))
    BY <1>6, <1>9, <1>12, OpeningBytesAreMapped, Zenon
  <1>15. FlattenSeq(a \o b) = FlattenSeq(a) \o FlattenSeq(b)
    BY ONLY <1>13, <1>14, FlattenConcat
  <1>16. PICK bytes : bytes = <<"IAC", c, o>>
    OBVIOUS
  <1>17. f[e] = bytes /\ bytes \in Seq(Sayable)
    <2>1. f[e] = bytes
      BY <1>2, <1>6, <1>16, OfferMapIsTyped
    <2>2. f[e] \in A
      BY <1>4, <1>7 DEF Maps
    <2> QED BY <1>5, <2>1, <2>2
  <1>18. a = <<bytes>>
    <2>1. DOMAIN one = 1 .. 1 /\ one[1] = e
      BY <1>3
    <2>2. a = [i \in 1 .. 1 |-> f[one[i]]]
      BY <1>11, <2>1, Zenon DEF Mapped
    <2> QED BY <1>17, <2>1, <2>2
  <1>19. bytes \in Seq(Sayable)
    BY <1>17
  <1>20. FlattenSeq(<<bytes>>) = bytes
    BY ONLY <1>19, FlattenOfOne
  <1>21. OpeningBytes(offers) = FlattenSeq(Mapped(f, offers))
    BY <1>6, OpeningBytesAreMapped, Zenon
  <1>22. OpeningBytes(rest) = FlattenSeq(b)
    BY <1>6, <1>9, <1>12, OpeningBytesAreMapped, Zenon
  <1> QED BY <1>1, <1>4, <1>10, <1>11, <1>12, <1>15, <1>16, <1>18, <1>20, <1>21,
           <1>22, Zenon

-----------------------------------------------------------------------------
(* All that has been queued is what start() and the client's offers so far *)
(* make the connection say, but for what start() has yet to begin.         *)
Replied ==
  pc # "new" =>
    \E order \in SetToSeqs(Options) :
      queued \o OpeningBytes(todo)
        = OpeningBytes(Opening(order)) \o Answers(Heard(framed))

RInv == PInv /\ Proved!DecodedInv /\ Replied

LEMMA ReplyTypes ==
  ASSUME PInv
  PROVE  /\ queued \in Seq(Sayable) /\ framed \in Seq(Sayable)
         /\ received \in Seq(Sayable) /\ inbox \in Seq(Sayable)
         /\ received = framed \o inbox
         /\ Heard(framed) \in Seq(Seq(Sayable))
         /\ todo \in Seq(Offered) /\ OpeningBytes(todo) \in Seq(Sayable)
  <1>1. queued \in Seq(Sayable)
    BY SayableBytes DEF PInv, Pumped!IInv, Pumped!Consistent
  <1>2. /\ framed \in Seq(Sayable) /\ received \in Seq(Sayable) /\ inbox \in Seq(Sayable)
        /\ received = framed \o inbox
    BY SayableBytes DEF PInv, CInv, Proved!IInv, Proved!TypeOK, Proved!NothingLost
  <1>3. todo \in Seq(Offered)
    BY DEF PInv, Counted
  <1> QED BY <1>1, <1>2, <1>3, HeardByteStrings, OpeningBytesAreMapped

LEMMA OfferAnswered ==
  ASSUME NEW command, command \in Offer, NEW option, queued \in Seq(Sayable),
         OnReceiveNegotiation(command, option)
  PROVE  queued' = queued \o Answer(<<"IAC", command, option>>)
  <1> DEFINE event == <<"IAC", command, option>>
  <1>1. Len(event) = 3 /\ event[2] = command /\ event[3] = option
    OBVIOUS
  <1>2. SayNothing => queued' = queued \o << >>
    BY ConcatEmptySeq DEF SayNothing
  <1>3. \A c : Say(c, option) => queued' = queued \o <<"IAC", c, option>>
    BY DEF Say
  <1>4. Answer(event) =
          CASE command \in {"WILL", "DO"} /\ option \in Options -> event
            [] command = "WILL" /\ option \notin Options -> <<"IAC", "DONT", option>>
            [] command = "DO" /\ option \notin Options -> <<"IAC", "WONT", option>>
            [] OTHER -> << >>
    BY <1>1, Zenon DEF Answer
  <1>5. CASE command \in {"WILL", "DO"} /\ option \in Options
    <2>1. Say(command, option)
      BY <1>5 DEF OnReceiveNegotiation, Negotiate
    <2>2. Answer(event) = event
      BY <1>4, <1>5
    <2> QED BY <1>3, <2>1, <2>2
  <1>6. CASE command = "WILL" /\ option \notin Options
    <2>1. Say("DONT", option)
      BY <1>6 DEF OnReceiveNegotiation
    <2>2. Answer(event) = <<"IAC", "DONT", option>>
      BY <1>4, <1>6
    <2> QED BY <1>3, <2>1, <2>2
  <1>7. CASE command = "DO" /\ option \notin Options
    <2>1. Say("WONT", option)
      BY <1>7 DEF OnReceiveNegotiation
    <2>2. Answer(event) = <<"IAC", "WONT", option>>
      BY <1>4, <1>7
    <2> QED BY <1>3, <2>1, <2>2
  <1>8. CASE command \notin {"WILL", "DO"}
    <2>1. SayNothing
      BY <1>8 DEF OnReceiveNegotiation, Negotiate
    <2>2. Answer(event) = << >>
      BY <1>4, <1>8
    <2> QED BY <1>2, <2>1, <2>2
  <1> QED BY <1>5, <1>6, <1>7, <1>8

(* A message of the receiver, told by either name, adds its events.        *)
LEMMA EventsHeard ==
  ASSUME Proved!DecodedInv, Proved!DecodedInv', NEW m, m \in Proved!Message,
         messages' = Append(messages, m)
  PROVE  Heard(framed') = Heard(framed) \o Proved!Events(m)
  <1>1. Proved!Heard(framed') = Proved!Heard(framed) \o Proved!Events(m)
    BY Proved!MessageHeard, ReadAssumption, CharAssumption
  <1> QED BY <1>1, SameHeard, Zenon

LEMMA RepliedStays ==
  ASSUME RInv, UNCHANGED <<queued, todo>>, pc' # "new" => pc # "new",
         Answers(Heard(framed')) = Answers(Heard(framed))
  PROVE  Replied'
  <1> SUFFICES ASSUME pc' # "new"
               PROVE  \E order \in SetToSeqs(Options) :
                        queued' \o OpeningBytes(todo')
                          = OpeningBytes(Opening(order)) \o Answers(Heard(framed'))
    BY DEF Replied
  <1>1. PICK order \in SetToSeqs(Options) :
          queued \o OpeningBytes(todo)
            = OpeningBytes(Opening(order)) \o Answers(Heard(framed))
    BY DEF RInv, Replied
  <1> QED BY <1>1, Zenon

(* A message without an offer in it calls for no answer.                   *)
LEMMA NoOfferHeard ==
  ASSUME RInv, PInv', Proved!DecodedInv', NEW m, m \in Proved!Message,
         messages' = Append(messages, m), m.type # "Negotiation"
  PROVE  Answers(Heard(framed')) = Answers(Heard(framed))
  <1>1. PICK events : events = Proved!Events(m)
    OBVIOUS
  <1>2. Heard(framed') = Heard(framed) \o events
    BY <1>1, EventsHeard DEF RInv
  <1>3. events \in Seq(Seq(Sayable))
    BY <1>1, Proved!EventsAreTyped, ReadAssumption, CharAssumption, SayableBytes
       DEF Proved!Said
  <1>4. \A i \in 1 .. Len(events) : Len(events[i]) # 3
    <2>1. CASE m.type = "AppData"
      <3>1. events = [i \in DOMAIN m.data |-> <<m.data[i]>>]
        BY <1>1, <2>1 DEF Proved!Events
      <3>2. m.data \in Seq(ClientByte)
        BY <2>1 DEF Proved!Message
      <3>3. DOMAIN events = 1 .. Len(events)
        BY <1>3, LenProperties
      <3>4. \A i \in DOMAIN events : Len(events[i]) = 1
        BY <3>1
      <3> QED BY <3>3, <3>4
    <2>2. CASE m.type = "Command"
      <3>1. events = <<<<"IAC", m.code>>>>
        BY <1>1, <2>2 DEF Proved!Events, Proved!Encoding
      <3> QED BY <3>1
    <2> QED BY <2>1, <2>2 DEF Proved!Message
  <1>5. Answers(events) = << >>
    BY <1>3, <1>4, NothingToAnswer
  <1>6. Heard(framed) \in Seq(Seq(Sayable))
    BY ReplyTypes DEF RInv
  <1>7. Answers(Heard(framed) \o events) = Answers(Heard(framed)) \o Answers(events)
    BY <1>3, <1>6, AnswersConcat
  <1>8. Answers(Heard(framed)) \o << >> = Answers(Heard(framed))
    BY <1>6, AnswersAreMapped, ConcatEmptySeq
  <1> QED BY <1>2, <1>5, <1>7, <1>8, Zenon

LEMMA StartReplies ==
  ASSUME RInv, Start
  PROVE  Replied'
  <1>1. /\ pc = "new" /\ queued' = queued /\ framed' = framed
        /\ \E order \in SetToSeqs(Options) : todo' = Opening(order)
    BY DEF Start, historyVars
  <1>2. queued = << >> /\ framed = << >>
    BY <1>1 DEF RInv, PInv, Counted
  <1>3. PICK order \in SetToSeqs(Options) : todo' = Opening(order)
    BY <1>1
  <1>4. PICK bytes : bytes = OpeningBytes(Opening(order))
    OBVIOUS
  <1>5. bytes \in Seq(Sayable)
    <2>1. Opening(order) \in Seq(Offered)
      BY OpeningIsShort
    <2> QED BY <1>4, <2>1, OpeningBytesAreMapped
  <1>6. Heard(<< >>) = << >>
    <2>1. Proved!Heard(<< >>) = << >>
      BY Proved!HearingOfNothing, ReadAssumption, CharAssumption
         DEF Proved!Heard, Proved!Unheard
    <2> QED BY <2>1, SameHeard
  <1>7. Answers(<< >>) = << >>
    <2>1. [i \in DOMAIN << >> |-> Answer(<< >>[i])] = << >>
      OBVIOUS
    <2> QED BY <2>1, FlattenOfNothing DEF Answers
  <1>8. << >> \o bytes = bytes \o << >>
    BY <1>5, ConcatEmptySeq
  <1>9. queued' \o OpeningBytes(todo')
          = OpeningBytes(Opening(order)) \o Answers(Heard(framed'))
    BY <1>1, <1>2, <1>3, <1>4, <1>6, <1>7, <1>8, Zenon
  <1> QED BY <1>9 DEF Replied

LEMMA StartOptionReplies ==
  ASSUME RInv, StartOption
  PROVE  Replied'
  <1>1. /\ pc = "start" /\ framed' = framed /\ todo # << >>
        /\ Negotiate(Head(todo)[1], Head(todo)[2]) /\ todo' = Tail(todo)
    BY DEF StartOption, receiveVars, historyVars
  <1>2. /\ queued \in Seq(Sayable) /\ todo \in Seq(Offered)
        /\ Tail(todo) \in Seq(Offered) /\ Head(todo) \in Offered
    BY <1>1, ReplyTypes, HeadTailProperties, EmptySeq DEF RInv
  <1>3. PICK c \in {"WILL", "DO"}, o \in Options : Head(todo) = <<c, o>>
    BY <1>2 DEF Offered
  <1>4. PICK m : m = <<"IAC", c, o>>
    OBVIOUS
  <1>5. m \in Seq(Sayable)
    <2>1. c \in Sayable /\ o \in Sayable /\ "IAC" \in Sayable
      BY SayableBytes DEF Offer
    <2> QED BY ONLY <1>4, <2>1
  <1>6. queued' = queued \o m
    BY <1>1, <1>3, <1>4 DEF Negotiate, Say
  <1>7. PICK rest : rest = OpeningBytes(Tail(todo))
    OBVIOUS
  <1>8. rest \in Seq(Sayable)
    BY <1>2, <1>7, OpeningBytesAreMapped
  <1>9. OpeningBytes(todo) = m \o rest
    BY <1>1, <1>2, <1>3, <1>4, <1>7, OpeningBytesOfFirst
  <1>10. queued \in Seq(Sayable)
    BY <1>2
  <1>11. (queued \o m) \o rest = queued \o (m \o rest)
    BY ONLY <1>5, <1>8, <1>10, ConcatAssociative
  <1>12. PICK order \in SetToSeqs(Options) :
           queued \o OpeningBytes(todo)
             = OpeningBytes(Opening(order)) \o Answers(Heard(framed))
    BY <1>1 DEF RInv, Replied
  <1>13. queued' \o OpeningBytes(todo')
           = OpeningBytes(Opening(order)) \o Answers(Heard(framed'))
    BY <1>1, <1>6, <1>7, <1>9, <1>11, <1>12, Zenon
  <1> QED BY <1>13 DEF Replied

LEMMA OfferReplies ==
  ASSUME RInv, PInv', Proved!DecodedInv', ReceiveNegotiation
  PROVE  Replied'
  <1>1. /\ pc = "onReceive" /\ pc' = pc /\ todo' = todo /\ inbox[1] = "IAC"
        /\ inbox[2] \in Offer /\ inbox # << >> /\ ~Incomplete(inbox)
        /\ OnReceiveNegotiation(inbox[2], inbox[3])
        /\ messages' = Append(messages, Negotiation(inbox[2], inbox[3]))
    BY DEF ReceiveNegotiation, TakeNegotiation, Decoding, Emit, startVars
  <1>2. inbox \in Seq(ClientByte)
    BY DEF RInv, PInv, CInv, Proved!IInv, Proved!TypeOK
  <1>3. Len(inbox) >= 3 /\ Len(inbox) \in Nat
    BY <1>1, <1>2, LenProperties DEF Incomplete, Needed
  <1>4. PICK command : command = inbox[2]
    OBVIOUS
  <1>5. PICK option : option = inbox[3]
    OBVIOUS
  <1>6. command \in Offer /\ option \in ClientByte
    BY <1>1, <1>2, <1>3, <1>4, <1>5, ElementOfSeq
  <1>7. PICK event : event = <<"IAC", command, option>>
    OBVIOUS
  <1>8. event \in Seq(Sayable)
    <2>1. command \in Sayable /\ option \in Sayable /\ "IAC" \in Sayable
      BY <1>6, SayableBytes
    <2> QED BY ONLY <1>7, <2>1
  <1>9. PICK m : m = Negotiation(command, option)
    OBVIOUS
  <1>10. m \in Proved!Message /\ Proved!Events(m) = <<event>>
    BY <1>6, <1>7, <1>9
       DEF Negotiation, Proved!Message, Proved!Offer, Offer, Proved!Events,
           Proved!Encoding
  <1>11. messages' = Append(messages, m)
    BY <1>1, <1>4, <1>5, <1>9
  <1>12. Heard(framed') = Heard(framed) \o <<event>>
    BY <1>10, <1>11, EventsHeard DEF RInv
  <1>13. /\ queued \in Seq(Sayable) /\ Heard(framed) \in Seq(Seq(Sayable))
         /\ todo = << >>
    BY <1>1, ReplyTypes DEF RInv, PInv, Counted
  <1>14. <<event>> \in Seq(Seq(Sayable))
    <2>1. PICK A : A = Seq(Sayable)
      OBVIOUS
    <2>2. event \in A
      BY <1>8, <2>1
    <2>3. <<event>> \in Seq(A)
      BY ONLY <2>2
    <2> QED BY <2>1, <2>3
  <1>15. PICK answer : answer = Answer(event)
    OBVIOUS
  <1>16. PICK before : before = Answers(Heard(framed))
    OBVIOUS
  <1>17. answer \in Seq(Sayable) /\ before \in Seq(Sayable)
    BY <1>8, <1>13, <1>15, <1>16, AnswerIsTyped, AnswersAreMapped
  <1>18. Answers(Heard(framed')) = before \o answer
    <2>1. Answers(Heard(framed) \o <<event>>)
            = Answers(Heard(framed)) \o Answers(<<event>>)
      BY <1>13, <1>14, AnswersConcat
    <2>2. Answers(<<event>>) = Answer(event)
      BY <1>8, OneToAnswer
    <2> QED BY <1>12, <1>15, <1>16, <2>1, <2>2, Zenon
  <1>19. queued' = queued \o answer
    <2>1. OnReceiveNegotiation(command, option)
      BY <1>1, <1>4, <1>5
    <2> QED BY <1>6, <1>7, <1>13, <1>15, <2>1, OfferAnswered
  <1>20. PICK order \in SetToSeqs(Options) :
           queued \o OpeningBytes(todo) = OpeningBytes(Opening(order)) \o before
    BY <1>1, <1>16 DEF RInv, Replied
  <1>21. PICK opened : opened = OpeningBytes(Opening(order))
    OBVIOUS
  <1>22. opened \in Seq(Sayable)
    <2>1. Opening(order) \in Seq(Offered)
      BY OpeningIsShort
    <2> QED BY <1>21, <2>1, OpeningBytesAreMapped
  <1>23. queued = opened \o before
    BY <1>13, <1>20, <1>21, OpeningBytesOfNothing, ConcatEmptySeq
  <1>24. (opened \o before) \o answer = opened \o (before \o answer)
    BY <1>17, <1>22, ConcatAssociative
  <1>25. queued' \o OpeningBytes(todo') = queued \o answer
    <2>1. queued \o answer \in Seq(Sayable)
      BY <1>13, <1>17, ConcatProperties
    <2>2. (queued \o answer) \o << >> = queued \o answer
      BY <2>1, ConcatEmptySeq
    <2> QED BY <1>1, <1>13, <1>19, <2>2, OpeningBytesOfNothing, Zenon
  <1>26. queued' \o OpeningBytes(todo')
           = OpeningBytes(Opening(order)) \o Answers(Heard(framed'))
    BY <1>18, <1>21, <1>23, <1>24, <1>25, Zenon
  <1> QED BY <1>26 DEF Replied

LEMMA OtherReplies ==
  ASSUME RInv, PInv', Proved!DecodedInv', ReceiveOther
  PROVE  Replied'
  <1>1. UNCHANGED <<queued, todo>> /\ pc # "new"
    BY DEF ReceiveOther, startVars, outputVars, TakeEscape, TakeText, TakeCommand,
       SeekSubnegotiationEnd, NoMoreCommands, Receive, Decoding
  <1>2. CASE framed' = framed
    BY <1>1, <1>2, RepliedStays
  <1>3. ASSUME NEW m, m \in Proved!Message, m.type # "Negotiation",
               messages' = Append(messages, m)
        PROVE  Replied'
    BY <1>1, <1>3, NoOfferHeard, RepliedStays
  <1>4. inbox \in Seq(ClientByte) /\ messages' \in Seq(Proved!Message)
        /\ messages \in Seq(Proved!Message)
    BY DEF RInv, PInv, CInv, Proved!IInv, Proved!TypeOK
  <1>5. ASSUME NEW m, m.type # "Negotiation", messages' = Append(messages, m)
        PROVE  Replied'
    <2>1. /\ Len(messages') = Len(messages) + 1 /\ messages'[Len(messages) + 1] = m
          /\ Len(messages) \in Nat
      BY <1>4, <1>5, AppendProperties, LenProperties
    <2>2. m \in Proved!Message
      <3>1. Len(messages) + 1 \in 1 .. Len(messages')
        BY <2>1
      <3> QED BY <1>4, <2>1, <3>1, ElementOfSeq
    <2> QED BY <1>3, <1>5, <2>2
  <1>6. CASE TakeEscape \/ TakeText
    <2>1. PICK bytes : messages' = Append(messages, AppData(bytes))
      BY <1>6 DEF TakeEscape, TakeText, EmitText, Emit
    <2>2. AppData(bytes).type # "Negotiation"
      BY DEF AppData
    <2> QED BY <1>5, <2>1, <2>2
  <1>7. CASE TakeCommand
    <2>1. messages' = Append(messages, Command(inbox[2]))
      BY <1>7 DEF TakeCommand, Emit
    <2>2. Command(inbox[2]).type # "Negotiation"
      BY DEF Command
    <2> QED BY <1>5, <2>1, <2>2
  <1>8. CASE SeekSubnegotiationEnd \/ NoMoreCommands \/ Receive
    BY <1>2, <1>8 DEF SeekSubnegotiationEnd, NoMoreCommands, Receive, historyVars
  <1> QED BY <1>6, <1>7, <1>8 DEF ReceiveOther

LEMMA StepReplied ==
  ~CharIsSigned /\ RInv /\ [NextConnection]_vars => RInv'
  <1> SUFFICES ASSUME ~CharIsSigned, RInv, [NextConnection]_vars PROVE RInv'
    OBVIOUS
  <1>1. PInv' /\ Proved!DecodedInv'
    <2>1. PInv'
      BY StepPInv DEF RInv
    <2>2. [Proved!Next]_Proved!receiveVars
      BY ReceiverMoves DEF RInv, PInv
    <2> QED BY <2>1, <2>2, Proved!DecodedStep, ReadAssumption, CharAssumption DEF RInv
  <1>2. CASE UNCHANGED <<queued, todo, framed>> /\ (pc' # "new" => pc # "new")
    BY <1>1, <1>2, RepliedStays DEF RInv
  <1>3. CASE Start
    BY <1>1, <1>3, StartReplies DEF RInv
  <1>4. CASE StartOption
    BY <1>1, <1>4, StartOptionReplies DEF RInv
  <1>5. CASE ReceiveNegotiation
    BY <1>1, <1>5, OfferReplies DEF RInv
  <1>6. CASE ReceiveOther
    BY <1>1, <1>6, OtherReplies DEF RInv
  <1>7. CASE StartTimer \/ TimerFires \/ ReadSome \/ ReadEnds \/ ReceiveCommandLine
    BY <1>2, <1>7 DEF StartTimer, TimerFires, ReadSome, ReadCompletes, ReadEnds,
       ReadFails, ReceiveCommandLine, CutCommand, receiveVars, historyVars,
       startVars, outputVars
  <1>8. CASE WriteStep
    BY <1>2, <1>8 DEF WriteStep, Transmit, WriteEnds, receiveVars, historyVars,
       startVars
  <1>9. CASE UNCHANGED vars
    BY <1>2, <1>9 DEF vars, receiveVars, historyVars, startVars, outputVars
  <1> QED BY <1>3, <1>4, <1>5, <1>6, <1>7, <1>8, <1>9
       DEF NextConnection, StartStep, ReceiveStep

LEMMA InitReplied == InitConnection => RInv
  <1>1. InitConnection => Proved!Init
    BY DEF InitConnection, Proved!Init
  <1>2. InitConnection => Replied
    BY DEF InitConnection, Replied
  <1> QED BY <1>1, <1>2, InitPumping, Proved!DecodedInit, ReadAssumption,
       CharAssumption DEF RInv

LEMMA SomeOrder == SetToSeqs(Options) # {}
  <1>1. PICK n : n = Cardinality(Options)
    OBVIOUS
  <1>2. PICK order : order \in Bijection(1 .. n, Options)
    BY <1>1, OptionsAssumption, FS_CardinalityType DEF ExistsBijection
  <1>3. /\ order \in [1 .. n -> Options]
        /\ \A i, j \in 1 .. n : order[i] = order[j] => i = j
    BY <1>2 DEF Bijection, Injection, IsInjective
  <1> QED BY <1>1, <1>3 DEF SetToSeqs

(* What has been queued is the beginning of what is owed.                  *)
LEMMA QueuedIsOwed ==
  ASSUME RInv
  PROVE  \E owed \in Owed :
           /\ owed \in Seq(Sayable) /\ Len(queued) <= Len(owed)
           /\ \A i \in 1 .. Len(queued) : owed[i] = queued[i]
  <1>1. PICK order : order \in SetToSeqs(Options)
          /\ (pc # "new" =>
                queued \o OpeningBytes(todo)
                  = OpeningBytes(Opening(order)) \o Answers(Heard(framed)))
    BY SomeOrder DEF RInv, Replied
  <1>2. PICK opened : opened = OpeningBytes(Opening(order))
    OBVIOUS
  <1>3. opened \in Seq(Sayable)
    <2>1. Opening(order) \in Seq(Offered)
      BY <1>1, OpeningIsShort
    <2> QED BY <1>2, <2>1, OpeningBytesAreMapped
  <1>4. PICK owed : owed = opened \o Answers(Heard(received))
    OBVIOUS
  <1>5. owed \in Owed
    BY <1>1, <1>2, <1>4, Zenon DEF Owed
  <1>6. /\ queued \in Seq(Sayable) /\ received \in Seq(Sayable)
        /\ framed \in Seq(Sayable) /\ inbox \in Seq(Sayable)
        /\ received = framed \o inbox /\ Heard(framed) \in Seq(Seq(Sayable))
        /\ todo \in Seq(Offered) /\ OpeningBytes(todo) \in Seq(Sayable)
    BY ReplyTypes DEF RInv
  <1>7. Answers(Heard(received)) \in Seq(Sayable)
    BY <1>6, HeardByteStrings, AnswersAreMapped
  <1>8. owed \in Seq(Sayable)
    BY <1>3, <1>4, <1>7, ConcatProperties
  <1>9. CASE pc = "new"
    <2>1. queued = << >>
      BY <1>9 DEF RInv, PInv, Counted
    <2>2. Len(queued) = 0 /\ Len(owed) \in Nat
      BY <1>8, <2>1, EmptySeq, LenProperties
    <2> QED BY <1>5, <1>8, <2>2
  <1>10. CASE pc # "new"
    <2>1. PICK more : more \in Seq(Seq(Sayable))
            /\ Heard(received) = Heard(framed) \o more
      <3>1. Proved!HearsMore(framed, inbox)
        BY <1>6, SayableBytes, Proved!HeardGrows, ReadAssumption, CharAssumption
      <3>2. PICK said : said \in Proved!Said
              /\ Proved!Heard(framed \o inbox) = Proved!Heard(framed) \o said
        BY <3>1, Zenon DEF Proved!HearsMore
      <3>3. said \in Seq(Seq(Sayable))
        BY <3>2, SayableBytes DEF Proved!Said
      <3> QED BY <1>6, <3>2, <3>3, SameHeard, Zenon
    <2>2. PICK later : later = Answers(more)
      OBVIOUS
    <2>3. PICK before : before = Answers(Heard(framed))
      OBVIOUS
    <2>4. later \in Seq(Sayable) /\ before \in Seq(Sayable)
      BY <1>6, <2>1, <2>2, <2>3, AnswersAreMapped
    <2>5. Answers(Heard(received)) = before \o later
      <3>1. Answers(Heard(framed) \o more) = Answers(Heard(framed)) \o Answers(more)
        BY <1>6, <2>1, AnswersConcat
      <3> QED BY <2>1, <2>2, <2>3, <3>1, Zenon
    <2>6. PICK waiting : waiting = OpeningBytes(todo)
      OBVIOUS
    <2>7. queued \o waiting = opened \o before
      BY <1>1, <1>2, <1>10, <2>3, <2>6, Zenon
    <2>8. opened \o (before \o later) = (opened \o before) \o later
      BY <1>3, <2>4, ConcatAssociative
    <2>9. owed = (queued \o waiting) \o later
      BY <1>4, <2>5, <2>7, <2>8, Zenon
    <2>10. PICK q : q = queued
      OBVIOUS
    <2>11. PICK a : a = q \o waiting
      OBVIOUS
    <2>12. q \in Seq(Sayable) /\ waiting \in Seq(Sayable) /\ owed = a \o later
      BY <1>6, <2>6, <2>9, <2>10, <2>11
    <2>13. /\ a \in Seq(Sayable) /\ Len(a) = Len(q) + Len(waiting)
           /\ \A i \in 1 .. Len(q) + Len(waiting) :
                a[i] = IF i <= Len(q) THEN q[i] ELSE waiting[i - Len(q)]
      BY <2>11, <2>12, ConcatProperties
    <2>14. /\ Len(owed) = Len(a) + Len(later)
           /\ \A i \in 1 .. Len(a) + Len(later) :
                owed[i] = IF i <= Len(a) THEN a[i] ELSE later[i - Len(a)]
      BY <2>4, <2>12, <2>13, ConcatProperties
    <2>15. Len(q) \in Nat /\ Len(waiting) \in Nat /\ Len(later) \in Nat
      BY <2>4, <2>12, LenProperties
    <2>16. Len(q) <= Len(owed) /\ \A i \in 1 .. Len(q) : owed[i] = q[i]
      BY <2>13, <2>14, <2>15
    <2> QED BY <1>5, <1>8, <2>10, <2>16
  <1> QED BY <1>9, <1>10

(* On a compiler whose char is unsigned: through any interleaving of reads, *)
(* writes and the timer, the client is given what the options open with    *)
(* and then, in order, an answer to each of its offers that calls for one; *)
(* only storage that was moved under a write can spoil a byte.             *)
THEOREM AnswersAreInOrder ==
  ~CharIsSigned => (SpecConnection => []AnswersInOrder)
  <1> SUFFICES ASSUME ~CharIsSigned PROVE SpecConnection => []AnswersInOrder
    OBVIOUS
  <1>1. RInv => AnswersInOrder
    <2> SUFFICES ASSUME RInv PROVE AnswersInOrder
      OBVIOUS
    <2>1. PICK owed \in Owed :
            /\ owed \in Seq(Sayable) /\ Len(queued) <= Len(owed)
            /\ \A i \in 1 .. Len(queued) : owed[i] = queued[i]
      BY QueuedIsOwed
    <2>2. Pumped!Consistent(outbox, queued, wire)
      BY DEF RInv, PInv, Pumped!IInv
    <2>3. Len(wire) <= Len(queued) /\ Len(wire) \in Nat /\ Len(queued) \in Nat
      BY <2>2, Pumped!Lengths, PumpBound, CapacityAssumption
    <2>4. DOMAIN wire = 1 .. Len(wire) /\ Len(owed) \in Nat
      BY <2>1, <2>2, LenProperties DEF Pumped!Consistent
    <2>5. \A i \in 1 .. Len(wire) : wire[i] \in {queued[i], Garbage}
      BY <2>2 DEF Pumped!Consistent, Pumped!WireRight
    <2>6. Len(queued) <= Capacity => \A i \in 1 .. Len(wire) : wire[i] = queued[i]
      BY <2>2 DEF Pumped!Consistent, Pumped!StorageWithin
    <2>7. ASSUME NEW i \in DOMAIN wire
          PROVE  \/ wire[i] = owed[i]
                 \/ Len(queued) > Capacity /\ wire[i] = Garbage
      <3>1. i \in 1 .. Len(wire) /\ owed[i] = queued[i]
        BY <2>1, <2>3, <2>4
      <3> QED BY <2>3, <2>5, <2>6, <3>1, CapacityAssumption
    <2> QED BY <2>1, <2>3, <2>4, <2>7 DEF AnswersInOrder
  <1>2. RInv /\ [NextConnection]_vars => RInv'
    BY StepReplied
  <1> QED BY <1>1, <1>2, InitReplied, PTL DEF SpecConnection

=============================================================================
