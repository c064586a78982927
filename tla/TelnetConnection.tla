-------------------------- MODULE TelnetConnection --------------------------
(***************************************************************************)
(* One telnet connection from start() on: the receiver, the write pump,    *)
(* the options the server offers, the timer that declares the connection   *)
(* ready, and the program's callbacks.  Everything below runs on the one   *)
(* thread of the io_context, so the completion handlers of reads, writes   *)
(* and the timer exclude one another; what the socket takes does not.      *)
(*                                                                         *)
(* The portal registers no option (Options = {}).  start() and             *)
(* onReceiveNegotiation handle registered ones all the same, and so does   *)
(* this module.                                                            *)
(***************************************************************************)
EXTENDS TelnetReceive, Outbox

CONSTANTS Scripts,     \* what a client may send, one sequence of bytes each
          Options,     \* the options that registerOption was called for
          StartWill,   \* those whose startWill() returns true
          StartDo,     \* those whose startDo() returns true
          Garbage      \* a byte read from storage that was moved or freed

ASSUME OptionsAssumption ==
  /\ Scripts \subseteq Seq(ClientByte)
  /\ IsFiniteSet(Options) /\ Options \subseteq ClientByte
  /\ StartWill \subseteq Options /\ StartDo \subseteq Options

ASSUME GarbageAssumption == Garbage \notin ClientByte \cup Offer \cup {"IAC"}

VARIABLES script,       \* the client's bytes, sent or not
          todo,         \* start(): negotiations it has yet to begin
          timer,        \* "unset", "pending" or "fired"
          started,      \* finishReady has run
          onCommandCB,  \* the program has set its command callback
          delivered,    \* the commands the callback was called with
          negotiating,  \* [local, remote]: options with that flag set
          outbox, queued, wire

startVars   == <<script, todo, timer, started, onCommandCB>>
outputVars  == <<negotiating, outbox, queued, wire>>
vars == <<receiveVars, startVars, delivered, outputVars>>

TypeOKConnection ==
  /\ pc \in {"new", "start", "reactor", "onReceive", "onReceiveAppData",
             "seek", "aborted"}
  /\ script \in Scripts
  /\ IsPrefix(received, script)
  /\ todo \in Seq({"WILL", "DO"} \X Options)
  /\ timer \in {"unset", "pending", "fired"}
  /\ started \in BOOLEAN /\ onCommandCB \in BOOLEAN
  /\ delivered \in Seq(Seq(ClientByte))
  /\ negotiating \in [local : SUBSET Options, remote : SUBSET Options]
  /\ outbox.isWriting \in BOOLEAN
  /\ outbox.gap \in Nat /\ outbox.room \in Nat

(* The connection has been accepted; onPlainConnect has not been called.   *)
InitConnection ==
  /\ pc = "new" /\ reading = FALSE
  /\ inbox = << >> /\ cmdbuff = << >>
  /\ received = << >> /\ framed = << >>
  /\ messages = << >> /\ commands = << >>
  /\ script \in Scripts
  /\ todo = << >> /\ timer = "unset"
  /\ started = FALSE /\ onCommandCB = FALSE /\ delivered = << >>
  /\ negotiating = [local |-> {}, remote |-> {}]
  /\ outbox = NewOutbox /\ queued = << >> /\ wire = << >>

-----------------------------------------------------------------------------
(* sendNegotiate, and the option's negotiate, which marks the negotiation. *)

(* Mutated form of Say: queues the bytes and leaves them to the next send. *)
SayLater(command, option) ==
  /\ outbox' = Commit(Prepare(outbox, 3), <<"IAC", command, option>>)
  /\ queued' = queued \o <<"IAC", command, option>>
  /\ UNCHANGED wire

Say(command, option) ==
  /\ outbox' = SendNegotiate(outbox, command, option)
  /\ queued' = queued \o <<"IAC", command, option>>
  /\ UNCHANGED wire

SayNothing == UNCHANGED <<outbox, queued, wire>>

Negotiate(command, option) ==
  IF command \in {"WILL", "DO"}
  THEN /\ Say(command, option)
       /\ negotiating' = IF command = "DO"
                         THEN [negotiating EXCEPT !.remote = @ \cup {option}]
                         ELSE [negotiating EXCEPT !.local = @ \cup {option}]
  ELSE SayNothing /\ UNCHANGED negotiating

(* What onConnect of these options negotiates, taken in this order.        *)
Opening(order) ==
  FlattenSeq([i \in DOMAIN order |->
     (IF order[i] \in StartWill THEN <<<<"WILL", order[i]>>>> ELSE << >>)
       \o (IF order[i] \in StartDo THEN <<<<"DO", order[i]>>>> ELSE << >>)])

(* start() sends what is in the outbox, which is nothing yet, starts the   *)
(* first read and walks over the options in the order of their hash table. *)
Start ==
  /\ pc = "new"
  /\ outbox' = Send(outbox)
  /\ reading' = TRUE
  /\ \E order \in SetToSeqs(Options) : todo' = Opening(order)
  /\ pc' = "start"
  /\ UNCHANGED <<bufferVars, historyVars, script, timer, started,
                 onCommandCB, delivered, negotiating, queued, wire>>

StartOption ==
  /\ pc = "start" /\ todo # << >>
  /\ Negotiate(Head(todo)[1], Head(todo)[2])
  /\ todo' = Tail(todo)
  /\ UNCHANGED <<receiveVars, script, timer, started, onCommandCB, delivered>>

StartTimer ==
  /\ pc = "start" /\ todo = << >>
  /\ timer' = "pending"
  /\ pc' = "reactor"
  /\ UNCHANGED <<reading, bufferVars, historyVars, script, todo, started,
                 onCommandCB, delivered, outputVars>>

(* finishReady; onReady then calls the program, which sets onCommandCB.    *)
FinishReady ==
  IF started THEN UNCHANGED <<started, onCommandCB>>
             ELSE started' = TRUE /\ onCommandCB' = TRUE

(* Mutated form of TimerFires: not for a client that has gone.             *)
TimerFiresWhileReading ==
  /\ pc = "reactor" /\ timer = "pending" /\ reading
  /\ timer' = "fired"
  /\ FinishReady
  /\ UNCHANGED <<receiveVars, script, todo, delivered, outputVars>>

(* 500 ms have passed.                                                     *)
TimerFires ==
  /\ pc = "reactor" /\ timer = "pending"
  /\ timer' = "fired"
  /\ FinishReady
  /\ UNCHANGED <<receiveVars, script, todo, delivered, outputVars>>

-----------------------------------------------------------------------------
(* The receiver, with what its messages and commands make the connection   *)
(* do.                                                                     *)

(* The next bytes of the script arrive.                                    *)
ReadSome ==
  /\ \E n \in 1 .. MaxRead :
       /\ Len(received) + n <= Len(script)
       /\ ReadCompletes(SubSeq(script, Len(received) + 1, Len(received) + n))
  /\ UNCHANGED <<startVars, delivered, outputVars>>

ReadEnds == ReadFails /\ UNCHANGED <<startVars, delivered, outputVars>>

(* Mutated form of OnReceiveNegotiation: says WONT to WILL, DONT to DO.    *)
OnReceiveNegotiationCrossed(command, option) ==
  IF option \in Options
  THEN Negotiate(command, option)
  ELSE /\ CASE command = "WILL" -> Say("WONT", option)
            [] command = "DO"   -> Say("DONT", option)
            [] OTHER            -> SayNothing
       /\ UNCHANGED negotiating

(* Mutated form of OnReceiveNegotiation: does not ask whether the option is *)
(* registered.                                                             *)
OnReceiveNegotiationAny(command, option) == Negotiate(command, option)

(* A registered option echoes what it is offered; any other is refused.    *)
OnReceiveNegotiation(command, option) ==
  IF option \in Options
  THEN Negotiate(command, option)
  ELSE /\ CASE command = "WILL" -> Say("DONT", option)
            [] command = "DO"   -> Say("WONT", option)
            [] OTHER            -> SayNothing
       /\ UNCHANGED negotiating

ReceiveNegotiation ==
  /\ TakeNegotiation
  /\ OnReceiveNegotiation(inbox[2], inbox[3])
  /\ UNCHANGED <<startVars, delivered>>

(* Mutated form of ReceiveCommandLine: the callback is given the command   *)
(* and unset.                                                              *)
ReceiveCommandLineOnce ==
  /\ CutCommand
  /\ delivered' = IF onCommandCB THEN Append(delivered, Last(commands'))
                                 ELSE delivered
  /\ onCommandCB' = FALSE
  /\ UNCHANGED <<script, todo, timer, started, outputVars>>

ReceiveCommandLine ==
  /\ CutCommand
  /\ delivered' = IF onCommandCB THEN Append(delivered, Last(commands'))
                                 ELSE delivered
  /\ UNCHANGED <<startVars, outputVars>>

ReceiveOther ==
  /\ \/ TakeEscape \/ TakeText \/ TakeCommand \/ SeekSubnegotiationEnd
     \/ NoMoreCommands \/ Receive
  /\ UNCHANGED <<startVars, delivered, outputVars>>

-----------------------------------------------------------------------------
(* The write pump.                                                         *)

Transmit(w, k) ==
  /\ pc \notin {"seek", "aborted"}
  /\ w.sent = 0
  /\ k \in 1 .. Len(w.bytes)
  /\ \/ wire' = wire \o SubSeq(w.bytes, 1, k)
     \/ w.moved /\ wire' = wire \o [i \in 1 .. k |-> Garbage]
  /\ outbox' = Taken(outbox, w, k)
  /\ UNCHANGED <<receiveVars, startVars, delivered, negotiating, queued>>

(* Mutated form of WriteEnds: its handler calls receive() as well.         *)
WriteEndsReceiving(w) ==
  /\ pc = "reactor"
  /\ outbox' = WriteDone(outbox, w, w.sent)
  /\ reading' = TRUE
  /\ UNCHANGED <<pc, bufferVars, historyVars, startVars, delivered,
                 negotiating, queued, wire>>

WriteEnds(w) ==
  /\ pc = "reactor"
  /\ outbox' = WriteDone(outbox, w, w.sent)
  /\ UNCHANGED <<receiveVars, startVars, delivered, negotiating, queued, wire>>

StartStep == Start \/ StartOption \/ StartTimer

ReceiveStep == ReceiveNegotiation \/ ReceiveCommandLine \/ ReceiveOther

WriteStep ==
  \E w \in outbox.writes :
    \/ \E k \in 1 .. Len(w.bytes) : Transmit(w, k)
    \/ WriteEnds(w)

NextConnection ==
  \/ StartStep \/ TimerFires
  \/ ReadSome \/ ReadEnds \/ ReceiveStep
  \/ WriteStep

SpecConnection == InitConnection /\ [][NextConnection]_vars

(* A handler that has begun is run on, and the timer expires: nothing is   *)
(* assumed of the client or of the socket.                                 *)
FairSpecConnection ==
  /\ SpecConnection
  /\ WF_vars(StartStep) /\ WF_vars(ReceiveStep) /\ WF_vars(TimerFires)

-----------------------------------------------------------------------------
(* Once the program has its callback it misses no command and is told none *)
(* twice, through any interleaving of reads with the timer: what it got is *)
(* the end of what came.                                                   *)
DeliveredInOrder ==
  /\ IsSuffix(delivered, commands)
  /\ delivered # << >> => started

(* "fire callback to alert program that this command arrived."             *)
EveryCommandDelivered == pc = "reactor" => delivered = commands

(* What the client hears, as telnet reads its bytes, is what the options   *)
(* opened with, then the answers it is owed for its own offers, in order   *)
(* and up to some point; only moved storage can spoil a byte.              *)
Answer(event) ==
  IF Len(event) # 3 THEN << >>
  ELSE CASE event[2] \in {"WILL", "DO"} /\ event[3] \in Options -> event
         [] event[2] = "WILL" /\ event[3] \notin Options ->
              <<"IAC", "DONT", event[3]>>
         [] event[2] = "DO" /\ event[3] \notin Options ->
              <<"IAC", "WONT", event[3]>>
         [] OTHER -> << >>

Answers(events)      == FlattenSeq([i \in DOMAIN events |-> Answer(events[i])])
OpeningBytes(offers) == FlattenSeq([i \in DOMAIN offers |-> <<"IAC">> \o offers[i]])

Owed ==
  {OpeningBytes(Opening(order)) \o Answers(Heard(received)) :
     order \in SetToSeqs(Options)}

AnswersInOrder ==
  \E owed \in Owed :
    /\ Len(wire) <= Len(owed)
    /\ \A i \in DOMAIN wire :
         \/ wire[i] = owed[i]
         \/ Len(queued) > Capacity /\ wire[i] = Garbage

(* The program is handed the connection as Readiness promises, whether the *)
(* client never answers, hangs up or stops in the middle of a message;     *)
(* only a client whose subnegotiation keeps the thread is not handed over. *)
Phase ==
  CASE pc \in {"seek", "aborted"} -> "lost"
    [] pc \notin {"seek", "aborted"} /\ started -> "ready"
    [] pc \notin {"new", "seek", "aborted"} /\ ~started -> "waiting"
    [] pc = "new" /\ ~started -> "new"

Promised ==
  INSTANCE Readiness
    WITH Connections <- {1},
         phase <- [c \in {1} |-> Phase],
         told <- [c \in {1} |-> IF onCommandCB THEN 1 ELSE 0]

ImplementsReadiness == Promised!Spec

(* The connection behaves as its two halves do by themselves.  Until       *)
(* start() has returned, the receiver is waiting for its first read.       *)
Receiver ==
  INSTANCE TelnetReceive
    WITH pc <- IF pc \in {"new", "start"} THEN "reactor" ELSE pc,
         reading <- reading \/ pc = "new"

ReceivesAsSpecified == Receiver!Spec

Pump ==
  INSTANCE WritePump
    WITH Commands <- Offer,
         Options <- ClientByte,
         MaxBytes <- 3 * (MaxBytes + 2 * Cardinality(Options))

WritesAsSpecified == Pump!Spec

=============================================================================
