---------------------------- MODULE TelnetReceive ---------------------------
(***************************************************************************)
(* The input side of a telnet connection: async reads fill the inbox,      *)
(* onReceive cuts it into telnet messages, onReceiveAppData cuts the text  *)
(* among them into commands.  The client's bytes arrive in pieces of any   *)
(* size; what they are decoded to should not depend on the pieces.         *)
(*                                                                         *)
(* The whole of onReceive runs in one completion handler.  A step below is *)
(* one iteration of one of its loops, so that a loop that never ends shows.*)
(*                                                                         *)
(* Bytes with a meaning here are named as in TelnetCode; any other byte    *)
(* stands for itself, and every byte can be an option code or text.        *)
(***************************************************************************)
EXTENDS Naturals, Sequences, FiniteSets, SequencesExt, FiniteSetsExt

CONSTANTS ClientByte,    \* the bytes the client may send
          CharIsSigned,  \* the compiler's choice for plain char
          MaxRead,       \* bytes one read may return (1024 in the code)
          MaxBytes       \* bound: bytes the client sends in all

ASSUME ReadAssumption == MaxRead \in Nat \ {0} /\ MaxBytes \in Nat
ASSUME CharAssumption == CharIsSigned \in BOOLEAN

VARIABLES pc,        \* the function the io_context's thread is in
          reading,   \* an async_read_some is outstanding
          inbox,     \* the readable bytes of the streambuf
          cmdbuff,   \* text that has not been ended by an LF yet
          received,  \* history: the bytes read from the socket
          framed,    \* history: the encodings of the messages so far
          messages,  \* history: the messages, in order
          commands   \* history: the commands cut out of cmdbuff, in order

bufferVars  == <<inbox, cmdbuff>>
historyVars == <<received, framed, messages, commands>>
receiveVars == <<pc, reading, bufferVars, historyVars>>

Offer      == {"WILL", "WONT", "DO", "DONT"}
Whitespace == {"LF", "CR", "SP"}

(* Mutated form of Negotiation: the two codes are swapped.                 *)
NegotiationSwapped(command, option) ==
  [type |-> "Negotiation", command |-> option, option |-> command]

AppData(bytes)               == [type |-> "AppData", data |-> bytes]
Command(code)                == [type |-> "Command", code |-> code]
Negotiation(command, option) ==
  [type |-> "Negotiation", command |-> command, option |-> option]

Message ==
       [type : {"AppData"}, data : Seq(ClientByte)]
  \cup [type : {"Command"}, code : ClientByte]
  \cup [type : {"Negotiation"}, command : Offer, option : ClientByte]

TypeOK ==
  /\ pc \in {"reactor", "onReceive", "onReceiveAppData", "seek", "aborted"}
  /\ reading \in BOOLEAN
  /\ inbox \in Seq(ClientByte)
  /\ cmdbuff \in Seq(ClientByte)
  /\ received \in Seq(ClientByte)
  /\ framed \in Seq(ClientByte)
  /\ messages \in Seq(Message)
  /\ commands \in Seq(Seq(ClientByte))

(* start() has called receive() for the first time.                        *)
Init ==
  /\ pc = "reactor"
  /\ reading = TRUE
  /\ inbox = << >> /\ cmdbuff = << >>
  /\ received = << >> /\ framed = << >>
  /\ messages = << >> /\ commands = << >>

-----------------------------------------------------------------------------
(* The bytes left when the first n are consumed.                           *)
Rest(bytes, n) == SubSeq(bytes, n + 1, Len(bytes))

(* The bytes a client encodes a message with.                              *)
Encoding(m) ==
  CASE m.type = "AppData"     -> IF m.data = <<"IAC">> THEN <<"IAC", "IAC">>
                                                       ELSE m.data
    [] m.type = "Command"     -> <<"IAC", m.code>>
    [] m.type = "Negotiation" -> <<"IAC", m.command, m.option>>

(* The bytes that must have arrived before a message that begins with IAC  *)
(* and this code is looked at.                                             *)
Needed(code) ==
  CASE code \in Offer -> 3
    [] code = "SB"    -> 5
    [] OTHER          -> 2

(* onReceive returns and leaves these bytes for the next read: the message *)
(* they begin has not arrived in full.                                     *)
Incomplete(bytes) ==
  /\ bytes[1] = "IAC"
  /\ Len(bytes) > 1 => Len(bytes) < Needed(bytes[2])

(* Mutated form of TextLength: the text includes the IAC that ends it.     *)
TextLengthPast(bytes) ==
  LET IACs == {i \in DOMAIN bytes : bytes[i] = "IAC"}
  IN  IF CharIsSigned \/ IACs = {} THEN Len(bytes) ELSE Min(IACs)

(* std::find compares a char with the number 255.  A signed char is never  *)
(* equal to it, and find returns the end of the inbox.                     *)
TextLength(bytes) ==
  LET IACs == {i \in DOMAIN bytes : bytes[i] = "IAC"}
  IN  IF CharIsSigned \/ IACs = {} THEN Len(bytes) ELSE Min(IACs) - 1

(* boost::algorithm::trim.                                                 *)
Trim(bytes) ==
  LET kept == {i \in DOMAIN bytes : bytes[i] \notin Whitespace}
  IN  IF kept = {} THEN << >> ELSE SubSeq(bytes, Min(kept), Max(kept))

-----------------------------------------------------------------------------
(* A read completes with a chunk of the client's bytes.                    *)
ReadCompletes(chunk) ==
  /\ pc = "reactor" /\ reading
  /\ Len(received) + Len(chunk) <= MaxBytes
  /\ inbox' = inbox \o chunk
  /\ received' = received \o chunk
  /\ pc' = "onReceive"
  /\ reading' = FALSE
  /\ UNCHANGED <<cmdbuff, framed, messages, commands>>

(* A read fails: the handler prints a line and reads no more.              *)
ReadFails ==
  /\ pc = "reactor" /\ reading
  /\ reading' = FALSE
  /\ UNCHANGED <<pc, bufferVars, historyVars>>

(* onReceive returns and the handler calls receive() again.                *)
Receive ==
  /\ pc = "onReceive"
  /\ inbox # << >> => Incomplete(inbox)
  /\ pc' = "reactor"
  /\ reading' = TRUE
  /\ UNCHANGED <<bufferVars, historyVars>>

(* Mutated form of Emit: forgets to consume the last byte of a message     *)
(* that is not text.                                                       *)
EmitShort(m, n) ==
  /\ messages' = Append(messages, m)
  /\ framed' = framed \o Encoding(m)
  /\ inbox' = Rest(inbox, IF m.type = "AppData" THEN n ELSE n - 1)

(* A message is handed to onReceiveMessage and n bytes are consumed.       *)
Emit(m, n) ==
  /\ messages' = Append(messages, m)
  /\ framed' = framed \o Encoding(m)
  /\ inbox' = Rest(inbox, n)

(* onReceiveAppData begins: the text is appended to cmdbuff.               *)
EmitText(bytes, n) ==
  /\ Emit(AppData(bytes), n)
  /\ cmdbuff' = cmdbuff \o bytes
  /\ pc' = "onReceiveAppData"
  /\ UNCHANGED <<reading, received, commands>>

Decoding == pc = "onReceive" /\ inbox # << >> /\ ~Incomplete(inbox)

TakeEscape ==
  /\ Decoding
  /\ inbox[1] = "IAC" /\ inbox[2] = "IAC"
  /\ EmitText(<<"IAC">>, 2)

TakeText ==
  /\ Decoding
  /\ inbox[1] # "IAC"
  /\ LET n == TextLength(inbox) IN EmitText(SubSeq(inbox, 1, n), n)

TakeNegotiation ==
  /\ Decoding
  /\ inbox[1] = "IAC" /\ inbox[2] \in Offer
  /\ Emit(Negotiation(inbox[2], inbox[3]), 3)
  /\ UNCHANGED <<pc, reading, cmdbuff, received, commands>>

TakeCommand ==
  /\ Decoding
  /\ inbox[1] = "IAC" /\ inbox[2] \notin Offer \cup {"SB", "IAC"}
  /\ Emit(Command(inbox[2]), 2)
  /\ UNCHANGED <<pc, reading, cmdbuff, received, commands>>

(* A subnegotiation: the loop that is to seek its end looks at the byte    *)
(* after the option code and never moves on, so it does not end.  If that  *)
(* byte is SB the iterator is decremented once, the data to copy has       *)
(* length -1, and the exception of the string constructor, which nobody    *)
(* catches, ends the program.                                              *)
SeekSubnegotiationEnd ==
  /\ Decoding
  /\ inbox[1] = "IAC" /\ inbox[2] = "SB"
  /\ pc' = IF inbox[4] = "SB" THEN "aborted" ELSE "seek"
  /\ UNCHANGED <<reading, bufferVars, historyVars>>

(* Mutated form of CutCommand: drops what follows the line in cmdbuff.     *)
CutCommandOnly ==
  /\ pc = "onReceiveAppData"
  /\ \E n \in DOMAIN cmdbuff :
       /\ cmdbuff[n] = "LF"
       /\ \A i \in 1 .. n - 1 : cmdbuff[i] # "LF"
       /\ commands' = Append(commands, Trim(SubSeq(cmdbuff, 1, n)))
       /\ cmdbuff' = << >>
  /\ UNCHANGED <<pc, reading, inbox, received, framed, messages>>

(* One turn of the loop of onReceiveAppData: the first line becomes a      *)
(* command.                                                                *)
CutCommand ==
  /\ pc = "onReceiveAppData"
  /\ \E n \in DOMAIN cmdbuff :
       /\ cmdbuff[n] = "LF"
       /\ \A i \in 1 .. n - 1 : cmdbuff[i] # "LF"
       /\ commands' = Append(commands, Trim(SubSeq(cmdbuff, 1, n)))
       /\ cmdbuff' = Rest(cmdbuff, n)
  /\ UNCHANGED <<pc, reading, inbox, received, framed, messages>>

(* Mutated form of NoMoreCommands: the loop is not left while cmdbuff holds *)
(* the beginning of a line.                                                *)
NoMoreCommandsEmpty ==
  /\ pc = "onReceiveAppData"
  /\ cmdbuff = << >>
  /\ pc' = "onReceive"
  /\ UNCHANGED <<reading, bufferVars, historyVars>>

NoMoreCommands ==
  /\ pc = "onReceiveAppData"
  /\ \A i \in DOMAIN cmdbuff : cmdbuff[i] # "LF"
  /\ pc' = "onReceive"
  /\ UNCHANGED <<reading, bufferVars, historyVars>>

(* What the handler does once a read has completed.                        *)
HandlerStep ==
  \/ TakeEscape \/ TakeText \/ TakeNegotiation \/ TakeCommand
  \/ SeekSubnegotiationEnd
  \/ CutCommand \/ NoMoreCommands
  \/ Receive

(* What the socket does; the client need not send anything.                *)
SocketStep ==
  \/ \E n \in 1 .. MaxRead : \E chunk \in [1 .. n -> ClientByte] : ReadCompletes(chunk)
  \/ ReadFails

Next == HandlerStep \/ SocketStep

Spec == Init /\ [][Next]_receiveVars

(* A handler that has begun is run on: nothing preempts it.                *)
FairSpec == Spec /\ WF_receiveVars(HandlerStep)

-----------------------------------------------------------------------------
(* Telnet as RFC 854 has it, one byte at a time: what a stream of bytes    *)
(* says, however it was cut into reads.  What lies between IAC SB and IAC  *)
(* SE is no text and nothing here says it.                                 *)

Hear(state, byte) ==
  CASE state.mode = "text" /\ byte = "IAC" ->
         [state EXCEPT !.mode = "IAC"]
    [] state.mode = "text" /\ byte # "IAC" ->
         [state EXCEPT !.heard = Append(@, <<byte>>)]
    [] state.mode = "IAC" /\ byte = "IAC" ->
         [mode |-> "text", heard |-> Append(state.heard, <<"IAC">>)]
    [] state.mode = "IAC" /\ byte \in Offer ->
         [state EXCEPT !.mode = byte]
    [] state.mode = "IAC" /\ byte = "SB" ->
         [state EXCEPT !.mode = "SB"]
    [] state.mode = "SB" ->
         [state EXCEPT !.mode = IF byte = "IAC" THEN "SB IAC" ELSE "SB"]
    [] state.mode = "SB IAC" ->
         [state EXCEPT !.mode = IF byte = "SE" THEN "text" ELSE "SB"]
    [] state.mode = "IAC" /\ byte \notin Offer \cup {"IAC", "SB"} ->
         [mode |-> "text", heard |-> Append(state.heard, <<"IAC", byte>>)]
    [] state.mode \in Offer ->
         [mode |-> "text",
          heard |-> Append(state.heard, <<"IAC", state.mode, byte>>)]

Hearing(bytes) ==
  LET state[n \in 0 .. Len(bytes)] ==
        IF n = 0 THEN [mode |-> "text", heard |-> << >>]
                 ELSE Hear(state[n - 1], bytes[n])
  IN  state[Len(bytes)]

Heard(bytes) == Hearing(bytes).heard

(* The same events, as the messages of this program say them.              *)
Events(m) ==
  IF m.type = "AppData" THEN [i \in DOMAIN m.data |-> <<m.data[i]>>]
                        ELSE <<Encoding(m)>>

(* All text so far, and its lines.                                         *)
Text ==
  FlattenSeq([i \in DOMAIN messages |->
                IF messages[i].type = "AppData" THEN messages[i].data
                                                ELSE << >>])

(* A text cut into lines one byte at a time: those that an LF has ended,   *)
(* with it, and the one that is still open.                                *)
Cut(state, byte) ==
  IF byte = "LF"
  THEN [ended |-> Append(state.ended, Append(state.open, byte)), open |-> << >>]
  ELSE [state EXCEPT !.open = Append(@, byte)]

Cuts(text) ==
  LET state[n \in 0 .. Len(text)] ==
        IF n = 0 THEN [ended |-> << >>, open |-> << >>]
                 ELSE Cut(state[n - 1], text[n])
  IN  state[Len(text)]

Lines(text)    == Cuts(text).ended
LastLine(text) == Cuts(text).open

-----------------------------------------------------------------------------
(* Every byte read is part of exactly one message or still in the inbox,   *)
(* in order: what onReceive consumes is what it has decoded.               *)
NothingLost == framed \o inbox = received

(* However the stream was cut into reads, once the handler has returned    *)
(* the program has decoded exactly what telnet says the bytes mean.        *)
DecodedAsTelnet ==
  pc = "reactor" =>
    FlattenSeq([i \in DOMAIN messages |-> Events(messages[i])])
      = Heard(received)

(* "Scan ahead until we reach one... Send all data up to an IAC, or        *)
(* everything if there is no IAC, as data": text never holds the IAC of a  *)
(* message that follows it.                                                *)
DataStopsAtIAC ==
  \A i \in DOMAIN messages :
    LET m == messages[i]
    IN  m.type = "AppData" /\ m.data # <<"IAC">> =>
          \A j \in DOMAIN m.data : m.data[j] # "IAC"

(* The commands are the lines of the text, trimmed, none lost or split at  *)
(* the borders of messages and reads; what follows the last LF waits.      *)
CommandsAreLines ==
  pc \in {"reactor", "onReceive"} =>
    /\ commands = [k \in DOMAIN Lines(Text) |-> Trim(Lines(Text)[k])]
    /\ cmdbuff = LastLine(Text)

(* onReceive always returns, so that the io_context gets its thread back   *)
(* and the next read is started.                                           *)
HandlerReturns == pc # "reactor" ~> pc = "reactor" /\ reading

(* Nothing but a subnegotiation of five bytes or more ever keeps the       *)
(* thread: every other input, however odd, is dealt with.                  *)
OnlySubnegotiationKeepsThread ==
  pc # "reactor" ~>
    \/ pc = "reactor"
    \/ Len(inbox) >= 5 /\ inbox[1] = "IAC" /\ inbox[2] = "SB"

=============================================================================
